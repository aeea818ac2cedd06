------------------------------ MODULE StoresProofs ------------------------------
(***************************************************************************)
(* Theorems about what is kept beyond a frame and thrown away in time.       *)
(*                                                                           *)
(* RDSWorkers: two goroutines never work on the state of one decoder, and a  *)
(* signal has one state, for any signals, any number of slots and any        *)
(* intervals.  Quota: the oldest complete recordings go, and no more of them *)
(* than must, for any quota and any sizes.  IQRing: the ring holds the last  *)
(* samples captured, as many as it may, in order and each once, and a slice   *)
(* has the samples of its window, for any ring, block, capture and rate.      *)
(***************************************************************************)
EXTENDS RDSWorkers, Integers, SequencesExt, SequenceTheorems, FiniteSetTheorems,
        WellFoundedInduction, TLAPS

CONSTANTS MaxDiskMB, Sizes, MaxDir, MaxSize
VARIABLES dirs, writing, next, locks

Disk == INSTANCE Quota

CONSTANTS TicksPer, FreeMax, Maxes, Chunk, MaxIngest, MaxSample, MaxReset
VARIABLES ring, mem, last, from, resets

IQ == INSTANCE IQRing

(* The types that the argument needs.                                        *)
Typed ==
  /\ rdsMap \subseteq Slots
  /\ of \in [Slots -> Ids]
  /\ busy \in [Slots -> BOOLEAN] /\ workers \in [Slots -> {0, 1}]
  /\ todo \subseteq Ids

(* The flag says whether a goroutine is at work: it is set with the start of *)
(* the one and cleared at its end, and nothing is started while it is set.   *)
FlagTells == \A s \in Slots : workers[s] = 1 <=> busy[s]

(* A signal has one state in the map.                                        *)
OneState == \A r, s \in rdsMap : of[r] = of[s] => r = s

WorkersInv == Typed /\ FlagTells /\ OneState

(* What updateRDS takes a signal's state to be: the one in the map, or one that *)
(* is in nobody's hands when there is none.                                  *)
LEMMA SlotTaken ==
  ASSUME NEW i \in Ids, NEW s \in SlotFor(i), WorkersInv
  PROVE  /\ s \in Slots
         /\ s \in rdsMap => of[s] = i
         /\ s \notin rdsMap => workers[s] = 0 /\ \A r \in rdsMap : of[r] # i
<1> DEFINE mine == {r \in rdsMap : of[r] = i}
           free == {r \in Slots \ rdsMap : workers[r] = 0}
<1>1. CASE mine # {}
  <2>1. s \in mine
    BY <1>1 DEF SlotFor
  <2> QED
    BY <2>1 DEF WorkersInv, Typed
<1>2. CASE mine = {}
  <2>1. free # {} /\ s \in {CHOOSE r \in free : TRUE}
    BY <1>2 DEF SlotFor
  <2>2. s \in free
    BY <2>1
  <2> QED
    BY <2>2, <1>2
<1> QED
  BY <1>1, <1>2

(* updateRDS starts a goroutine on a state that has none, and gives a signal a *)
(* second state never.                                                       *)
LEMMA UpdateRDSStep ==
  ASSUME WorkersInv, NEW i \in Ids, UpdateRDS(i)
  PROVE  WorkersInv'
<1>1. PICK s \in SlotFor(i) :
        LET new    == s \notin rdsMap
            starts == MayDecode(s, new)
        IN  /\ of' = [of EXCEPT ![s] = i]
            /\ rdsMap' = {r \in rdsMap : r = s \/ ~Stale(r)} \cup {s}
            /\ busy' = IF starts THEN [busy EXCEPT ![s] = TRUE] ELSE busy
            /\ workers' = IF starts THEN [workers EXCEPT ![s] = @ + 1] ELSE workers
  BY DEF UpdateRDS
<1>2. /\ s \in Slots
      /\ s \in rdsMap => of[s] = i
      /\ s \notin rdsMap => workers[s] = 0 /\ \A r \in rdsMap : of[r] # i
  BY SlotTaken
<1>3. MayDecode(s, s \notin rdsMap) => ~busy[s] /\ workers[s] = 0
  BY <1>2 DEF MayDecode, WorkersInv, Typed, FlagTells
<1>4. Typed' /\ FlagTells'
  <2>1. CASE MayDecode(s, s \notin rdsMap)
    <3>1. busy' = [busy EXCEPT ![s] = TRUE] /\ workers' = [workers EXCEPT ![s] = workers[s] + 1]
      BY <1>1, <2>1
    <3>2. workers[s] + 1 = 1
      <4>1. workers[s] = 0
        BY <1>3, <2>1
      <4> QED
        BY <4>1
    <3>3. workers' = [workers EXCEPT ![s] = 1]
      BY <3>1, <3>2
    <3>4. todo' \subseteq Ids
      BY DEF UpdateRDS, WorkersInv, Typed
    <3> QED
      BY <1>1, <1>2, <3>1, <3>3, <3>4 DEF WorkersInv, Typed, FlagTells
  <2>2. CASE ~MayDecode(s, s \notin rdsMap)
    <3>1. busy' = busy /\ workers' = workers
      BY <1>1, <2>2
    <3>2. todo' \subseteq Ids
      BY DEF UpdateRDS, WorkersInv, Typed
    <3> QED
      BY <1>1, <1>2, <3>1, <3>2 DEF WorkersInv, Typed, FlagTells
  <2> QED
    BY <2>1, <2>2
<1>5. OneState'
  <2> SUFFICES ASSUME NEW r \in rdsMap', NEW q \in rdsMap', of'[r] = of'[q]
               PROVE  r = q
    BY DEF OneState
  <2>1. (r = s \/ r \in rdsMap) /\ (q = s \/ q \in rdsMap)
    BY <1>1
  <2>2. \A p \in Slots : of'[p] = IF p = s THEN i ELSE of[p]
    BY <1>1, <1>2 DEF WorkersInv, Typed
  <2> QED
    BY <1>2, <2>1, <2>2 DEF WorkersInv, Typed, OneState
<1> QED
  BY <1>4, <1>5 DEF WorkersInv

(* Every step of the DSP loop and of the decoders keeps the invariant.       *)
LEMMA WorkersNext == WorkersInv /\ [Next]_vars => WorkersInv'
<1> SUFFICES ASSUME WorkersInv, [Next]_vars PROVE WorkersInv'
  OBVIOUS
<1>1. CASE BeginFrame
  BY <1>1 DEF BeginFrame, WorkersInv, Typed, FlagTells, OneState
<1>2. ASSUME NEW i \in Ids, UpdateRDS(i) PROVE WorkersInv'
  BY <1>2, UpdateRDSStep
<1>3. CASE Maintenance
  BY <1>3 DEF Maintenance, states, WorkersInv, Typed, FlagTells, OneState
<1>4. ASSUME NEW s \in Slots, Decode(s) \/ GiveUp(s) PROVE WorkersInv'
  <2>1. workers[s] = 1
    BY <1>4 DEF Decode, GiveUp, WorkersInv, Typed
  <2>2. /\ workers' = [workers EXCEPT ![s] = 0] /\ busy' = [busy EXCEPT ![s] = FALSE]
        /\ rdsMap' = rdsMap /\ of' = of /\ todo' = todo
    BY <1>4, <2>1 DEF Decode, GiveUp, frame, WorkersInv, Typed
  <2> QED
    BY <2>2 DEF WorkersInv, Typed, FlagTells, OneState
<1>5. CASE UNCHANGED vars
  BY <1>5 DEF vars, states, frame, WorkersInv, Typed, FlagTells, OneState
<1> QED
  BY <1>1, <1>2, <1>3, <1>4, <1>5 DEF Next, DSP

(* No two goroutines work on the state of a decoder, whatever is pruned and  *)
(* taken up again, and a signal has one state (updateRDS, maintenance).      *)
THEOREM OneWorkerEach == Spec => []OneWorker
<1>1. Init => WorkersInv
  <2> SUFFICES ASSUME Init PROVE WorkersInv
    OBVIOUS
  <2>1. of \in [Slots -> Ids]
    BY RDSWorkersAssumption DEF Init
  <2> QED
    BY <2>1 DEF Init, WorkersInv, Typed, FlagTells, OneState
<1>2. WorkersInv => OneWorker
  BY DEF WorkersInv, Typed, FlagTells, OneState, OneWorker
<1> QED
  BY <1>1, <1>2, WorkersNext, PTL DEF Spec
-----------------------------------------------------------------------------
(* Induction, for what follows.                                              *)

(* A set of naturals has a least element: the way to induction.              *)
LEMMA Least ==
  ASSUME NEW S \in SUBSET Nat, S # {}
  PROVE  \E m \in S : \A k \in S : m <= k
<1> DEFINE R == {ss \in Nat \X Nat : ss[1] < ss[2]}
<1>1. OpToRel(<, Nat) = R
  BY Zenon DEF OpToRel
<1>2. IsWellFoundedOn(R, Nat)
  BY NatLessThanWellFounded, <1>1, Zenon
<1> HIDE DEF R
<1>3. PICK x \in S : \A y \in S : ~(<<y, x>> \in R)
  BY <1>2, WFMin
<1>4. ASSUME NEW k \in S PROVE x <= k
  <2>1. ~(k < x)
    BY <1>3 DEF R
  <2> QED
    BY <2>1
<1> QED
  BY <1>4

(* Induction up to n, over a set instead of a predicate.                     *)
LEMMA Induction ==
  ASSUME NEW n \in Nat, NEW S, 0 \in S,
         \A k \in Nat : k < n /\ k \in S => k + 1 \in S
  PROVE  \A k \in 0 .. n : k \in S
<1> DEFINE bad == {k \in 0 .. n : k \notin S}
<1> SUFFICES ASSUME bad # {} PROVE FALSE
  OBVIOUS
<1>0. bad \in SUBSET Nat
  OBVIOUS
<1> HIDE DEF bad
<1>1. PICK m \in bad : \A k \in bad : m <= k
  BY <1>0, Least
<1> USE DEF bad
<1>2. m \in Nat /\ m <= n /\ m # 0 /\ m \notin S
  OBVIOUS
<1>3. m - 1 \in Nat /\ m - 1 < n /\ m - 1 \notin bad
  BY <1>1, <1>2
<1>4. m - 1 \in S /\ (m - 1) + 1 = m
  BY <1>2, <1>3
<1> QED
  BY <1>2, <1>3, <1>4

-----------------------------------------------------------------------------
(* The element that goes first.                                              *)
AnyOf(s) == CHOOSE x \in s : TRUE

(* Sums: the function that TotalSize applies to the recordings there are.    *)
Adds(d, S, sum) ==
  sum = [s \in SUBSET S |-> IF s = {} THEN 0 ELSE d[AnyOf(s)].size + sum[s \ {AnyOf(s)}]]

(* A finite set has finite subsets, and what is without an element is smaller. *)
LEMMA Smaller ==
  ASSUME NEW S, IsFiniteSet(S), NEW s \in SUBSET S, NEW x \in s
  PROVE  /\ Cardinality(s) \in Nat /\ Cardinality(s \ {x}) \in Nat
         /\ Cardinality(s) = Cardinality(s \ {x}) + 1
         /\ Cardinality(s) <= Cardinality(S) /\ Cardinality(S) \in Nat
<1>1. IsFiniteSet(s) /\ Cardinality(s) <= Cardinality(S)
  BY FS_Subset
<1>2. IsFiniteSet(s \ {x}) /\ Cardinality(s \ {x}) = Cardinality(s) - 1
  BY <1>1, FS_RemoveElement
<1> QED
  BY <1>1, <1>2, FS_CardinalityType

(* There is such a function: on sets of m elements it is defined by that on  *)
(* sets of one less.                                                         *)
LEMMA AddsExist ==
  ASSUME NEW d, NEW S, IsFiniteSet(S)
  PROVE  \E sum : Adds(d, S, sum)
<1> DEFINE More(g, s) == IF s = {} THEN 0 ELSE d[AnyOf(s)].size + g[s \ {AnyOf(s)}]
           Upto(m) == {s \in SUBSET S : Cardinality(s) <= m}
           Is(g, m) == g = [s \in Upto(m) |-> More(g, s)]
           good == {m \in Nat : \E g : Is(g, m)}
<1>1. 0 \in good
  <2> DEFINE none == [s \in Upto(0) |-> 0]
  <2>1. ASSUME NEW s \in Upto(0) PROVE s = {}
    <3>1. s \in SUBSET S /\ Cardinality(s) <= 0
      OBVIOUS
    <3>2. IsFiniteSet(s) /\ Cardinality(s) \in Nat
      BY <3>1, FS_Subset, FS_CardinalityType
    <3>3. Cardinality(s) = 0
      BY <3>1, <3>2
    <3> QED
      BY <3>2, <3>3, FS_EmptySet
  <2>2. \A s \in Upto(0) : More(none, s) = 0
    BY <2>1
  <2> HIDE DEF More, Upto
  <2>3. Is(none, 0)
    BY <2>2
  <2> HIDE DEF Is, none
  <2> QED
    BY <2>3
<1>2. ASSUME NEW k \in Nat, k \in good PROVE k + 1 \in good
  <2> DEFINE m == k + 1
  <2>1. m \in Nat /\ m = k + 1
    OBVIOUS
  <2> HIDE DEF m
  <2>2. PICK g : Is(g, k)
    BY <1>2
  <2> DEFINE more == [s \in Upto(m) |-> More(g, s)]
  <2>3. Upto(k) \subseteq Upto(m)
    <3>1. \A s \in SUBSET S : Cardinality(s) \in Nat
      BY FS_Subset, FS_CardinalityType
    <3> QED
      BY <2>1, <3>1
  <2>4. \A s \in Upto(k) : more[s] = g[s]
    <3> HIDE DEF More, Upto
    <3> QED
      BY <2>2, <2>3
  <2>5. ASSUME NEW s \in Upto(m), s # {} PROVE s \ {AnyOf(s)} \in Upto(k)
    <3>1. AnyOf(s) \in s
      BY <2>5 DEF AnyOf
    <3>2. PICK x \in s : x = AnyOf(s)
      BY <3>1
    <3>3. s \in SUBSET S /\ Cardinality(s) <= m
      OBVIOUS
    <3>4. Cardinality(s \ {x}) <= k
      BY <2>1, <3>3, Smaller
    <3> QED
      BY <3>2, <3>3, <3>4
  <2>6. \A s \in Upto(m) : More(g, s) = More(more, s)
    <3> SUFFICES ASSUME NEW s \in Upto(m) PROVE More(g, s) = More(more, s)
      OBVIOUS
    <3>1. CASE s = {}
      BY <3>1
    <3>2. CASE s # {}
      <4>1. more[s \ {AnyOf(s)}] = g[s \ {AnyOf(s)}]
        BY <2>4, <2>5, <3>2
      <4> HIDE DEF more
      <4> QED
        BY <4>1, <3>2
    <3> QED
      BY <3>1, <3>2
  <2>7. Is(more, m)
    <3> HIDE DEF More, Upto
    <3> QED
      BY <2>6
  <2>8. m \in good
    <3> HIDE DEF Is, more
    <3> QED
      BY <2>1, <2>7
  <2> QED
    BY <2>8 DEF m
<1>3. Cardinality(S) \in Nat
  BY FS_CardinalityType
<1>4. Cardinality(S) \in good
  <2> HIDE DEF good
  <2>1. \A k \in 0 .. Cardinality(S) : k \in good
    BY <1>1, <1>2, <1>3, Induction
  <2> QED
    BY <1>3, <2>1
<1>5. PICK g : Is(g, Cardinality(S))
  BY <1>4
<1>6. Upto(Cardinality(S)) = SUBSET S
  BY FS_Subset
<1> QED
  BY <1>5, <1>6 DEF Adds

(* What holds of the empty set, and of a set of which it holds without some  *)
(* element, holds of every subset.                                           *)
LEMMA BySize ==
  ASSUME NEW S, IsFiniteSet(S), NEW P, {} \in P,
         \A s \in SUBSET S : s # {} /\ (\A x \in s : s \ {x} \in P) => s \in P
  PROVE  \A s \in SUBSET S : s \in P
<1> DEFINE good == {m \in Nat : \A s \in SUBSET S : Cardinality(s) = m => s \in P}
<1>1. 0 \in good
  <2>1. \A s \in SUBSET S : Cardinality(s) = 0 => s = {}
    BY FS_Subset, FS_EmptySet
  <2> QED
    BY <2>1
<1>2. ASSUME NEW k \in Nat, k \in good PROVE k + 1 \in good
  <2>1. ASSUME NEW s \in SUBSET S, Cardinality(s) = k + 1 PROVE s \in P
    <3>1. ASSUME NEW x \in s PROVE s \ {x} \in P
      <4>1. Cardinality(s \ {x}) = k
        BY <2>1, Smaller
      <4> QED
        BY <4>1, <1>2
    <3>2. s # {}
      <4>1. k + 1 # 0
        BY <1>2
      <4>2. Cardinality({}) = 0
        BY FS_EmptySet
      <4> QED
        BY <2>1, <4>1, <4>2
    <3> QED
      BY <3>1, <3>2
  <2> QED
    BY <2>1
<1>3. Cardinality(S) \in Nat
  BY FS_CardinalityType
<1>4. \A k \in 0 .. Cardinality(S) : k \in good
  <2> HIDE DEF good
  <2> QED
    BY <1>1, <1>2, <1>3, Induction
<1>5. \A s \in SUBSET S : Cardinality(s) \in 0 .. Cardinality(S)
  BY <1>3, FS_Subset, FS_CardinalityType
<1> QED
  BY <1>4, <1>5

(* A sum is that of its parts, whichever goes first.                         *)
LEMMA SumsAdd ==
  ASSUME NEW d, NEW S, IsFiniteSet(S), \A x \in S : d[x].size \in Int, NEW sum, Adds(d, S, sum)
  PROVE  /\ sum[{}] = 0
         /\ \A s \in SUBSET S : sum[s] \in Int /\ \A x \in s : sum[s] = d[x].size + sum[s \ {x}]
<1>1. sum[{}] = 0 /\ \A s \in SUBSET S : s # {} => sum[s] = d[AnyOf(s)].size + sum[s \ {AnyOf(s)}]
  BY DEF Adds
<1>2. \A s \in SUBSET S : sum[s] \in Int
  <2> DEFINE T == {s \in SUBSET S : sum[s] \in Int}
  <2>1. {} \in T
    BY <1>1
  <2>2. ASSUME NEW s \in SUBSET S, s # {}, \A x \in s : s \ {x} \in T PROVE s \in T
    <3>1. PICK a \in s : a = AnyOf(s)
      BY <2>2 DEF AnyOf
    <3>2. sum[s] = d[a].size + sum[s \ {a}] /\ sum[s \ {a}] \in Int /\ d[a].size \in Int
      BY <1>1, <2>2, <3>1
    <3> QED
      BY <3>2
  <2> HIDE DEF T
  <2>3. \A s \in SUBSET S : s \in T
    BY <2>1, <2>2, BySize
  <2> QED
    BY <2>3 DEF T
<1> DEFINE P == {s \in SUBSET S : \A x \in s : sum[s] = d[x].size + sum[s \ {x}]}
<1>3. {} \in P
  OBVIOUS
<1>4. ASSUME NEW s \in SUBSET S, s # {}, \A x \in s : s \ {x} \in P PROVE s \in P
  <2>1. PICK a \in s : a = AnyOf(s)
    BY <1>4 DEF AnyOf
  <2>2. sum[s] = d[a].size + sum[s \ {a}]
    BY <1>1, <1>4, <2>1
  <2>3. ASSUME NEW x \in s, x # a PROVE sum[s] = d[x].size + sum[s \ {x}]
    <3>1. x \in s \ {a} /\ a \in s \ {x} /\ (s \ {a}) \ {x} = (s \ {x}) \ {a}
      BY <2>3
    <3>2. (s \ {a}) \ {x} \in SUBSET S
      OBVIOUS
    <3>3. PICK y \in Int : y = sum[(s \ {a}) \ {x}]
      BY <1>2, <3>2
    <3>4. sum[s \ {a}] = d[x].size + y
      BY <1>4, <3>1, <3>3
    <3>5. sum[s \ {x}] = d[a].size + y
      BY <1>4, <3>1, <3>3
    <3>6. d[a].size \in Int /\ d[x].size \in Int
      OBVIOUS
    <3> QED
      BY <2>2, <3>3, <3>4, <3>5, <3>6
  <2> QED
    BY <2>2, <2>3
<1> HIDE DEF P
<1>5. \A s \in SUBSET S : s \in P
  BY <1>3, <1>4, BySize
<1> QED
  BY <1>1, <1>2, <1>5 DEF P

(* Where the sizes are the same the sums are.                                *)
LEMMA SumsAgree ==
  ASSUME NEW d, NEW S, IsFiniteSet(S), NEW sum, Adds(d, S, sum),
         NEW e, NEW T \in SUBSET S, NEW tot, Adds(e, T, tot), \A x \in T : e[x].size = d[x].size
  PROVE  \A s \in SUBSET T : tot[s] = sum[s]
<1> DEFINE P == {s \in SUBSET T : tot[s] = sum[s]}
<1>1. IsFiniteSet(T)
  BY FS_Subset
<1>2. /\ sum[{}] = 0 /\ \A s \in SUBSET S : s # {} => sum[s] = d[AnyOf(s)].size + sum[s \ {AnyOf(s)}]
      /\ tot[{}] = 0 /\ \A s \in SUBSET T : s # {} => tot[s] = e[AnyOf(s)].size + tot[s \ {AnyOf(s)}]
  BY DEF Adds
<1>3. {} \in P
  BY <1>2
<1>4. ASSUME NEW s \in SUBSET T, s # {}, \A x \in s : s \ {x} \in P PROVE s \in P
  <2>1. PICK a \in s : a = AnyOf(s)
    BY <1>4 DEF AnyOf
  <2>2. tot[s \ {a}] = sum[s \ {a}] /\ e[a].size = d[a].size
    BY <1>4, <2>1
  <2>3. s \in SUBSET S
    OBVIOUS
  <2> QED
    BY <1>2, <1>4, <2>1, <2>2, <2>3
<1> HIDE DEF P
<1>5. \A s \in SUBSET T : s \in P
  BY <1>1, <1>3, <1>4, BySize
<1> QED
  BY <1>5 DEF P

(* TotalSize is such a sum.                                                  *)
LEMMA TotalIs ==
  ASSUME NEW d, NEW S, IsFiniteSet(S), NEW sum, Adds(d, S, sum),
         NEW e, DOMAIN e \in SUBSET S, \A x \in DOMAIN e : e[x].size = d[x].size
  PROVE  Disk!TotalSize(e) = sum[DOMAIN e]
<1> DEFINE tot == CHOOSE tot : Adds(e, DOMAIN e, tot)
<1>1. Disk!TotalSize(e) = tot[DOMAIN e]
  BY DEF Disk!TotalSize, Disk!FoldFunction, Disk!FoldFunctionOnSet, Disk!MapThenFoldSet, Adds, AnyOf
<1>2. Adds(e, DOMAIN e, tot)
  <2>1. IsFiniteSet(DOMAIN e)
    BY FS_Subset
  <2>2. \E t : Adds(e, DOMAIN e, t)
    BY <2>1, AddsExist
  <2> QED
    BY <2>2, Zenon
<1> HIDE DEF tot
<1> QED
  BY <1>1, <1>2, SumsAgree
-----------------------------------------------------------------------------
(* What enforceQuota's loop does for a recording.                            *)
Dropping(d, s, r) ==
  IF s.total <= MaxDiskMB THEN s
  ELSE [dirs |-> Disk!Removed(s.dirs, r), total |-> s.total - d[r].size]

(* What Push's loop does.                                                    *)
Evicting(x) == IF x.total > x.max THEN IQ!TrimHead(x) ELSE x

(* What Ingest's loop does for a chunk.  Of the Ingest, c: its samples, the  *)
(* size of a chunk, the time and the sample before.                          *)
PushAt(c, s, i) ==
  LET off == (i - 1) * c.chunk
      end == IF off + c.chunk > c.n THEN c.n ELSE off + c.chunk
  IN  IQ!Push(s, c.t0 + IQ!Duration(off), c.last + off + 1, c.last + end)

(* One loop is as another: what it does for an element is a Step of its kind. *)
Step(kind, c, s, x) ==
  IF kind = "drop" THEN Dropping(c, s, x) ELSE IF kind = "evict" THEN Evicting(s) ELSE PushAt(c, s, x)

(* The element that goes last.                                               *)
Top(s) == CHOOSE x \in s : \A y \in s : x >= y

(* The greatest of finitely many numbers.                                    *)
LEMMA MaxIs ==
  ASSUME NEW n \in Nat, NEW s \in SUBSET (1 .. n), s # {}
  PROVE  Top(s) \in s /\ \A y \in s : y <= Top(s)
<1> DEFINE U == {m \in Nat : \A y \in s : y <= m}
<1>1. n \in U
  OBVIOUS
<1>2. PICK m \in U : \A k \in U : m <= k
  BY <1>1, Least
<1>3. m \in s
  <2> SUFFICES ASSUME m \notin s PROVE FALSE
    OBVIOUS
  <2>0. m \in Nat /\ \A y \in s : y \in Nat /\ y >= 1 /\ y <= m /\ y # m
    BY <1>2
  <2>1. PICK y \in s : TRUE
    OBVIOUS
  <2>2. m - 1 \in Nat
    <3>1. y \in Nat /\ y >= 1 /\ y <= m
      BY <2>0
    <3> QED
      BY <2>0, <3>1
  <2>3. \A z \in s : z <= m - 1
    BY <2>0
  <2> QED
    BY <1>2, <2>2, <2>3
<1>4. \E x \in s : \A y \in s : y <= x
  BY <1>2, <1>3
<1> QED
  BY <1>4 DEF Top

(* The function that FoldLeft applies to the domain of a sequence.           *)
Iterates(kind, c, base, order, iter) ==
  iter = [s \in SUBSET DOMAIN order |->
            IF s = {} THEN base
            ELSE Step(kind, c, iter[s \ {Top(s)}], order[Top(s)])]

(* There is such a function: on the sets of the first m places it is defined *)
(* by that of the first m - 1.                                               *)
LEMMA IterExists ==
  ASSUME NEW kind, NEW c, NEW base, NEW n \in Nat, NEW order, DOMAIN order = 1 .. n
  PROVE  \E iter : Iterates(kind, c, base, order, iter)
<1> DEFINE result(g, s) == IF s = {} THEN base
                         ELSE Step(kind, c, g[s \ {Top(s)}], order[Top(s)])
           Is(g, m) == g = [s \in SUBSET (1 .. m) |-> result(g, s)]
           good == {m \in Nat : \E g : Is(g, m)}
<1>1. 0 \in good
  <2> DEFINE none == [s \in SUBSET (1 .. 0) |-> base]
  <2>1. \A s \in SUBSET (1 .. 0) : result(none, s) = base
    BY 1 .. 0 = {}
  <2> HIDE DEF result
  <2>2. Is(none, 0)
    BY <2>1
  <2> HIDE DEF Is, none
  <2> QED
    BY <2>2
<1>2. ASSUME NEW k \in Nat, k < n, k \in good PROVE k + 1 \in good
  <2> DEFINE m == k + 1
  <2>1. m \in Nat /\ m - 1 = k /\ m \in 1 .. n
    BY <1>2
  <2> HIDE DEF m
  <2>2. PICK g : Is(g, k)
    BY <1>2
  <2> DEFINE more == [s \in SUBSET (1 .. m) |-> result(g, s)]
  <2>3. \A s \in SUBSET (1 .. k) : more[s] = g[s]
    <3>1. SUBSET (1 .. k) \subseteq SUBSET (1 .. m)
      BY <2>1
    <3> HIDE DEF result
    <3>2. \A s \in SUBSET (1 .. k) : g[s] = result(g, s)
      BY <2>2
    <3> QED
      BY <3>1, <3>2
  <2>4. ASSUME NEW s \in SUBSET (1 .. m), s # {} PROVE s \ {Top(s)} \in SUBSET (1 .. k)
    <3>1. Top(s) \in s /\ \A y \in s : y <= Top(s)
      BY <2>1, <2>4, MaxIs
    <3>2. ASSUME NEW y \in s, y # Top(s) PROVE y \in 1 .. k
      <4>1. y \in 1 .. m /\ Top(s) \in 1 .. m /\ y <= Top(s)
        BY <3>1
      <4> QED
        BY <4>1, <3>2, <2>1
    <3> QED
      BY <3>2
  <2>5. \A s \in SUBSET (1 .. m) : result(g, s) = result(more, s)
    <3> SUFFICES ASSUME NEW s \in SUBSET (1 .. m) PROVE result(g, s) = result(more, s)
      OBVIOUS
    <3>1. CASE s = {}
      BY <3>1
    <3>2. CASE s # {}
      <4>1. more[s \ {Top(s)}] = g[s \ {Top(s)}]
        BY <2>3, <2>4, <3>2
      <4> HIDE DEF more
      <4> QED
        BY <4>1, <3>2
    <3> QED
      BY <3>1, <3>2
  <2>6. Is(more, m)
    <3> HIDE DEF result
    <3> QED
      BY <2>5
  <2>7. m \in good
    <3> HIDE DEF Is, more
    <3> QED
      BY <2>1, <2>6
  <2> QED
    BY <2>7 DEF m
<1>3. n \in good
  <2> HIDE DEF good
  <2>1. \A k \in Nat : k < n /\ k \in good => k + 1 \in good
    BY <1>2
  <2>2. \A k \in 0 .. n : k \in good
    BY <1>1, <2>1, Induction
  <2> QED
    BY <2>2
<1>4. PICK g : Is(g, n)
  BY <1>3
<1> QED
  BY <1>4 DEF Iterates

(* What taking the elements one after the other goes through: f[k] is what the *)
(* first k of them have led to.                                              *)
GoesThrough(kind, c, base, order, n, f) ==
  f[0] = base /\ \A k \in 1 .. n : f[k] = Step(kind, c, f[k - 1], order[k])

(* A fold goes through such steps to its result.                             *)
LEMMA FoldSteps ==
  ASSUME NEW kind, NEW c, NEW base, NEW n \in Nat, NEW order, DOMAIN order = 1 .. n,
         NEW iter, Iterates(kind, c, base, order, iter)
  PROVE  \E f : GoesThrough(kind, c, base, order, n, f) /\ iter[DOMAIN order] = f[n]
<1> DEFINE f == [k \in 0 .. n |-> iter[1 .. k]]
<1>1. f[0] = base
  <2>1. 1 .. 0 = {} /\ {} \in SUBSET DOMAIN order
    OBVIOUS
  <2>2. iter[{}] = base
    BY <2>1 DEF Iterates
  <2> QED
    BY <2>1, <2>2
<1>2. ASSUME NEW k \in 1 .. n PROVE f[k] = Step(kind, c, f[k - 1], order[k])
  <2>1. 1 .. k # {} /\ 1 .. k \in SUBSET DOMAIN order
    <3>1. k \in 1 .. k /\ \A i \in 1 .. k : i \in 1 .. n
      OBVIOUS
    <3> QED
      BY <3>1
  <2>2. Top(1 .. k) = k
    <3>1. Top(1 .. k) \in 1 .. k /\ \A y \in 1 .. k : y <= Top(1 .. k)
      BY <2>1, MaxIs
    <3> QED
      BY <3>1
  <2>3. (1 .. k) \ {k} = 1 .. k - 1
    OBVIOUS
  <2>4. iter[1 .. k] = Step(kind, c, iter[(1 .. k) \ {Top(1 .. k)}], order[Top(1 .. k)])
    BY <2>1 DEF Iterates
  <2>5. iter[1 .. k] = Step(kind, c, iter[1 .. k - 1], order[k])
    BY <2>2, <2>3, <2>4
  <2>6. f[k] = iter[1 .. k] /\ f[k - 1] = iter[1 .. k - 1]
    <3>1. k \in 0 .. n /\ k - 1 \in 0 .. n
      OBVIOUS
    <3> QED
      BY <3>1
  <2> HIDE DEF f
  <2> QED
    BY <2>5, <2>6
<1>3. iter[DOMAIN order] = f[n]
  OBVIOUS
<1> HIDE DEF f
<1> QED
  BY <1>1, <1>2, <1>3 DEF GoesThrough

(* enforceQuota goes through the recordings in their order.                  *)
LEMMA QuotaSteps ==
  ASSUME NEW d, NEW n \in Nat, NEW order, DOMAIN order = 1 .. n, MaxDiskMB # 0
  PROVE  \E f : /\ GoesThrough("drop", d, [dirs |-> d, total |-> Disk!TotalSize(d)], order, n, f)
                /\ Disk!EnforceQuota(d, order) = f[n].dirs
<1> DEFINE base == [dirs |-> d, total |-> Disk!TotalSize(d)]
           iter == CHOOSE g : Iterates("drop", d, base, order, g)
<1>1. Disk!EnforceQuota(d, order) = iter[DOMAIN order].dirs
  BY DEF Disk!EnforceQuota, Disk!FoldLeft, Disk!MapThenFoldSet, Disk!Max, Iterates, Step, Dropping, Top
<1>2. Iterates("drop", d, base, order, iter)
  <2>1. \E g : Iterates("drop", d, base, order, g)
    BY IterExists, Zenon
  <2> QED
    BY <2>1, Zenon
<1> HIDE DEF iter
<1>3. PICK f : GoesThrough("drop", d, base, order, n, f) /\ iter[DOMAIN order] = f[n]
  BY <1>2, FoldSteps
<1> QED
  BY <1>1, <1>3
-----------------------------------------------------------------------------
(* What can be removed is; an open file may be in the way.                   *)
Stuck(x) == locks /\ x \in DOMAIN writing' /\ writing'[x] = "stream"

(* What an order has from the jth on.                                        *)
Rest(order, j, n) == {order[i] : i \in j .. n}

(* What is left when the first q of an order have gone, each because it and  *)
(* all after it exceed the quota.                                            *)
IsCut(d, order, n, sum, q, out) ==
  /\ \A j \in 1 .. q : sum[Rest(order, j, n)] > MaxDiskMB
  /\ DOMAIN out = {x \in DOMAIN d : (\E j \in 1 .. q : order[j] = x) => Stuck(x)}
  /\ \A x \in DOMAIN out : out[x] = d[x]

(* The order has each of the set once.                                       *)
Places(order, n, S) ==
  /\ order \in [1 .. n -> S]
  /\ \A i, j \in 1 .. n : i # j => order[i] # order[j]
  /\ \A x \in S : \E i \in 1 .. n : order[i] = x

(* What is left of an order is the next one and the rest.                    *)
LEMMA RestIs ==
  ASSUME NEW n \in Nat, NEW S, NEW order, Places(order, n, S), NEW j \in 1 .. n
  PROVE  /\ Rest(order, j, n) \in SUBSET S /\ order[j] \in Rest(order, j, n)
         /\ Rest(order, j, n) \ {order[j]} = Rest(order, j + 1, n)
<1>1. \A i \in j .. n : i \in 1 .. n
  OBVIOUS
<1>2. \A i \in j .. n : i # j <=> i \in j + 1 .. n
  OBVIOUS
<1>3. j + 1 .. n \subseteq j .. n /\ j \in j .. n
  OBVIOUS
<1> QED
  BY <1>1, <1>2, <1>3 DEF Rest, Places

(* enforceQuota makes such a cut, after which what is left fits.             *)
LEMMA EnforceIs ==
  ASSUME NEW d, NEW n \in Nat, NEW order, Places(order, n, DOMAIN d), IsFiniteSet(DOMAIN d),
         \A x \in DOMAIN d : d[x].size \in Int, NEW sum, Adds(d, DOMAIN d, sum),
         MaxDiskMB \in Nat \ {0}
  PROVE  \E q \in 0 .. n : IsCut(d, order, n, sum, q, Disk!EnforceQuota(d, order))
<1> DEFINE base == [dirs |-> d, total |-> Disk!TotalSize(d)]
           Upto(q, k, s) == /\ IsCut(d, order, n, sum, q, s.dirs)
                            /\ s.total = sum[Rest(order, q + 1, n)]
                            /\ q < k => s.total <= MaxDiskMB
<1>1. DOMAIN order = 1 .. n
  BY DEF Places
<1>2. PICK f : GoesThrough("drop", d, base, order, n, f) /\ Disk!EnforceQuota(d, order) = f[n].dirs
  BY <1>1, QuotaSteps
<1>3. /\ f[0] = base
      /\ \A k \in 1 .. n : f[k] = Dropping(d, f[k - 1], order[k])
  BY <1>2 DEF GoesThrough, Step
<1>4. \A j \in 1 .. n + 1 : sum[Rest(order, j, n)] \in Int
  <2>1. \A j \in 1 .. n + 1 : Rest(order, j, n) \in SUBSET DOMAIN d
    BY DEF Rest, Places
  <2> QED
    BY <2>1, SumsAdd
<1> DEFINE good == {k \in 0 .. n : \E q \in 0 .. k : Upto(q, k, f[k])}
<1>5. 0 \in good
  <2>1. Rest(order, 1, n) = DOMAIN d
    <3>1. /\ \A i \in 1 .. n : order[i] \in DOMAIN d
          /\ \A x \in DOMAIN d : \E i \in 1 .. n : order[i] = x
      BY DEF Places
    <3> QED
      BY <3>1, Zenon DEF Rest
  <2>2. Disk!TotalSize(d) = sum[DOMAIN d]
    BY TotalIs
  <2>3. IsCut(d, order, n, sum, 0, d)
    BY DEF IsCut
  <2>4. f[0].dirs = d /\ f[0].total = sum[Rest(order, 0 + 1, n)]
    BY <1>3, <2>1, <2>2
  <2>5. Upto(0, 0, f[0])
    BY <2>3, <2>4
  <2> HIDE DEF Upto
  <2> QED
    BY <2>5
<1>6. ASSUME NEW k \in Nat, k < n, k \in good PROVE k + 1 \in good
  <2>1. PICK q \in 0 .. k : Upto(q, k, f[k])
    BY <1>6
  <2>2. PICK s : s = f[k]
    OBVIOUS
  <2>3. PICK m \in 1 .. n : m = k + 1
    BY <1>6
  <2>4. f[m] = Dropping(d, s, order[m])
    BY <1>3, <2>2, <2>3
  <2>5. s.total \in Int
    <3>1. q + 1 \in 1 .. n + 1
      BY <1>6
    <3> QED
      BY <1>4, <2>1, <2>2, <3>1
  <2>6. CASE s.total <= MaxDiskMB
    <3>1. f[m] = s
      BY <2>4, <2>6 DEF Dropping
    <3>2. Upto(q, m, f[m]) /\ q \in 0 .. m
      BY <2>1, <2>2, <2>3, <2>6, <3>1
    <3> HIDE DEF Upto
    <3> QED
      BY <2>3, <3>2
  <2>7. CASE s.total > MaxDiskMB
    <3>1. q = k
      BY <2>1, <2>2, <2>5, <2>7
    <3>2. PICK x \in DOMAIN d : x = order[m]
      BY DEF Places
    <3>3. f[m] = [dirs |-> Disk!Removed(s.dirs, x), total |-> s.total - d[x].size]
      BY <2>4, <2>5, <2>7, <3>2 DEF Dropping
    <3>4. Disk!Removed(s.dirs, x) = IF Stuck(x) THEN s.dirs ELSE [y \in DOMAIN s.dirs \ {x} |-> s.dirs[y]]
      BY DEF Disk!Removed, Disk!Without, Disk!Restrict, Stuck
    <3>5. PICK e : e = f[m].dirs
      OBVIOUS
    <3>6. /\ DOMAIN e = {y \in DOMAIN s.dirs : y = x => Stuck(x)}
          /\ \A y \in DOMAIN e : e[y] = s.dirs[y]
      <4>1. CASE Stuck(x)
        BY <3>3, <3>4, <3>5, <4>1
      <4>2. CASE ~Stuck(x)
        <5>1. e = [y \in DOMAIN s.dirs \ {x} |-> s.dirs[y]]
          BY <3>3, <3>4, <3>5, <4>2
        <5> QED
          BY <5>1, <4>2
      <4> QED
        BY <4>1, <4>2
    <3>7. /\ DOMAIN s.dirs = {y \in DOMAIN d : (\E j \in 1 .. k : order[j] = y) => Stuck(y)}
          /\ \A y \in DOMAIN s.dirs : s.dirs[y] = d[y]
          /\ \A j \in 1 .. k : sum[Rest(order, j, n)] > MaxDiskMB
          /\ s.total = sum[Rest(order, m, n)]
      BY <2>1, <2>2, <2>3, <3>1 DEF IsCut
    <3>8. \A y : (\E j \in 1 .. m : order[j] = y) <=> (y = x \/ \E j \in 1 .. k : order[j] = y)
      <4>1. \A j : j \in 1 .. m <=> (j = m \/ j \in 1 .. k)
        BY <2>3
      <4> QED
        BY <4>1, <3>2
    <3>9. DOMAIN e = {y \in DOMAIN d : (\E j \in 1 .. m : order[j] = y) => Stuck(y)}
      BY <3>6, <3>7, <3>8
    <3>10. \A y \in DOMAIN e : e[y] = d[y]
      BY <3>6, <3>7
    <3>11. \A j \in 1 .. m : sum[Rest(order, j, n)] > MaxDiskMB
      <4>1. \A j \in 1 .. m : j = m \/ j \in 1 .. k
        BY <2>3
      <4> QED
        BY <4>1, <3>7, <2>7
    <3>12. IsCut(d, order, n, sum, m, e)
      BY <3>9, <3>10, <3>11 DEF IsCut
    <3>13. f[m].total = sum[Rest(order, m + 1, n)]
      <4>1. /\ Rest(order, m, n) \in SUBSET DOMAIN d /\ x \in Rest(order, m, n)
            /\ Rest(order, m, n) \ {x} = Rest(order, m + 1, n)
        BY <3>2, RestIs
      <4>2. sum[Rest(order, m, n)] = d[x].size + sum[Rest(order, m + 1, n)]
        <5>1. PICK R : R = Rest(order, m, n)
          OBVIOUS
        <5>2. sum[R] = d[x].size + sum[R \ {x}]
          BY <4>1, <5>1, SumsAdd
        <5> QED
          BY <4>1, <5>1, <5>2
      <4>3. sum[Rest(order, m + 1, n)] \in Int /\ d[x].size \in Int
        BY <1>4
      <4>4. f[m].total = s.total - d[x].size
        BY <3>3
      <4> QED
        BY <3>7, <4>2, <4>3, <4>4
    <3>14. Upto(m, m, f[m]) /\ m \in 0 .. m
      BY <3>5, <3>12, <3>13
    <3> HIDE DEF Upto
    <3> QED
      BY <2>3, <3>14
  <2> QED
    BY <2>5, <2>6, <2>7
<1>7. n \in good
  <2> HIDE DEF good
  <2>1. \A k \in 0 .. n : k \in good
    BY <1>5, <1>6, Induction
  <2> QED
    BY <2>1
<1> QED
  BY <1>2, <1>7
-----------------------------------------------------------------------------
(* Recordings are numbered from 1 on, meta.json has their number, and what is *)
(* still being written has none.                                             *)
QuotaInv ==
  /\ next \in Nat \ {0}
  /\ DOMAIN dirs \in SUBSET (1 .. next - 1)
  /\ \A x \in DOMAIN dirs : dirs[x] \in [start : {0, x}, size : Int]
  /\ \A x \in DOMAIN dirs \cap DOMAIN writing : dirs[x].start = 0

(* The quota is a number, and so are the sizes.                              *)
Metered == MaxDiskMB \in Nat /\ Sizes \subseteq Int

(* The cardinality that Quota speaks of is that of sets.                     *)
LEMMA DiskCount == \A S : Disk!Cardinality(S) = Cardinality(S)
  BY Zenon DEF Disk!Cardinality, Cardinality

(* The orders of sort.Slice have each recording once, none after a younger.  *)
LEMMA OrdersAre ==
  ASSUME NEW d, IsFiniteSet(DOMAIN d), \A x \in DOMAIN d : d[x].start \in Int,
         NEW order \in Disk!Orders(d)
  PROVE  \E n \in Nat : /\ Places(order, n, DOMAIN d)
                        /\ \A i, j \in 1 .. n : i < j => d[order[i]].start <= d[order[j]].start
<1>1. PICK n \in Nat : n = Cardinality(DOMAIN d)
  BY FS_CardinalityType
<1>2. /\ order \in [1 .. n -> DOMAIN d]
      /\ \A i, j \in 1 .. n : i # j => order[i] # order[j]
      /\ \A i \in 1 .. Len(order) - 1 : d[order[i]].start <= d[order[i + 1]].start
  <2>1. Disk!Cardinality(DOMAIN d) = n
    BY <1>1, DiskCount
  <2> QED
    BY <2>1 DEF Disk!Orders, Disk!SetToSeqs
<1>3. Len(order) = n
  BY <1>2
<1>4. \A x \in DOMAIN d : \E i \in 1 .. n : order[i] = x
  <2>1. IsFiniteSet(1 .. n) /\ Cardinality(1 .. n) = n
    BY FS_Interval
  <2>2. order \in Injection(1 .. n, DOMAIN d)
    BY <1>2 DEF Injection, IsInjective
  <2>3. order \in Surjection(1 .. n, DOMAIN d)
    BY <1>1, <2>1, <2>2, FS_Injection
  <2> QED
    BY <2>3 DEF Surjection
<1>5. Places(order, n, DOMAIN d)
  BY <1>2, <1>4 DEF Places
<1> DEFINE a == [i \in 1 .. n |-> d[order[i]].start]
<1>6. \A i \in 1 .. n : a[i] \in Int /\ a[i] = d[order[i]].start
  BY <1>2
<1>7. \A i \in 1 .. n - 1 : a[i] <= a[i + 1]
  <2>1. \A i \in 1 .. n - 1 : i \in 1 .. n /\ i + 1 \in 1 .. n
    OBVIOUS
  <2> QED
    BY <1>2, <1>3, <1>6, <2>1
<1> HIDE DEF a
<1>8. ASSUME NEW i \in 1 .. n PROVE \A j \in i .. n : a[i] <= a[j]
  <2> DEFINE good == {k \in Nat : i + k <= n => a[i] <= a[i + k]}
  <2>1. 0 \in good
    BY <1>6
  <2>2. ASSUME NEW k \in Nat, k \in good PROVE k + 1 \in good
    <3>1. CASE i + (k + 1) <= n
      <4>1. PICK j \in 1 .. n - 1 : j = i + k
        BY <3>1
      <4>2. a[i] <= a[j] /\ a[j] <= a[j + 1] /\ j + 1 \in 1 .. n /\ j \in 1 .. n
        BY <1>7, <2>2, <3>1, <4>1
      <4>3. a[i] \in Int /\ a[j] \in Int /\ a[j + 1] \in Int
        BY <1>6, <4>2
      <4> QED
        BY <4>1, <4>2, <4>3
    <3> QED
      BY <3>1
  <2>3. \A k \in 0 .. n : k \in good
    <3> HIDE DEF good
    <3> QED
      BY <2>1, <2>2, Induction
  <2>4. \A j \in i .. n : j - i \in 0 .. n /\ i + (j - i) = j /\ j <= n
    OBVIOUS
  <2> QED
    BY <2>3, <2>4
<1>9. \A i, j \in 1 .. n : i < j => d[order[i]].start <= d[order[j]].start
  <2>1. \A i, j \in 1 .. n : i < j => j \in i .. n
    OBVIOUS
  <2> QED
    BY <1>6, <1>8, <2>1
<1> QED
  BY <1>5, <1>9

(* What has gone of the complete is older than what is left of them, and     *)
(* exceeded the quota with all that are younger.                             *)
OldestOut(d, sum, out) ==
  \A x \in Disk!Complete(d) \ DOMAIN out :
    /\ \A k \in Disk!Complete(d) \cap DOMAIN out : x < k
    /\ sum[{k \in Disk!Complete(d) : k >= x}] > MaxDiskMB

(* A cut costs the oldest of the complete only.                              *)
LEMMA CutIsOldest ==
  ASSUME NEW d, NEW n \in Nat, NEW order, Places(order, n, DOMAIN d),
         \A x \in DOMAIN d : x \in Nat \ {0} /\ d[x].start \in {0, x},
         \A i, j \in 1 .. n : i < j => d[order[i]].start <= d[order[j]].start,
         NEW sum, NEW q \in 0 .. n, NEW out, IsCut(d, order, n, sum, q, out),
         \A x \in Disk!Complete(d) : ~Stuck(x)
  PROVE  OldestOut(d, sum, out)
<1> DEFINE C == Disk!Complete(d)
<1>1. C = {x \in DOMAIN d : d[x].start = x} /\ \A x \in C : x \in Nat \ {0} /\ d[x].start = x /\ x \in DOMAIN d
  BY DEF Disk!Complete
<1>2. \A x \in C : ~Stuck(x)
  OBVIOUS
<1> HIDE DEF C
<1> SUFFICES ASSUME NEW x \in C, x \notin DOMAIN out
             PROVE  /\ \A k \in C \cap DOMAIN out : x < k
                    /\ sum[{k \in C : k >= x}] > MaxDiskMB
  BY DEF C, OldestOut
<1>3. PICK j \in 1 .. q : order[j] = x
  BY <1>1 DEF IsCut
<1>4. j \in 1 .. n
  OBVIOUS
<1>5. ASSUME NEW k \in C \cap DOMAIN out PROVE x < k
  <2>1. ~ \E i \in 1 .. q : order[i] = k
    BY <1>2, <1>5 DEF IsCut
  <2>2. PICK i \in 1 .. n : order[i] = k
    BY <1>1 DEF Places
  <2>3. j < i
    <3>1. ~(i \in 1 .. q)
      BY <2>1, <2>2
    <3> QED
      BY <3>1
  <2>4. x <= k
    BY <1>1, <1>3, <1>4, <2>2, <2>3
  <2>5. x # k
    BY <1>5
  <2> QED
    BY <1>1, <2>4, <2>5
<1>6. Rest(order, j, n) = {k \in C : k >= x}
  <2>1. ASSUME NEW i \in j .. n PROVE order[i] \in {k \in C : k >= x}
    <3>1. i \in 1 .. n /\ (i = j \/ j < i)
      OBVIOUS
    <3>2. PICK k \in DOMAIN d : k = order[i]
      BY <3>1 DEF Places
    <3>3. d[k].start >= x
      <4>1. d[x].start = x /\ x \in Nat
        BY <1>1
      <4>2. CASE i = j
        BY <4>1, <4>2, <3>2, <1>3
      <4>3. CASE j < i
        BY <4>1, <4>3, <3>1, <3>2, <1>3, <1>4
      <4> QED
        BY <3>1, <4>2, <4>3
    <3>4. k \in Nat \ {0} /\ d[k].start \in {0, k} /\ x \in Nat \ {0}
      BY <1>1
    <3>5. d[k].start = k /\ k >= x
      BY <3>3, <3>4
    <3> QED
      BY <1>1, <3>2, <3>5
  <2>2. ASSUME NEW k \in C, k >= x PROVE \E i \in j .. n : order[i] = k
    <3>1. PICK i \in 1 .. n : order[i] = k
      BY <1>1 DEF Places
    <3>2. CASE i < j
      <4>1. k <= x
        BY <1>1, <1>3, <1>4, <3>1, <3>2
      <4>2. k = x
        BY <1>1, <2>2, <4>1
      <4> QED
        BY <1>3, <1>4, <3>1, <3>2, <4>2 DEF Places
    <3>3. CASE i >= j
      BY <3>1, <3>3
    <3> QED
      BY <3>2, <3>3
  <2> QED
    BY <2>1, <2>2 DEF Rest
<1> QED
  BY <1>3, <1>5, <1>6 DEF IsCut
(* Where the quota runs, after a session's meta.json.                        *)
LEMMA CloseSessionStep ==
  ASSUME Metered, QuotaInv, NEW r \in 1 .. MaxDir, Disk!CloseSession(r)
  PROVE  QuotaInv' /\ Disk!RemovesOldest
<1> DEFINE d == IF r \in DOMAIN dirs THEN [dirs EXCEPT ![r].start = r] ELSE dirs
<1>1. /\ r \in DOMAIN writing /\ writing' = [x \in DOMAIN writing \ {r} |-> writing[x]]
      /\ next' = next
      /\ \E order \in Disk!Orders(d) : dirs' = Disk!EnforceQuota(d, order)
  BY DEF Disk!CloseSession, Disk!Without, Disk!Restrict
<1>2. /\ next \in Nat \ {0} /\ DOMAIN dirs \in SUBSET (1 .. next - 1)
      /\ \A x \in DOMAIN dirs : dirs[x].start \in {0, x} /\ dirs[x].size \in Int
      /\ \A x \in DOMAIN dirs : dirs[x] \in [start : {0, x}, size : Int]
      /\ \A x \in DOMAIN dirs \cap DOMAIN writing : dirs[x].start = 0
  BY DEF QuotaInv
<1>3. /\ DOMAIN d = DOMAIN dirs
      /\ \A x \in DOMAIN d : /\ d[x] \in [start : {0, x}, size : Int] /\ d[x].size = dirs[x].size
                             /\ d[x].start = IF x = r THEN r ELSE dirs[x].start
  <2>1. CASE r \in DOMAIN dirs
    <3>1. d = [x \in DOMAIN dirs |-> IF x = r THEN [dirs[r] EXCEPT !.start = r] ELSE dirs[x]]
      BY <2>1
    <3>2. PICK y : y = [dirs[r] EXCEPT !.start = r]
      OBVIOUS
    <3>3. y \in [start : {0, r}, size : Int] /\ y.start = r /\ y.size = dirs[r].size
      BY <1>2, <2>1, <3>2
    <3> HIDE DEF d
    <3> QED
      BY <1>2, <3>1, <3>2, <3>3
  <2>2. CASE r \notin DOMAIN dirs
    BY <1>2, <2>2
  <2> QED
    BY <2>1, <2>2
<1>4. \A x \in DOMAIN dirs : x \in Nat \ {0}
  BY <1>2
<1>5. IsFiniteSet(DOMAIN d)
  <2>1. PICK m \in Int : m = next - 1
    BY <1>2
  <2>2. IsFiniteSet(1 .. m)
    BY FS_Interval
  <2>3. DOMAIN d \in SUBSET (1 .. m)
    BY <1>2, <1>3, <2>1
  <2> QED
    BY <2>2, <2>3, FS_Subset
<1>6. PICK order \in Disk!Orders(d) : dirs' = Disk!EnforceQuota(d, order)
  BY <1>1
<1> HIDE DEF d
<1>7. \A x \in DOMAIN d : /\ x \in Nat \ {0} /\ d[x].start \in {0, x} /\ d[x].start \in Int
                          /\ d[x].size \in Int
  BY <1>3, <1>4
<1>8. PICK n \in Nat : /\ Places(order, n, DOMAIN d)
                       /\ \A i, j \in 1 .. n : i < j => d[order[i]].start <= d[order[j]].start
  BY <1>5, <1>7, OrdersAre
<1>9. PICK sum : Adds(d, DOMAIN d, sum)
  BY <1>5, AddsExist
<1>10. \A x \in Disk!Complete(d) : x \in DOMAIN d /\ x \notin DOMAIN writing'
  <2>1. ASSUME NEW x \in DOMAIN d, d[x].start > 0 PROVE x \notin DOMAIN writing'
    <3>1. CASE x = r
      BY <1>1, <3>1
    <3>2. CASE x # r
      BY <1>1, <1>2, <1>3, <2>1, <3>2
    <3> QED
      BY <3>1, <3>2
  <2> QED
    BY <2>1 DEF Disk!Complete
<1>11. CASE MaxDiskMB = 0
  <2>1. dirs' = d
    BY <1>6, <1>11 DEF Disk!EnforceQuota
  <2>2. QuotaInv'
    BY <1>1, <1>2, <1>3, <1>10, <2>1 DEF QuotaInv, Disk!Complete
  <2>3. DOMAIN dirs \ DOMAIN dirs' = {}
    BY <1>3, <2>1
  <2> QED
    BY <2>2, <2>3 DEF Disk!RemovesOldest
<1>12. CASE MaxDiskMB # 0
  <2>1. MaxDiskMB \in Nat \ {0}
    BY <1>12 DEF Metered
  <2>2. PICK q \in 0 .. n : IsCut(d, order, n, sum, q, dirs')
    BY <1>5, <1>6, <1>7, <1>8, <1>9, <2>1, EnforceIs
  <2>3. DOMAIN dirs' \subseteq DOMAIN d /\ \A x \in DOMAIN dirs' : dirs'[x] = d[x]
    BY <2>2 DEF IsCut
  <2>4. \A x \in DOMAIN d : x \in DOMAIN writing' => d[x].start = 0
    <3>1. \A x \in DOMAIN d : ~(d[x].start > 0) => d[x].start = 0
      BY <1>7
    <3> QED
      BY <1>10, <3>1 DEF Disk!Complete
  <2>5. QuotaInv'
    BY <1>1, <1>2, <1>3, <2>3, <2>4 DEF QuotaInv
  <2>6. \A x \in Disk!Complete(d) : ~Stuck(x)
    BY <1>10 DEF Stuck
  <2>7. OldestOut(d, sum, dirs')
    <3>1. PICK out : out = dirs'
      OBVIOUS
    <3>2. IsCut(d, order, n, sum, q, out)
      BY <2>2, <3>1
    <3>3. OldestOut(d, sum, out)
      BY <1>7, <1>8, <2>6, <3>2, CutIsOldest
    <3> QED
      BY <3>1, <3>3
  <2> DEFINE done == Disk!Complete(dirs) \cup (DOMAIN writing \ DOMAIN writing')
  <2>8. done \cap DOMAIN dirs = Disk!Complete(d)
    <3>1. DOMAIN writing \ DOMAIN writing' = {r}
      BY <1>1
    <3>2. \A x \in DOMAIN d : d[x].start > 0 <=> (x = r \/ dirs[x].start > 0)
      BY <1>3, <1>7
    <3> QED
      BY <1>3, <3>1, <3>2 DEF Disk!Complete
  <2>9. ASSUME NEW x \in DOMAIN dirs
        PROVE  Disk!TotalSize(Disk!Restrict(dirs, {k \in done \cap DOMAIN dirs : k >= x}))
                 = sum[{k \in Disk!Complete(d) : k >= x}]
    <3>1. PICK K : K = {k \in Disk!Complete(d) : k >= x}
      OBVIOUS
    <3>2. K = {k \in done \cap DOMAIN dirs : k >= x}
      BY <2>8, <3>1
    <3>3. PICK e : e = Disk!Restrict(dirs, K)
      OBVIOUS
    <3>4. e = [k \in K |-> dirs[k]]
      BY <3>3 DEF Disk!Restrict
    <3>5. K \in SUBSET DOMAIN d
      BY <1>10, <3>1
    <3>6. DOMAIN e \in SUBSET DOMAIN d /\ \A k \in DOMAIN e : e[k].size = d[k].size
      BY <1>3, <3>4, <3>5
    <3>7. Disk!TotalSize(e) = sum[DOMAIN e]
      BY <1>5, <1>9, <3>6, TotalIs
    <3>8. Disk!TotalSize(Disk!Restrict(dirs, K)) = sum[K]
      BY <3>3, <3>4, <3>7
    <3> HIDE DEF done
    <3> QED
      BY <3>1, <3>2, <3>8
  <2>10. ASSUME NEW x \in (DOMAIN dirs \ DOMAIN dirs') \cap done
         PROVE  /\ \A k \in DOMAIN dirs' \cap done : x < k
                /\ Disk!TotalSize(Disk!Restrict(dirs, {k \in done \cap DOMAIN dirs : k >= x})) > MaxDiskMB
    <3>1. x \in Disk!Complete(d) \ DOMAIN dirs' /\ x \in DOMAIN dirs
      BY <2>8
    <3>2. DOMAIN dirs' \cap done \subseteq Disk!Complete(d) \cap DOMAIN dirs'
      BY <1>3, <2>3, <2>8
    <3> HIDE DEF done
    <3> QED
      BY <2>7, <2>9, <3>1, <3>2 DEF OldestOut
  <2>11. Disk!RemovesOldest
    BY <2>10, Zenon DEF Disk!RemovesOldest
  <2> QED
    BY <2>5, <2>11
<1> QED
  BY <1>11, <1>12

(* The others remove nothing.                                                *)
LEMMA NothingGone ==
  ASSUME DOMAIN dirs \subseteq DOMAIN dirs'
  PROVE  Disk!RemovesOldest
  BY DEF Disk!RemovesOldest

(* Every action keeps the numbering, and none removes but the oldest.        *)
LEMMA QuotaNext ==
  ASSUME Metered, QuotaInv, [Disk!Next]_Disk!vars
  PROVE  QuotaInv' /\ Disk!RemovesOldest
<1>1. /\ next \in Nat \ {0} /\ DOMAIN dirs \in SUBSET (1 .. next - 1)
      /\ \A x \in DOMAIN dirs : dirs[x] \in [start : {0, x}, size : Int]
      /\ \A x \in DOMAIN dirs \cap DOMAIN writing : dirs[x].start = 0
  BY DEF QuotaInv
<1>2. ASSUME NEW by \in {"stream", "event"}, Disk!Begin(by) PROVE QuotaInv' /\ DOMAIN dirs \subseteq DOMAIN dirs'
  <2>1. /\ next' = next + 1
        /\ dirs' = [x \in DOMAIN dirs \cup {next} |-> IF x = next THEN [start |-> 0, size |-> 0] ELSE dirs[x]]
        /\ writing' = [x \in DOMAIN writing \cup {next} |-> IF x = next THEN by ELSE writing[x]]
    BY <1>2 DEF Disk!Begin, Disk!Put
  <2>2. DOMAIN dirs' \in SUBSET (1 .. next' - 1) /\ next' \in Nat \ {0}
    BY <1>1, <2>1
  <2>3. ASSUME NEW x \in DOMAIN dirs'
        PROVE  dirs'[x] \in [start : {0, x}, size : Int] /\ (x \in DOMAIN writing' => dirs'[x].start = 0)
    <3>1. CASE x = next
      BY <2>1, <3>1
    <3>2. CASE x # next
      BY <1>1, <2>1, <3>2
    <3> QED
      BY <3>1, <3>2
  <2> QED
    BY <2>1, <2>2, <2>3 DEF QuotaInv
<1>3. ASSUME NEW r \in 1 .. MaxDir, Disk!Grow(r) PROVE QuotaInv' /\ DOMAIN dirs \subseteq DOMAIN dirs'
  <2>1. dirs' = [dirs EXCEPT ![r].size = @ + 1] /\ writing' = writing /\ next' = next /\ r \in DOMAIN dirs
    BY <1>3 DEF Disk!Grow
  <2>2. PICK y : y = [dirs[r] EXCEPT !.size = @ + 1]
    OBVIOUS
  <2>3. y \in [start : {0, r}, size : Int] /\ y.start = dirs[r].start
    BY <1>1, <2>1, <2>2
  <2>4. dirs' = [dirs EXCEPT ![r] = y]
    BY <2>1, <2>2
  <2> QED
    BY <1>1, <2>1, <2>3, <2>4 DEF QuotaInv
<1>4. ASSUME NEW r \in 1 .. MaxDir, NEW m \in Sizes, Disk!EventWrites(r, m)
      PROVE  QuotaInv' /\ DOMAIN dirs \subseteq DOMAIN dirs'
  <2>1. CASE r \in DOMAIN dirs
    <3>1. /\ dirs' = [dirs EXCEPT ![r].size = m] /\ DOMAIN writing' = DOMAIN writing /\ next' = next
      BY <1>4, <2>1 DEF Disk!EventWrites
    <3>2. PICK y : y = [dirs[r] EXCEPT !.size = m]
      OBVIOUS
    <3>3. y \in [start : {0, r}, size : Int] /\ y.start = dirs[r].start
      BY <1>1, <2>1, <3>2 DEF Metered
    <3>4. dirs' = [dirs EXCEPT ![r] = y]
      BY <3>1, <3>2
    <3> QED
      BY <1>1, <3>1, <3>3, <3>4 DEF QuotaInv
  <2>2. CASE r \notin DOMAIN dirs
    <3>1. dirs' = dirs /\ next' = next /\ DOMAIN writing' \subseteq DOMAIN writing
      BY <1>4, <2>2 DEF Disk!EventWrites, Disk!Without, Disk!Restrict
    <3> QED
      BY <1>1, <3>1 DEF QuotaInv
  <2> QED
    BY <2>1, <2>2
<1>5. ASSUME NEW r \in 1 .. MaxDir, Disk!EventMeta(r) PROVE QuotaInv' /\ DOMAIN dirs \subseteq DOMAIN dirs'
  <2>1. /\ next' = next /\ DOMAIN writing' = DOMAIN writing \ {r}
        /\ dirs' = IF r \in DOMAIN dirs THEN [dirs EXCEPT ![r].start = r] ELSE dirs
    BY <1>5 DEF Disk!EventMeta, Disk!Without, Disk!Restrict
  <2>2. CASE r \in DOMAIN dirs
    <3>1. PICK y : y = [dirs[r] EXCEPT !.start = r]
      OBVIOUS
    <3>2. y \in [start : {0, r}, size : Int]
      BY <1>1, <2>2, <3>1
    <3>3. dirs' = [dirs EXCEPT ![r] = y]
      BY <2>1, <2>2, <3>1
    <3> QED
      BY <1>1, <2>1, <3>2, <3>3 DEF QuotaInv
  <2>3. CASE r \notin DOMAIN dirs
    BY <1>1, <2>1, <2>3 DEF QuotaInv
  <2> QED
    BY <2>2, <2>3
<1>6. CASE UNCHANGED Disk!vars
  BY <1>6 DEF Disk!vars, QuotaInv, Disk!RemovesOldest
<1> QED
  BY <1>2, <1>3, <1>4, <1>5, <1>6, NothingGone, CloseSessionStep DEF Disk!Next

(* The quota takes the oldest of the complete recordings, and only as many as *)
(* it must: none goes that would fit with all younger ones (enforceQuota, run *)
(* whenever the streamer closes a session).                                  *)
THEOREM OldestGo == Metered /\ Disk!Spec => Disk!RemovesOnlyOldest
<1>1. Disk!Init => QuotaInv
  BY DEF Disk!Init, QuotaInv
<1>2. Metered /\ QuotaInv /\ [Disk!Next]_Disk!vars => QuotaInv' /\ [Disk!RemovesOldest]_Disk!vars
  BY QuotaNext
<1>3. Metered => Metered'
  BY DEF Metered
<1> QED
  BY <1>1, <1>2, <1>3, PTL DEF Disk!Spec, Disk!RemovesOnlyOldest
-----------------------------------------------------------------------------
(* A ring may hold a sample at all, and so may a block.                      *)
RingSized ==
  /\ Maxes \subseteq Nat \ {0} /\ Chunk \in Nat \ {0} /\ FreeMax \in Nat /\ MaxIngest \in Nat
  /\ TicksPer[1] \in Nat /\ TicksPer[2] \in Nat \ {0}

(* A block lies in a buffer: from an offset on, some samples.                *)
Block == [t0 : Int, buf : Nat, off : Nat, n : Nat]

(* What the ring is made of.                                                 *)
Rings == [max : Nat \ {0}, blocks : Seq(Block), total : Int, free : Seq(Nat)]

(* The sample a block begins with.                                           *)
First(b, m) == m[b.buf][b.off + 1]

(* A block that lies so far in its buffer and begins with that sample is      *)
(* stamped by no more than a capture too late, and by no more than one tick,    *)
(* and one for each sample it has lost, too early.                            *)
Stamped(t0, off, first) ==
  /\ t0 <= IQ!Duration(first - 1) + IQ!Duration(MaxIngest) + 1
  /\ t0 >= IQ!Duration(first - 1) + IQ!Duration(1) - 1 - off

(* A block holds as many samples as it says, one after the other, and has its  *)
(* time.                                                                     *)
Holds(b, m) ==
  /\ Stamped(b.t0, b.off, First(b, m))
  /\ b.n > 0 /\ b.buf \in DOMAIN m /\ b.off + b.n <= Len(m[b.buf])
  /\ \A k \in 1 .. b.n : m[b.buf][b.off + k] = First(b, m) + k - 1

(* Each block follows on the one before, from the first sample to the newest. *)
Chain(bs, m, first, newest) ==
  /\ \A i \in DOMAIN bs : Holds(bs[i], m)
  /\ \A i, j \in DOMAIN bs : j = i + 1 => First(bs[j], m) = First(bs[i], m) + bs[i].n
  /\ bs = <<>> => first = newest + 1
  /\ bs # <<>> => First(bs[1], m) = first /\ First(bs[Len(bs)], m) + bs[Len(bs)].n = newest + 1

(* No buffer is in two places.                                               *)
Separate(bs, free, m) ==
  /\ \A i, j \in DOMAIN bs : i # j => bs[i].buf # bs[j].buf
  /\ \A i, j \in DOMAIN free : i # j => free[i] # free[j]
  /\ \A i \in DOMAIN bs, j \in DOMAIN free : bs[i].buf # free[j]
  /\ \A j \in DOMAIN free : free[j] \in DOMAIN m

(* The ring has the samples from the first to the newest, and its total is the *)
(* number of them.                                                           *)
Keeps(r, m, first, newest) ==
  /\ r \in Rings /\ m \in Seq(Seq(Int)) /\ first \in Int /\ newest \in Int
  /\ Separate(r.blocks, r.free, m)
  /\ Chain(r.blocks, m, first, newest)
  /\ r.total = newest - first + 1

(* A duration is a number.                                                   *)
LEMMA DurationIs ==
  ASSUME RingSized, NEW k \in Int
  PROVE  IQ!Duration(k) \in Int
<1>1. PICK p \in Int : p = k * TicksPer[1]
  BY DEF RingSized
<1>2. PICK q \in Nat \ {0} : q = TicksPer[2]
  BY DEF RingSized
<1>3. p \div q \in Int
  OBVIOUS
<1> QED
  BY <1>1, <1>2, <1>3 DEF IQ!Duration

(* A sum times a factor.                                                     *)
LEMMA Sums ==
  ASSUME NEW x \in Int, NEW a \in Int, NEW b \in Int
  PROVE  (a + b) * x = a * x + b * x /\ a * x \in Int /\ b * x \in Int /\ 1 * x = x
OBVIOUS

(* A factor that is not 0 may be taken off.                                  *)
LEMMA TakeOff ==
  ASSUME NEW q \in Nat \ {0}, NEW a \in Int, NEW b \in Int, a * q < b * q
  PROVE  a < b
<1> SUFFICES ASSUME a >= b PROVE FALSE
  OBVIOUS
<1>1. PICK k \in Nat : a = b + k
  <2>1. a - b \in Nat /\ a = b + (a - b)
    OBVIOUS
  <2> QED
    BY <2>1
<1>2. k * q \in Nat /\ (b + k) * q = b * q + k * q /\ b * q \in Int
  OBVIOUS
<1> QED
  BY <1>1, <1>2

(* A quotient is the greatest number that goes into it.                       *)
LEMMA Quotient ==
  ASSUME NEW a \in Int, NEW q \in Nat \ {0}
  PROVE  \E d \in Int : d = a \div q /\ d * q \in Int /\ d * q <= a /\ a < d * q + q
<1>1. /\ a \div q \in Int /\ a % q \in 0 .. q - 1
      /\ a = q * (a \div q) + (a % q)
  OBVIOUS
<1>2. PICK d \in Int, r \in 0 .. q - 1 : d = a \div q /\ a = q * d + r
  BY <1>1
<1>3. q * d = d * q /\ d * q \in Int
  OBVIOUS
<1> QED
  BY <1>2, <1>3

(* A duration is cut down to a tick.                                         *)
LEMMA Ticks ==
  ASSUME RingSized, NEW k \in Int
  PROVE  \E d \in Int, e \in Int, a \in Int :
            /\ d = IQ!Duration(k) /\ e = d * TicksPer[2] /\ a = k * TicksPer[1]
            /\ e <= a /\ a < e + TicksPer[2]
<1>1. PICK q \in Nat \ {0} : q = TicksPer[2]
  BY DEF RingSized
<1>2. PICK a \in Int : a = k * TicksPer[1]
  BY DEF RingSized
<1>3. PICK d \in Int : d = a \div q /\ d * q \in Int /\ d * q <= a /\ a < d * q + q
  BY Quotient
<1> QED
  BY <1>1, <1>2, <1>3 DEF IQ!Duration

(* Two durations are that of both, but for a tick.                           *)
LEMMA DurationAdds ==
  ASSUME RingSized, NEW k \in Int, NEW l \in Int
  PROVE  /\ IQ!Duration(k) + IQ!Duration(l) <= IQ!Duration(k + l)
         /\ IQ!Duration(k + l) <= IQ!Duration(k) + IQ!Duration(l) + 1
<1>1. PICK p \in Nat, q \in Nat \ {0} : p = TicksPer[1] /\ q = TicksPer[2]
  BY DEF RingSized
<1>2. PICK d \in Int, e \in Int, a \in Int :
        d = IQ!Duration(k) /\ e = d * q /\ a = k * p /\ e <= a /\ a < e + q
  BY <1>1, Ticks
<1>3. PICK d2 \in Int, e2 \in Int, a2 \in Int :
        d2 = IQ!Duration(l) /\ e2 = d2 * q /\ a2 = l * p /\ e2 <= a2 /\ a2 < e2 + q
  BY <1>1, Ticks
<1>4. PICK d3 \in Int, e3 \in Int, a3 \in Int :
        d3 = IQ!Duration(k + l) /\ e3 = d3 * q /\ a3 = (k + l) * p /\ e3 <= a3 /\ a3 < e3 + q
  <2>1. PICK n \in Int : n = k + l
    OBVIOUS
  <2>2. \E d3 \in Int, e3 \in Int, a3 \in Int :
           d3 = IQ!Duration(n) /\ e3 = d3 * q /\ a3 = n * p /\ e3 <= a3 /\ a3 < e3 + q
    BY <1>1, Ticks
  <2> QED
    BY <2>1, <2>2
<1>5. a3 = a + a2
  BY <1>2, <1>3, <1>4, Sums
<1>6. d + d2 < d3 + 1
  <2>1. (d + d2) * q = e + e2 /\ (d3 + 1) * q = e3 + q
    BY <1>2, <1>3, <1>4, Sums
  <2>2. (d + d2) * q < (d3 + 1) * q
    BY <1>2, <1>3, <1>4, <1>5, <2>1
  <2>3. d + d2 \in Int /\ d3 + 1 \in Int
    OBVIOUS
  <2> QED
    BY <2>2, <2>3, TakeOff
<1>7. d3 < d + d2 + 2
  <2>1. (d + d2 + 2) * q = e + e2 + 2 * q /\ d3 * q = e3
    BY <1>2, <1>3, <1>4, Sums
  <2>2. d3 * q < (d + d2 + 2) * q
    BY <1>2, <1>3, <1>4, <1>5, <2>1
  <2>3. d + d2 + 2 \in Int
    OBVIOUS
  <2> QED
    BY <2>2, <2>3, TakeOff
<1> QED
  BY <1>2, <1>3, <1>4, <1>6, <1>7

(* More samples take no less.                                                *)
LEMMA DurationGrows ==
  ASSUME RingSized, NEW k \in Int, NEW l \in Int, k <= l
  PROVE  IQ!Duration(k) <= IQ!Duration(l)
<1>1. PICK n \in Nat : l = k + n
  <2>1. l - k \in Nat /\ l = k + (l - k)
    OBVIOUS
  <2> QED
    BY <2>1
<1>2. IQ!Duration(k) + IQ!Duration(n) <= IQ!Duration(k + n)
  BY DurationAdds
<1>3. IQ!Duration(n) >= 0
  <2>1. PICK p \in Nat, q \in Nat \ {0} : p = TicksPer[1] /\ q = TicksPer[2]
    BY DEF RingSized
  <2>0. n \in Int
    OBVIOUS
  <2>2. PICK d \in Int, e \in Int, a \in Int :
          d = IQ!Duration(n) /\ e = d * q /\ a = n * p /\ e <= a /\ a < e + q
    BY <2>0, <2>1, Ticks
  <2>3. a \in Nat
    BY <2>2
  <2>4. (0 - 1) * q < d * q
    BY <2>2, <2>3
  <2>5. 0 - 1 < d
    BY <2>4, TakeOff
  <2> QED
    BY <2>2, <2>5
<1>4. IQ!Duration(k) \in Int /\ IQ!Duration(n) \in Int /\ IQ!Duration(l) \in Int
  BY DurationIs
<1> QED
  BY <1>1, <1>2, <1>3, <1>4

(* What a block is trimmed by is added to its stamp.                           *)
LEMMA TrimmedStamp ==
  ASSUME RingSized, NEW t0 \in Int, NEW off \in Nat, NEW first \in Int, Stamped(t0, off, first),
         NEW k \in Nat \ {0}
  PROVE  Stamped(t0 + IQ!Duration(k), off + k, first + k)
<1>1. PICK d \in Int : d = IQ!Duration(first - 1)
  BY DurationIs
<1>2. PICK e \in Int : e = IQ!Duration(k)
  BY DurationIs
<1>3. PICK h \in Int : h = IQ!Duration(first + k - 1) /\ d + e <= h /\ h <= d + e + 1
  <2>1. PICK n \in Int : n = first - 1
    OBVIOUS
  <2>2. d + e <= IQ!Duration(n + k) /\ IQ!Duration(n + k) <= d + e + 1
    BY <1>1, <1>2, <2>1, DurationAdds
  <2>3. n + k = first + k - 1 /\ n + k \in Int
    BY <2>1
  <2>4. IQ!Duration(n + k) \in Int
    BY <2>3, DurationIs
  <2> QED
    BY <2>2, <2>3, <2>4
<1>4. IQ!Duration(MaxIngest) \in Int /\ IQ!Duration(1) \in Int
  BY DurationIs DEF RingSized
<1> QED
  BY <1>1, <1>2, <1>3, <1>4 DEF Stamped

(* A capture of n samples behind the newest is stamped at its end.             *)
LEMMA CaptureStamp ==
  ASSUME RingSized, NEW newest \in Int, NEW n \in 1 .. MaxIngest, NEW off \in Nat
  PROVE  Stamped(IQ!Duration(newest + n) + IQ!Duration(off), 0, newest + off + 1)
<1>1. PICK b \in Int, c \in Int : b = IQ!Duration(newest) /\ c = IQ!Duration(off)
  BY DurationIs
<1>2. PICK d \in Int : d = IQ!Duration(newest + n) /\ b + IQ!Duration(n) <= d /\ d <= b + IQ!Duration(n) + 1
  <2>1. n \in Int /\ newest + n \in Int
    OBVIOUS
  <2> QED
    BY <1>1, <2>1, DurationIs, DurationAdds
<1>3. PICK e \in Int : e = IQ!Duration(newest + off) /\ b + c <= e /\ e <= b + c + 1
  <2>1. off \in Int /\ newest + off \in Int
    OBVIOUS
  <2> QED
    BY <1>1, <2>1, DurationIs, DurationAdds
<1>4. PICK h \in Int : h = IQ!Duration(n) /\ IQ!Duration(1) <= h /\ h <= IQ!Duration(MaxIngest)
  BY DurationIs, DurationGrows DEF RingSized
<1>5. IQ!Duration(MaxIngest) \in Int /\ IQ!Duration(1) \in Int
  BY DurationIs DEF RingSized
<1>6. newest + off + 1 - 1 = newest + off
  OBVIOUS
<1> QED
  BY <1>1, <1>2, <1>3, <1>4, <1>5, <1>6 DEF Stamped

(* A free list takes up a buffer that is nowhere else.                       *)
LEMMA FreedIs ==
  ASSUME NEW free \in Seq(Nat), NEW buf \in Nat, NEW bs, NEW m, Separate(bs, free, m),
         buf \in DOMAIN m, \A i \in DOMAIN bs : bs[i].buf # buf, \A j \in DOMAIN free : free[j] # buf
  PROVE  IQ!Freed(free, buf) \in Seq(Nat) /\ Separate(bs, IQ!Freed(free, buf), m)
<1>1. CASE Len(free) < FreeMax
  <2>1. PICK fr : fr = Append(free, buf)
    OBVIOUS
  <2>2. IQ!Freed(free, buf) = fr
    BY <1>1, <2>1 DEF IQ!Freed
  <2>3. /\ fr \in Seq(Nat) /\ DOMAIN fr = 1 .. Len(free) + 1 /\ DOMAIN free = 1 .. Len(free)
        /\ \A j \in DOMAIN fr : fr[j] = IF j \in DOMAIN free THEN free[j] ELSE buf
    BY <2>1
  <2>4. \A i, j \in DOMAIN fr : i # j => i \in DOMAIN free \/ j \in DOMAIN free
    BY <2>3
  <2>5. Separate(bs, fr, m)
    BY <2>3, <2>4 DEF Separate
  <2> QED
    BY <2>2, <2>3, <2>5
<1>2. CASE ~(Len(free) < FreeMax)
  BY <1>2 DEF IQ!Freed
<1> QED
  BY <1>1, <1>2

(* What a step of the eviction leaves: less, but not too little.             *)
LEMMA TrimHeadIs ==
  ASSUME RingSized, NEW r, NEW m, NEW first, NEW newest, Keeps(r, m, first, newest), r.total > r.max
  PROVE  \E g \in Int : \E x :
                           /\ x = IQ!TrimHead(r) /\ x.max = r.max
                           /\ g > first /\ g <= newest - r.max + 1
                           /\ Keeps(x, m, g, newest)
                           /\ x.total <= x.max \/ Len(x.blocks) = Len(r.blocks) - 1
<1> DEFINE bs == r.blocks
           b == Head(r.blocks)
           over == r.total - r.max
<1>1. /\ r.max \in Nat \ {0} /\ bs \in Seq(Block) /\ r.total \in Int /\ r.free \in Seq(Nat)
      /\ m \in Seq(Seq(Int)) /\ first \in Int /\ newest \in Int
      /\ r.total = newest - first + 1
      /\ Separate(bs, r.free, m) /\ Chain(bs, m, first, newest)
  BY DEF Keeps, Rings
<1>2. bs # <<>>
  BY <1>1 DEF Chain
<1>3. /\ b = bs[1] /\ 1 \in DOMAIN bs /\ b \in Block /\ DOMAIN bs = 1 .. Len(bs) /\ Len(bs) \in Nat \ {0}
      /\ Holds(b, m) /\ First(b, m) = first
  BY <1>1, <1>2 DEF Chain
<1> HIDE DEF b, over
<1>4. /\ b.t0 \in Int /\ b.buf \in Nat /\ b.off \in Nat /\ b.n \in Nat \ {0} /\ b.buf \in DOMAIN m
      /\ over \in Nat \ {0} /\ over = newest - first + 1 - r.max
  <2>1. b.t0 \in Int /\ b.buf \in Nat /\ b.off \in Nat /\ b.n \in Nat
    BY <1>3 DEF Block
  <2>2. b.n > 0 /\ b.buf \in DOMAIN m
    BY <1>3 DEF Holds
  <2>3. over \in Nat \ {0} /\ over = newest - first + 1 - r.max
    BY <1>1 DEF over
  <2> QED
    BY <2>1, <2>2, <2>3
<1>5. /\ Tail(bs) \in Seq(Block) /\ Len(Tail(bs)) = Len(bs) - 1 /\ DOMAIN Tail(bs) = 1 .. Len(bs) - 1
      /\ \A i \in 1 .. Len(bs) - 1 : Tail(bs)[i] = bs[i + 1]
  BY <1>1, <1>2, <1>3
<1> DEFINE mx == r.max
           bn == b.n
<1>8. mx \in Nat \ {0} /\ bn \in Nat \ {0} /\ mx = r.max /\ bn = b.n
      /\ first \in Int /\ newest \in Int /\ over \in Nat \ {0} /\ over = newest - first + 1 - mx
      /\ r.total = newest - first + 1
  BY <1>1, <1>4
<1> HIDE DEF mx, bn
<1>6. CASE over >= b.n
  <2>1. PICK t : t = Tail(bs)
    OBVIOUS
  <2>2. PICK free : free = IQ!Freed(r.free, b.buf)
    OBVIOUS
  <2>3. PICK x : x = [max |-> r.max, blocks |-> t, total |-> r.total - b.n, free |-> free]
    OBVIOUS
  <2>4. IQ!TrimHead(r) = x
    BY <1>6, <2>1, <2>2, <2>3 DEF IQ!TrimHead, b, over
  <2>5. PICK len \in Nat : len = Len(bs) - 1
    <3>1. PICK all : all = Len(bs) /\ all \in Nat \ {0}
      BY <1>3
    <3>2. all - 1 \in Nat
      BY <3>1
    <3> QED
      BY <3>1, <3>2
  <2>6. /\ t \in Seq(Block) /\ Len(t) = len /\ DOMAIN t = 1 .. len
        /\ \A i \in DOMAIN t : i + 1 \in DOMAIN bs /\ i + 1 # 1 /\ t[i] = bs[i + 1]
    BY <1>3, <1>5, <2>1, <2>5
  <2>7. Separate(t, r.free, m) /\ (\A i \in DOMAIN t : t[i].buf # b.buf)
        /\ (\A j \in DOMAIN r.free : r.free[j] # b.buf)
    <3>1. \A i, j \in DOMAIN t : i # j => i + 1 # j + 1
      BY <2>6
    <3>2. \A i, j \in DOMAIN t : i # j => t[i].buf # t[j].buf
      BY <1>1, <2>6, <3>1 DEF Separate
    <3>0. /\ \A i \in DOMAIN bs : \A j \in DOMAIN r.free : bs[i].buf # r.free[j]
          /\ \A i \in DOMAIN bs : i # 1 => bs[i].buf # bs[1].buf
      BY <1>1, <1>3 DEF Separate
    <3>3. ASSUME NEW i \in DOMAIN t PROVE \A j \in DOMAIN r.free : t[i].buf # r.free[j]
      <4>1. PICK i2 \in DOMAIN bs : t[i] = bs[i2]
        BY <2>6
      <4> QED
        BY <3>0, <4>1
    <3>4. Separate(t, r.free, m)
      BY <1>1, <3>2, <3>3 DEF Separate
    <3>5. \A i \in DOMAIN t : t[i].buf # b.buf
      BY <1>3, <2>6, <3>0
    <3>6. \A j \in DOMAIN r.free : r.free[j] # b.buf
      BY <1>3, <3>0
    <3> QED
      BY <3>4, <3>5, <3>6
  <2>8. free \in Seq(Nat) /\ Separate(t, free, m)
    BY <1>1, <1>4, <2>2, <2>7, FreedIs
  <2>9. Chain(t, m, first + b.n, newest)
    <3>1. \A i \in DOMAIN t : Holds(t[i], m)
      BY <1>1, <2>6 DEF Chain
    <3>2. ASSUME NEW i \in DOMAIN t, NEW j \in DOMAIN t, j = i + 1
          PROVE  First(t[j], m) = First(t[i], m) + t[i].n
      <4>1. PICK i2 \in DOMAIN bs : i2 = i + 1 /\ t[i] = bs[i2]
        BY <2>6
      <4>2. PICK j2 \in DOMAIN bs : j2 = j + 1 /\ t[j] = bs[j2]
        BY <2>6
      <4>3. j2 = i2 + 1
        BY <3>2, <4>1, <4>2
      <4> QED
        BY <1>1, <4>1, <4>2, <4>3 DEF Chain
    <3>3. CASE len = 0
      <4>1. t = <<>>
        BY <2>6, <3>3
      <4>2. Len(bs) = 1
        BY <1>3, <2>5, <3>3
      <4>3. first + b.n = newest + 1
        BY <1>1, <1>2, <1>3, <4>2 DEF Chain
      <4> QED
        BY <3>1, <3>2, <4>1, <4>3 DEF Chain
    <3>4. CASE len # 0
      <4>1. t # <<>> /\ 1 \in DOMAIN t /\ len \in DOMAIN t /\ Len(t) = len /\ len + 1 = Len(bs)
        <5>1. 1 \in 1 .. len /\ len \in 1 .. len
          BY <3>4
        <5>2. len + 1 = Len(bs)
          BY <1>3, <2>5
        <5> QED
          BY <2>6, <3>4, <5>1, <5>2
      <4>2. PICK two \in DOMAIN bs : two = 1 + 1 /\ t[1] = bs[two]
        BY <2>6, <4>1
      <4>3. First(t[1], m) = first + b.n
        BY <1>1, <1>3, <4>2 DEF Chain
      <4>4. t[len] = bs[Len(bs)]
        BY <2>6, <4>1
      <4>5. First(t[Len(t)], m) + t[Len(t)].n = newest + 1
        BY <1>1, <1>2, <4>1, <4>4 DEF Chain
      <4> QED
        BY <3>1, <3>2, <4>1, <4>3, <4>5 DEF Chain
    <3> QED
      BY <3>3, <3>4
  <2>10. PICK g \in Int : g = first + b.n
    <3>1. first + bn \in Int
      BY <1>8
    <3> QED
      BY <1>8, <3>1
  <2>11. /\ x.max = r.max /\ x.blocks = t /\ x.total = r.total - b.n /\ x.free = free
         /\ x \in Rings
    <3>1. x.max = r.max /\ x.blocks = t /\ x.total = r.total - b.n /\ x.free = free
      BY <2>3
    <3>2. PICK total \in Int : total = r.total - b.n
      <4>1. (newest - first + 1) - bn \in Int
        BY <1>8
      <4> QED
        BY <1>8, <4>1
    <3>3. x = [max |-> mx, blocks |-> t, total |-> total, free |-> free]
      BY <1>8, <2>3, <3>2
    <3>4. x \in Rings
      BY <1>8, <2>6, <2>8, <3>2, <3>3 DEF Rings
    <3> QED
      BY <3>1, <3>4
  <2>12. x.total = newest - g + 1 /\ g > first /\ g <= newest - r.max + 1
    <3>1. g = first + bn /\ over >= bn /\ x.max = mx /\ x.total = newest - first + 1 - bn
      BY <1>6, <1>8, <2>10, <2>11
    <3>2. newest - first + 1 - bn = newest - g + 1 /\ g > first /\ g <= newest - mx + 1
      BY <1>8, <3>1
    <3> QED
      BY <1>8, <3>1, <3>2
  <2>13. Keeps(x, m, g, newest)
    BY <1>1, <2>8, <2>9, <2>10, <2>11, <2>12 DEF Keeps
  <2>14. Len(x.blocks) = Len(r.blocks) - 1
    BY <2>5, <2>6, <2>11
  <2> QED
    BY <2>4, <2>11, <2>12, <2>13, <2>14
<1>7. CASE over < b.n
  <2>1. PICK nb : nb = IQ!Trimmed(b, over)
    OBVIOUS
  <2>2. PICK t : t = <<nb>> \o Tail(bs)
    OBVIOUS
  <2>3. PICK x : x = [max |-> r.max, blocks |-> t, total |-> r.max, free |-> r.free]
    OBVIOUS
  <2>4. IQ!TrimHead(r) = x
    BY <1>4, <1>7, <2>1, <2>2, <2>3 DEF IQ!TrimHead, b, over
  <2>5. /\ nb \in Block /\ nb.buf = b.buf /\ nb.off = b.off + over /\ nb.n = b.n - over
    BY <1>4, <1>7, <2>1, DurationIs DEF IQ!Trimmed, Block
  <2>6. /\ t \in Seq(Block) /\ Len(t) = Len(bs) /\ DOMAIN t = DOMAIN bs /\ t[1] = nb
        /\ \A i \in DOMAIN bs : i # 1 => t[i] = bs[i]
    BY <1>3, <1>5, <2>2, <2>5
  <2>0. Stamped(nb.t0, nb.off, first + over)
    <3>1. Stamped(b.t0, b.off, first)
      BY <1>3 DEF Holds
    <3>2. Stamped(b.t0 + IQ!Duration(over), b.off + over, first + over)
      BY <1>1, <1>4, <3>1, TrimmedStamp
    <3> QED
      BY <2>1, <2>5, <3>2 DEF IQ!Trimmed
  <2>7. First(nb, m) = first + over /\ Holds(nb, m)
    <3>1. PICK cells : cells = m[b.buf]
      OBVIOUS
    <3>2. /\ \A k \in 1 .. b.n : cells[b.off + k] = first + k - 1
          /\ b.off + b.n <= Len(cells)
      BY <1>3, <3>1 DEF Holds
    <3>3. ASSUME NEW k \in 1 .. nb.n PROVE cells[nb.off + k] = first + over + k - 1
      <4>1. over + k \in 1 .. b.n /\ nb.off + k = b.off + (over + k)
        BY <1>4, <2>5, <3>3
      <4>2. cells[b.off + (over + k)] = first + (over + k) - 1
        BY <3>2, <4>1
      <4> QED
        <5>1. k \in Int
          OBVIOUS
        <5>2. first + (over + k) - 1 = first + over + k - 1
          BY <1>8, <5>1
        <5> QED
          BY <4>1, <4>2, <5>2
    <3>4. 1 \in 1 .. nb.n /\ nb.n > 0 /\ nb.off + nb.n <= Len(cells)
      <4>1. cells \in Seq(Int)
        BY <1>1, <1>4, <3>1
      <4>2. PICK off \in Nat : off = b.off
        BY <1>4
      <4>3. PICK length \in Nat : length = Len(cells)
        BY <4>1
      <4>4. nb.n = bn - over /\ nb.off = off + over /\ off + bn <= length /\ over < bn
        BY <1>7, <1>8, <2>5, <3>2, <4>2, <4>3
      <4>5. bn - over > 0 /\ 1 \in 1 .. bn - over /\ (off + over) + (bn - over) <= length
        <5>1. bn \in Int /\ over \in Int /\ off \in Int
          BY <1>8, <4>2
        <5>2. PICK rest \in Int : rest = bn - over /\ rest > 0
          BY <4>4, <5>1
        <5>3. (off + over) + rest = off + bn
          BY <5>1, <5>2
        <5> QED
          BY <4>4, <5>2, <5>3
      <4> QED
        BY <4>3, <4>4, <4>5
    <3>5. cells[nb.off + 1] = first + over
      <4>1. cells[nb.off + 1] = first + over + 1 - 1
        BY <3>3, <3>4
      <4>2. first + over + 1 - 1 = first + over
        BY <1>8
      <4> QED
        BY <4>1, <4>2
    <3>6. First(nb, m) = first + over
      BY <2>5, <3>1, <3>5 DEF First
    <3> QED
      BY <1>4, <2>0, <2>5, <3>1, <3>3, <3>4, <3>6 DEF Holds
  <2>8. Separate(t, r.free, m)
    <3>1. \A i \in DOMAIN bs : t[i].buf = bs[i].buf
      BY <1>3, <2>5, <2>6
    <3> QED
      BY <1>1, <2>6, <3>1 DEF Separate
  <2>9. Chain(t, m, first + over, newest)
    <3>1. \A i \in DOMAIN t : Holds(t[i], m)
      BY <1>1, <2>6, <2>7 DEF Chain
    <3>2. \A i \in DOMAIN bs : First(t[i], m) + t[i].n = First(bs[i], m) + bs[i].n
      <4>1. First(nb, m) + nb.n = First(b, m) + b.n
        <5>1. nb.n = bn - over /\ First(nb, m) = first + over /\ First(b, m) = first
          BY <1>3, <1>8, <2>5, <2>7
        <5>2. (first + over) + (bn - over) = first + bn
          BY <1>8
        <5> QED
          BY <1>8, <5>1, <5>2
      <4> QED
        BY <1>3, <2>6, <4>1
    <3>3. ASSUME NEW i \in DOMAIN t, NEW j \in DOMAIN t, j = i + 1
          PROVE  First(t[j], m) = First(t[i], m) + t[i].n
      <4>1. j # 1
        BY <1>3, <2>6, <3>3
      <4>2. First(bs[j], m) = First(bs[i], m) + bs[i].n
        BY <1>1, <2>6, <3>3 DEF Chain
      <4> QED
        BY <2>6, <3>2, <4>1, <4>2
    <3>4. t # <<>> /\ Len(t) \in DOMAIN bs
      BY <1>3, <2>6
    <3>5. First(t[Len(t)], m) + t[Len(t)].n = newest + 1
      BY <1>1, <1>2, <2>6, <3>2, <3>4 DEF Chain
    <3> QED
      BY <2>6, <2>7, <3>1, <3>3, <3>4, <3>5 DEF Chain
  <2>10. PICK g \in Int : g = first + over
    BY <1>1, <1>4
  <2>11. /\ x.max = r.max /\ x.blocks = t /\ x.total = r.max /\ x.free = r.free
         /\ x \in Rings
    BY <1>1, <2>3, <2>6 DEF Rings
  <2>12. x.total = newest - g + 1 /\ g > first /\ g <= newest - r.max + 1 /\ x.total <= x.max
    <3>1. g = first + over /\ x.max = mx /\ x.total = mx
      BY <1>8, <2>10, <2>11
    <3>2. mx = newest - g + 1 /\ g > first /\ g <= newest - mx + 1 /\ mx <= mx
      BY <1>8, <3>1
    <3> QED
      BY <1>8, <3>1, <3>2
  <2>13. Keeps(x, m, g, newest)
    BY <1>1, <2>8, <2>9, <2>10, <2>11, <2>12 DEF Keeps
  <2> QED
    BY <2>4, <2>11, <2>12, <2>13
<1> QED
  BY <1>4, <1>6, <1>7
-----------------------------------------------------------------------------
(* The loop of Push goes through as many steps as there are blocks.          *)
LEMMA EvictSteps ==
  ASSUME NEW r, NEW n \in Nat, DOMAIN r.blocks = 1 .. n
  PROVE  \E f : GoesThrough("evict", r, r, r.blocks, n, f) /\ IQ!Evict(r) = f[n]
<1> DEFINE iter == CHOOSE g : Iterates("evict", r, r, r.blocks, g)
<1>1. IQ!Evict(r) = iter[DOMAIN r.blocks]
  BY DEF IQ!Evict, IQ!FoldLeft, IQ!MapThenFoldSet, IQ!Max, Iterates, Step, Evicting, Top
<1>2. Iterates("evict", r, r, r.blocks, iter)
  <2>1. \E g : Iterates("evict", r, r, r.blocks, g)
    BY IterExists, Zenon
  <2> QED
    BY <2>1, Zenon
<1> HIDE DEF iter
<1>3. PICK f : GoesThrough("evict", r, r, r.blocks, n, f) /\ iter[DOMAIN r.blocks] = f[n]
  BY <1>2, FoldSteps
<1> QED
  BY <1>1, <1>3

(* What has been evicted after k steps from a ring of n blocks.              *)
Evicted(x, m, max, n, k, first, g, newest) ==
  /\ x.max = max /\ Keeps(x, m, g, newest)
  /\ g = first \/ (g > first /\ g <= newest - max + 1)
  /\ x.total <= max \/ Len(x.blocks) = n - k

(* Push's loop leaves the newest samples, as many as the ring may hold.      *)
LEMMA EvictIs ==
  ASSUME RingSized, NEW r, NEW m, NEW first, NEW newest, Keeps(r, m, first, newest)
  PROVE  \E g \in Int : /\ Keeps(IQ!Evict(r), m, g, newest) /\ IQ!Evict(r).max = r.max
                        /\ g = IF newest - r.max + 1 > first THEN newest - r.max + 1 ELSE first
<1>1. /\ r.max \in Nat \ {0} /\ r.blocks \in Seq(Block) /\ r.total \in Int
      /\ first \in Int /\ newest \in Int
  BY DEF Keeps, Rings
<1>2. PICK n \in Nat : n = Len(r.blocks) /\ DOMAIN r.blocks = 1 .. n
  BY <1>1
<1>3. PICK f : GoesThrough("evict", r, r, r.blocks, n, f) /\ IQ!Evict(r) = f[n]
  BY <1>2, EvictSteps
<1>4. f[0] = r /\ \A k \in 1 .. n : f[k] = Evicting(f[k - 1])
  BY <1>3 DEF GoesThrough, Step
<1>5. PICK max \in Nat \ {0} : max = r.max
  BY <1>1
<1> DEFINE good == {k \in 0 .. n : \E g \in Int : Evicted(f[k], m, max, n, k, first, g, newest)}
<1>6. 0 \in good
  <2>1. Evicted(r, m, max, n, 0, first, first, newest)
    BY <1>1, <1>2, <1>5 DEF Evicted
  <2> QED
    BY <1>1, <1>4, <2>1
<1>7. ASSUME NEW k \in Nat, k < n, k \in good PROVE k + 1 \in good
  <2>1. PICK l \in 1 .. n : l = k + 1
    BY <1>7
  <2>2. PICK y : y = f[k]
    OBVIOUS
  <2>3. PICK x : x = f[l]
    OBVIOUS
  <2>4. x = Evicting(y)
    BY <1>4, <2>1, <2>2, <2>3
  <2>5. PICK h \in Int : Evicted(y, m, max, n, k, first, h, newest)
    BY <1>7, <2>2
  <2>6. /\ y.max = max /\ Keeps(y, m, h, newest)
        /\ h = first \/ (h > first /\ h <= newest - max + 1)
        /\ y.total <= max \/ Len(y.blocks) = n - k
    BY <2>5 DEF Evicted
  <2>7. y.total \in Int
    BY <2>6 DEF Keeps, Rings
  <2>8. CASE y.total <= max
    <3>1. x = y
      BY <2>4, <2>6, <2>7, <2>8 DEF Evicting
    <3>2. Evicted(x, m, max, n, l, first, h, newest)
      BY <2>6, <2>8, <3>1 DEF Evicted
    <3> QED
      BY <2>1, <2>3, <3>2
  <2>9. CASE y.total > max
    <3>1. x = IQ!TrimHead(y)
      BY <2>4, <2>6, <2>9 DEF Evicting
    <3>2. PICK g \in Int : /\ x.max = y.max /\ g > h /\ g <= newest - y.max + 1
                           /\ Keeps(x, m, g, newest)
                           /\ x.total <= x.max \/ Len(x.blocks) = Len(y.blocks) - 1
      BY <2>6, <2>9, <3>1, TrimHeadIs
    <3>3. g > first /\ g <= newest - max + 1
      BY <1>1, <2>6, <3>2
    <3>4. x.total <= max \/ Len(x.blocks) = n - l
      <4>1. Len(y.blocks) = n - k
        BY <2>6, <2>7, <2>9
      <4> QED
        BY <2>1, <2>6, <3>2, <4>1
    <3>5. Evicted(x, m, max, n, l, first, g, newest)
      BY <2>6, <3>2, <3>3, <3>4 DEF Evicted
    <3> QED
      BY <2>1, <2>3, <3>5
  <2> QED
    BY <2>7, <2>8, <2>9
<1>8. n \in good
  <2> HIDE DEF good
  <2>1. \A k \in 0 .. n : k \in good
    BY <1>6, <1>7, Induction
  <2> QED
    BY <2>1
<1>9. PICK x : x = f[n]
  OBVIOUS
<1>10. PICK g \in Int : Evicted(x, m, max, n, n, first, g, newest)
  BY <1>8, <1>9
<1>11. /\ x.max = max /\ Keeps(x, m, g, newest)
       /\ g = first \/ (g > first /\ g <= newest - max + 1)
       /\ x.total <= max \/ Len(x.blocks) = 0
  BY <1>10 DEF Evicted
<1>12. x.total = newest - g + 1 /\ x.blocks \in Seq(Block)
  BY <1>11 DEF Keeps, Rings
<1>13. newest - g + 1 <= max
  <2>1. CASE x.total <= max
    BY <1>12, <2>1
  <2>2. CASE Len(x.blocks) = 0
    <3>1. x.blocks = <<>>
      BY <1>12, <2>2
    <3>2. g = newest + 1
      BY <1>11, <3>1 DEF Keeps, Chain
    <3> QED
      BY <1>1, <1>5, <3>2
  <2> QED
    BY <1>11, <2>1, <2>2
<1>14. g = IF newest - max + 1 > first THEN newest - max + 1 ELSE first
  BY <1>1, <1>11, <1>13
<1> QED
  BY <1>3, <1>5, <1>9, <1>11, <1>14

(* A buffer that fits, which is nowhere else, and the rest as it was.        *)
Fits(g, bs, m, n) ==
  /\ g.mem \in Seq(Seq(Int)) /\ g.free \in Seq(Nat)
  /\ g.buf \in DOMAIN g.mem /\ n <= Len(g.mem[g.buf])
  /\ \A j \in DOMAIN m : j \in DOMAIN g.mem /\ g.mem[j] = m[j]
  /\ Separate(bs, g.free, g.mem)
  /\ \A i \in DOMAIN bs : bs[i].buf # g.buf
  /\ \A j \in DOMAIN g.free : g.free[j] # g.buf

(* What getBufLocked gives is in use by no block and not free any more.      *)
LEMMA GetBufIs ==
  ASSUME NEW bs, NEW free \in Seq(Nat), NEW m \in Seq(Seq(Int)), NEW n \in Nat,
         Separate(bs, free, m), \A i \in DOMAIN bs : bs[i].buf \in DOMAIN m
  PROVE  Fits(IQ!GetBuf(free, m, n), bs, m, n)
<1> DEFINE fit == {i \in DOMAIN free : Len(m[free[i]]) >= n}
<1>1. PICK g : g = IQ!GetBuf(free, m, n)
  OBVIOUS
<1>2. PICK len \in Nat : len = Len(free) /\ DOMAIN free = 1 .. len
  OBVIOUS
<1>3. PICK top \in Nat : top = Len(m) /\ DOMAIN m = 1 .. top
  OBVIOUS
<1>4. CASE fit = {}
  <2>1. PICK new : new = [i \in 1 .. n |-> 0]
    OBVIOUS
  <2>2. new \in Seq(Int) /\ Len(new) = n
    BY <2>1
  <2>3. PICK mm : mm = Append(m, new)
    OBVIOUS
  <2>4. g = [buf |-> top + 1, free |-> free, mem |-> mm]
    BY <1>1, <1>3, <1>4, <2>1, <2>3 DEF IQ!GetBuf
  <2>5. /\ mm \in Seq(Seq(Int)) /\ DOMAIN mm = 1 .. top + 1 /\ mm[top + 1] = new
        /\ \A j \in 1 .. top : mm[j] = m[j]
    BY <1>3, <2>2, <2>3
  <2>6. top + 1 \in 1 .. top + 1 /\ top + 1 \notin DOMAIN m /\ \A j \in DOMAIN m : j \in 1 .. top + 1
    BY <1>3
  <2>7. g.buf = top + 1 /\ g.free = free /\ g.mem = mm
    BY <2>4
  <2>8. Separate(bs, free, mm)
    BY <2>5, <2>6 DEF Separate
  <2>9. \A j \in DOMAIN free : free[j] # top + 1
    BY <2>6 DEF Separate
  <2>10. \A i \in DOMAIN bs : bs[i].buf # top + 1
    BY <2>6
  <2>11. n <= Len(mm[top + 1])
    BY <2>2, <2>5
  <2>12. Fits(g, bs, m, n)
    BY <1>3, <2>5, <2>6, <2>7, <2>8, <2>9, <2>10, <2>11 DEF Fits
  <2> QED
    BY <1>1, <2>12
<1>5. CASE fit # {}
  <2>1. PICK i : i = CHOOSE k \in fit : \A j \in fit : j <= k
    OBVIOUS
  <2>2. i \in fit
    <3>1. \A k \in fit : k \in 1 .. len
      BY <1>2
    <3>2. fit \in SUBSET (1 .. len)
      BY <3>1
    <3> HIDE DEF fit
    <3>3. PICK U : U = {k \in Nat : \A y \in fit : y <= k}
      OBVIOUS
    <3>4. Top(fit) \in fit /\ \A y \in fit : y <= Top(fit)
      BY <1>5, <3>2, MaxIs
    <3> QED
      BY <2>1, <3>4
  <2>3. i \in 1 .. len /\ n <= Len(m[free[i]])
    BY <1>2, <2>2
  <2>4. PICK fr : fr = [j \in 1 .. len - 1 |-> IF j = i THEN free[len] ELSE free[j]]
    OBVIOUS
  <2>5. PICK b : b = free[i]
    OBVIOUS
  <2>6. g = [buf |-> b, mem |-> m, free |-> fr]
    BY <1>1, <1>2, <1>5, <2>1, <2>4, <2>5 DEF IQ!GetBuf
  <2>7. g.buf = b /\ g.mem = m /\ g.free = fr
    BY <2>6
  <2>8. len - 1 \in Nat /\ len \in 1 .. len /\ \A j \in 1 .. len - 1 : j \in 1 .. len /\ j # len
    BY <2>3
  <2>9. fr \in Seq(Nat) /\ DOMAIN fr = 1 .. len - 1
    <3>1. \A j \in 1 .. len : free[j] \in Nat
      BY <1>2
    <3>2. fr \in [1 .. len - 1 -> Nat]
      BY <2>4, <2>8, <3>1
    <3>3. PICK l \in Nat : l = len - 1
      BY <2>8
    <3>4. fr \in [1 .. l -> Nat]
      BY <3>2, <3>3
    <3>5. fr \in Seq(Nat) /\ DOMAIN fr = 1 .. l
      BY <3>4
    <3> QED
      BY <3>3, <3>5
  (* Where what is in place j of the new list was in the old one.            *)
  <2> DEFINE was == [j \in 1 .. len - 1 |-> IF j = i THEN len ELSE j]
  <2>10. /\ \A j \in 1 .. len - 1 : was[j] \in 1 .. len /\ fr[j] = free[was[j]] /\ was[j] # i
         /\ \A j, k \in 1 .. len - 1 : j # k => was[j] # was[k]
    BY <2>4, <2>8
  <2> HIDE DEF was
  <2>15. /\ \A j, k \in 1 .. len : j # k => free[j] # free[k]
         /\ \A k \in DOMAIN bs : \A j \in 1 .. len : bs[k].buf # free[j]
         /\ \A j \in 1 .. len : free[j] \in DOMAIN m
         /\ \A j, k \in DOMAIN bs : j # k => bs[j].buf # bs[k].buf
    <3>1. \A j, k \in 1 .. len : j # k => free[j] # free[k]
      BY <1>2 DEF Separate
    <3>2. \A k \in DOMAIN bs : \A j \in 1 .. len : bs[k].buf # free[j]
      BY <1>2 DEF Separate
    <3>3. \A j \in 1 .. len : free[j] \in DOMAIN m
      BY <1>2 DEF Separate
    <3>4. \A j, k \in DOMAIN bs : j # k => bs[j].buf # bs[k].buf
      BY <1>2 DEF Separate
    <3> QED
      BY <3>1, <3>2, <3>3, <3>4
  <2>11. Separate(bs, fr, m)
    <3>1. \A k \in DOMAIN bs : \A j \in 1 .. len - 1 : bs[k].buf # fr[j]
      <4>1. ASSUME NEW k \in DOMAIN bs, NEW j \in 1 .. len - 1 PROVE bs[k].buf # fr[j]
        <5>1. PICK l \in 1 .. len : fr[j] = free[l]
          BY <2>10
        <5> QED
          BY <2>15, <5>1
      <4> QED
        BY <4>1
    <3>2. ASSUME NEW j \in 1 .. len - 1, NEW k \in 1 .. len - 1, j # k PROVE fr[j] # fr[k]
      <4>1. PICK p \in 1 .. len : p = was[j] /\ fr[j] = free[p]
        BY <2>10
      <4>2. PICK q \in 1 .. len : q = was[k] /\ fr[k] = free[q]
        BY <2>10
      <4>3. p # q
        BY <2>10, <3>2, <4>1, <4>2
      <4> QED
        BY <2>15, <4>1, <4>2, <4>3
    <3>3. \A j \in 1 .. len - 1 : fr[j] \in DOMAIN m
      BY <2>10, <2>15
    <3> QED
      BY <2>9, <2>15, <3>1, <3>2, <3>3 DEF Separate
  <2>12. b \in DOMAIN m /\ \A k \in DOMAIN bs : bs[k].buf # b
    BY <2>3, <2>5, <2>15
  <2>13. ASSUME NEW j \in DOMAIN fr PROVE fr[j] # b
    <3>1. PICK l \in 1 .. len : l = was[j] /\ fr[j] = free[l] /\ l # i
      BY <2>9, <2>10
    <3> QED
      BY <2>3, <2>5, <2>15, <3>1
  <2>14. Fits(g, bs, m, n)
    BY <2>3, <2>5, <2>7, <2>9, <2>11, <2>12, <2>13 DEF Fits
  <2> QED
    BY <1>1, <2>14
<1> QED
  BY <1>4, <1>5

(* A block that is not the one just written holds what it held.              *)
LEMMA HeldStill ==
  ASSUME NEW b, NEW m, NEW mm, Holds(b, m), b.buf \in DOMAIN mm, mm[b.buf] = m[b.buf]
  PROVE  Holds(b, mm) /\ First(b, mm) = First(b, m)
  BY DEF Holds, First

(* A block after the newest sample makes the chain longer.                   *)
LEMMA ChainOn ==
  ASSUME NEW bs \in Seq(Block), NEW m, NEW first \in Int, NEW newest \in Int, Chain(bs, m, first, newest),
         NEW mm, \A i \in DOMAIN bs : bs[i].buf \in DOMAIN mm /\ mm[bs[i].buf] = m[bs[i].buf],
         NEW blk \in Block, Holds(blk, mm), First(blk, mm) = newest + 1,
         NEW b \in Int, blk.n = b - newest
  PROVE  Chain(Append(bs, blk), mm, first, b)
<1>1. PICK len \in Nat : len = Len(bs) /\ DOMAIN bs = 1 .. len
  OBVIOUS
<1>2. PICK all : all = Append(bs, blk)
  OBVIOUS
<1>3. PICK top \in Nat \ {0} : top = len + 1
  OBVIOUS
<1>4. /\ DOMAIN all = 1 .. top /\ Len(all) = top /\ all[top] = blk /\ all \in Seq(Block)
      /\ \A i \in 1 .. len : all[i] = bs[i]
      /\ \A i \in 1 .. top : i = top \/ i \in 1 .. len
      /\ top \in 1 .. top /\ all # <<>>
  BY <1>1, <1>2, <1>3
<1>5. ASSUME NEW i \in 1 .. len PROVE Holds(all[i], mm) /\ First(all[i], mm) = First(bs[i], m) /\ all[i].n = bs[i].n
  <2>1. Holds(bs[i], m)
    BY <1>1 DEF Chain
  <2>2. bs[i].buf \in DOMAIN mm /\ mm[bs[i].buf] = m[bs[i].buf]
    BY <1>1
  <2>3. Holds(bs[i], mm) /\ First(bs[i], mm) = First(bs[i], m)
    BY <2>1, <2>2, HeldStill
  <2> QED
    BY <1>4, <2>3
<1>6. \A i \in DOMAIN all : Holds(all[i], mm)
  BY <1>4, <1>5
<1>7. ASSUME NEW i \in DOMAIN all, NEW j \in DOMAIN all, j = i + 1
      PROVE  First(all[j], mm) = First(all[i], mm) + all[i].n
  <2>1. i \in 1 .. len
    BY <1>3, <1>4, <1>7
  <2>2. CASE j = top
    <3>1. i = len /\ bs # <<>>
      BY <1>1, <1>3, <1>7, <2>1, <2>2
    <3>2. First(bs[len], m) + bs[len].n = newest + 1
      BY <1>1, <3>1 DEF Chain
    <3> QED
      BY <1>4, <1>5, <2>1, <2>2, <3>1, <3>2
  <2>3. CASE j # top
    <3>1. j \in 1 .. len
      BY <1>4, <2>3
    <3>2. First(bs[j], m) = First(bs[i], m) + bs[i].n
      BY <1>1, <1>7, <2>1, <3>1 DEF Chain
    <3> QED
      BY <1>5, <2>1, <3>1, <3>2
  <2> QED
    BY <2>2, <2>3
<1>8. First(all[1], mm) = first
  <2>1. CASE len = 0
    <3>1. bs = <<>> /\ top = 1
      BY <1>1, <1>3, <2>1
    <3>2. first = newest + 1
      BY <3>1 DEF Chain
    <3> QED
      BY <1>4, <3>1, <3>2
  <2>2. CASE len # 0
    <3>1. bs # <<>> /\ 1 \in 1 .. len
      BY <1>1, <2>2
    <3>2. First(bs[1], m) = first
      BY <3>1 DEF Chain
    <3> QED
      BY <1>5, <3>1, <3>2
  <2> QED
    BY <2>1, <2>2
<1>9. First(all[Len(all)], mm) + all[Len(all)].n = b + 1
  BY <1>4
<1>10. Chain(all, mm, first, b)
  BY <1>4, <1>6, <1>7, <1>8, <1>9 DEF Chain
<1> QED
  BY <1>2, <1>10

(* What a push of the samples up to b makes of a ring that had those from first. *)
Pushed(p, s, first, b, g) ==
  /\ Keeps(p.ring, p.mem, g, b) /\ p.ring.max = s.ring.max
  /\ g = IF b - s.ring.max + 1 > first THEN b - s.ring.max + 1 ELSE first

(* A block pushed after the newest sample is what is newest then; of what was *)
(* there as much is left as the ring may hold.                               *)
LEMMA PushIs ==
  ASSUME RingSized, NEW s, NEW first, NEW newest, Keeps(s.ring, s.mem, first, newest),
         NEW t0 \in Int, Stamped(t0, 0, newest + 1), NEW b \in Int, b > newest,
         NEW p, p = IQ!Push(s, t0, newest + 1, b)
  PROVE  \E g \in Int : Pushed(p, s, first, b, g)
<1>1. PICK r : r = s.ring
  OBVIOUS
<1>2. PICK m : m = s.mem
  OBVIOUS
<1>3. /\ r.max \in Nat \ {0} /\ r.blocks \in Seq(Block) /\ r.total \in Int /\ r.free \in Seq(Nat)
      /\ m \in Seq(Seq(Int)) /\ first \in Int /\ newest \in Int
      /\ r.total = newest - first + 1
      /\ Separate(r.blocks, r.free, m) /\ Chain(r.blocks, m, first, newest)
  BY <1>1, <1>2 DEF Keeps, Rings
<1>4. PICK n \in Nat \ {0} : n = b - (newest + 1) + 1 /\ n = b - newest
  BY <1>3
<1>5. PICK bs : bs = r.blocks
  OBVIOUS
<1>6. PICK g : g = IQ!GetBuf(r.free, m, n)
  OBVIOUS
<1>7. \A i \in DOMAIN bs : bs[i].buf \in DOMAIN m
  BY <1>3, <1>5 DEF Chain, Holds
<1>8. Fits(g, bs, m, n)
  BY <1>3, <1>5, <1>6, <1>7, GetBufIs
<1>9. PICK gm : gm = g.mem
  OBVIOUS
<1>10. PICK buf : buf = g.buf
  OBVIOUS
<1>11. /\ gm \in Seq(Seq(Int)) /\ g.free \in Seq(Nat) /\ buf \in DOMAIN gm /\ n <= Len(gm[buf])
       /\ \A j \in DOMAIN m : j \in DOMAIN gm /\ gm[j] = m[j]
       /\ Separate(bs, g.free, gm)
       /\ \A i \in DOMAIN bs : bs[i].buf # buf
       /\ \A j \in DOMAIN g.free : g.free[j] # buf
  BY <1>8, <1>9, <1>10 DEF Fits
<1>12. PICK blk : blk = [t0 |-> t0, buf |-> buf, off |-> 0, n |-> n]
  OBVIOUS
<1>13. PICK cell : cell = [i \in DOMAIN g.mem[g.buf] |->
                             IF i <= b - (newest + 1) + 1 THEN (newest + 1) + i - 1 ELSE g.mem[g.buf][i]]
  OBVIOUS
<1>14. PICK mm : mm = [g.mem EXCEPT ![g.buf] = cell]
  OBVIOUS
<1>15. PICK bs2 : bs2 = Append(bs, blk)
  OBVIOUS
<1>16. PICK all : all = [max |-> r.max, blocks |-> bs2, total |-> r.total + n, free |-> g.free]
  OBVIOUS
<1>17. p = IQ!Push(s, t0, newest + 1, b)
  OBVIOUS
<1>18. p = [ring |-> IQ!Evict(all), mem |-> mm]
  <2>1. g = IQ!GetBuf(s.ring.free, s.mem, b - (newest + 1) + 1)
    BY <1>1, <1>2, <1>4, <1>6
  <2>2. all = [max |-> s.ring.max,
               blocks |-> Append(s.ring.blocks, [t0 |-> t0, buf |-> g.buf, off |-> 0, n |-> b - (newest + 1) + 1]),
               total |-> s.ring.total + (b - (newest + 1) + 1), free |-> g.free]
    BY <1>1, <1>4, <1>5, <1>10, <1>12, <1>15, <1>16
  <2>3. mm = [g.mem EXCEPT ![g.buf] = [i \in DOMAIN @ |->
                 IF i <= b - (newest + 1) + 1 THEN (newest + 1) + i - 1 ELSE @[i]]]
    BY <1>13, <1>14, Zenon
  <2> QED
    BY <1>17, <2>1, <2>2, <2>3, Zenon DEF IQ!Push
<1>19. /\ cell \in Seq(Int) /\ Len(cell) = Len(gm[buf]) /\ \A i \in 1 .. n : cell[i] = newest + i
  <2>1. PICK old : old = gm[buf]
    OBVIOUS
  <2>2. old \in Seq(Int) /\ n <= Len(old)
    BY <1>11, <2>1
  <2>3. PICK len \in Nat : len = Len(old) /\ DOMAIN old = 1 .. len
    BY <2>2
  <2>4. \A i \in 1 .. len : old[i] \in Int
    BY <2>2, <2>3
  <2>5. cell = [i \in 1 .. len |-> IF i <= n THEN (newest + 1) + i - 1 ELSE old[i]]
    BY <1>4, <1>9, <1>10, <1>13, <2>1, <2>3
  <2>6. \A i \in 1 .. len : (newest + 1) + i - 1 \in Int /\ (newest + 1) + i - 1 = newest + i
    BY <1>3
  <2>7. cell \in [1 .. len -> Int]
    BY <2>4, <2>5, <2>6
  <2>8. \A i \in 1 .. n : i \in 1 .. len /\ i <= n
    BY <2>2, <2>3
  <2>9. \A i \in 1 .. n : cell[i] = newest + i
    BY <2>5, <2>6, <2>8
  <2> QED
    BY <2>1, <2>3, <2>7, <2>9
<1>20. /\ mm \in Seq(Seq(Int)) /\ DOMAIN mm = DOMAIN gm /\ mm[buf] = cell
       /\ \A j \in DOMAIN gm : j # buf => mm[j] = gm[j]
  <2>1. PICK len \in Nat : len = Len(gm) /\ DOMAIN gm = 1 .. len
    BY <1>11
  <2>2. mm = [j \in 1 .. len |-> IF j = buf THEN cell ELSE gm[j]]
    BY <1>9, <1>10, <1>11, <1>14, <2>1
  <2>3. \A j \in 1 .. len : gm[j] \in Seq(Int)
    BY <1>11, <2>1
  <2>4. mm \in [1 .. len -> Seq(Int)]
    BY <1>19, <2>2, <2>3
  <2> QED
    BY <1>11, <2>1, <2>2, <2>4
<1>21. \A i \in DOMAIN bs : bs[i].buf \in DOMAIN mm /\ mm[bs[i].buf] = m[bs[i].buf]
  BY <1>7, <1>11, <1>20
<1>22. blk.buf = buf /\ blk.off = 0 /\ blk.n = n /\ blk.t0 = t0
  BY <1>12
<1>23. buf \in Nat
  BY <1>11
<1>24. blk \in Block
  BY <1>12, <1>23 DEF Block
<1>25. First(blk, mm) = newest + 1 /\ Holds(blk, mm)
  <2>1. mm[blk.buf] = cell /\ blk.buf \in DOMAIN mm
    BY <1>11, <1>20, <1>22
  <2>2. 1 \in 1 .. n
    OBVIOUS
  <2>3. First(blk, mm) = newest + 1
    BY <1>19, <1>22, <2>1, <2>2 DEF First
  <2>4. \A k \in 1 .. n : cell[0 + k] = (newest + 1) + k - 1
    BY <1>3, <1>19
  <2>5. 0 + n <= Len(cell)
    BY <1>11, <1>19
  <2> QED
    <3>1. \A k \in 1 .. n : mm[blk.buf][blk.off + k] = First(blk, mm) + k - 1
      BY <1>22, <2>1, <2>3, <2>4
    <3>2. blk.n > 0 /\ blk.off + blk.n <= Len(mm[blk.buf])
      BY <1>22, <2>1, <2>5
    <3> QED
      BY <1>22, <2>1, <2>3, <3>1, <3>2 DEF Holds
<1>26. Chain(bs2, mm, first, b)
  <2>1. bs \in Seq(Block) /\ Chain(bs, m, first, newest) /\ first \in Int /\ newest \in Int
    BY <1>3, <1>5
  <2>2. blk.n = b - newest
    BY <1>4, <1>22
  <2> QED
    BY <1>15, <1>21, <1>24, <1>25, <2>1, <2>2, ChainOn
<1>27. Separate(bs2, g.free, mm)
  <2>1. PICK len \in Nat : len = Len(bs) /\ DOMAIN bs = 1 .. len
    BY <1>3, <1>5
  <2>2. /\ DOMAIN bs2 = 1 .. len + 1
        /\ \A i \in 1 .. len + 1 : bs2[i].buf = IF i = len + 1 THEN buf ELSE bs[i].buf
        /\ \A i \in 1 .. len + 1 : i # len + 1 => i \in DOMAIN bs
    <3>1. bs \in Seq(Block)
      BY <1>3, <1>5
    <3>2. DOMAIN bs2 = 1 .. len + 1 /\ bs2[len + 1] = blk /\ \A i \in 1 .. len : bs2[i] = bs[i]
      BY <1>15, <2>1, <3>1
    <3>3. \A i \in 1 .. len + 1 : i # len + 1 => i \in 1 .. len
      OBVIOUS
    <3> QED
      BY <1>22, <2>1, <3>2, <3>3
  <2>3. /\ \A i, j \in DOMAIN bs : i # j => bs[i].buf # bs[j].buf
        /\ \A i, j \in DOMAIN g.free : i # j => g.free[i] # g.free[j]
        /\ \A i \in DOMAIN bs : \A j \in DOMAIN g.free : bs[i].buf # g.free[j]
        /\ \A j \in DOMAIN g.free : g.free[j] \in DOMAIN gm
    BY <1>11 DEF Separate
  <2>4. ASSUME NEW i \in 1 .. len + 1, NEW j \in 1 .. len + 1, i # j PROVE bs2[i].buf # bs2[j].buf
    <3>1. CASE i = len + 1
      BY <1>11, <2>2, <2>4, <3>1
    <3>2. CASE j = len + 1
      BY <1>11, <2>2, <2>4, <3>2
    <3>3. CASE i # len + 1 /\ j # len + 1
      BY <2>2, <2>3, <2>4, <3>3
    <3> QED
      BY <3>1, <3>2, <3>3
  <2>5. ASSUME NEW i \in 1 .. len + 1 PROVE \A j \in DOMAIN g.free : bs2[i].buf # g.free[j]
    <3>1. CASE i = len + 1
      BY <1>11, <2>2, <3>1
    <3>2. CASE i # len + 1
      <4>1. i \in DOMAIN bs /\ bs2[i].buf = bs[i].buf
        BY <2>2, <3>2
      <4> QED
        BY <2>3, <4>1
    <3> QED
      BY <3>1, <3>2
  <2> QED
    BY <1>20, <2>2, <2>3, <2>4, <2>5 DEF Separate
<1>28. all.max = r.max /\ all.blocks = bs2 /\ all.total = r.total + n /\ all.free = g.free
  BY <1>16
<1>29. bs2 \in Seq(Block)
  BY <1>3, <1>5, <1>15, <1>24
<1>30. all \in Rings
  BY <1>3, <1>11, <1>16, <1>29 DEF Rings
<1>31. all.total = b - first + 1
  BY <1>3, <1>4, <1>28
<1>32. Keeps(all, mm, first, b)
  BY <1>3, <1>20, <1>26, <1>27, <1>28, <1>30, <1>31 DEF Keeps
<1>33. PICK x : x = IQ!Evict(all)
  OBVIOUS
<1>34. PICK h \in Int : /\ Keeps(x, mm, h, b) /\ x.max = all.max
                        /\ h = IF b - all.max + 1 > first THEN b - all.max + 1 ELSE first
  BY <1>32, <1>33, EvictIs
<1>35. p.ring = x /\ p.mem = mm /\ x.max = s.ring.max
  BY <1>1, <1>18, <1>28, <1>33, <1>34
<1>36. h = IF b - s.ring.max + 1 > first THEN b - s.ring.max + 1 ELSE first
  BY <1>34, <1>35
<1> QED
  BY <1>34, <1>35, <1>36 DEF Pushed
-----------------------------------------------------------------------------
(* The size of an Ingest's chunks.                                           *)
Piece == IF Chunk > ring.max THEN ring.max ELSE Chunk

(* How many there are.                                                       *)
Pushes(n) == (n + Piece - 1) \div Piece

(* An Ingest pushes its chunks one after the other.                          *)
LEMMA IngestSteps ==
  ASSUME NEW n, IQ!Ingest(n), Pushes(n) \in Nat
  PROVE  \E f : /\ GoesThrough("push", [n |-> n, chunk |-> Piece, t0 |-> IQ!Duration(last + n), last |-> last],
                               [ring |-> ring, mem |-> mem], [i \in 1 .. Pushes(n) |-> i], Pushes(n), f)
                /\ ring' = f[Pushes(n)].ring /\ mem' = f[Pushes(n)].mem
<1> DEFINE c == [n |-> n, chunk |-> Piece, t0 |-> IQ!Duration(last + n), last |-> last]
           base == [ring |-> ring, mem |-> mem]
           order == [i \in 1 .. Pushes(n) |-> i]
           push(s, i) ==
             LET off == (i - 1) * Piece
                 end == IF off + Piece > n THEN n ELSE off + Piece
             IN  IQ!Push(s, IQ!Duration(last + n) + IQ!Duration(off), last + off + 1, last + end)
           Is(g) == g = [s \in SUBSET DOMAIN order |->
                           IF s = {} THEN base ELSE push(g[s \ {Top(s)}], order[Top(s)])]
           iter == CHOOSE g : Is(g)
<1>1. ring' = iter[DOMAIN order].ring /\ mem' = iter[DOMAIN order].mem
  BY DEF IQ!Ingest, IQ!FoldLeft, IQ!MapThenFoldSet, IQ!Max, Top, Piece, Pushes
<1>2. PICK k \in Nat : k = Pushes(n)
  OBVIOUS
<1>3. DOMAIN order = 1 .. k
  BY <1>2
<1>4. \A s, i : push(s, i) = Step("push", c, s, i)
  BY DEF Step, PushAt
<1> HIDE DEF c, base, order, push
<1>5. \A g : Iterates("push", c, base, order, g) <=> Is(g)
  BY <1>4 DEF Iterates
<1> HIDE DEF Is
<1>6. Iterates("push", c, base, order, iter)
  <2>1. \E g : Iterates("push", c, base, order, g)
    BY <1>3, IterExists, Zenon
  <2>2. \E g : Is(g)
    BY <1>5, <2>1, Zenon
  <2>3. Is(iter)
    BY <2>2, Zenon
  <2> QED
    BY <1>5, <2>3, Zenon
<1> HIDE DEF iter
<1>7. PICK f : GoesThrough("push", c, base, order, k, f) /\ iter[DOMAIN order] = f[k]
  BY <1>3, <1>6, FoldSteps
<1>8. ring' = f[k].ring /\ mem' = f[k].mem
  BY <1>1, <1>7
<1> QED
  BY <1>2, <1>7, <1>8, Zenon DEF c, base, order

(* As many chunks as it takes: the last begins within what there is.         *)
LEMMA ChunksAre ==
  ASSUME NEW n \in Nat \ {0}, NEW chunk \in Nat \ {0}, NEW k, k = (n + chunk - 1) \div chunk
  PROVE  /\ k \in Nat \ {0} /\ k * chunk \in Nat /\ k * chunk >= n
         /\ \A i \in 1 .. k : /\ (i - 1) * chunk \in Nat /\ (i - 1) * chunk < n
                              /\ i * chunk = (i - 1) * chunk + chunk
<1>1. PICK p \in Nat \ {0} : p = n + chunk - 1 /\ p >= chunk
  OBVIOUS
<1>2. k \in Int /\ chunk * k <= p /\ p < chunk * k + chunk
  BY <1>1
<1>3. k \in Nat \ {0}
  BY <1>1, <1>2
<1>4. k * chunk \in Nat /\ k * chunk = chunk * k
  BY <1>3
<1>5. ASSUME NEW i \in 1 .. k
      PROVE  (i - 1) * chunk \in Nat /\ (i - 1) * chunk < n /\ i * chunk = (i - 1) * chunk + chunk
  <2>1. i * chunk = (i - 1) * chunk + chunk /\ (i - 1) * chunk \in Nat
    OBVIOUS
  <2>2. i * chunk <= k * chunk
    BY <1>3
  <2> QED
    BY <1>1, <1>2, <1>4, <2>1, <2>2
<1> QED
  BY <1>1, <1>2, <1>3, <1>4, <1>5

(* The first sample the ring has when the newest is this one.                *)
Since(max, start, newest) == IF newest - max + 1 > start THEN newest - max + 1 ELSE start

(* The ring has the last samples captured since its reset, as many as it may. *)
IQInv ==
  /\ ring.max \in Nat \ {0} /\ last \in Nat /\ from \in Int /\ from <= last + 1
  /\ Keeps(ring, mem, Since(ring.max, from, last), last)

(* Where a number of the chunks of an Ingest have led to.                    *)
Ingested(s, max, start, newest) ==
  /\ s.ring.max = max /\ Keeps(s.ring, s.mem, Since(max, start, newest), newest)

(* What is captured is in the ring then, behind what it has kept.            *)
LEMMA IngestIs ==
  ASSUME RingSized, IQInv, NEW n \in Nat \ {0}, n <= MaxIngest, IQ!Ingest(n)
  PROVE  IQInv'
<1>1. PICK max \in Nat \ {0} : max = ring.max
  BY DEF IQInv
<1>2. PICK start \in Int : start = from
  BY DEF IQInv
<1>3. PICK newest \in Nat : newest = last /\ start <= newest + 1
  BY <1>2 DEF IQInv
<1>4. PICK chunk \in Nat \ {0} : chunk = Piece
  BY <1>1 DEF RingSized, Piece
<1>5. PICK k : k = Pushes(n)
  OBVIOUS
<1>6. /\ k \in Nat \ {0} /\ k * chunk \in Nat /\ k * chunk >= n
      /\ \A i \in 1 .. k : /\ (i - 1) * chunk \in Nat /\ (i - 1) * chunk < n
                           /\ i * chunk = (i - 1) * chunk + chunk
  <2>1. k = (n + chunk - 1) \div chunk
    BY <1>4, <1>5 DEF Pushes
  <2> QED
    BY <2>1, ChunksAre, Zenon
<1>7. PICK base : base = [ring |-> ring, mem |-> mem]
  OBVIOUS
<1>8. PICK t0 \in Int : t0 = IQ!Duration(last + n)
  BY <1>3, DurationIs
<1>9. PICK f : /\ GoesThrough("push", [n |-> n, chunk |-> chunk, t0 |-> t0, last |-> newest],
                              base, [i \in 1 .. k |-> i], k, f)
               /\ ring' = f[k].ring /\ mem' = f[k].mem
  BY <1>3, <1>4, <1>5, <1>6, <1>7, <1>8, IngestSteps
<1>10. f[0] = base /\ \A i \in 1 .. k : f[i] = PushAt([n |-> n, chunk |-> chunk, t0 |-> t0, last |-> newest], f[i - 1], i)
  <2>1. PICK c : c = [n |-> n, chunk |-> chunk, t0 |-> t0, last |-> newest]
    OBVIOUS
  <2>2. PICK order : order = [i \in 1 .. k |-> i]
    OBVIOUS
  <2>3. \A i \in 1 .. k : order[i] = i
    BY <2>2
  <2>4. GoesThrough("push", c, base, order, k, f)
    BY <1>9, <2>1, <2>2
  <2>5. f[0] = base /\ \A i \in 1 .. k : f[i] = PushAt(c, f[i - 1], i)
    BY <2>3, <2>4 DEF GoesThrough, Step
  <2> QED
    BY <2>1, <2>5
(* How many samples the first i chunks are.                                  *)
<1> DEFINE reach(i) == IF i * chunk > n THEN n ELSE i * chunk
           good == {i \in 0 .. k : Ingested(f[i], max, start, newest + reach(i))}
<1>11. 0 \in good
  <2>1. Ingested(base, max, start, newest)
    BY <1>1, <1>2, <1>3, <1>7 DEF Ingested, IQInv
  <2>2. newest + reach(0) = newest
    BY <1>3
  <2> HIDE DEF reach
  <2> QED
    BY <1>6, <1>10, <2>1, <2>2
<1>12. ASSUME NEW i \in Nat, i < k, i \in good PROVE i + 1 \in good
  <2>1. PICK j \in 1 .. k : j = i + 1 /\ j - 1 = i
    BY <1>6, <1>12
  <2>2. PICK off \in Nat : off = (j - 1) * chunk /\ off < n /\ j * chunk = off + chunk
    BY <1>6
  <2>3. reach(i) = off /\ reach(j) = IF off + chunk > n THEN n ELSE off + chunk
    BY <2>1, <2>2
  <2>4. PICK end \in Nat : end = (IF off + chunk > n THEN n ELSE off + chunk) /\ end > off
    BY <2>2
  <2>5. PICK s : s = f[i]
    OBVIOUS
  <2>6. s.ring.max = max /\ Keeps(s.ring, s.mem, Since(max, start, newest + off), newest + off)
    BY <1>12, <2>3, <2>5 DEF Ingested
  <2>7. PICK t \in Int : t = t0 + IQ!Duration(off)
    BY <2>2, DurationIs
  <2>8. PICK p : p = IQ!Push(s, t, newest + off + 1, newest + end)
    OBVIOUS
  <2>9. f[j] = p
    <3>1. f[j] = PushAt([n |-> n, chunk |-> chunk, t0 |-> t0, last |-> newest], s, j)
      BY <1>10, <2>1, <2>5
    <3>2. PICK c : c = [n |-> n, chunk |-> chunk, t0 |-> t0, last |-> newest]
      OBVIOUS
    <3>3. c.n = n /\ c.chunk = chunk /\ c.t0 = t0 /\ c.last = newest
      BY <3>2
    <3>4. f[j] = PushAt(c, s, j)
      BY <3>1, <3>2
    <3> QED
      BY <2>2, <2>4, <2>7, <2>8, <3>3, <3>4 DEF PushAt
  <2>10. PICK a \in Int : a = newest + off
    OBVIOUS
  <2>11. PICK b \in Int : b = newest + end /\ b > a
    BY <2>4, <2>10
  <2>12. p = IQ!Push(s, t, a + 1, b)
    BY <2>8, <2>10, <2>11
  <2>13. PICK first : first = Since(max, start, a)
    OBVIOUS
  <2>14. Keeps(s.ring, s.mem, first, a)
    BY <2>6, <2>10, <2>13
  <2>18. PICK g \in Int : Pushed(p, s, first, b, g)
    <3>1. b > a
      BY <2>11
    <3>2. Stamped(t, 0, a + 1)
      <4>1. n \in 1 .. MaxIngest /\ newest \in Int /\ off \in Nat
        BY DEF RingSized
      <4>2. Stamped(IQ!Duration(newest + n) + IQ!Duration(off), 0, newest + off + 1)
        BY <4>1, CaptureStamp
      <4> QED
        BY <1>3, <1>8, <2>7, <2>10, <4>2
    <3> QED
      BY <3>1, <3>2, <2>12, <2>14, PushIs
  <2>15. /\ Keeps(p.ring, p.mem, g, b) /\ p.ring.max = s.ring.max
         /\ g = IF b - s.ring.max + 1 > first THEN b - s.ring.max + 1 ELSE first
    BY <2>18 DEF Pushed
  <2>16. g = Since(max, start, b)
    <3>1. g = IF b - max + 1 > first THEN b - max + 1 ELSE first
      BY <2>6, <2>15
    <3> QED
      BY <2>11, <2>13, <3>1 DEF Since
  <2>17. Ingested(f[j], max, start, newest + reach(j))
    <3>1. newest + reach(j) = b
      BY <2>3, <2>4, <2>11
    <3> HIDE DEF reach
    <3> QED
      BY <2>6, <2>9, <2>15, <2>16, <3>1 DEF Ingested
  <2> HIDE DEF reach
  <2> QED
    BY <2>1, <2>17
<1>13. k \in good
  <2> HIDE DEF good
  <2>1. \A i \in 0 .. k : i \in good
    BY <1>6, <1>11, <1>12, Induction
  <2> QED
    BY <1>6, <2>1
<1>14. reach(k) = n
  BY <1>6
<1>15. Ingested(f[k], max, start, newest + n)
  <2> HIDE DEF reach
  <2> QED
    BY <1>13, <1>14
<1>16. last' = newest + n /\ from' = start
  BY <1>2, <1>3 DEF IQ!Ingest
<1>17. ring'.max = max /\ Keeps(ring', mem', Since(max, start, newest + n), newest + n)
  BY <1>9, <1>15 DEF Ingested
<1>18. newest + n \in Nat /\ start <= newest + n + 1
  BY <1>3
<1> QED
  BY <1>2, <1>16, <1>17, <1>18 DEF IQInv

(* A new ring has nothing.                                                   *)
LEMMA NewRingIs ==
  ASSUME NEW x \in Nat \ {0}, NEW newest \in Nat
  PROVE  /\ IQ!NewRing(x).max = x
         /\ Keeps(IQ!NewRing(x), <<>>, Since(x, newest + 1, newest), newest)
<1>1. PICK r : r = IQ!NewRing(x)
  OBVIOUS
<1>2. r = [max |-> x, blocks |-> <<>>, total |-> 0, free |-> <<>>]
  BY <1>1 DEF IQ!NewRing
<1>3. r.max = x /\ r.blocks = <<>> /\ r.total = 0 /\ r.free = <<>>
  BY <1>2
<1>4. r \in Rings
  BY <1>2 DEF Rings
<1>5. Since(x, newest + 1, newest) = newest + 1
  BY DEF Since
<1>6. Separate(<<>>, <<>>, <<>>)
  BY DEF Separate
<1>7. Chain(<<>>, <<>>, newest + 1, newest)
  BY DEF Chain
<1>8. <<>> \in Seq(Seq(Int))
  OBVIOUS
<1>9. 0 = newest - (newest + 1) + 1
  OBVIOUS
<1>10. Keeps(r, <<>>, newest + 1, newest)
  BY <1>3, <1>4, <1>6, <1>7, <1>8, <1>9 DEF Keeps
<1> QED
  BY <1>1, <1>3, <1>5, <1>10

(* A new ring keeps nothing, and so far nothing has been captured.             *)
LEMMA RingInit == RingSized /\ IQ!Init => IQInv
<1> SUFFICES ASSUME RingSized, IQ!Init PROVE IQInv
  OBVIOUS
<1>1. PICK x \in Nat \ {0} : ring = IQ!NewRing(x)
  BY DEF IQ!Init, RingSized
<1>2. PICK newest \in Nat : newest = 0
  OBVIOUS
<1>3. mem = <<>> /\ last = newest /\ from = newest + 1
  BY <1>2 DEF IQ!Init
<1>4. ring.max = x /\ Keeps(ring, mem, Since(x, newest + 1, newest), newest)
  BY <1>1, <1>3, NewRingIs
<1> QED
  BY <1>1, <1>3, <1>4 DEF IQInv

(* Both actions keep that.                                                   *)
LEMMA RingNext ==
  ASSUME RingSized, IQInv, [IQ!Next]_IQ!vars
  PROVE  IQInv'
<1>1. ASSUME NEW n \in 1 .. MaxIngest, IQ!Ingest(n) PROVE IQInv'
  <2>1. n \in Nat \ {0} /\ n <= MaxIngest
    BY DEF RingSized
  <2> QED
    BY <1>1, <2>1, IngestIs
<1>2. ASSUME NEW x \in Maxes, IQ!Reset(x) PROVE IQInv'
  <2>1. x \in Nat \ {0}
    BY DEF RingSized
  <2>2. PICK newest \in Nat : newest = last
    BY DEF IQInv
  <2>3. ring' = IQ!NewRing(x) /\ mem' = <<>> /\ from' = newest + 1 /\ last' = newest
    BY <1>2, <2>2 DEF IQ!Reset
  <2>4. ring'.max = x /\ Keeps(ring', mem', Since(x, newest + 1, newest), newest)
    BY <2>1, <2>3, NewRingIs
  <2> QED
    BY <2>1, <2>3, <2>4 DEF IQInv
<1>3. CASE UNCHANGED IQ!vars
  BY <1>3 DEF IQ!vars, IQInv
<1> QED
  BY <1>1, <1>2, <1>3 DEF IQ!Next
-----------------------------------------------------------------------------
(* The samples from a on, n of them.                                         *)
Run(a, n) == [i \in 1 .. n |-> a + i - 1]

(* A run is a sequence of that length.                                       *)
LEMMA RunIs ==
  ASSUME NEW a \in Int, NEW n \in Nat
  PROVE  Run(a, n) \in Seq(Int) /\ Len(Run(a, n)) = n /\ \A i \in 1 .. n : Run(a, n)[i] = a + i - 1
<1>1. PICK s : s = Run(a, n)
  OBVIOUS
<1>2. s = [i \in 1 .. n |-> a + i - 1]
  BY <1>1 DEF Run
<1>3. \A i \in 1 .. n : a + i - 1 \in Int
  OBVIOUS
<1>4. s \in [1 .. n -> Int]
  BY <1>2, <1>3
<1>5. s \in Seq(Int) /\ Len(s) = n /\ \A i \in 1 .. n : s[i] = a + i - 1
  BY <1>2, <1>4
<1> QED
  BY <1>1, <1>5

(* One run after another is a run.                                           *)
LEMMA RunsJoin ==
  ASSUME NEW a \in Int, NEW n \in Nat, NEW k \in Nat
  PROVE  Run(a, n) \o Run(a + n, k) = Run(a, n + k)
<1>1. PICK x : x = Run(a, n)
  OBVIOUS
<1>2. PICK y : y = Run(a + n, k)
  OBVIOUS
<1>3. PICK z : z = Run(a, n + k)
  OBVIOUS
<1>4. x \in Seq(Int) /\ Len(x) = n /\ \A i \in 1 .. n : x[i] = a + i - 1
  BY <1>1, RunIs
<1>5. y \in Seq(Int) /\ Len(y) = k /\ \A i \in 1 .. k : y[i] = a + n + i - 1
  <2>1. PICK c \in Int : c = a + n
    OBVIOUS
  <2>2. y \in Seq(Int) /\ Len(y) = k /\ \A i \in 1 .. k : y[i] = c + i - 1
    BY <1>2, <2>1, RunIs
  <2> QED
    BY <2>1, <2>2
<1>6. z \in Seq(Int) /\ Len(z) = n + k /\ \A i \in 1 .. n + k : z[i] = a + i - 1
  <2>1. PICK c \in Nat : c = n + k
    OBVIOUS
  <2>2. z \in Seq(Int) /\ Len(z) = c /\ \A i \in 1 .. c : z[i] = a + i - 1
    BY <1>3, <2>1, RunIs
  <2> QED
    BY <2>1, <2>2
<1>7. /\ x \o y \in Seq(Int) /\ Len(x \o y) = n + k
      /\ \A i \in 1 .. n + k : (x \o y)[i] = IF i <= n THEN x[i] ELSE y[i - n]
  <2>1. /\ x \o y \in Seq(Int) /\ Len(x \o y) = Len(x) + Len(y)
        /\ \A i \in 1 .. Len(x) + Len(y) : (x \o y)[i] = IF i <= Len(x) THEN x[i] ELSE y[i - Len(x)]
    BY <1>4, <1>5, ConcatProperties, Zenon
  <2> QED
    BY <1>4, <1>5, <2>1, Zenon
<1>8. ASSUME NEW i \in 1 .. n + k PROVE (x \o y)[i] = z[i]
  <2>1. CASE i <= n
    BY <1>4, <1>6, <1>7, <2>1
  <2>2. CASE ~(i <= n)
    <3>1. PICK j \in 1 .. k : j = i - n
      BY <2>2
    <3>2. y[j] = a + i - 1
      BY <1>5, <3>1
    <3> QED
      BY <1>6, <1>7, <2>2, <3>1, <3>2
  <2> QED
    BY <2>1, <2>2
<1>9. x \o y = z
  <2>1. PICK w : w = x \o y
    OBVIOUS
  <2>2. w \in Seq(Int) /\ Len(w) = Len(z) /\ \A i \in 1 .. Len(w) : w[i] = z[i]
    BY <1>6, <1>7, <1>8, <2>1
  <2> QED
    BY <1>6, <2>1, <2>2, SeqEqual
<1> QED
  BY <1>1, <1>2, <1>3, <1>9

(* The samples of a block are a run.                                         *)
LEMMA LiveIs ==
  ASSUME NEW m \in Seq(Seq(Int)), NEW b \in Block, Holds(b, m)
  PROVE  /\ SubSeq(m[b.buf], b.off + 1, b.off + b.n) = Run(First(b, m), b.n)
         /\ First(b, m) \in Int /\ b.n \in Nat \ {0}
<1>1. PICK cell : cell = m[b.buf]
  OBVIOUS
<1>2. PICK off \in Nat : off = b.off
  BY DEF Block
<1>3. PICK n \in Nat \ {0} : n = b.n
  <2>1. b.n \in Nat /\ b.n > 0
    BY DEF Block, Holds
  <2> QED
    BY <2>1
<1>4. PICK a : a = First(b, m)
  OBVIOUS
<1>5. cell \in Seq(Int) /\ off + n <= Len(cell) /\ \A k \in 1 .. n : cell[off + k] = a + k - 1
  BY <1>1, <1>2, <1>3, <1>4 DEF Holds
<1>6. \A i \in off + 1 .. off + n : i \in 1 .. Len(cell)
  BY <1>5
<1>7. \A i \in off + 1 .. off + n : cell[i] \in Int
  BY <1>5, <1>6
<1>8. a \in Int
  <2>1. off + 1 \in off + 1 .. off + n
    OBVIOUS
  <2>2. a = cell[off + 1]
    BY <1>1, <1>2, <1>4 DEF First
  <2> QED
    BY <1>7, <2>1, <2>2
<1>9. PICK s : s = SubSeq(cell, off + 1, off + n)
  OBVIOUS
<1>10. s \in Seq(Int) /\ Len(s) = n /\ \A i \in 1 .. n : s[i] = a + i - 1
  <2>1. PICK from1 \in Int : from1 = off + 1
    OBVIOUS
  <2>2. PICK to \in Int : to = off + n
    OBVIOUS
  <2>3. \A i \in from1 .. to : cell[i] \in Int
    BY <1>7, <2>1, <2>2
  <2>4. /\ s \in Seq(Int) /\ Len(s) = (IF from1 <= to THEN to - from1 + 1 ELSE 0)
        /\ \A i \in 1 .. to - from1 + 1 : s[i] = cell[from1 + i - 1]
    <3>1. s = SubSeq(cell, from1, to)
      BY <1>9, <2>1, <2>2
    <3>2. s \in Seq(Int)
      BY <2>3, <3>1
    <3>3. Len(s) = IF from1 <= to THEN to - from1 + 1 ELSE 0
      BY <2>3, <3>1
    <3>4. \A i \in 1 .. to - from1 + 1 : s[i] = cell[from1 + i - 1]
      BY <2>3, <3>1
    <3> QED
      BY <3>2, <3>3, <3>4
  <2>5. to - from1 + 1 = n /\ from1 <= to
    BY <2>1, <2>2
  <2>6. ASSUME NEW i \in 1 .. n PROVE s[i] = a + i - 1
    <3>1. from1 + i - 1 = off + i
      BY <2>1
    <3> QED
      BY <1>5, <2>4, <2>5, <3>1
  <2> QED
    BY <2>4, <2>5, <2>6
<1>11. s = Run(a, n)
  <2>1. PICK z : z = Run(a, n)
    OBVIOUS
  <2>2. z \in Seq(Int) /\ Len(z) = n /\ \A i \in 1 .. n : z[i] = a + i - 1
    BY <1>8, <2>1, RunIs
  <2> QED
    BY <1>10, <2>1, <2>2, SeqEqual
<1> QED
  BY <1>1, <1>2, <1>3, <1>4, <1>8, <1>9, <1>11

(* The function that FlattenSeq applies to the number of the sequences.      *)
Flattens(g, seqs, n) == g = [i \in 1 .. n |-> IF i = 1 THEN seqs[i] ELSE g[i - 1] \o seqs[i]]

(* There is such a function: by induction on their number.                   *)
LEMMA FlattensExist ==
  ASSUME NEW seqs, NEW n \in Nat
  PROVE  \E g : Flattens(g, seqs, n)
<1> DEFINE good == {k \in Nat : \E g : Flattens(g, seqs, k)}
<1>1. 0 \in good
  <2>1. PICK g : g = [i \in 1 .. 0 |-> 0]
    OBVIOUS
  <2>2. 1 .. 0 = {}
    OBVIOUS
  <2>3. g = [i \in 1 .. 0 |-> IF i = 1 THEN seqs[i] ELSE g[i - 1] \o seqs[i]]
    BY <2>1, <2>2
  <2>4. Flattens(g, seqs, 0)
    BY <2>3 DEF Flattens
  <2> QED
    BY <2>4
<1>2. ASSUME NEW k \in Nat, k \in good PROVE k + 1 \in good
  <2>1. PICK g : Flattens(g, seqs, k)
    BY <1>2
  <2>2. PICK l \in Nat : l = k + 1
    OBVIOUS
  <2>3. PICK h : h = [i \in 1 .. l |-> IF i = 1 THEN seqs[i] ELSE g[i - 1] \o seqs[i]]
    OBVIOUS
  <2>4. ASSUME NEW i \in 1 .. k PROVE h[i] = g[i]
    <3>1. i \in 1 .. l
      BY <2>2
    <3>2. g[i] = IF i = 1 THEN seqs[i] ELSE g[i - 1] \o seqs[i]
      BY <2>1 DEF Flattens
    <3> QED
      BY <2>3, <3>1, <3>2
  <2>5. ASSUME NEW i \in 1 .. l PROVE h[i] = IF i = 1 THEN seqs[i] ELSE h[i - 1] \o seqs[i]
    <3>1. h[i] = IF i = 1 THEN seqs[i] ELSE g[i - 1] \o seqs[i]
      BY <2>3
    <3>2. CASE i = 1
      BY <3>1, <3>2
    <3>3. CASE i # 1
      <4>1. i - 1 \in 1 .. k
        BY <2>2, <3>3
      <4>2. h[i - 1] = g[i - 1]
        BY <2>4, <4>1
      <4> QED
        BY <3>1, <3>3, <4>2
    <3> QED
      BY <3>2, <3>3
  <2>6. h = [i \in 1 .. l |-> h[i]]
    BY <2>3
  <2>7. h = [i \in 1 .. l |-> IF i = 1 THEN seqs[i] ELSE h[i - 1] \o seqs[i]]
    BY <2>5, <2>6
  <2>8. Flattens(h, seqs, l)
    BY <2>7 DEF Flattens
  <2> QED
    BY <2>2, <2>8
<1>3. \A k \in 0 .. n : k \in good
  <2> HIDE DEF good
  <2> QED
    BY <1>1, <1>2, Induction
<1>4. n \in good
  <2> HIDE DEF good
  <2> QED
    BY <1>3
<1> QED
  BY <1>4

(* What FlattenSeq goes through.                                             *)
LEMMA FlattenSteps ==
  ASSUME NEW seqs, NEW n \in Nat \ {0}, Len(seqs) = n
  PROVE  \E g : Flattens(g, seqs, n) /\ IQ!FlattenSeq(seqs) = g[n]
<1> DEFINE g == CHOOSE g : Flattens(g, seqs, n)
<1>1. Flattens(g, seqs, n)
  <2>1. \E h : Flattens(h, seqs, n)
    BY FlattensExist
  <2> QED
    BY <2>1, Zenon
<1>2. IQ!FlattenSeq(seqs) = g[n]
  BY DEF IQ!FlattenSeq, Flattens
<1> HIDE DEF g
<1> QED
  BY <1>1, <1>2

(* The samples of a chain of blocks, put together, are those from its first to *)
(* its newest.                                                               *)
LEMMA ChainIs ==
  ASSUME NEW m \in Seq(Seq(Int)), NEW bs \in Seq(Block), NEW first \in Int, NEW newest \in Int,
         Chain(bs, m, first, newest),
         NEW seqs, seqs = [i \in DOMAIN bs |-> SubSeq(m[bs[i].buf], bs[i].off + 1, bs[i].off + bs[i].n)]
  PROVE  IQ!FlattenSeq(seqs) = Run(first, newest - first + 1)
<1>1. PICK n \in Nat : n = Len(bs) /\ DOMAIN bs = 1 .. n
  OBVIOUS
<1>5. seqs = [i \in 1 .. n |-> SubSeq(m[bs[i].buf], bs[i].off + 1, bs[i].off + bs[i].n)]
  BY <1>1
<1>2. Len(seqs) = n
  BY <1>5
<1>3. CASE n = 0
  <2>1. bs = <<>>
    BY <1>1, <1>3
  <2>2. newest - first + 1 = 0
    BY <2>1 DEF Chain
  <2>3. IQ!FlattenSeq(seqs) = seqs
    BY <1>2, <1>3 DEF IQ!FlattenSeq
  <2>4. 1 .. 0 = {}
    OBVIOUS
  <2>5. PICK z : z = Run(first, 0)
    OBVIOUS
  <2>6. z = [i \in 1 .. 0 |-> first + i - 1]
    BY <2>5 DEF Run
  <2>7. seqs = [i \in 1 .. 0 |-> SubSeq(m[bs[i].buf], bs[i].off + 1, bs[i].off + bs[i].n)]
    BY <1>3, <1>5
  <2>8. seqs = z
    BY <2>4, <2>6, <2>7
  <2> QED
    BY <2>2, <2>3, <2>5, <2>8
<1>4. CASE n # 0
  <2>1. n \in Nat \ {0}
    BY <1>4
  <2>2. PICK g : Flattens(g, seqs, n) /\ IQ!FlattenSeq(seqs) = g[n]
    BY <1>2, <2>1, FlattenSteps
  (* The sample after those of the first i blocks.                           *)
  <2> DEFINE a == [i \in 1 .. n |-> First(bs[i], m)]
             size == [i \in 1 .. n |-> bs[i].n]
             after == [i \in 1 .. n |-> a[i] + size[i]]
  <2>3. ASSUME NEW i \in 1 .. n
        PROVE  seqs[i] = Run(a[i], size[i]) /\ a[i] \in Int /\ size[i] \in Nat \ {0}
    <3>1. PICK b \in Block : b = bs[i]
      BY <1>1
    <3>2. Holds(b, m)
      BY <1>1, <3>1 DEF Chain
    <3>3. /\ SubSeq(m[b.buf], b.off + 1, b.off + b.n) = Run(First(b, m), b.n)
          /\ First(b, m) \in Int /\ b.n \in Nat \ {0}
      BY <3>2, LiveIs
    <3>4. seqs[i] = SubSeq(m[b.buf], b.off + 1, b.off + b.n)
      BY <1>1, <3>1
    <3>5. a[i] = First(b, m) /\ size[i] = b.n
      BY <3>1
    <3> QED
      BY <3>3, <3>4, <3>5
  <2>4. a[1] = first /\ after[n] = newest + 1
    <3>1. 1 \in 1 .. n /\ n \in 1 .. n /\ bs # <<>>
      BY <1>1, <2>1
    <3>2. First(bs[1], m) = first /\ First(bs[n], m) + bs[n].n = newest + 1
      BY <1>1, <3>1 DEF Chain
    <3> QED
      BY <3>1, <3>2
  <2>5. ASSUME NEW i \in 1 .. n, NEW j \in 1 .. n, j = i + 1 PROVE a[j] = after[i]
    <3>1. First(bs[j], m) = First(bs[i], m) + bs[i].n
      BY <1>1, <2>5 DEF Chain
    <3> QED
      BY <3>1
  <2>6. \A i \in 1 .. n : after[i] = a[i] + size[i]
    OBVIOUS
  <2> HIDE DEF a, size, after
  (* How many samples the first i blocks have: they are a run.               *)
  <2> DEFINE Runs(i) == \E p \in Nat : after[i] = first + p /\ g[i] = Run(first, p)
             good == {k \in Nat : k + 1 <= n => Runs(k + 1)}
  <2>7. 0 \in good
    <3>1. PICK one \in 1 .. n : one = 0 + 1 /\ one = 1
      BY <2>1
    <3>2. g[one] = seqs[one]
      BY <2>2, <3>1 DEF Flattens
    <3>3. PICK p \in Nat : p = size[one]
      BY <2>3
    <3>4. seqs[one] = Run(first, p) /\ after[one] = first + p
      BY <2>3, <2>4, <2>6, <3>1, <3>3
    <3>5. Runs(one)
      BY <3>2, <3>3, <3>4
    <3> HIDE DEF Runs
    <3> QED
      BY <3>1, <3>5
  <2>8. ASSUME NEW k \in Nat, k \in good PROVE k + 1 \in good
    <3>1. CASE k + 1 + 1 <= n
      <4>1. PICK i \in 1 .. n : i = k + 1
        BY <3>1
      <4>2. PICK j \in 1 .. n : j = i + 1 /\ j = k + 1 + 1 /\ j # 1 /\ j - 1 = i
        BY <3>1, <4>1
      <4>3. Runs(i)
        <5> HIDE DEF Runs
        <5> QED
          BY <2>8, <3>1, <4>1
      <4>4. PICK p \in Nat : after[i] = first + p /\ g[i] = Run(first, p)
        BY <4>3
      <4>5. g[j] = g[i] \o seqs[j]
        BY <2>2, <4>2 DEF Flattens
      <4>6. PICK q \in Nat : q = size[j]
        BY <2>3
      <4>7. a[j] = first + p
        BY <2>5, <4>2, <4>4
      <4>8. g[j] = Run(first, p) \o Run(first + p, q)
        BY <2>3, <4>4, <4>5, <4>6, <4>7
      <4>9. PICK r \in Nat : r = p + q
        OBVIOUS
      <4>10. g[j] = Run(first, r)
        BY <4>8, <4>9, RunsJoin
      <4>11. after[j] = first + r
        <5>1. after[j] = (first + p) + q
          BY <2>6, <4>6, <4>7
        <5> QED
          BY <4>9, <5>1
      <4>12. Runs(j)
        BY <4>9, <4>10, <4>11
      <4> HIDE DEF Runs
      <4> QED
        BY <4>2, <4>12
    <3> HIDE DEF Runs
    <3> QED
      BY <3>1
  <2>9. \A k \in 0 .. n : k \in good
    <3> HIDE DEF good
    <3> QED
      BY <2>7, <2>8, Induction
  <2>10. PICK k \in 0 .. n : k = n - 1 /\ k + 1 = n
    BY <2>1
  <2>11. Runs(n)
    <3> HIDE DEF Runs
    <3>1. k \in good
      <4> HIDE DEF good
      <4> QED
        BY <2>9
    <3>2. k + 1 <= n
      BY <2>10
    <3> QED
      BY <2>10, <3>1, <3>2
  <2>12. PICK p \in Nat : after[n] = first + p /\ g[n] = Run(first, p)
    BY <2>11
  <2>13. p = newest - first + 1
    BY <2>4, <2>12
  <2> QED
    BY <2>2, <2>12, <2>13
<1> QED
  BY <1>3, <1>4

(* The ring has the last samples captured, as many as it may hold, in order and *)
(* each once, whatever blocks they come in and whichever buffers are used again *)
(* (Push and its free list, Ingest, Reset).                                  *)
THEOREM SamplesKept == RingSized /\ IQ!Spec => []IQ!HoldsLast
<1>1. RingSized /\ IQ!Init => IQInv
  BY RingInit
<1>2. RingSized /\ IQInv /\ [IQ!Next]_IQ!vars => IQInv'
  BY RingNext
<1>3. IQInv => IQ!HoldsLast
  <2> SUFFICES ASSUME IQInv PROVE IQ!HoldsLast
    OBVIOUS
  <2>1. PICK first : first = Since(ring.max, from, last)
    OBVIOUS
  <2>2. PICK m : m = mem
    OBVIOUS
  <2>3. PICK bs : bs = ring.blocks
    OBVIOUS
  <2>4. Keeps(ring, mem, first, last)
    BY <2>1 DEF IQInv
  <2>5. /\ bs \in Seq(Block) /\ m \in Seq(Seq(Int)) /\ first \in Int /\ last \in Int
        /\ Chain(bs, m, first, last)
    BY <2>2, <2>3, <2>4 DEF Keeps, Rings
  <2>6. PICK seqs : seqs = [i \in DOMAIN bs |-> SubSeq(m[bs[i].buf], bs[i].off + 1, bs[i].off + bs[i].n)]
    OBVIOUS
  <2>7. IQ!FlattenSeq(seqs) = Run(first, last - first + 1)
    BY <2>5, <2>6, ChainIs
  <2>8. seqs = [i \in DOMAIN ring.blocks |-> IQ!Live(ring.blocks[i])]
    BY <2>2, <2>3, <2>6 DEF IQ!Live
  <2>9. first = IF last - ring.max + 1 > from THEN last - ring.max + 1 ELSE from
    BY <2>1 DEF Since
  <2> QED
    BY <2>7, <2>8, <2>9 DEF IQ!HoldsLast, Run
<1>4. RingSized => RingSized'
  BY DEF RingSized
<1> QED
  BY <1>1, <1>2, <1>3, <1>4, PTL DEF IQ!Spec
-----------------------------------------------------------------------------
(* A sample lasts a tick at least (a nanosecond).                             *)
Fine == TicksPer[1] >= TicksPer[2]

(* An index is cut down to a sample.                                         *)
LEMMA IndexIs ==
  ASSUME RingSized, Fine, NEW d \in Int
  PROVE  \E j \in Int, e \in Int, a \in Int :
            /\ j = IQ!Index(d) /\ e = j * TicksPer[1] /\ a = d * TicksPer[2]
            /\ e <= a /\ a < e + TicksPer[1]
<1>1. PICK p \in Nat \ {0} : p = TicksPer[1]
  BY DEF RingSized, Fine
<1>2. PICK a \in Int : a = d * TicksPer[2]
  BY DEF RingSized
<1>3. PICK j \in Int : j = a \div p /\ j * p \in Int /\ j * p <= a /\ a < j * p + p
  BY Quotient
<1> QED
  BY <1>1, <1>2, <1>3 DEF IQ!Index

(* Indices and durations undo each other but for what is cut down: of a sample *)
(* after index x ticks the duration is that at least, ...                     *)
LEMMA AfterIndex ==
  ASSUME RingSized, Fine, NEW i \in Int, NEW x \in Int
  PROVE  /\ i > IQ!Index(x) => IQ!Duration(i) >= x
         /\ i <= IQ!Index(x) => IQ!Duration(i) <= x
         /\ IQ!Duration(i) >= x => i >= IQ!Index(x)
         /\ IQ!Duration(i - 1) + IQ!Duration(1) + 2 <= x => i <= IQ!Index(x)
         /\ i < IQ!Index(IQ!Duration(i)) + 2
<1>1. PICK p \in Nat \ {0}, q \in Nat \ {0} : p = TicksPer[1] /\ q = TicksPer[2] /\ q <= p
  BY DEF RingSized, Fine
<1>2. PICK d \in Int, e \in Int, a \in Int :
        d = IQ!Duration(i) /\ e = d * q /\ a = i * p /\ e <= a /\ a < e + q
  BY <1>1, Ticks
<1>3. PICK j \in Int, f \in Int, b \in Int :
        j = IQ!Index(x) /\ f = j * p /\ b = x * q /\ f <= b /\ b < f + p
  BY <1>1, IndexIs
<1>4. ASSUME i > j PROVE d >= x
  <2>1. PICK k \in Nat : i = j + 1 + k
    <3>1. i - j - 1 \in Nat /\ i = j + 1 + (i - j - 1)
      BY <1>4
    <3> QED
      BY <3>1
  <2>2. PICK kp \in Nat : kp = k * p
    OBVIOUS
  <2>3. i * p = f + p + kp
    BY <1>3, <2>1, <2>2, Sums
  <2>4. x * q < (d + 1) * q
    <3>1. (d + 1) * q = e + q
      BY <1>2, Sums
    <3> QED
      BY <1>2, <1>3, <2>3, <3>1
  <2>5. x < d + 1
    BY <2>4, TakeOff
  <2> QED
    BY <2>5
<1>5. ASSUME i <= j PROVE d <= x
  <2>1. PICK k \in Nat : j = i + k
    <3>1. j - i \in Nat /\ j = i + (j - i)
      BY <1>5
    <3> QED
      BY <3>1
  <2>2. PICK kp \in Nat : kp = k * p
    OBVIOUS
  <2>3. f = a + kp
    BY <1>2, <1>3, <2>1, <2>2, Sums
  <2>4. d * q < (x + 1) * q
    <3>1. (x + 1) * q = b + q
      BY <1>3, Sums
    <3> QED
      BY <1>2, <1>3, <2>3, <3>1
  <2>5. d < x + 1
    BY <2>4, TakeOff
  <2> QED
    BY <2>5
<1>6. ASSUME d >= x PROVE i >= j
  <2>1. PICK k \in Nat : d = x + k
    <3>1. d - x \in Nat /\ d = x + (d - x)
      BY <1>6
    <3> QED
      BY <3>1
  <2>2. PICK kq \in Nat : kq = k * q
    OBVIOUS
  <2>3. e = b + kq
    BY <1>2, <1>3, <2>1, <2>2, Sums
  <2>4. j * p < (i + 1) * p
    <3>1. (i + 1) * p = a + p
      BY <1>2, Sums
    <3> QED
      BY <1>2, <1>3, <2>3, <3>1
  <2>5. j < i + 1
    BY <2>4, TakeOff
  <2> QED
    BY <2>5
<1>7. ASSUME IQ!Duration(i - 1) + IQ!Duration(1) + 2 <= x PROVE i <= j
  <2>1. PICK n \in Int : n = i - 1 /\ i = n + 1
    OBVIOUS
  <2>2. PICK d1 \in Int, e1 \in Int, a1 \in Int :
          d1 = IQ!Duration(n) /\ e1 = d1 * q /\ a1 = n * p /\ e1 <= a1 /\ a1 < e1 + q
    BY <1>1, Ticks
  <2>3. PICK d2 \in Int, e2 \in Int, a2 \in Int :
          d2 = IQ!Duration(1) /\ e2 = d2 * q /\ a2 = 1 * p /\ e2 <= a2 /\ a2 < e2 + q
    BY <1>1, Ticks
  <2>4. PICK k \in Nat : x = d1 + d2 + 2 + k
    <3>1. d1 + d2 + 2 <= x
      BY <1>7, <2>1, <2>2, <2>3
    <3>2. x - (d1 + d2 + 2) \in Nat /\ x = d1 + d2 + 2 + (x - (d1 + d2 + 2))
      BY <3>1
    <3> QED
      BY <3>2
  <2>5. PICK kq \in Nat : kq = k * q
    OBVIOUS
  <2>6. b = e1 + e2 + 2 * q + kq
    <3>1. (d1 + d2 + 2 + k) * q = (d1 + d2 + 2) * q + k * q
      BY Sums
    <3>2. (d1 + d2 + 2) * q = (d1 + d2) * q + 2 * q
      BY Sums
    <3>3. (d1 + d2) * q = d1 * q + d2 * q
      BY Sums
    <3> QED
      BY <1>3, <2>2, <2>3, <2>4, <2>5, <3>1, <3>2, <3>3
  <2>7. a = a1 + a2
    BY <1>2, <2>1, <2>2, <2>3, Sums
  <2>8. i * p < (j + 1) * p
    <3>1. (j + 1) * p = f + p
      BY <1>3, Sums
    <3> QED
      BY <1>2, <1>3, <2>2, <2>3, <2>6, <2>7, <3>1
  <2>9. i < j + 1
    BY <2>8, TakeOff
  <2> QED
    BY <2>9
<1>8. i < IQ!Index(d) + 2
  <2>1. PICK j1 \in Int, f1 \in Int, b1 \in Int :
          j1 = IQ!Index(d) /\ f1 = j1 * p /\ b1 = d * q /\ f1 <= b1 /\ b1 < f1 + p
    BY <1>1, <1>2, IndexIs
  <2>2. i * p < (j1 + 2) * p
    <3>1. (j1 + 2) * p = f1 + 2 * p
      BY <2>1, Sums
    <3> QED
      BY <1>1, <1>2, <2>1, <3>1
  <2>3. i < j1 + 2
    BY <2>2, TakeOff
  <2> QED
    BY <2>1, <2>3
<1> QED
  BY <1>2, <1>3, <1>4, <1>5, <1>6, <1>7, <1>8

(* A run of none is empty.                                                   *)
LEMMA NoRun ==
  ASSUME NEW a \in Int
  PROVE  Run(a, 0) = <<>>
<1>1. PICK z : z = Run(a, 0)
  OBVIOUS
<1>2. z \in Seq(Int) /\ Len(z) = 0
  BY <1>1, RunIs
<1> QED
  BY <1>1, <1>2

(* Places l to hi of a sequence.                                             *)
Part(s, l, hi) == SubSeq(s, l, hi)

(* Places lo + 1 to hi of a run are a run.                                    *)
RunOf(a, n, lo, hi) == Part(Run(a, n), lo + 1, hi) = Run(a + lo, hi - lo)

(* So they are.                                                              *)
LEMMA RunCut ==
  ASSUME NEW a \in Int, NEW n \in Nat, NEW lo \in Nat, NEW hi \in Nat, lo <= hi, hi <= n
  PROVE  RunOf(a, n, lo, hi)
<1>1. PICK s : s = Run(a, n)
  OBVIOUS
<1>2. s \in Seq(Int) /\ Len(s) = n /\ \A i \in 1 .. n : s[i] = a + i - 1
  BY <1>1, RunIs
<1>3. PICK l \in Nat : l = lo + 1
  OBVIOUS
<1>4. PICK t : t = SubSeq(s, l, hi)
  OBVIOUS
<1>5. PICK k \in Nat : k = hi - lo
  <2>1. hi - lo \in Nat
    OBVIOUS
  <2> QED
    BY <2>1
<1>6. \A i \in l .. hi : s[i] \in Int
  <2>1. \A i \in l .. hi : i \in 1 .. Len(s)
    BY <1>2, <1>3
  <2> QED
    BY <1>2, <2>1
<1>7. t \in Seq(Int)
  BY <1>4, <1>6
<1>8. Len(t) = IF l <= hi THEN hi - l + 1 ELSE 0
  BY <1>4, <1>6
<1>9. \A i \in 1 .. hi - l + 1 : t[i] = s[l + i - 1]
  BY <1>4, <1>6
<1>10. Len(t) = k
  BY <1>3, <1>5, <1>8
<1>11. ASSUME NEW i \in 1 .. k PROVE t[i] = a + lo + i - 1
  <2>1. i \in 1 .. hi - l + 1 /\ l + i - 1 = lo + i /\ lo + i \in 1 .. n
    BY <1>3, <1>5
  <2>2. t[i] = s[lo + i]
    BY <1>9, <2>1
  <2>3. s[lo + i] = a + (lo + i) - 1
    BY <1>2, <2>1
  <2> QED
    BY <2>2, <2>3
<1>12. PICK z : z = Run(a + lo, k)
  OBVIOUS
<1>13. z \in Seq(Int) /\ Len(z) = k /\ \A i \in 1 .. k : z[i] = a + lo + i - 1
  <2>1. a + lo \in Int
    OBVIOUS
  <2> QED
    BY <1>12, <2>1, RunIs
<1>14. t = z
  BY <1>7, <1>10, <1>11, <1>13, SeqEqual
<1> QED
  BY <1>1, <1>3, <1>4, <1>5, <1>12, <1>14 DEF RunOf, Part

(* The samples lo + 1 to hi of n are those from ticks x to y after the first,  *)
(* up to the rounding and the last of all.                                   *)
Cut(lo, hi, n, x, y) ==
  /\ lo \in Nat /\ hi \in Nat /\ lo <= hi /\ hi <= n
  /\ \A i \in 1 .. n : (lo < i /\ i <= hi) => IQ!Duration(i) >= x /\ IQ!Duration(i) <= y
  /\ \A i \in 1 .. n - 1 :
       (IQ!Duration(i - 1) >= x /\ IQ!Duration(i - 1) + IQ!Duration(1) + 2 <= y) => (lo < i /\ i <= hi)

(* None take no time, and more than none some.                                *)
LEMMA NoTime ==
  ASSUME RingSized
  PROVE  IQ!Duration(0) = 0 /\ \A i \in Nat : IQ!Duration(i) >= 0
<1>1. PICK p \in Nat, q \in Nat \ {0} : p = TicksPer[1] /\ q = TicksPer[2]
  BY DEF RingSized
<1>2. PICK d \in Int, e \in Int, a \in Int :
        d = IQ!Duration(0) /\ e = d * q /\ a = 0 * p /\ e <= a /\ a < e + q
  BY <1>1, Ticks
<1>3. a = 0
  BY <1>1, <1>2
<1>4. d * q < 1 * q /\ (0 - 1) * q < d * q
  BY <1>2, <1>3
<1>5. d < 1 /\ 0 - 1 < d
  BY <1>4, TakeOff
<1>6. d = 0
  BY <1>2, <1>5
<1>7. \A i \in Nat : IQ!Duration(i) >= 0
  BY <1>2, <1>6, DurationGrows
<1> QED
  BY <1>2, <1>6, <1>7

(* What an empty window of a block cuts out.                                  *)
LEMMA NothingCut ==
  ASSUME RingSized, NEW n \in Nat \ {0}, NEW x \in Int, NEW y \in Int, IQ!Duration(n) < x \/ y < 0
  PROVE  Cut(0, 0, n, x, y)
<1>1. ASSUME NEW i \in 1 .. n - 1, IQ!Duration(i - 1) >= x, IQ!Duration(i - 1) + IQ!Duration(1) + 2 <= y
      PROVE  FALSE
  <2>1. PICK k \in Nat : k = i - 1 /\ k <= n
    OBVIOUS
  <2>2. /\ IQ!Duration(k) \in Int /\ IQ!Duration(k) >= 0 /\ IQ!Duration(k) <= IQ!Duration(n)
        /\ IQ!Duration(1) \in Int /\ IQ!Duration(1) >= 0 /\ IQ!Duration(n) \in Int
    BY <2>1, NoTime, DurationIs, DurationGrows
  <2> QED
    BY <1>1, <2>1, <2>2
<1> QED
  BY <1>1 DEF Cut

(* There is a sample after no less than none.                                *)
LEMMA IndexNat ==
  ASSUME RingSized, Fine, NEW d \in Nat
  PROVE  IQ!Index(d) \in Nat
<1>1. PICK p \in Nat \ {0}, q \in Nat \ {0} : p = TicksPer[1] /\ q = TicksPer[2]
  BY DEF RingSized, Fine
<1>2. d \in Int
  OBVIOUS
<1>3. PICK j \in Int, f \in Int, a \in Int :
        j = IQ!Index(d) /\ f = j * p /\ a = d * q /\ f <= a /\ a < f + p
  BY <1>1, <1>2, IndexIs
<1>4. a >= 0
  BY <1>3
<1>5. (0 - 1) * p < j * p
  BY <1>3, <1>4
<1>6. 0 - 1 < j
  BY <1>5, TakeOff
<1> QED
  BY <1>3, <1>6

(* The ends of a window, moved into a block of n samples.                     *)
Ends(o, w, n, x, y) ==
  /\ x > 0 => o = x
  /\ x <= 0 => o = 0
  /\ y < IQ!Duration(n) => w = y
  /\ y >= IQ!Duration(n) => w = IQ!Duration(n)

(* What lies between those indices is the window's, or nothing is.            *)
Enclosed(lo, hi, n, x, y) ==
  /\ lo <= n
  /\ Cut(lo, hi, n, x, y) \/ (lo > hi /\ Cut(0, 0, n, x, y))

(* What the indices of a window's ends, moved into the block, cut out of it.   *)
LEMMA WindowCut ==
  ASSUME RingSized, Fine, NEW n \in Nat \ {0}, NEW x \in Int, NEW y \in Int, x <= y,
         x <= IQ!Duration(n), 0 <= y,
         NEW o \in Nat, NEW w \in Nat, Ends(o, w, n, x, y),
         NEW lo \in Nat, lo = IQ!Index(o), NEW hi \in Nat, hi <= n, hi <= IQ!Index(w), hi = n \/ hi = IQ!Index(w)
  PROVE  Enclosed(lo, hi, n, x, y)
<1>1. PICK len \in Nat : len = IQ!Duration(n)
  <2>1. IQ!Duration(n) \in Int /\ IQ!Duration(n) >= 0
    BY NoTime, DurationIs
  <2> QED
    BY <2>1
<1>2. o >= x /\ (x <= 0 => o = 0) /\ (x > 0 => o = x)
  BY DEF Ends
<1>3. w <= y /\ (w = y \/ w = len)
  BY <1>1 DEF Ends
<1>5. PICK e \in Nat : e = IQ!Index(w)
  BY IndexNat
<1>4. lo = IQ!Index(o) /\ e = IQ!Index(w)
  BY <1>5
<1>6. hi <= n /\ hi <= e /\ (hi = n \/ hi = e)
  BY <1>5
<1>7. lo <= n
  <2>1. IQ!Duration(n) >= o
    BY <1>1, <1>2
  <2> QED
    BY <1>4, <2>1, <1>6, AfterIndex
<1>8. ASSUME NEW i \in 1 .. n, lo < i, i <= hi PROVE IQ!Duration(i) >= x /\ IQ!Duration(i) <= y
  <2>1. i > IQ!Index(o) /\ i <= IQ!Index(w)
    BY <1>4, <1>6, <1>8
  <2>2. IQ!Duration(i) >= o /\ IQ!Duration(i) <= w /\ IQ!Duration(i) \in Int
    BY <2>1, AfterIndex, DurationIs
  <2> QED
    BY <1>2, <1>3, <2>2
<1>9. ASSUME NEW i \in 1 .. n - 1, IQ!Duration(i - 1) >= x, IQ!Duration(i - 1) + IQ!Duration(1) + 2 <= y
      PROVE  lo < i /\ i <= hi
  <2>1. PICK k \in Nat : k = i - 1
    OBVIOUS
  <2>2. IQ!Duration(k) >= o
    BY <1>2, <1>9, <2>1, NoTime
  <2>3. k >= lo
    BY <1>4, <2>2, AfterIndex
  <2>4. i <= e
    <3>1. CASE w = y
      BY <1>4, <1>9, <3>1, AfterIndex
    <3>2. CASE w = len
      <4>1. n < IQ!Index(w) + 2
        BY <1>1, <3>2, AfterIndex
      <4> QED
        BY <1>4, <1>6, <4>1
    <3> QED
      BY <1>3, <3>1, <3>2
  <2> QED
    BY <1>6, <2>1, <2>3, <2>4
<1>10. lo <= hi => Cut(lo, hi, n, x, y)
  BY <1>6, <1>8, <1>9 DEF Cut
<1>11. ASSUME lo > hi PROVE Cut(0, 0, n, x, y)
  <2>1. ASSUME NEW i \in 1 .. n - 1, IQ!Duration(i - 1) >= x, IQ!Duration(i - 1) + IQ!Duration(1) + 2 <= y
        PROVE  FALSE
    <3>1. lo < i /\ i <= hi
      BY <1>9, <2>1
    <3> QED
      BY <1>6, <1>11, <3>1
  <2> QED
    BY <2>1 DEF Cut
<1> QED
  BY <1>6, <1>7, <1>10, <1>11 DEF Enclosed

(* How much too early a window may lie.                                      *)
Early == IQ!Duration(MaxIngest) + IQ!Duration(1) + 3

(* What is taken of a block that begins with sample a: c samples from z on, none *)
(* of which lies outside the window, and all that are well inside but the last. *)
Taken(s, off, a, n, z, c, start, end) ==
  /\ s = Run(z, c) /\ a <= z /\ z + c <= a + n
  /\ \A k \in z .. z + c - 1 : IQ!Duration(k - 1) >= start - Early /\ IQ!Duration(k - 1) <= end + (off + 1)
  /\ \A k \in a .. a + n - 2 :
       (IQ!Duration(k - 1) >= start + (off + 1) /\ IQ!Duration(k - 1) <= end - Early) => k \in z .. z + c - 1

(* The time of a sample is that of its block's first and its place, and the    *)
(* block's stamp is off by a capture or what it was trimmed by.                *)
LEMMA CutTaken ==
  ASSUME RingSized, Fine, NEW a \in Int, NEW n \in Nat \ {0}, NEW off \in Nat, NEW t0 \in Int,
         Stamped(t0, off, a), NEW start \in Int, NEW end \in Int, NEW lo \in Nat, NEW hi \in Nat,
         Cut(lo, hi, n, start - t0, end - t0)
  PROVE  Taken(Run(a + lo, hi - lo), off, a, n, a + lo, hi - lo, start, end)
<1>1. lo <= hi /\ hi <= n
  BY DEF Cut
<1>2. PICK da \in Int : da = IQ!Duration(a - 1)
  BY DurationIs
<1>3. PICK d1 \in Int : d1 = IQ!Duration(1) /\ d1 >= 1
  <2>2. PICK p \in Nat \ {0}, q \in Nat \ {0} : p = TicksPer[1] /\ q = TicksPer[2] /\ q <= p
    BY DEF RingSized, Fine
  <2>3. PICK d \in Int, e \in Int, b \in Int :
          d = IQ!Duration(1) /\ e = d * q /\ b = 1 * p /\ e <= b /\ b < e + q
    BY <2>2, Ticks
  <2>4. 0 * q < d * q
    BY <2>2, <2>3
  <2>5. 0 < d
    BY <2>4, TakeOff
  <2> QED
    BY <2>3, <2>5
<1>4. PICK lag \in Int : lag = IQ!Duration(MaxIngest)
  BY DurationIs DEF RingSized
<1>5. t0 <= da + lag + 1 /\ t0 >= da + d1 - 1 - off
  BY <1>2, <1>3, <1>4 DEF Stamped
<1>6. ASSUME NEW i \in 1 .. n
      PROVE  \E d \in Int, dp \in Int, at \in Int :
               /\ d = IQ!Duration(i) /\ dp = IQ!Duration(i - 1) /\ at = IQ!Duration(a + i - 1 - 1)
               /\ dp + d1 <= d /\ d <= dp + d1 + 1
               /\ da + dp <= at /\ at <= da + dp + 1
  <2>1. PICK j \in Int : j = i - 1 /\ j + 1 = i
    OBVIOUS
  <2>2. PICK l \in Int : l = a - 1 /\ l + j = a + i - 1 - 1
    BY <2>1
  <2>3. IQ!Duration(j) + d1 <= IQ!Duration(j + 1) /\ IQ!Duration(j + 1) <= IQ!Duration(j) + d1 + 1
    <3>1. PICK one \in Int : one = 1
      OBVIOUS
    <3>2. /\ IQ!Duration(j) + IQ!Duration(one) <= IQ!Duration(j + one)
          /\ IQ!Duration(j + one) <= IQ!Duration(j) + IQ!Duration(one) + 1
      BY DurationAdds
    <3> QED
      BY <1>3, <3>1, <3>2
  <2>4. da + IQ!Duration(j) <= IQ!Duration(l + j) /\ IQ!Duration(l + j) <= da + IQ!Duration(j) + 1
    BY <1>2, <2>2, DurationAdds
  <2>5. l + j \in Int /\ j + 1 \in Int
    OBVIOUS
  <2>6. IQ!Duration(j) \in Int /\ IQ!Duration(j + 1) \in Int /\ IQ!Duration(l + j) \in Int
    BY <2>5, DurationIs
  <2> QED
    BY <2>1, <2>2, <2>3, <2>4, <2>6
<1>7. Early = lag + d1 + 3
  BY <1>3, <1>4 DEF Early
<1>8. PICK z \in Int : z = a + lo
  OBVIOUS
<1>9. PICK c \in Nat : c = hi - lo
  <2>1. hi - lo \in Nat
    BY <1>1
  <2> QED
    BY <2>1
<1>10. ASSUME NEW k \in z .. z + c - 1
       PROVE  IQ!Duration(k - 1) >= start - Early /\ IQ!Duration(k - 1) <= end + (off + 1)
  <2>1. PICK i \in 1 .. n : i = k - a + 1 /\ lo < i /\ i <= hi /\ a + i - 1 - 1 = k - 1
    <3>1. k - a + 1 \in 1 .. n /\ lo < k - a + 1 /\ k - a + 1 <= hi /\ a + (k - a + 1) - 1 - 1 = k - 1
      BY <1>1, <1>8, <1>9
    <3> QED
      BY <3>1
  <2>2. IQ!Duration(i) >= start - t0 /\ IQ!Duration(i) <= end - t0
    BY <2>1 DEF Cut
  <2>3. PICK d \in Int, dp \in Int, at \in Int :
          /\ d = IQ!Duration(i) /\ dp = IQ!Duration(i - 1) /\ at = IQ!Duration(a + i - 1 - 1)
          /\ dp + d1 <= d /\ d <= dp + d1 + 1
          /\ da + dp <= at /\ at <= da + dp + 1
    BY <1>6
  <2>4. at >= start - (lag + d1 + 3) /\ at <= end + (off + 1)
    BY <1>3, <1>5, <2>2, <2>3
  <2> QED
    BY <1>7, <2>1, <2>3, <2>4
<1>11. ASSUME NEW k \in a .. a + n - 2, IQ!Duration(k - 1) >= start + (off + 1), IQ!Duration(k - 1) <= end - Early
       PROVE  k \in z .. z + c - 1
  <2>1. PICK i \in 1 .. n : i = k - a + 1 /\ i \in 1 .. n - 1 /\ a + i - 1 - 1 = k - 1
    <3>1. k - a + 1 \in 1 .. n /\ k - a + 1 \in 1 .. n - 1 /\ a + (k - a + 1) - 1 - 1 = k - 1
      OBVIOUS
    <3> QED
      BY <3>1
  <2>2. PICK d \in Int, dp \in Int, at \in Int :
          /\ d = IQ!Duration(i) /\ dp = IQ!Duration(i - 1) /\ at = IQ!Duration(a + i - 1 - 1)
          /\ dp + d1 <= d /\ d <= dp + d1 + 1
          /\ da + dp <= at /\ at <= da + dp + 1
    BY <1>6
  <2>3. at >= start + (off + 1) /\ at <= end - (lag + d1 + 3)
    BY <1>7, <1>11, <2>1, <2>2
  <2>4. dp >= start - t0 /\ dp + d1 + 2 <= end - t0
    BY <1>3, <1>5, <2>2, <2>3
  <2>5. lo < i /\ i <= hi
    BY <1>3, <2>1, <2>2, <2>4 DEF Cut
  <2> QED
    BY <1>8, <1>9, <2>1, <2>5
<1>12. a <= z /\ z + c <= a + n
  BY <1>1, <1>8, <1>9
<1>13. Taken(Run(z, c), off, a, n, z, c, start, end)
  BY <1>10, <1>11, <1>12 DEF Taken
<1> QED
  BY <1>8, <1>9, <1>13

(* What the indices of those ends cut out of a run.                            *)
Windowed(a, n, x, y) ==
  LET o == IF x > 0 THEN x ELSE 0
      w == IF y < IQ!Duration(n) THEN y ELSE IQ!Duration(n)
  IN  Part(Run(a, n), IQ!Index(o) + 1, IF IQ!Index(w) > n THEN n ELSE IQ!Index(w))

(* A part of a run that lies in the window.                                   *)
InWindow(s, a, n, x, y) == \E l \in Nat, h \in Nat : Cut(l, h, n, x, y) /\ s = Run(a + l, h - l)

(* So it does.                                                               *)
LEMMA WindowRun ==
  ASSUME RingSized, Fine, NEW a \in Int, NEW n \in Nat \ {0}, NEW x \in Int, NEW y \in Int, x <= y,
         x <= IQ!Duration(n), 0 <= y
  PROVE  InWindow(Windowed(a, n, x, y), a, n, x, y)
<1>6. PICK o \in Nat : o = (IF x > 0 THEN x ELSE 0) /\ (x > 0 => o = x) /\ (x <= 0 => o = 0)
  OBVIOUS
<1>7. PICK w \in Nat : /\ w = IF y < IQ!Duration(n) THEN y ELSE IQ!Duration(n)
                       /\ y < IQ!Duration(n) => w = y
                       /\ y >= IQ!Duration(n) => w = IQ!Duration(n)
  <2>1. IQ!Duration(n) \in Int /\ IQ!Duration(n) >= 0
    BY NoTime, DurationIs
  <2> QED
    BY <2>1
<1>8. PICK hi : hi = IF IQ!Index(w) > n THEN n ELSE IQ!Index(w)
  OBVIOUS
<1>9. Windowed(a, n, x, y) = Part(Run(a, n), IQ!Index(o) + 1, hi)
  BY <1>6, <1>7, <1>8 DEF Windowed
<1>1. PICK lo \in Nat : lo = IQ!Index(o)
  BY <1>6, IndexNat
<1>2. PICK h \in Nat : h = hi /\ h <= n /\ h <= IQ!Index(w) /\ (h = n \/ h = IQ!Index(w))
  BY <1>7, <1>8, IndexNat
<1>10. Ends(o, w, n, x, y)
  BY <1>6, <1>7 DEF Ends
<1>11. Enclosed(lo, h, n, x, y)
  BY <1>1, <1>2, <1>10, WindowCut
<1>3. /\ lo <= n
      /\ Cut(lo, h, n, x, y) \/ (lo > h /\ Cut(0, 0, n, x, y))
  BY <1>11 DEF Enclosed
<1>4. CASE Cut(lo, h, n, x, y)
  <2>1. lo <= h
    BY <1>4 DEF Cut
  <2>2. RunOf(a, n, lo, h)
    BY <1>1, <1>2, <2>1, RunCut
  <2>3. Part(Run(a, n), IQ!Index(o) + 1, hi) = Run(a + lo, h - lo)
    BY <1>1, <1>2, <2>2 DEF RunOf
  <2> QED
    BY <1>1, <1>2, <1>4, <1>9, <2>3 DEF InWindow
<1>5. CASE lo > h /\ Cut(0, 0, n, x, y)
  <2>1. PICK r : r = Run(a, n)
    OBVIOUS
  <2>2. r \in Seq(Int) /\ Len(r) = n
    BY <2>1, RunIs
  <2>3. PICK l \in Nat : l = lo + 1 /\ l > h
    BY <1>1, <1>2, <1>5
  <2>4. PICK s : s = SubSeq(r, l, h)
    OBVIOUS
  <2>5. \A i \in l .. h : r[i] \in Int
    BY <1>2, <2>3
  <2>6. s \in Seq(Int) /\ Len(s) = 0
    BY <1>2, <2>3, <2>4, <2>5
  <2>7. s = <<>>
    BY <2>6
  <2>8. PICK z \in Int : z = a + 0
    OBVIOUS
  <2>9. Run(z, 0) = <<>>
    BY <2>8, NoRun
  <2>10. Part(r, l, h) = <<>>
    BY <2>4, <2>7 DEF Part
  <2>11. Windowed(a, n, x, y) = <<>>
    BY <1>1, <1>2, <1>9, <2>1, <2>3, <2>10
  <2>12. a + 0 = z /\ 0 - 0 = 0
    BY <2>8
  <2>13. Windowed(a, n, x, y) = Run(a + 0, 0 - 0)
    BY <2>9, <2>11, <2>12
  <2> QED
    BY <1>5, <2>13 DEF InWindow
<1> QED
  BY <1>3, <1>4, <1>5

(* SliceInto takes of a block what lies in the window.                        *)
LEMMA BlockSlice ==
  ASSUME RingSized, Fine, mem \in Seq(Seq(Int)), NEW b \in Block, Holds(b, mem),
         NEW start \in Int, NEW end \in Int, start <= end
  PROVE  \E z \in Int, c \in Nat :
            Taken(IQ!Overlap(b, start, end), b.off, First(b, mem), b.n, z, c, start, end)
<1>1. PICK a \in Int : a = First(b, mem)
  BY LiveIs
<1>2. PICK n \in Nat \ {0} : n = b.n
  BY LiveIs
<1>3. IQ!Live(b) = Run(a, n) /\ a \in Int /\ n \in Nat \ {0}
  BY <1>1, <1>2, LiveIs DEF IQ!Live
<1>4. PICK off \in Nat, t0 \in Int : off = b.off /\ t0 = b.t0
  BY DEF Block
<1>5. Stamped(t0, off, a)
  BY <1>1, <1>4 DEF Holds
<1>6. PICK len \in Int : len = IQ!Duration(n)
  BY <1>3, DurationIs
<1>7. PICK x \in Int, y \in Int : x = start - t0 /\ y = end - t0 /\ x <= y
  <2>1. start - t0 \in Int /\ end - t0 \in Int /\ start - t0 <= end - t0
    OBVIOUS
  <2> QED
    BY <2>1
<1>8. PICK s : s = IQ!Overlap(b, start, end)
  OBVIOUS
<1>9. ASSUME NEW lo \in Nat, NEW hi \in Nat, Cut(lo, hi, n, x, y), s = Run(a + lo, hi - lo)
      PROVE  \E z \in Int, c \in Nat : Taken(s, off, a, n, z, c, start, end)
  <2>1. hi - lo \in Nat /\ a + lo \in Int
    BY <1>3, <1>9 DEF Cut
  <2>2. Cut(lo, hi, n, start - t0, end - t0)
    BY <1>7, <1>9
  <2>3. Taken(Run(a + lo, hi - lo), off, a, n, a + lo, hi - lo, start, end)
    BY <1>3, <1>5, <2>2, CutTaken
  <2> QED
    BY <1>9, <2>1, <2>3
<1>10. ASSUME Cut(0, 0, n, x, y), s = <<>> PROVE \E z \in Int, c \in Nat : Taken(s, off, a, n, z, c, start, end)
  <2>1. a + 0 \in Int /\ 0 - 0 = 0
    BY <1>3
  <2>2. s = Run(a + 0, 0 - 0)
    BY <1>10, <2>1, NoRun
  <2>3. 0 \in Nat
    OBVIOUS
  <2> QED
    BY <1>9, <1>10, <2>2, <2>3
<1>11. CASE t0 + len < start \/ t0 > end
  <2>1. s = <<>>
    BY <1>2, <1>4, <1>6, <1>8, <1>11 DEF IQ!Overlap
  <2>2. len < x \/ y < 0
    BY <1>7, <1>11
  <2>3. Cut(0, 0, n, x, y)
    BY <1>3, <1>6, <2>2, NothingCut
  <2> QED
    BY <1>1, <1>2, <1>4, <1>8, <1>10, <2>1, <2>3
<1>12. CASE ~(t0 + len < start \/ t0 > end)
  <2>1. PICK o : o = IF x > 0 THEN x ELSE 0
    OBVIOUS
  <2>2. PICK w : w = IF y < len THEN y ELSE len
    OBVIOUS
  <2>3. PICK o2 : o2 = IF start > t0 THEN start ELSE t0
    OBVIOUS
  <2>4. PICK w2 : w2 = IF end < t0 + len THEN end ELSE t0 + len
    OBVIOUS
  <2>5. o2 - t0 = o
    <3>1. CASE x > 0
      <4>1. start > t0 /\ o = x
        BY <1>4, <1>7, <2>1, <3>1
      <4> QED
        BY <1>4, <1>7, <2>3, <4>1
    <3>2. CASE ~(x > 0)
      <4>1. ~(start > t0) /\ o = 0
        BY <1>4, <1>7, <2>1, <3>2
      <4>2. o2 = t0
        BY <2>3, <4>1
      <4> QED
        BY <1>4, <4>1, <4>2
    <3> QED
      BY <3>1, <3>2
  <2>12. w2 - t0 = w
    <3>1. CASE y < len
      <4>3. w = y
        BY <2>2, <3>1
      <4>1. end < t0 + len
        BY ONLY end \in Int, <1>4, <1>6, <1>7, <3>1
      <4>2. w2 = end
        BY <2>4, <4>1
      <4> QED
        BY <1>4, <1>7, <4>2, <4>3
    <3>2. CASE ~(y < len)
      <4>3. w = len
        BY <2>2, <3>2
      <4>1. ~(end < t0 + len)
        BY ONLY end \in Int, <1>4, <1>6, <1>7, <3>2
      <4>2. w2 = t0 + len
        BY <2>4, <4>1
      <4> QED
        BY <1>4, <1>6, <4>2, <4>3
    <3> QED
      BY <3>1, <3>2
  <2>6. s = SubSeq(IQ!Live(b), IQ!Index(o2 - t0) + 1, IF IQ!Index(w2 - t0) > n THEN n ELSE IQ!Index(w2 - t0))
    BY <1>2, <1>4, <1>6, <1>8, <1>12, <2>3, <2>4 DEF IQ!Overlap
  <2>7. s = Part(Run(a, n), IQ!Index(o) + 1, IF IQ!Index(w) > n THEN n ELSE IQ!Index(w))
    BY <1>3, <2>5, <2>12, <2>6 DEF Part
  <2>8. s = Windowed(a, n, x, y)
    <3>1. w = IF y < IQ!Duration(n) THEN y ELSE IQ!Duration(n)
      BY <1>6, <2>2
    <3> QED
      BY <2>1, <2>7, <3>1 DEF Windowed
  <2>9. x <= IQ!Duration(n) /\ 0 <= y
    <3>1. start <= t0 + len /\ t0 <= end
      BY <1>4, <1>6, <1>12
    <3>2. x <= len /\ 0 <= y
      BY ONLY start \in Int, end \in Int, <1>4, <1>6, <1>7, <3>1
    <3> QED
      BY <1>6, <3>2
  <2>10. InWindow(s, a, n, x, y)
    BY <1>1, <1>2, <1>7, <2>8, <2>9, WindowRun
  <2>11. PICK lo \in Nat, h \in Nat : Cut(lo, h, n, x, y) /\ s = Run(a + lo, h - lo)
    BY <2>10 DEF InWindow
  <2> QED
    BY <1>1, <1>2, <1>4, <1>8, <1>9, <2>11
<1> QED
  BY <1>11, <1>12
(* A sequence of numbers in ascending order.                                 *)
Ascending(s) == s \in Seq(Int) /\ \A i, j \in 1 .. Len(s) : i < j => s[i] < s[j]

(* What is in a sequence.                                                    *)
Among(s) == {s[i] : i \in DOMAIN s}

(* A run behind an ascending sequence that ends before it.                    *)
LEMMA RunBehind ==
  ASSUME NEW s, Ascending(s), NEW z \in Int, NEW c \in Nat, \A e \in Among(s) : e < z,
         NEW t, t = s \o Run(z, c)
  PROVE  Ascending(t) /\ \A e : e \in Among(t) <=> (e \in Among(s) \/ e \in z .. z + c - 1)
<1>1. PICK r : r = Run(z, c)
  OBVIOUS
<1>2. r \in Seq(Int) /\ Len(r) = c /\ \A i \in 1 .. c : r[i] = z + i - 1
  BY <1>1, RunIs
<1>3. PICK n \in Nat : n = Len(s) /\ DOMAIN s = 1 .. n /\ s \in Seq(Int)
  BY DEF Ascending
<1>4. PICK k \in Nat : k = n + c
  OBVIOUS
<1>5. /\ t \in Seq(Int) /\ Len(t) = k
      /\ \A i \in 1 .. k : t[i] = IF i <= n THEN s[i] ELSE r[i - n]
  <2>1. /\ s \o r \in Seq(Int) /\ Len(s \o r) = Len(s) + Len(r)
        /\ \A i \in 1 .. Len(s) + Len(r) : (s \o r)[i] = IF i <= Len(s) THEN s[i] ELSE r[i - Len(s)]
    BY <1>2, <1>3, ConcatProperties, Zenon
  <2>2. t = s \o r
    BY <1>1
  <2> QED
    BY <1>2, <1>3, <1>4, <2>1, <2>2, Zenon
<1>6. \A i \in 1 .. n : i \in 1 .. k /\ t[i] = s[i] /\ s[i] \in Among(s) /\ s[i] < z /\ s[i] \in Int
  <2> SUFFICES ASSUME NEW i \in 1 .. n
               PROVE  i \in 1 .. k /\ t[i] = s[i] /\ s[i] \in Among(s) /\ s[i] < z /\ s[i] \in Int
    OBVIOUS
  <2>1. i \in 1 .. k /\ i <= n
    BY <1>3, <1>4
  <2>2. s[i] \in Among(s)
    BY <1>3 DEF Among
  <2>3. s[i] \in Int
    BY <1>3
  <2> QED
    BY <1>5, <2>1, <2>2, <2>3
<1>7. \A i \in 1 .. k : i > n => t[i] = z + (i - n) - 1 /\ t[i] \in z .. z + c - 1
  <2> SUFFICES ASSUME NEW i \in 1 .. k, i > n PROVE t[i] = z + (i - n) - 1 /\ t[i] \in z .. z + c - 1
    OBVIOUS
  <2>1. PICK j \in 1 .. c : j = i - n
    BY <1>4
  <2>2. t[i] = r[j]
    BY <1>5, <2>1
  <2> QED
    BY <1>2, <2>1, <2>2
<1>8. ASSUME NEW i \in 1 .. k, NEW j \in 1 .. k, i < j PROVE t[i] < t[j]
  <2>1. CASE j <= n
    <3>1. i \in 1 .. n /\ j \in 1 .. n
      BY <1>8, <2>1
    <3>2. s[i] < s[j]
      BY <1>3, <1>8, <3>1 DEF Ascending
    <3> QED
      BY <1>6, <3>1, <3>2
  <2>2. CASE i <= n /\ n < j
    <3>1. i \in 1 .. n
      BY <2>2
    <3>2. t[i] < z /\ t[i] \in Int
      BY <1>6, <3>1
    <3>3. t[j] \in z .. z + c - 1
      BY <1>7, <2>2
    <3>4. PICK v : v = t[j]
      OBVIOUS
    <3>5. PICK u : u = t[i]
      OBVIOUS
    <3>6. u \in Int /\ u < z /\ v \in Int /\ z <= v
      <4>1. v \in z .. z + c - 1
        BY <3>3, <3>4
      <4>2. u \in Int /\ u < z
        BY <3>2, <3>5
      <4> QED
        BY <4>1, <4>2
    <3>7. u < v
      BY <3>6
    <3> QED
      BY <3>4, <3>5, <3>7
  <2>3. CASE n < i
    <3>1. j > n
      BY <1>3, <1>4, <1>8, <2>3
    <3>2. t[i] = z + (i - n) - 1 /\ t[j] = z + (j - n) - 1
      BY <1>7, <2>3, <3>1
    <3> QED
      BY <1>3, <1>4, <1>8, <3>2
  <2>4. j <= n \/ (i <= n /\ n < j) \/ n < i
    BY <1>3, <1>4, <1>8
  <2> QED
    BY <2>1, <2>2, <2>3, <2>4
<1>9. Ascending(t)
  BY <1>5, <1>8 DEF Ascending
<1>10. ASSUME NEW e, e \in Among(t) PROVE e \in Among(s) \/ e \in z .. z + c - 1
  <2>1. PICK i \in 1 .. k : e = t[i]
    BY <1>5, <1>10 DEF Among
  <2>2. CASE i <= n
    <3>1. i \in 1 .. n
      BY <2>2
    <3> QED
      BY <1>6, <2>1, <3>1
  <2>3. CASE i > n
    BY <1>7, <2>1, <2>3
  <2> QED
    BY <2>2, <2>3
<1>11. ASSUME NEW e, e \in Among(s) PROVE e \in Among(t)
  <2>1. PICK i \in 1 .. n : e = s[i]
    BY <1>3, <1>11 DEF Among
  <2>2. i \in DOMAIN t /\ t[i] = e
    BY <1>5, <1>6, <2>1
  <2> QED
    BY <2>2 DEF Among
<1>12. ASSUME NEW e \in z .. z + c - 1 PROVE e \in Among(t)
  <2>3. PICK j \in 1 .. c : j = e - z + 1
    <3>1. e - z + 1 \in 1 .. c
      OBVIOUS
    <3> QED
      BY <3>1
  <2>1. PICK i \in 1 .. k : i = j + n /\ i > n
    <3>1. j + n \in 1 .. k /\ j + n > n
      BY <1>3, <1>4
    <3> QED
      BY <3>1
  <2>2. t[i] = e
    <3>1. t[i] = z + (i - n) - 1
      BY <1>7, <2>1
    <3>2. z + (i - n) - 1 = e
      BY <1>3, <2>1, <2>3
    <3> QED
      BY <3>1, <3>2
  <2>4. i \in DOMAIN t
    BY <1>5, <2>1
  <2> QED
    BY <2>2, <2>4 DEF Among
<1> QED
  BY <1>9, <1>10, <1>11, <1>12

(* The samples from z on, c of them.                                         *)
Span(z, c) == z .. z + c - 1

(* Runs one after another: none reaches into the room of the next.            *)
Laid(seqs, n, z, c, a, up) ==
  /\ \A i \in 1 .. n : seqs[i] = Run(z[i], c[i]) /\ a[i] <= z[i] /\ z[i] + c[i] <= up[i]
  /\ \A i, j \in 1 .. n : j = i + 1 => up[i] = a[j]

(* They have been put together, and that is all there is.                     *)
Merged(out, n, z, c) == \A e : e \in Among(out) <=> \E i \in 1 .. n : e \in Span(z[i], c[i])

(* Runs laid so, put together, ascend. By induction on their number.          *)
LEMMA RunsAscend ==
  ASSUME NEW n \in Nat, NEW seqs \in Seq(Seq(Int)), Len(seqs) = n,
         NEW z \in [1 .. n -> Int], NEW c \in [1 .. n -> Nat], NEW a \in [1 .. n -> Int], NEW up \in [1 .. n -> Int],
         Laid(seqs, n, z, c, a, up), NEW out, out = IQ!FlattenSeq(seqs)
  PROVE  Ascending(out) /\ Merged(out, n, z, c)
<1>1. /\ \A i \in 1 .. n : seqs[i] = Run(z[i], c[i]) /\ a[i] <= z[i] /\ z[i] + c[i] <= up[i]
      /\ \A i, j \in 1 .. n : j = i + 1 => up[i] = a[j]
  BY DEF Laid
<1>2. CASE n = 0
  <2>1. out = seqs
    BY <1>2 DEF IQ!FlattenSeq
  <2>2. 1 .. 0 = {}
    OBVIOUS
  <2>3. DOMAIN out = {} /\ out = <<>>
    BY <1>2, <2>1, <2>2
  <2>4. out \in Seq(Int) /\ 1 .. Len(out) = {}
    BY <2>2, <2>3
  <2>5. Ascending(out)
    BY <2>4 DEF Ascending
  <2>6. Among(out) = {}
    BY <2>3 DEF Among
  <2>7. ~ \E i \in 1 .. n : TRUE
    BY <1>2, <2>2
  <2> QED
    BY <2>5, <2>6, <2>7 DEF Merged
<1>3. CASE n # 0
  <2>1. n \in Nat \ {0}
    BY <1>3
  <2>2. PICK g : Flattens(g, seqs, n) /\ IQ!FlattenSeq(seqs) = g[n]
    BY <2>1, FlattenSteps
  <2> DEFINE Fit(i) == /\ Ascending(g[i])
                       /\ \A e \in Among(g[i]) : e \in Int /\ e < up[i]
                       /\ \A e : e \in Among(g[i]) <=> \E j \in 1 .. i : e \in Span(z[j], c[j])
             good == {k \in Nat : k + 1 <= n => Fit(k + 1)}
  <2>3. 0 \in good
    <3>1. PICK one \in 1 .. n : one = 0 + 1 /\ one = 1
      BY <2>1
    <3>2. g[one] = seqs[one]
      BY <2>2, <3>1 DEF Flattens
    <3>3. PICK y \in Int, d \in Nat : y = z[one] /\ d = c[one] /\ y + d <= up[one]
      BY <1>1
    <3>4. PICK s : s = g[one]
      OBVIOUS
    <3>5. s \in Seq(Int) /\ Len(s) = d /\ \A i \in 1 .. d : s[i] = y + i - 1
      <4>1. s = Run(y, d)
        BY <1>1, <3>2, <3>3, <3>4
      <4>2. PICK w : w = Run(y, d)
        OBVIOUS
      <4>3. w \in Seq(Int) /\ Len(w) = d /\ \A i \in 1 .. d : w[i] = y + i - 1
        BY <3>3, <4>2, RunIs
      <4> QED
        BY <4>1, <4>2, <4>3
    <3>6. Ascending(s)
      BY <3>5 DEF Ascending
    <3>7. Among(s) = Span(y, d)
      <4>1. ASSUME NEW e \in Span(y, d) PROVE e \in Among(s)
        <5>1. PICK i \in 1 .. d : i = e - y + 1
          BY DEF Span
        <5>2. s[i] = e
          BY <3>5, <5>1 DEF Span
        <5>3. i \in DOMAIN s
          BY <3>5, <5>1
        <5> QED
          BY <5>2, <5>3 DEF Among
      <4>2. ASSUME NEW e \in Among(s) PROVE e \in Span(y, d)
        <5>1. PICK i \in 1 .. d : e = s[i]
          BY <3>5 DEF Among
        <5> QED
          BY <3>5, <5>1 DEF Span
      <4> QED
        BY <4>1, <4>2
    <3>8. \A e \in Span(y, d) : e \in Int /\ e < up[one]
      BY <3>3 DEF Span
    <3>9. \A j \in 1 .. one : j = one
      BY <3>1
    <3>10. one \in 1 .. one
      BY <3>1
    <3>11. \A e : e \in Among(s) <=> \E j \in 1 .. one : e \in Span(z[j], c[j])
      BY <3>3, <3>7, <3>9, <3>10
    <3>12. Fit(one)
      BY <3>4, <3>6, <3>7, <3>8, <3>11
    <3> HIDE DEF Fit
    <3> QED
      BY <3>1, <3>12
  <2>4. ASSUME NEW k \in Nat, k \in good PROVE k + 1 \in good
    <3>1. CASE k + 1 + 1 <= n
      <4>1. PICK i \in 1 .. n : i = k + 1
        BY <3>1
      <4>2. PICK j \in 1 .. n : j = i + 1 /\ j = k + 1 + 1 /\ j # 1 /\ j - 1 = i
        BY <3>1, <4>1
      <4>3. Fit(i)
        <5> HIDE DEF Fit
        <5> QED
          BY <2>4, <3>1, <4>1
      <4>4. PICK s : s = g[i]
        OBVIOUS
      <4>5. PICK t : t = g[j]
        OBVIOUS
      <4>6. PICK y \in Int, d \in Nat : y = z[j] /\ d = c[j]
        OBVIOUS
      <4>7. t = s \o Run(y, d)
        <5>1. g[j] = g[i] \o seqs[j]
          BY <2>2, <4>2 DEF Flattens
        <5> QED
          BY <1>1, <4>4, <4>5, <4>6, <5>1
      <4>8. up[i] = a[j] /\ a[j] <= y /\ y + d <= up[j] /\ up[j] \in Int
        BY <1>1, <4>2, <4>6
      <4>9. Ascending(s) /\ \A e \in Among(s) : e \in Int /\ e < y /\ e < up[j]
        <5>1. Ascending(s)
          BY <4>3, <4>4
        <5>2. ASSUME NEW e \in Among(s) PROVE e \in Int /\ e < y /\ e < up[j]
          <6>1. PICK v \in Int : v = up[j]
            BY <4>8
          <6>2. PICK w \in Int : w = up[i]
            OBVIOUS
          <6>3. e \in Int /\ e < w
            BY <4>3, <4>4, <6>2
          <6>4. w <= y /\ y <= v
            BY <4>6, <4>8, <6>1, <6>2
          <6>5. e \in Int /\ e < y /\ e < v
            <7> HIDE DEF Fit, good
            <7>1. PICK f \in Int : f = e /\ f < w
              BY <6>3
            <7>2. f < y /\ f < v
              <8>1. y \in Int /\ w \in Int /\ v \in Int
                BY <4>6, <6>1, <6>2
              <8> QED
                BY ONLY <6>4, <7>1, <8>1
            <7> QED
              BY <7>1, <7>2
          <6> QED
            BY <6>1, <6>5
        <5> QED
          BY <5>1, <5>2
      <4>10. Ascending(t) /\ \A e : e \in Among(t) <=> (e \in Among(s) \/ e \in y .. y + d - 1)
        BY <4>7, <4>9, RunBehind
      <4>11. \A e : e \in Among(t) <=> (e \in Among(s) \/ e \in Span(y, d))
        BY <4>10 DEF Span
      <4>12. \A e \in Span(y, d) : e \in Int /\ e < up[j]
        BY <4>8 DEF Span
      <4>13. \A e : e \in Among(s) <=> \E l \in 1 .. i : e \in Span(z[l], c[l])
        BY <4>3, <4>4
      <4>14. \A l : l \in 1 .. j <=> (l \in 1 .. i \/ l = j)
        <5>1. i \in Nat /\ j = i + 1
          BY <4>1, <4>2
        <5>2. ASSUME NEW l \in 1 .. j PROVE l \in 1 .. i \/ l = j
          BY <5>1
        <5>3. ASSUME NEW l \in 1 .. i PROVE l \in 1 .. j
          BY <5>1
        <5>4. j \in 1 .. j
          BY <5>1
        <5> QED
          BY <5>2, <5>3, <5>4
      <4>15. \A e : e \in Among(t) <=> \E l \in 1 .. j : e \in Span(z[l], c[l])
        BY <4>6, <4>11, <4>13, <4>14
      <4>16. Fit(j)
        BY <4>5, <4>9, <4>10, <4>11, <4>12, <4>15
      <4> HIDE DEF Fit
      <4>17. Fit(k + 1 + 1)
        BY <4>2, <4>16
      <4> QED
        BY <4>17
    <3> HIDE DEF Fit
    <3> QED
      BY <3>1
  <2>5. \A k \in 0 .. n : k \in good
    <3> HIDE DEF good
    <3> QED
      BY <2>3, <2>4, Induction
  <2>6. PICK k \in 0 .. n : k = n - 1 /\ k + 1 = n
    BY <2>1
  <2>7. Fit(n)
    <3> HIDE DEF Fit
    <3>1. k \in good
      <4> HIDE DEF good
      <4> QED
        BY <2>5
    <3>2. k + 1 <= n
      BY <2>6
    <3> QED
      BY <2>6, <3>1, <3>2
  <2> QED
    BY <2>2, <2>7 DEF Merged
<1> QED
  BY <1>2, <1>3

(* A slice of the blocks of a ring, over a window.                            *)
LEMMA SliceIs ==
  ASSUME RingSized, Fine, mem \in Seq(Seq(Int)), NEW bs \in Seq(Block), NEW first \in Int, NEW newest \in Int,
         Chain(bs, mem, first, newest), NEW start \in Int, NEW end \in Int, start <= end,
         NEW out, out = IQ!FlattenSeq([i \in DOMAIN bs |-> IQ!Overlap(bs[i], start, end)])
  PROVE  /\ Ascending(out)
         /\ \A e \in Among(out) : \E i \in DOMAIN bs :
              /\ e \in Span(First(bs[i], mem), bs[i].n)
              /\ IQ!Duration(e - 1) >= start - Early /\ IQ!Duration(e - 1) <= end + (bs[i].off + 1)
         /\ \A i \in DOMAIN bs : \A e \in Span(First(bs[i], mem), bs[i].n - 1) :
              (IQ!Duration(e - 1) >= start + (bs[i].off + 1) /\ IQ!Duration(e - 1) <= end - Early)
                => e \in Among(out)
<1>1. PICK n \in Nat : n = Len(bs) /\ DOMAIN bs = 1 .. n
  OBVIOUS
<1>2. PICK seqs : seqs = [i \in 1 .. n |-> IQ!Overlap(bs[i], start, end)]
  OBVIOUS
<1> DEFINE a == [i \in 1 .. n |-> First(bs[i], mem)]
           size == [i \in 1 .. n |-> bs[i].n]
           up == [i \in 1 .. n |-> a[i] + size[i]]
           Covers(i, z, c) == Taken(seqs[i], bs[i].off, a[i], size[i], z, c, start, end)
           Z(i) == CHOOSE z \in Int : \E c \in Nat : Covers(i, z, c)
           C(i) == CHOOSE c \in Nat : Covers(i, Z(i), c)
<1>3. ASSUME NEW i \in 1 .. n
      PROVE  /\ a[i] \in Int /\ size[i] \in Nat \ {0} /\ up[i] \in Int
             /\ \E z \in Int, c \in Nat : Covers(i, z, c)
  <2>1. PICK b \in Block : b = bs[i]
    BY <1>1
  <2>2. Holds(b, mem)
    BY <1>1, <2>1 DEF Chain
  <2>3. First(b, mem) \in Int /\ b.n \in Nat \ {0}
    BY <2>2, LiveIs
  <2>4. \E z \in Int, c \in Nat :
           Taken(IQ!Overlap(b, start, end), b.off, First(b, mem), b.n, z, c, start, end)
    BY <2>1, <2>2, BlockSlice
  <2>5. a[i] = First(b, mem) /\ size[i] = b.n /\ seqs[i] = IQ!Overlap(b, start, end) /\ up[i] = a[i] + size[i]
    BY <1>2, <2>1
  <2>6. a[i] \in Int /\ size[i] \in Nat \ {0}
    BY <2>3, <2>5
  <2>7. up[i] \in Int
    BY <2>5, <2>6
  <2> HIDE DEF a, size, up
  <2> QED
    BY <2>1, <2>4, <2>5, <2>6, <2>7
<1>15. ASSUME NEW i \in 1 .. n PROVE Z(i) \in Int /\ C(i) \in Nat /\ Covers(i, Z(i), C(i))
  <2> HIDE DEF Covers
  <2>1. \E z \in Int : \E c \in Nat : Covers(i, z, c)
    BY <1>3
  <2>2. Z(i) \in Int /\ \E c \in Nat : Covers(i, Z(i), c)
    BY <2>1
  <2> HIDE DEF Z
  <2> QED
    BY <2>2
<1> HIDE DEF Z, C
<1>16. PICK zs : zs = [i \in 1 .. n |-> Z(i)]
  OBVIOUS
<1>17. PICK cs : cs = [i \in 1 .. n |-> C(i)]
  OBVIOUS
<1>4. ASSUME NEW i \in 1 .. n PROVE zs[i] \in Int /\ cs[i] \in Nat /\ Covers(i, zs[i], cs[i])
  <2> HIDE DEF Covers
  <2>1. zs[i] = Z(i) /\ cs[i] = C(i)
    BY <1>16, <1>17
  <2> QED
    BY <1>15, <2>1
<1>5. a \in [1 .. n -> Int] /\ up \in [1 .. n -> Int]
  <2>1. \A i \in 1 .. n : a[i] \in Int /\ up[i] \in Int
    BY <1>3
  <2>2. a = [i \in 1 .. n |-> a[i]] /\ up = [i \in 1 .. n |-> up[i]]
    OBVIOUS
  <2> HIDE DEF a, up
  <2> QED
    BY <2>1, <2>2
<1>6. zs \in [1 .. n -> Int] /\ cs \in [1 .. n -> Nat]
  <2> HIDE DEF Covers
  <2> QED
    BY <1>15, <1>16, <1>17
<1>7. ASSUME NEW i \in 1 .. n, NEW j \in 1 .. n, j = i + 1 PROVE up[i] = a[j]
  <2>1. First(bs[j], mem) = First(bs[i], mem) + bs[i].n
    BY <1>1, <1>7 DEF Chain
  <2> QED
    BY <2>1
<1>8. \A i \in 1 .. n : up[i] = a[i] + size[i] /\ a[i] = First(bs[i], mem) /\ size[i] = bs[i].n
  OBVIOUS
<1> HIDE DEF a, size, up
<1>9. \A i \in 1 .. n : seqs[i] = Run(zs[i], cs[i]) /\ a[i] <= zs[i] /\ zs[i] + cs[i] <= up[i]
  BY <1>4, <1>8 DEF Taken
<1>10. seqs \in Seq(Seq(Int)) /\ Len(seqs) = n
  <2>1. ASSUME NEW i \in 1 .. n PROVE IQ!Overlap(bs[i], start, end) \in Seq(Int)
    <3>1. PICK y \in Int, d \in Nat : y = zs[i] /\ d = cs[i]
      <4> HIDE DEF Covers
      <4> QED
        BY <1>4
    <3>2. IQ!Overlap(bs[i], start, end) = Run(y, d)
      BY <1>2, <1>9, <3>1
    <3> QED
      BY <3>2, RunIs
  <2>2. seqs \in [1 .. n -> Seq(Int)]
    BY <1>2, <2>1
  <2> QED
    BY <2>2
<1>11. out = IQ!FlattenSeq(seqs)
  BY <1>1, <1>2
<1>12. Ascending(out) /\ Merged(out, n, zs, cs)
  <2>1. \A i, j \in 1 .. n : j = i + 1 => up[i] = a[j]
    BY <1>7
  <2>2. Laid(seqs, n, zs, cs, a, up)
    BY <1>9, <2>1 DEF Laid
  <2> HIDE DEF Covers
  <2> QED
    BY <1>1, <1>5, <1>6, <1>10, <1>11, <2>2, RunsAscend
<1>13. ASSUME NEW e \in Among(out)
       PROVE  \E i \in DOMAIN bs :
                /\ e \in Span(First(bs[i], mem), bs[i].n)
                /\ IQ!Duration(e - 1) >= start - Early /\ IQ!Duration(e - 1) <= end + (bs[i].off + 1)
  <2>1. PICK i \in 1 .. n : e \in Span(zs[i], cs[i])
    BY <1>12 DEF Merged
  <2>2. IQ!Duration(e - 1) >= start - Early /\ IQ!Duration(e - 1) <= end + (bs[i].off + 1)
    BY <1>4, <2>1 DEF Taken, Span
  <2>3. a[i] <= zs[i] /\ zs[i] + cs[i] <= a[i] + size[i] /\ a[i] \in Int /\ size[i] \in Nat
    BY <1>3, <1>8, <1>9
  <2>4. e \in Span(a[i], size[i])
    <3>1. PICK y \in Int, d \in Nat : y = zs[i] /\ d = cs[i]
      BY <1>4
    <3>2. e \in Int /\ y <= e /\ e <= y + d - 1
      BY <2>1, <3>1 DEF Span
    <3>3. PICK f \in Int, m \in Nat : f = a[i] /\ m = size[i]
      BY <2>3
    <3>4. f <= y /\ y + d <= f + m
      BY <2>3, <3>1, <3>3
    <3>5. e \in f .. f + m - 1
      BY <3>2, <3>4
    <3> QED
      BY <3>3, <3>5 DEF Span
  <2> QED
    BY <1>1, <1>8, <2>2, <2>4
<1>14. ASSUME NEW i \in DOMAIN bs, NEW e \in Span(First(bs[i], mem), bs[i].n - 1),
              IQ!Duration(e - 1) >= start + (bs[i].off + 1), IQ!Duration(e - 1) <= end - Early
       PROVE  e \in Among(out)
  <2>1. i \in 1 .. n
    BY <1>1
  <2>2. Covers(i, zs[i], cs[i]) /\ a[i] \in Int /\ size[i] \in Nat
    BY <1>3, <1>4, <2>1
  <2>3. e \in a[i] .. a[i] + size[i] - 2
    <3>1. e \in Span(a[i], size[i] - 1)
      BY <1>8, <1>14, <2>1
    <3> QED
      BY <2>2, <3>1 DEF Span
  <2>4. e \in zs[i] .. zs[i] + cs[i] - 1
    BY <1>14, <2>2, <2>3 DEF Taken
  <2>5. e \in Span(zs[i], cs[i])
    BY <2>4 DEF Span
  <2> QED
    BY <1>12, <2>1, <2>5 DEF Merged
<1> QED
  BY <1>12, <1>13, <1>14
(* So a slice of the ring has what it should.                                 *)
LEMMA SliceHolds == RingSized /\ Fine /\ IQInv => IQ!SliceRight
<1> SUFFICES ASSUME RingSized, Fine, IQInv PROVE IQ!SliceRight
  OBVIOUS
<1>1. PICK first : first = Since(ring.max, from, last)
  OBVIOUS
<1>2. PICK bs : bs = ring.blocks
  OBVIOUS
<1>3. Keeps(ring, mem, first, last)
  BY <1>1 DEF IQInv
<1>4. /\ bs \in Seq(Block) /\ mem \in Seq(Seq(Int)) /\ first \in Int /\ last \in Int
      /\ Chain(bs, mem, first, last)
  BY <1>2, <1>3 DEF Keeps, Rings
<1>5. ASSUME NEW i \in DOMAIN bs
      PROVE  /\ First(bs[i], mem) \in Int /\ bs[i].n \in Nat \ {0}
             /\ {IQ!Live(bs[i])[j] : j \in 1 .. bs[i].n} = Span(First(bs[i], mem), bs[i].n)
             /\ {IQ!Live(bs[i])[j] : j \in 1 .. bs[i].n - 1} = Span(First(bs[i], mem), bs[i].n - 1)
  <2>1. PICK b \in Block : b = bs[i]
    BY <1>4
  <2>2. Holds(b, mem)
    BY <1>4, <2>1 DEF Chain
  <2>3. PICK a \in Int, n \in Nat \ {0} : a = First(b, mem) /\ n = b.n
    BY <1>4, <2>2, LiveIs
  <2>4. PICK s : s = IQ!Live(b)
    OBVIOUS
  <2>5. s = Run(a, n)
    BY <1>4, <2>2, <2>3, <2>4, LiveIs DEF IQ!Live
  <2>6. \A j \in 1 .. n : s[j] = a + j - 1
    BY <2>3, <2>5, RunIs
  <2>7. ASSUME NEW l \in Nat, l <= n PROVE {s[j] : j \in 1 .. l} = Span(a, l)
    <3>1. ASSUME NEW e \in Span(a, l) PROVE e \in {s[j] : j \in 1 .. l}
      <4>1. PICK j \in 1 .. l : j = e - a + 1 /\ a + j - 1 = e
        <5>1. e \in a .. a + l - 1
          BY DEF Span
        <5>2. e - a + 1 \in 1 .. l /\ a + (e - a + 1) - 1 = e
          BY <2>3, <5>1
        <5> QED
          BY <5>2
      <4>2. j \in 1 .. n
        BY <2>3, <2>7
      <4>3. s[j] = e
        BY <2>6, <4>1, <4>2
      <4> QED
        BY <4>3
    <3>2. ASSUME NEW j \in 1 .. l PROVE s[j] \in Span(a, l)
      <4>1. j \in 1 .. n
        BY <2>3, <2>7
      <4>2. s[j] = a + j - 1
        BY <2>6, <4>1
      <4>3. a + j - 1 \in a .. a + l - 1
        BY <2>3
      <4> QED
        BY <4>2, <4>3 DEF Span
    <3> QED
      BY <3>1, <3>2
  <2>8. PICK l \in Nat : l = n - 1 /\ l <= n
    BY <2>3
  <2>9. {s[j] : j \in 1 .. n} = Span(a, n) /\ {s[j] : j \in 1 .. l} = Span(a, l)
    BY <2>3, <2>7, <2>8
  <2> QED
    BY <2>1, <2>3, <2>4, <2>8, <2>9
<1>6. ASSUME NEW start \in Int, NEW end \in Int, start <= end, NEW out, out = IQ!Slice(start, end)
      PROVE  /\ \A i \in 1 .. Len(out) - 1 : out[i] < out[i + 1]
             /\ \A n \in Among(out) : \E i \in DOMAIN bs :
                  /\ n \in {IQ!Live(bs[i])[j] : j \in 1 .. bs[i].n}
                  /\ IQ!At(n) >= start - Early /\ IQ!At(n) <= end + (bs[i].off + 1)
             /\ \A i \in DOMAIN bs : \A n \in {IQ!Live(bs[i])[j] : j \in 1 .. bs[i].n - 1} :
                  (IQ!At(n) >= start + (bs[i].off + 1) /\ IQ!At(n) <= end - Early) => n \in Among(out)
  <2>1. out = IQ!FlattenSeq([i \in DOMAIN bs |-> IQ!Overlap(bs[i], start, end)])
    BY <1>2, <1>6 DEF IQ!Slice
  <2>2. /\ Ascending(out)
        /\ \A e \in Among(out) : \E i \in DOMAIN bs :
             /\ e \in Span(First(bs[i], mem), bs[i].n)
             /\ IQ!Duration(e - 1) >= start - Early /\ IQ!Duration(e - 1) <= end + (bs[i].off + 1)
        /\ \A i \in DOMAIN bs : \A e \in Span(First(bs[i], mem), bs[i].n - 1) :
             (IQ!Duration(e - 1) >= start + (bs[i].off + 1) /\ IQ!Duration(e - 1) <= end - Early)
               => e \in Among(out)
    BY <1>4, <1>6, <2>1, SliceIs
  <2>3. ASSUME NEW i \in 1 .. Len(out) - 1 PROVE out[i] < out[i + 1]
    <3>1. PICK n \in Nat : n = Len(out)
      BY <2>2 DEF Ascending
    <3>2. PICK j \in 1 .. n : j = i + 1
      BY <3>1
    <3>3. i \in 1 .. n /\ i < j
      BY <3>1, <3>2
    <3>4. out[i] < out[j]
      BY <2>2, <3>1, <3>3 DEF Ascending
    <3> QED
      BY <3>2, <3>4
  <2>4. ASSUME NEW n \in Among(out)
        PROVE  \E i \in DOMAIN bs :
                 /\ n \in {IQ!Live(bs[i])[j] : j \in 1 .. bs[i].n}
                 /\ IQ!At(n) >= start - Early /\ IQ!At(n) <= end + (bs[i].off + 1)
    <3>1. PICK i \in DOMAIN bs :
             /\ n \in Span(First(bs[i], mem), bs[i].n)
             /\ IQ!Duration(n - 1) >= start - Early /\ IQ!Duration(n - 1) <= end + (bs[i].off + 1)
      BY <2>2
    <3>2. n \in {IQ!Live(bs[i])[j] : j \in 1 .. bs[i].n}
      BY <1>5, <3>1
    <3> QED
      BY <3>1, <3>2, Zenon DEF IQ!At
  <2>5. ASSUME NEW i \in DOMAIN bs, NEW n \in {IQ!Live(bs[i])[j] : j \in 1 .. bs[i].n - 1},
               IQ!At(n) >= start + (bs[i].off + 1), IQ!At(n) <= end - Early
        PROVE  n \in Among(out)
    <3>1. n \in Span(First(bs[i], mem), bs[i].n - 1)
      BY <1>5
    <3>2. IQ!Duration(n - 1) >= start + (bs[i].off + 1) /\ IQ!Duration(n - 1) <= end - Early
      BY <2>5 DEF IQ!At
    <3> QED
      BY <2>2, <3>1, <3>2, Zenon
  <2> QED
    BY <2>3, <2>4, <2>5
<1> DEFINE Blocks == {ring.blocks[i] : i \in DOMAIN ring.blocks}
           T == {IQ!Duration(n) : n \in 0 .. last + 2}
           Right(out, start, end) ==
             /\ \A i \in 1 .. Len(out) - 1 : out[i] < out[i + 1]
             /\ \A n \in {out[i] : i \in DOMAIN out} : \E b \in Blocks :
                  /\ n \in {IQ!Live(b)[i] : i \in 1 .. b.n}
                  /\ IQ!At(n) >= start - Early /\ IQ!At(n) <= end + (b.off + 1)
             /\ \A b \in Blocks : \A n \in {IQ!Live(b)[i] : i \in 1 .. b.n - 1} :
                  (IQ!At(n) >= start + (b.off + 1) /\ IQ!At(n) <= end - Early) => n \in {out[i] : i \in DOMAIN out}
<1>7. ASSUME NEW start \in T, NEW end \in T, start <= end, NEW out, out = IQ!Slice(start, end)
      PROVE  Right(out, start, end)
  <2>1. start \in Int /\ end \in Int
    BY <1>4, DurationIs
  <2>2. /\ \A i \in 1 .. Len(out) - 1 : out[i] < out[i + 1]
        /\ \A n \in Among(out) : \E i \in DOMAIN bs :
             /\ n \in {IQ!Live(bs[i])[j] : j \in 1 .. bs[i].n}
             /\ IQ!At(n) >= start - Early /\ IQ!At(n) <= end + (bs[i].off + 1)
        /\ \A i \in DOMAIN bs : \A n \in {IQ!Live(bs[i])[j] : j \in 1 .. bs[i].n - 1} :
             (IQ!At(n) >= start + (bs[i].off + 1) /\ IQ!At(n) <= end - Early) => n \in Among(out)
    BY <1>6, <1>7, <2>1
  <2>3. Among(out) = {out[i] : i \in DOMAIN out}
    BY DEF Among
  <2>4. ASSUME NEW n \in {out[i] : i \in DOMAIN out}
        PROVE  \E b \in {ring.blocks[i] : i \in DOMAIN ring.blocks} :
                 /\ n \in {IQ!Live(b)[i] : i \in 1 .. b.n}
                 /\ IQ!At(n) >= start - Early /\ IQ!At(n) <= end + (b.off + 1)
    <3>1. PICK i \in DOMAIN bs :
             /\ n \in {IQ!Live(bs[i])[j] : j \in 1 .. bs[i].n}
             /\ IQ!At(n) >= start - Early /\ IQ!At(n) <= end + (bs[i].off + 1)
      BY <2>2, <2>3
    <3>2. bs[i] \in {ring.blocks[j] : j \in DOMAIN ring.blocks}
      BY <1>2, <3>1
    <3> QED
      BY <3>1, <3>2, Zenon
  <2>5. ASSUME NEW b \in {ring.blocks[i] : i \in DOMAIN ring.blocks},
               NEW n \in {IQ!Live(b)[i] : i \in 1 .. b.n - 1},
               IQ!At(n) >= start + (b.off + 1), IQ!At(n) <= end - Early
        PROVE  n \in {out[i] : i \in DOMAIN out}
    <3>1. PICK i \in DOMAIN bs : bs[i] = b
      BY <1>2
    <3>2. n \in Among(out)
      BY <2>2, <2>5, <3>1, Zenon
    <3> QED
      BY <2>3, <3>2
  <2> QED
    BY <2>2, <2>4, <2>5
<1>8. ASSUME NEW start \in T, NEW end \in T, start <= end
      PROVE  Right(IQ!Slice(start, end), start, end)
  <2>1. PICK out : out = IQ!Slice(start, end)
    OBVIOUS
  <2> HIDE DEF Right, T
  <2>2. Right(out, start, end)
    BY <1>7, <1>8, <2>1
  <2> QED
    BY <2>1, <2>2
<1> QED
  BY <1>8 DEF IQ!SliceRight, Early

(* And the slices the recorder cuts out of it are right: in order, each sample   *)
(* once, none from outside the window by more than a capture and the rounding,    *)
(* and all of it but the last sample of a block (SliceInto).  A sample must last   *)
(* a tick at least, as one does a nanosecond.                                 *)
THEOREM SlicesRight == RingSized /\ Fine /\ IQ!Spec => []IQ!RingRight
<1>1. RingSized /\ IQ!Init => IQInv
  BY RingInit
<1>2. RingSized /\ IQInv /\ [IQ!Next]_IQ!vars => IQInv'
  BY RingNext
<1>3. RingSized /\ Fine /\ IQInv => IQ!SliceRight
  BY SliceHolds
<1>4. RingSized /\ IQ!Spec => []IQ!HoldsLast
  BY SamplesKept
<1>5. IQ!HoldsLast /\ IQ!SliceRight => IQ!RingRight
  BY DEF IQ!RingRight
<1>6. (RingSized => RingSized') /\ (Fine => Fine')
  BY DEF RingSized, Fine
<1> QED
  BY <1>1, <1>2, <1>3, <1>4, <1>5, <1>6, PTL DEF IQ!Spec
=============================================================================
