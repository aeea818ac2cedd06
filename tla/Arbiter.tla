------------------------------- MODULE Arbiter -------------------------------
(***************************************************************************)
(* How internal/pipeline shares a budget among the candidates of a frame.  *)
(* The Arbiter keeps three pools: the refinement jobs (arbitration.go), the *)
(* recordings and the decoders (both decision_queue.go).  Once per frame of *)
(* the DSP loop each of them ranks what is wanted now, keeps what it       *)
(* promised to hold, fills the free slots in order of score and lets       *)
(* somebody of a higher tier take the slot of an unprotected hold.         *)
(*                                                                         *)
(* The pools share no state, so a behaviour follows one of them, named by  *)
(* the variable pool.  One step is one frame, and a frame is the unit of   *)
(* time.  A candidate's score without the boost for waiting (its SNR with  *)
(* the boosts of policy and window) is an input, and its family's place in *)
(* the policy's list of priorities is fixed.  Reasons, admission classes   *)
(* and statistics are left out.                                            *)
(***************************************************************************)
EXTENDS Integers, FiniteSets, Sequences, SequencesExt

CONSTANTS Ids,       (* tracked signals (never id 0, which Apply skips)       *)
          Scores,    (* scores before the boost for waiting                   *)
          Family,    (* signalPriorityMatch: place in the list, -1 if nowhere *)
          Budgets,   (* budgets a frame may come with; 0 means no limit       *)
          HoldDur,   (* frames a hold lasts                                   *)
          MaxBoost   (* the most that waiting adds to a score (5 in the code) *)

ASSUME ArbiterAssumption ==
  /\ IsFiniteSet(Ids) /\ Scores \subseteq Int /\ Family \in [Ids -> Int]
  /\ Budgets \subseteq Nat /\ HoldDur \in Nat /\ MaxBoost \in Nat

VARIABLES pool,   (* "refinement", "record" or "decode"                      *)
          hold,   (* ids held, and the frames left until the deadline        *)
          queue,  (* ids queued, and the boost they have waited for          *)
          last    (* what the last frame was asked and what it decided       *)

vars == <<pool, hold, queue, last>>

Pools == {"refinement", "record", "decode"}

Nothing == [score |-> <<>>, max |-> 0, live |-> {}, selected |-> {}, displaced |-> {}]

Init ==
  /\ pool \in Pools
  /\ hold = <<>> /\ queue = <<>> /\ last = Nothing
-----------------------------------------------------------------------------
(* Tiers: 4 critical, 3 high, 2 medium, 1 low, 0 background.                *)

MinOf(S) == CHOOSE x \in S : \A y \in S : x <= y
MaxOf(S) == CHOOSE x \in S : \A y \in S : x >= y

TierFromRange(x, min, max) ==
  IF max <= min THEN 3
  ELSE Cardinality({c \in {25, 45, 65, 85} : 100 * (x - min) >= c * (max - min)})

TierFloor(rank) == IF rank \in 0..2 THEN 3 - rank ELSE 0

(* The tier of every wanted id, given their scores.                         *)
Tiers(score) ==
  LET all == {score[j] : j \in DOMAIN score} IN
  [i \in DOMAIN score |->
     MaxOf({TierFromRange(score[i], MinOf(all), MaxOf(all)), TierFloor(Family[i])})]

Protected(tier) == tier >= 3
-----------------------------------------------------------------------------
(* Neither sort.Slice nor Go's maps order equals: any order that respects   *)
(* the comparison is possible.                                              *)
SortedBy(S, Before(_, _)) ==
  {s \in SetToSeqs(S) : \A m, n \in 1..Len(s) : m < n => ~Before(s[n], s[m])}

ByScore(score) ==
  LET Better(i, j) == score[i] > score[j] IN SortedBy(DOMAIN score, Better)

FamilyOrder(i) == IF Family[i] < 0 THEN 100 ELSE Family[i]

(* The holds that may have to give way, the weakest first.                  *)
Displaceable(held, score) ==
  LET tier == Tiers(score)
      Weaker(i, j) ==
        \/ tier[i] < tier[j]
        \/ /\ tier[i] = tier[j]
           /\ \/ FamilyOrder(i) > FamilyOrder(j)
              \/ FamilyOrder(i) = FamilyOrder(j) /\ score[i] < score[j]
  IN  SortedBy({i \in held : ~Protected(tier[i])}, Weaker)

(* How many may be selected: the budget, or as many as there are holds.  The *)
(* queues count every hold that has not expired, refinement those among the *)
(* candidates only.                                                         *)
Limit(kind, wanted, live, max) ==
  LET n     == Cardinality(wanted)
      base  == IF max = 0 \/ max > n THEN n ELSE max
      holds == Cardinality(IF kind = "refinement" THEN live \cap wanted ELSE live)
  IN  IF holds <= base THEN base ELSE MinOf({holds, n})

(* The next candidate in the order of scores: already in, into a free slot, *)
(* into the slot of the weakest hold, or not selected.                      *)
Consider(tier, limit, s, i) ==
  IF i \in s.selected THEN s
  ELSE IF Cardinality(s.selected) < limit THEN [s EXCEPT !.selected = @ \cup {i}]
  ELSE IF s.targets = <<>> \/ tier[i] <= tier[Head(s.targets)] THEN s
  ELSE [selected  |-> (s.selected \ {Head(s.targets)}) \cup {i},
        displaced |-> s.displaced \cup {Head(s.targets)},
        targets   |-> Tail(s.targets)]

(* One after the other.                                                     *)
Considered(tier, limit, held, targets, order) ==
  LET Step(s, i) == Consider(tier, limit, s, i)
  IN  FoldLeft(Step, [selected |-> held, displaced |-> {}, targets |-> targets], order)

(* What may come out for these scores, these unexpired holds, this budget.  *)
Selections(kind, score, live, max) ==
  LET held  == live \cap DOMAIN score
      tier  == Tiers(score)
      limit == Limit(kind, DOMAIN score, live, max)
  IN  {Considered(tier, limit, held, targets, order) :
         order \in ByScore(score), targets \in Displaceable(held, score)}
-----------------------------------------------------------------------------
(* A frame.  expireHold drops the holds whose deadline lies in the past; the *)
(* others are a frame nearer to theirs.                                     *)

Remaining == [i \in DOMAIN hold |-> hold[i] - 1]

Expire(h) == [i \in {j \in DOMAIN h : h[j] >= 0} |-> h[i]]

(* Mutant: only what was not held before gets a new deadline.                *)
RenewNewOnly(h, s) ==
  IF HoldDur = 0 THEN h
  ELSE [i \in (DOMAIN h \ s.displaced) \cup s.selected |->
          IF i \in s.selected \ DOMAIN h THEN HoldDur ELSE h[i]]

(* Mutant: the displaced keep their hold.                                    *)
RenewKeepsDisplaced(h, s) ==
  IF HoldDur = 0 THEN h
  ELSE [i \in DOMAIN h \cup s.selected |-> IF i \in s.selected THEN HoldDur ELSE h[i]]

(* The displaced lose their hold, the selected get a new deadline.          *)
Renew(h, s) ==
  IF HoldDur = 0 THEN h
  ELSE [i \in (DOMAIN h \ s.displaced) \cup s.selected |->
          IF i \in s.selected THEN HoldDur ELSE h[i]]

Decide(score, max, h) ==
  \E s \in Selections(pool, score, DOMAIN h, max) :
    /\ hold' = Renew(h, s)
    /\ last' = [score |-> score, max |-> max, live |-> DOMAIN h,
                selected |-> s.selected, displaced |-> s.displaced]

(* AdmitRefinementPlanWithBudget.  Without candidates it returns before it   *)
(* looks at the holds.                                                      *)
AdmitRefinement ==
  /\ pool = "refinement"
  /\ \E wanted \in SUBSET Ids, max \in Budgets : \E score \in [wanted -> Scores] :
       IF wanted = {}
       THEN /\ hold' = [i \in DOMAIN hold |-> MaxOf({hold[i] - 1, -1})]
            /\ last' = [Nothing EXCEPT !.max = max]
       ELSE Decide(score, max, Expire(Remaining))
  /\ UNCHANGED <<pool, queue>>

(* The queue after this frame's decisions: an id that is not wanted any more *)
(* is forgotten, one that stays has waited a frame longer.                  *)
Enqueue(wanted) ==
  [i \in wanted |-> IF i \in DOMAIN queue THEN MinOf({queue[i] + 1, MaxBoost}) ELSE 0]

(* Apply, for one of its two queues.                                        *)
ApplyDecisions ==
  /\ pool \in {"record", "decode"}
  /\ \E wanted \in SUBSET Ids, max \in Budgets : \E snr \in [wanted -> Scores] :
       /\ queue' = Enqueue(wanted)
       /\ LET score == [i \in DOMAIN queue' |-> queue'[i] + snr[i]] IN
          IF wanted = {}
          THEN hold' = Expire(Remaining) /\ last' = [Nothing EXCEPT !.max = max]
          ELSE Decide(score, max, Expire(Remaining))
  /\ UNCHANGED pool

Next == AdmitRefinement \/ ApplyDecisions

Spec == Init /\ [][Next]_vars
-----------------------------------------------------------------------------
Wanted == DOMAIN last.score
Fresh  == last.selected \ last.live      (* selected without a hold          *)
Turned == Wanted \ (last.selected \cup last.displaced)

(* Slots are used and holds stand for slots.  No slot of the budget stays    *)
(* empty while somebody is turned away, more than the budget are selected     *)
(* only as far as there were holds, and of the ids a frame decided about      *)
(* those with a hold are those it selected.                                 *)
SlotsAndHolds ==
  LET n == Cardinality(last.selected) IN
  /\ (Turned \cup last.displaced # {}) => last.max # 0 /\ n >= last.max
  /\ last.max # 0 => n <= MaxOf({last.max, Cardinality(last.live)})
  /\ HoldDur > 0 => DOMAIN hold \cap Wanted = last.selected

(* Who loses was outranked.  Whoever was turned away was outranked by each    *)
(* newcomer that got a slot: it has at least the score, or a family with a    *)
(* higher tier.  A displaced hold made way for somebody of a higher tier, and *)
(* no hold of a lower tier was spared.                                       *)
LosersOutranked ==
  LET tier == Tiers(last.score) IN
  /\ \A d \in Turned, o \in Fresh : last.score[o] >= last.score[d] \/ tier[o] > tier[d]
  /\ \A d \in last.displaced :
       /\ d \notin last.selected
       /\ \E o \in Fresh : tier[o] > tier[d]
       /\ \A h \in last.selected \cap last.live : tier[h] >= tier[d]

(* Selections do not flap: what is selected, and wanted in the next frame   *)
(* too, stays selected unless somebody of a higher tier displaces it; with a *)
(* protected tier it stays in any case.                                     *)
KeepsSlot ==
  \A i \in last.selected \cap Wanted' :
    LET tier == Tiers(last'.score) IN
    \/ i \in last.selected'
    \/ ~Protected(tier[i]) /\ \E o \in Fresh' : tier[o] > tier[i]

NoFlapping == [][HoldDur > 0 => KeepsSlot]_vars

(* Slots go to who should have them, and only slots that there are.           *)
AdmittedRightly == SlotsAndHolds /\ LosersOutranked
=============================================================================
