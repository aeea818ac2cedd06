--------------------------------- MODULE Budgets ---------------------------------
(***************************************************************************)
(* How many signals may be refined, recorded and decoded at a time: the       *)
(* configured budgets, weighted by what the policy prefers, and a slot or two *)
(* that a queue without need lends to one under pressure (budget.go,          *)
(* pressure.go, rebalance.go).  The pressure is that of the frame before.     *)
(*                                                                         *)
(* A policy is given by the words its profile, intent and strategy contain.   *)
(* Preferences and favours are in twentieths, pressures in hundredths, as     *)
(* the code rounds them.                                                    *)
(***************************************************************************)
EXTENDS Integers, FiniteSetsExt

CONSTANTS Policies,     (* [profile, intent, multi, archiveMode, enabled]      *)
          Maxes,        (* of resources.max_..., 0 being no limit              *)
          Concurrent,   (* refinement.max_concurrent                          *)
          Demands       (* candidates planned, decisions queued                *)

VARIABLES policy, configured,   (* the configuration                          *)
          seen,                 (* rt.arbitration: the demands of the last frame *)
          slots                 (* the limits of this frame                    *)

vars == <<policy, configured, seen, slots>>

Queue == <<"refinement", "record", "decode">>
Queues == {"refinement", "record", "decode"}

Init ==
  /\ policy \in Policies
  /\ configured \in [jobs : Maxes, concurrent : Concurrent, record : Maxes, decode : Maxes]
  /\ seen = [q \in Queues |-> 0] /\ slots = <<>>
-----------------------------------------------------------------------------
Says(words) == policy.intent \cap words # {}

(* refinementStrategy.                                                      *)
Strategy ==
  CASE policy.profile = "digital" -> "digital"
    [] policy.profile = "archive" -> "archive"
    [] policy.profile = "aggressive" -> "multi"
    [] Says({"digital", "hunt", "decode"}) -> "digital"
    [] Says({"archive", "triage"}) \/ policy.archiveMode -> "archive"
    [] policy.multi -> "multi"
    [] OTHER -> "single"

If(holds, n) == IF holds THEN n ELSE 0

(* BudgetPreferenceFromPolicy.                                              *)
Preference(q) ==
  20 +
  CASE q = "refinement" ->
         If(policy.profile = "archive", 3) + If(policy.profile = "digital", 3) + If(policy.profile = "aggressive", 7)
         + If(Says({"wideband", "surveillance"}), 5) + If(Strategy = "archive", 2) + If(Strategy = "multi", 4)
    [] q = "record" ->
         If(policy.profile = "archive", 12) + If(policy.profile = "digital", 2)
         + If(Says({"archive", "record"}), 10) + If(Strategy = "archive", 4)
    [] q = "decode" ->
         If(policy.profile = "archive", 4) + If(policy.profile = "digital", 12)
         + If(Says({"decode", "analysis", "classif"}), 10) + If(Says({"digital", "hunt"}), 5)
         + If(Strategy = "digital", 4)

(* refinementBudgetFromPolicy, BudgetModelFromPolicy.                         *)
Base ==
  LET jobs == IF configured.concurrent > 0 /\ (configured.jobs = 0 \/ configured.concurrent < configured.jobs)
              THEN configured.concurrent ELSE configured.jobs
  IN  [q \in Queues |-> CASE q = "refinement" -> jobs
                          [] q = "record" -> configured.record
                          [] q = "decode" -> configured.decode]

(* buildPressure, of the base budget: demand over what the queue has by       *)
(* preference, rounded; a queue with nothing is not under pressure.           *)
Pressure(q) ==
  LET effective == Base[q] * Preference(q)
  IN  IF effective = 0 THEN 0 ELSE (2 * 2000 * seen[q] + effective) \div (2 * effective)

(* buildRebalanceState.                                                     *)
Protects(q) ==
  CASE q = "refinement" -> FALSE
    [] q = "record" -> policy.profile = "archive" \/ Says({"archive", "record"}) \/ Strategy = "archive"
    [] q = "decode" -> policy.profile = "digital" \/ Says({"decode", "digital", "hunt"}) \/ Strategy = "digital"

Favor(q) ==
  20 +
  CASE q = "refinement" -> If(policy.profile = "aggressive", 7) + If(Says({"wideband", "surveillance"}), 5)
                           + If(Strategy = "multi", 4)
    [] q = "record" -> If(policy.profile = "archive", 6)
    [] q = "decode" -> If(policy.profile = "digital", 6)

MaxShift ==
  CASE policy.profile = "legacy" -> 0
    [] policy.profile = "aggressive" \/ Says({"wideband", "surveillance"}) -> 2
    [] OTHER -> 1

(* pressureScore: a pressure that was rounded to nothing counts as steady.    *)
PressureScore(q) == IF Pressure(q) = 0 /\ seen[q] > 0 THEN 60 ELSE Pressure(q)

(* The first of the queues with the greatest score, or none.                 *)
FirstBest(qs, score) ==
  LET best == {i \in DOMAIN Queue : Queue[i] \in qs /\ \A r \in qs : score[r] <= score[Queue[i]]}
  IN  IF best = {} THEN "none" ELSE Queue[Min(best)]

(* pickRebalanceReceiver, pickRebalanceDonor: the pressure they look at does  *)
(* not change with the slots.                                               *)
Receiver ==
  FirstBest({q \in Queues : Base[q] > 0 /\ Pressure(q) >= 115}, [q \in Queues |-> PressureScore(q) * Favor(q)])

(* Mutant: a queue may lend its last slot.                                   *)
DonorLast(now) ==
  FirstBest({q \in Queues : now[q] > 0 /\ ~Protects(q) /\ Pressure(q) <= 85}, [q \in Queues |-> 0 - PressureScore(q)])

Donor(now) ==
  FirstBest({q \in Queues : Base[q] > 1 /\ now[q] > 1 /\ ~Protects(q) /\ Pressure(q) <= 85},
            [q \in Queues |-> 0 - PressureScore(q)])

(* ApplyBudgetRebalance: a slot is lent, and perhaps another.                  *)
Shifted(now) ==
  LET d == Donor(now) IN
  IF Receiver = "none" \/ d \in {"none", Receiver} THEN now
  ELSE [now EXCEPT ![d] = @ - 1, ![Receiver] = @ + 1]

Rebalanced ==
  CASE MaxShift = 0 -> Base
    [] MaxShift = 1 -> Shifted(Base)
    [] MaxShift = 2 -> Shifted(Shifted(Base))

(* A frame: the budget is built from the demands of the one before.  What is  *)
(* admitted is refined, and its decisions are queued; without any (nothing    *)
(* was planned, or refinement is off) the queues' demands stay as they were.  *)
Frame ==
  \E planned, queued, waiting \in Demands :
    /\ slots' = Rebalanced
    /\ seen' = [q \in Queues |->
                  CASE q = "refinement" -> planned
                    [] q = "record" -> IF planned > 0 /\ policy.enabled THEN queued ELSE seen[q]
                    [] q = "decode" -> IF planned > 0 /\ policy.enabled THEN waiting ELSE seen[q]]
    /\ UNCHANGED <<policy, configured>>

Next == Frame

Spec == Init /\ [][Next]_vars
-----------------------------------------------------------------------------
Sum(now) == now["refinement"] + now["record"] + now["decode"]

(* Slots are lent, never made, and never to the ruin of the lender: as many   *)
(* as before in all; a limit neither comes nor goes, 0 being no limit to the   *)
(* arbiter; what the policy protects lends nothing, nobody more than the       *)
(* policy allows; what was lent went to a queue that had too little.  Where   *)
(* the policy prefers nothing and lends one slot at most, the lender keeps    *)
(* enough for the demand it had; a preferred queue need not.                  *)
LentSafely ==
  [][slots' # <<>> =>
     LET gives == {q \in Queues : slots'[q] < Base[q]}
         gets  == {q \in Queues : slots'[q] > Base[q]} IN
     /\ Sum(slots') = Sum(Base)
     /\ \A q \in Queues : slots'[q] = 0 <=> Base[q] = 0
     /\ \A q \in gives : ~Protects(q) /\ Base[q] - slots'[q] <= MaxShift
     /\ \A q \in gets : 20 * seen[q] > Base[q] * Preference(q)
     /\ \A q \in gives : (Preference(q) = 20 /\ MaxShift = 1) => seen[q] <= slots'[q]]_vars
=============================================================================
