--------------------------------- MODULE Planning --------------------------------
(***************************************************************************)
(* What becomes of the candidates of one frame: the monitor windows of the    *)
(* configuration let them in, BuildRefinementPlan scores and ranks them, the  *)
(* arbiter admits some, these are refined and decided upon, and the outcomes  *)
(* are counted for every window.                                            *)
(*                                                                         *)
(* Frequencies and widths are small integers, the width even.  A score is in  *)
(* hundredths; weights that only stretch one of its parts are left out.  Whom  *)
(* the arbiter admits is module Arbiter's; here it may be anybody.            *)
(***************************************************************************)
EXTENDS Integers, Sequences, FiniteSets, SequencesExt, FiniteSetsExt

CONSTANTS Candidates,   (* sequences of [at, bw, snr, hint, evidence]          *)
          Goals,        (* of the configuration: [windows, start, end, span]   *)
          CenterHz, MinSNR,
          Hints,        (* signal_priorities, a sequence                      *)
          RecordClasses, DecodeClasses,
          MinSpan, MaxSpan, AutoSpan,
          Enabled       (* values of refinement.enabled                       *)

VARIABLES goals, enabled, candidates,
          phase,      (* surveyed, planned, admitted, refined, done           *)
          items,      (* the work items                                      *)
          ranked,     (* indices of items, best first                         *)
          stats,      (* of every window: candidates, planned, dropped         *)
          decisions, outcomes

vars == <<goals, enabled, candidates, phase, items, ranked, stats, decisions, outcomes>>

Init ==
  /\ goals \in Goals /\ enabled \in Enabled /\ candidates \in Candidates
  /\ phase = "surveyed" /\ items = <<>> /\ ranked = <<>> /\ stats = <<>>
  /\ decisions = <<>> /\ outcomes = <<>>
-----------------------------------------------------------------------------
(* normalizeGoalWindow: given by its ends, or by a centre (the receiver's, if *)
(* it has none) and a span.                                                  *)
Usable(w) == (w.start > 0 /\ w.end > w.start) \/ w.span > 0

Normalized(w) ==
  LET center == IF w.center = 0 THEN CenterHz ELSE w.center
      ends   == IF w.start > 0 /\ w.end > w.start THEN <<w.start, w.end>>
                ELSE <<center - w.span \div 2, center + w.span \div 2>>
  IN  [from |-> ends[1], to |-> ends[2], zone |-> w.zone, record |-> w.record, decode |-> w.decode]

(* NormalizeMonitorWindows: the usable windows, numbered without gaps in the     *)
(* order of the configuration, or the bounds, or the span.                     *)
MonitorWindows ==
  LET usable   == {i \in DOMAIN goals.windows : Usable(goals.windows[i])}
      index(i) == Cardinality({j \in usable : j <= i})
      bounded  == goals.start > 0 /\ goals.end > goals.start
      Plain(a, b) == <<[from |-> a, to |-> b, zone |-> "", record |-> FALSE, decode |-> FALSE]>>
  IN  IF usable # {}
      THEN [k \in {index(i) : i \in usable} |-> Normalized(goals.windows[CHOOSE i \in usable : index(i) = k])]
      ELSE IF bounded THEN Plain(goals.start, goals.end)
      ELSE IF goals.span > 0 THEN Plain(CenterHz - goals.span \div 2, CenterHz + goals.span \div 2)
      ELSE <<>>

(* finalizeMonitorWindows: a narrower window has the greater bias.            *)
WindowBias(ws, i) ==
  LET span(w) == w.to - w.from
  IN  20 - (20 * span(ws[i])) \div Max({span(ws[k]) : k \in DOMAIN ws})

(* A window that begins at 0 or below matches nothing.                       *)
Valid(w) == w.from > 0 /\ w.to > w.from

(* Mutant: of a candidate only the centre counts.                            *)
MatchesByCenter(ws, c) == {i \in DOMAIN ws : Valid(ws[i]) /\ ws[i].from <= c.at /\ c.at <= ws[i].to}

(* MonitorWindowMatchesForCandidate.                                         *)
Matches(ws, c) ==
  {i \in DOMAIN ws : Valid(ws[i]) /\ c.at + c.bw \div 2 >= ws[i].from /\ c.at - c.bw \div 2 <= ws[i].to}

Coverage(w, c) ==
  LET overlap == Min({c.at + c.bw \div 2, w.to}) - Max({c.at - c.bw \div 2, w.from})
  IN  IF c.bw = 0 THEN 100 ELSE (100 * overlap) \div (w.to - w.from)

(* MonitorWindowBias.                                                       *)
Bias(ws, c) ==
  IF Matches(ws, c) = {} THEN 0
  ELSE Max({(WindowBias(ws, i) * Coverage(ws[i], c)) \div 100 : i \in Matches(ws, c)})
-----------------------------------------------------------------------------
(* signalPriorityMatch, signalPriorityTierFloor; tiers from background, 0, to *)
(* critical, 4.                                                             *)
Rank(hint) == IF \E i \in DOMAIN Hints : Hints[i] = hint THEN CHOOSE i \in DOMAIN Hints : Hints[i] = hint ELSE 0
TierFloor(hint) == CASE Rank(hint) = 1 -> 3 [] Rank(hint) = 2 -> 2 [] Rank(hint) = 3 -> 1 [] OTHER -> 0

Tier(score, least, most) ==
  LET norm == (100 * (score - least)) \div (most - least)
  IN  IF most <= least THEN 3
      ELSE CASE norm >= 85 -> 4 [] norm >= 65 /\ norm < 85 -> 3 [] norm >= 45 /\ norm < 65 -> 2
             [] norm >= 25 /\ norm < 45 -> 1 [] OTHER -> 0

(* candidateEvidenceScore, weighted: more levels are better, a candidate of    *)
(* derived levels alone is worse.                                            *)
EvidenceScore(c) ==
  (6 * ((IF Cardinality(c.evidence) > 1 THEN 85 * (Cardinality(c.evidence) - 1) ELSE 0)
        - (IF "primary" \in c.evidence THEN 0 ELSE 35))) \div 10

(* CandidatePriorityBoost.                                                  *)
Boost(hint) ==
  (IF Rank(hint) = 0 THEN 0 ELSE 300 * (Len(Hints) + 1 - Rank(hint)))
  + (IF hint \in RecordClasses THEN 150 ELSE 0) + (IF hint \in DecodeClasses THEN 100 ELSE 0)

Score(ws, c) == 100 * c.snr + 20 * c.bw + Boost(c.hint) + Bias(ws, c) + EvidenceScore(c)

(* RefinementWindowForCandidate: the width, or what the hint suggests for one *)
(* that is hardly known, within the policy's bounds.                         *)
RefinementSpan(c) ==
  LET own == IF c.bw < 2 /\ AutoSpan # 0 /\ c.hint # "" THEN AutoSpan ELSE c.bw
      low == IF MinSpan > 0 /\ own < MinSpan THEN MinSpan ELSE own
      top == IF MaxSpan > 0 /\ low > MaxSpan THEN MaxSpan ELSE low
  IN  IF top <= 0 THEN 3 ELSE top

(* monitorBounds, where there is no window: bounds that begin below 0 Hz are all *)
(* that can be left, in goals that have no span (Load gives them one).         *)
InBounds(c) ==
  goals.start # 0 /\ goals.end # 0 /\ goals.end > goals.start =>
    c.at + c.bw \div 2 >= goals.start /\ c.at - c.bw \div 2 <= goals.end

(* ApplyMonitorWindowMatches.                                               *)
InMonitor(ws, c) == IF DOMAIN ws = {} THEN InBounds(c) ELSE Matches(ws, c) # {}

(* BuildRefinementPlan.                                                     *)
Item(ws, c) ==
  LET Dropped(why) == [status |-> "dropped", class |-> "drop", why |-> why, score |-> 0, tier |-> 0, span |-> 0]
  IN  IF ~InMonitor(ws, c) THEN Dropped("monitor")
      ELSE IF c.snr < MinSNR THEN Dropped("snr")
      ELSE [status |-> "planned", class |-> "plan", why |-> "planned", score |-> Score(ws, c), tier |-> 0, span |-> 0]

Planned(its) == {i \in DOMAIN its : its[i].status = "planned"}

Plan ==
  /\ phase = "surveyed"
  /\ LET ws    == MonitorWindows
         its   == [i \in DOMAIN candidates |-> Item(ws, candidates[i])]
         least == Min({its[i].score : i \in Planned(its)})
         most  == Max({its[i].score : i \in Planned(its)})
         Tiered(i) == Max({Tier(its[i].score, least, most), TierFloor(candidates[i].hint)})
         In(w) == {i \in DOMAIN its : w \in Matches(ws, candidates[i])}
         Before(i, j) == \/ its[i].score > its[j].score
                         \/ its[i].score = its[j].score /\ candidates[i].at < candidates[j].at
     IN  /\ items' = [i \in DOMAIN its |-> IF i \in Planned(its) THEN [its[i] EXCEPT !.tier = Tiered(i)] ELSE its[i]]
         /\ \E order \in Bijection(1 .. Cardinality(Planned(its)), Planned(its)) :
              /\ \A k, l \in DOMAIN order : k < l => ~Before(order[l], order[k])
              /\ ranked' = order
         /\ stats' = [w \in DOMAIN ws |->
              [candidates |-> Cardinality(In(w)), planned |-> Cardinality(In(w) \cap Planned(its)),
               dropped |-> Cardinality({i \in In(w) : its[i].why = "snr"})]]
  /\ phase' = "planned"
  /\ UNCHANGED <<goals, enabled, candidates, decisions, outcomes>>

(* buildRefinementInput: the arbiter's answer; what it admits gets a window;   *)
(* without refinement everything is dropped after all.                       *)
Answers == [Planned(items) -> {"admit", "hold", "displace", "defer"}]

Admitted(class) == class \in {"admit", "hold"}

Admit ==
  /\ phase = "planned"
  /\ \E answer \in Answers :
       /\ Planned(items) # {} => \E i \in Planned(items) : Admitted(answer[i])
       /\ items' = [i \in DOMAIN items |->
            IF i \notin Planned(items) THEN items[i]
            ELSE [items[i] EXCEPT
                    !.class = answer[i],
                    !.span = IF Admitted(answer[i]) THEN RefinementSpan(candidates[i]) ELSE 0,
                    !.why = IF enabled THEN "arbiter" ELSE "disabled",
                    !.status = CASE ~enabled -> "dropped"
                                 [] enabled /\ Admitted(answer[i]) -> "admitted"
                                 [] enabled /\ answer[i] = "displace" -> "displaced"
                                 [] enabled /\ answer[i] = "defer" -> "skipped"]]
  /\ phase' = "admitted"
  /\ UNCHANGED <<goals, enabled, candidates, ranked, stats, decisions, outcomes>>

(* bestMonitorActionMatch, of the windows that record (or decode) whatever     *)
(* comes: the best covered, the nearest, the most preferred, the first.        *)
Distance(w, c) == LET d == 2 * c.at - w.from - w.to IN IF d < 0 THEN 0 - d ELSE d

Better(ws, c, i, j) ==
  LET Covers(k)  == Coverage(ws[k], c)
      Near(k)    == 0 - Distance(ws[k], c)
      Favours(k) == WindowBias(ws, k) * Coverage(ws[k], c)
  IN  \/ Covers(i) > Covers(j)
      \/ Covers(i) = Covers(j) /\ Near(i) > Near(j)
      \/ Covers(i) = Covers(j) /\ Near(i) = Near(j) /\ Favours(i) > Favours(j)
      \/ Covers(i) = Covers(j) /\ Near(i) = Near(j) /\ Favours(i) = Favours(j) /\ i <= j

BestMatch(ws, c, wants) ==
  IF wants = {} THEN 0 ELSE CHOOSE i \in wants : \A j \in wants : Better(ws, c, i, j)

(* DecideSignalAction, for a class or none.                                  *)
Decision(ws, c, class) ==
  LET tag == IF class = "" THEN c.hint ELSE class
      rec == {i \in Matches(ws, c) : ws[i].record}
      dec == {i \in Matches(ws, c) : ws[i].decode}
  IN  [record |-> tag \in RecordClasses \/ rec # {}, decode |-> tag \in DecodeClasses \/ dec # {},
       recordWindow |-> BestMatch(ws, c, rec), decodeWindow |-> BestMatch(ws, c, dec)]

(* runRefinement: whatever was admitted is refined and decided upon.           *)
Refine ==
  /\ phase = "admitted"
  /\ LET todo == {i \in DOMAIN items : items[i].status = "admitted"} IN
     /\ items' = [i \in DOMAIN items |-> IF i \in todo THEN [items[i] EXCEPT !.status = "completed"] ELSE items[i]]
     /\ \E class \in [todo -> RecordClasses \cup DecodeClasses \cup {""}] :
          decisions' = [i \in todo |-> Decision(MonitorWindows, candidates[i], class[i])]
  /\ phase' = "refined"
  /\ UNCHANGED <<goals, enabled, candidates, ranked, stats, outcomes>>

(* Mutant: an item counts for the first of its windows.                      *)
OutcomeFirst(ws, w) ==
  LET mine == {i \in DOMAIN items : Matches(ws, candidates[i]) # {} /\ w = Min(Matches(ws, candidates[i]))}
  IN  [class \in {"admit", "hold", "displace", "defer", "drop"} |-> Cardinality({i \in mine : items[i].class = class})]

(* buildWindowOutcomeSummary: an item counts for every window it touches.     *)
Outcome(ws, w) ==
  LET mine == {i \in DOMAIN items : w \in Matches(ws, candidates[i])}
  IN  [class \in {"admit", "hold", "displace", "defer", "drop"} |-> Cardinality({i \in mine : items[i].class = class})]

Summarize ==
  /\ phase = "refined"
  /\ LET ws == MonitorWindows IN outcomes' = [w \in DOMAIN ws |-> Outcome(ws, w)]
  /\ phase' = "done"
  /\ UNCHANGED <<goals, enabled, candidates, items, ranked, stats, decisions>>

Next == Plan \/ Admit \/ Refine \/ Summarize

Spec == Init /\ [][Next]_vars
-----------------------------------------------------------------------------
(* Who watches a band sees what is in it.  A candidate is turned away by the  *)
(* monitor only if it touches no window that lies above 0 Hz, or, where there  *)
(* is no window, if there are bounds and it is outside; whoever is stronger than the least SNR is then ranked, once, before   *)
(* all that score less; its tier is not below that of a candidate it          *)
(* outscores, save for the floors of the families.                           *)
WatchedIsPlanned ==
  phase = "planned" =>
    LET ws == MonitorWindows
        Touches(c, w) == \E f \in (c.at - c.bw \div 2) .. (c.at + c.bw \div 2) : w.from <= f /\ f <= w.to
    IN  /\ \A i \in DOMAIN candidates :
             (items[i].why # "monitor") <=>
               \/ \E w \in DOMAIN ws : ws[w].from > 0 /\ Touches(candidates[i], ws[w])
               \/ DOMAIN ws = {} /\ InBounds(candidates[i])
        /\ \A i \in DOMAIN candidates :
             (items[i].why # "monitor" /\ candidates[i].snr >= MinSNR)
               <=> Cardinality({k \in DOMAIN ranked : ranked[k] = i}) = 1
        /\ \A k, l \in DOMAIN ranked : k < l =>
             LET i == ranked[k] j == ranked[l] IN
             /\ items[i].score >= items[j].score
             /\ items[i].tier >= items[j].tier \/ items[j].tier = TierFloor(candidates[j].hint)

(* The books balance.  For every window as many outcomes are counted as       *)
(* candidates were planned and dropped there; with refinement on, what was    *)
(* counted as admitted was refined and decided upon, in a span that is the     *)
(* policy's, except that without a minimum what has no width at all gets the   *)
(* default, be that above the maximum; and a window that records whatever      *)
(* comes has its candidates recorded, each on behalf of such a window.        *)
OutcomesAddUp ==
  phase = "done" =>
    LET ws == MonitorWindows
        Sum(o) == o["admit"] + o["hold"] + o["displace"] + o["defer"] + o["drop"]
    IN  /\ \A w \in DOMAIN ws :
             /\ Sum(outcomes[w]) = stats[w].planned + stats[w].dropped
             /\ Sum(outcomes[w]) = stats[w].candidates
             /\ outcomes[w]["drop"] = stats[w].dropped
        /\ enabled => \A i \in DOMAIN items :
             Admitted(items[i].class) <=> (items[i].status = "completed" /\ i \in DOMAIN decisions)
        /\ \A i \in DOMAIN decisions :
             /\ items[i].span > 0
             /\ MaxSpan > 0 => items[i].span <= MaxSpan \/ (MinSpan = 0 /\ candidates[i].bw = 0)
             /\ MaxSpan = 0 \/ MinSpan <= MaxSpan => items[i].span >= MinSpan
             /\ \A w \in Matches(ws, candidates[i]) :
                  ws[w].record => decisions[i].record /\ ws[decisions[i].recordWindow].record
             /\ \A w \in Matches(ws, candidates[i]) :
                  ws[w].decode => decisions[i].decode /\ ws[decisions[i].decodeWindow].decode
=============================================================================
