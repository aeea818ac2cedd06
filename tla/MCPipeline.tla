------------------------------ MODULE MCPipeline -------------------------------
(* Bounds for what the pipeline decides about the candidates of a frame:       *)
(* Arbiter (extended here), Budgets and Planning.  They share no state: a      *)
(* behaviour follows one of them, named by part.                             *)
EXTENDS Arbiter, TLC

VARIABLES part
VARIABLES policy, configured, seen, slots
VARIABLES goals, enabled, candidates, phase, items, ranked, stats, decisions, outcomes

budgets  == <<policy, configured, seen, slots>>
planning == <<goals, enabled, candidates, phase, items, ranked, stats, decisions, outcomes>>

(* Three signals, one of the second family of the policy's list, the other     *)
(* two alike; scores that reach every tier; holds that outlast a frame in      *)
(* which the signal is away.                                                *)
CONSTANTS s1, s2, s3

MCIds == {s1, s2, s3}
MCFamily == s1 :> 1 @@ s2 :> -1 @@ s3 :> -1
MCScores == {0, 2, 4}
Alike == Permutations({s2, s3})

(* Each profile, the words that favour or protect a queue, and refinement off. *)
Policy(p, words, multi) ==
  [profile |-> p, intent |-> words, multi |-> multi, archiveMode |-> FALSE, enabled |-> TRUE]
MCPolicies ==
  {Policy("", {}, FALSE), Policy("legacy", {}, FALSE),
   Policy("archive", {"archive", "triage"}, FALSE), Policy("digital", {"digital", "surveillance"}, TRUE),
   Policy("aggressive", {"wideband", "surveillance"}, TRUE), Policy("", {"decode"}, FALSE),
   [Policy("", {"record"}, FALSE) EXCEPT !.enabled = FALSE]}

B == INSTANCE Budgets WITH Policies <- MCPolicies, Maxes <- {0, 1, 4}, Concurrent <- {0, 2}, Demands <- {0, 2, 6}

(* Windows given by ends or by centre and span, overlapping, beginning below   *)
(* 0 Hz or unusable, which leaves it to the next, the bounds or the span; Load   *)
(* gives bounds a span, if they have none.  One to three candidates in, between   *)
(* and outside them.                                                        *)
Raw(s, e, c, n, wants) ==
  [start |-> s, end |-> e, center |-> c, span |-> n, zone |-> "",
   record |-> wants = "record", decode |-> wants = "decode"]
MCUsable ==
  {<<Raw(1, 5, 0, 0, "record"), Raw(4, 12, 0, 0, "decode")>>,
   <<Raw(0, 0, 2, 8, "record"), Raw(0, 0, 0, 4, "record")>>,
   <<Raw(5, 1, 3, 0, "record"), Raw(1, 3, 0, 0, ""), Raw(4, 12, 0, 0, "decode")>>}
MCGoals ==
  [windows : MCUsable, start : {4}, end : {8}, span : {16}]
  \cup {g \in [windows : {<<>>, <<Raw(5, 1, 3, 0, "record")>>}, start : {-4, 0, 4}, end : {8}, span : {0, 6, 16}] :
          g.start = 0 \/ g.span > 0}

Seen(a, w, s, h, e) == [at |-> a, bw |-> w, snr |-> s, hint |-> h, evidence |-> e]
MCOne == {Seen(a, w, s, h, {e}) : a \in {2, 6, 10}, w \in {0, 4}, s \in {0, 5}, h \in {"", "WFM"}, e \in {"primary", "low"}}
MCCandidates ==
  {<<>>} \cup {<<c>> : c \in MCOne}
  \cup {<<c, d>> : c \in {x \in MCOne : x.at = 2},
                   d \in {x \in MCOne : x.at = 6 /\ x.bw = 4 /\ x.evidence = {"primary"}}}
  \cup {<<Seen(2, 2, s, "WFM", {"primary"}), Seen(6, 6, 5, "FT8", {"primary", "low"}), Seen(10, 0, t, "", {"low"})>> :
          s, t \in {0, 4, 9}}

W == INSTANCE Planning WITH
       Candidates <- MCCandidates, Goals <- MCGoals, CenterHz <- 6, MinSNR <- 3, Hints <- <<"FT8", "WFM">>,
       RecordClasses <- {"WFM"}, DecodeClasses <- {"FT8"}, MinSpan <- 2, MaxSpan <- 5, AutoSpan <- 4,
       Enabled <- {TRUE, FALSE}

(* What is not followed starts in a single state, and stays there.  The queue   *)
(* of recordings stands for that of decodes, which is another instance of it.   *)
PartInit ==
  /\ part \in {"arbiter", "budgets", "planning"}
  /\ IF part = "arbiter" THEN Init ELSE pool = "" /\ hold = <<>> /\ queue = <<>> /\ last = Nothing
  /\ pool # "decode"
  /\ IF part = "budgets" THEN B!Init ELSE policy = <<>> /\ configured = <<>> /\ seen = <<>> /\ slots = <<>>
  /\ IF part = "planning" THEN W!Init
     ELSE /\ goals = <<>> /\ enabled = FALSE /\ candidates = <<>> /\ phase = "" /\ items = <<>>
          /\ ranked = <<>> /\ stats = <<>> /\ decisions = <<>> /\ outcomes = <<>>

PartNext ==
  \/ part = "arbiter" /\ Next /\ UNCHANGED <<part, budgets, planning>>
  \/ part = "budgets" /\ B!Next /\ UNCHANGED <<part, vars, planning>>
  \/ part = "planning" /\ W!Next /\ UNCHANGED <<part, vars, budgets>>

PartSpec == PartInit /\ [][PartNext]_<<part, vars, budgets, planning>>

-----------------------------------------------------------------------------
(* Queues lend slots to each other without losing one or giving the last away.  *)
LentSafely == B!LentSafely

(* A candidate in a window that wants it is planned, one outside of all is not. *)
WatchedIsPlanned == W!WatchedIsPlanned

(* The statistics of a window add up to what became of its candidates.         *)
OutcomesAddUp == W!OutcomesAddUp
=============================================================================
