------------------------------- MODULE ConfigFile -------------------------------
(***************************************************************************)
(* The configuration across restarts: config.yaml, the autosave beside it,    *)
(* what Load makes of them, what a POST may change, and how a profile is       *)
(* merged (internal/config, internal/runtime, pipeline/profile.go).           *)
(*                                                                         *)
(* A configuration maps the fields whose handling depends on each other to    *)
(* integers; a file, an update and a profile map some of them.  Of the other   *)
(* fields each has a default of its own, as deemphasis has.  Requests come     *)
(* one at a time: how they interleave is module ConfigPropagation's.         *)
(***************************************************************************)
EXTENDS Integers, FiniteSets

CONSTANTS Files,      (* contents of config.yaml; Broken does not parse        *)
          Broken, Nothing,   (* model values: such a file; no autosave at all   *)
          Updates,    (* bodies of POST /api/config                           *)
          Profiles,   (* name -> the fields of its sections, absent ones 0      *)
          MaxPosts    (* bound on accepted requests                           *)

VARIABLES file, autosave,   (* on disk; the autosave is Nothing, or a mapping   *)
          up, cfg,          (* the running program and its configuration       *)
          posts

vars == <<file, autosave, up, cfg, posts>>

(* Default.  enabled is 0 or 1.                                              *)
Default ==
  [fft |-> 2048, analysis |-> 2048, rate |-> 15, survRate |-> 15, displayFps |-> 15,
   enabled |-> 1, concurrent |-> 8, minSNR |-> 0, detail |-> 0, minSpan |-> 0, maxSpan |-> 0,
   jobs |-> 8, decisionHold |-> 2000, hold |-> 500, gap |-> 500, train |-> 24, rank |-> 36,
   start |-> 0, end |-> 0, span |-> 0, deemphasis |-> 50]

Fields == DOMAIN Default
PowersOf2 == {1, 2, 4, 8, 16, 32, 64, 128, 256, 512, 1024, 2048, 4096, 8192, 16384}

(* What one mapping leaves out, the other gives.                              *)
Over(f, g) == [x \in DOMAIN f \cup DOMAIN g |-> IF x \in DOMAIN f THEN f[x] ELSE g[x]]

Init ==
  /\ file \in Files /\ autosave = Nothing
  /\ up = FALSE /\ cfg = <<>> /\ posts = 0
-----------------------------------------------------------------------------
Positive(x, fallback) == IF x <= 0 THEN fallback ELSE x

SpanOf(c) == IF c.span <= 0 /\ c.start # 0 /\ c.end # 0 /\ c.end > c.start THEN c.end - c.start ELSE c.span

(* Mutant: refinement switched off counts as not configured.                 *)
MayEnableAlways(c) == c.minSNR = 0

(* Refinement is switched on where it looks as if nobody had configured it.   *)
MayEnable(c) == c.concurrent = 0 /\ c.minSNR = 0

(* applyDefaults.  The FFT size follows the analysis size, not the other way; *)
(* the rates fall back on the frame rate before that has its own default.     *)
Normalized(c) ==
  LET analysis == IF c.analysis > 0 THEN c.analysis ELSE Positive(c.fft, 0)
      concurrent == Positive(c.concurrent, 8)
      train == Positive(c.train, 24)
      minSpan == Positive(c.minSpan, 0)
      maxSpan == Positive(c.maxSpan, 0)
  IN  [fft |-> Positive(analysis, 2048), analysis |-> Positive(analysis, 2048),
       rate |-> Positive(c.rate, 15), survRate |-> Positive(c.survRate, c.rate),
       displayFps |-> Positive(c.displayFps, c.rate),
       enabled |-> IF c.enabled = 0 /\ MayEnable(c) THEN 1 ELSE c.enabled, minSNR |-> c.minSNR,
       concurrent |-> concurrent, jobs |-> Positive(c.jobs, concurrent),
       detail |-> IF c.detail > 0 /\ c.detail \in PowersOf2 THEN c.detail ELSE analysis,
       minSpan |-> minSpan, maxSpan |-> IF 0 < maxSpan /\ maxSpan < minSpan THEN minSpan ELSE maxSpan,
       decisionHold |-> Positive(c.decisionHold, 2000),
       hold |-> Positive(c.hold, 500), gap |-> Positive(c.gap, Positive(c.hold, 500)),
       train |-> train, rank |-> IF 0 < c.rank /\ c.rank <= 2 * train THEN c.rank ELSE (3 * train + 1) \div 2,
       start |-> c.start, end |-> c.end, span |-> SpanOf(c),
       deemphasis |-> IF c.deemphasis = 0 THEN 50 ELSE c.deemphasis]

(* Load: the autosave if there is one that parses, an empty one included,      *)
(* else config.yaml; either is laid over the defaults.                       *)
Load ==
  IF autosave # Nothing THEN Normalized(Over(autosave, Default)) ELSE Normalized(Over(file, Default))

(* The program starts, or logs why not and exits.                            *)
Start ==
  /\ ~up /\ (autosave # Nothing \/ file # Broken)
  /\ up' = TRUE /\ cfg' = Load
  /\ UNCHANGED <<file, autosave, posts>>
-----------------------------------------------------------------------------
(* Manager.ApplyConfig: what the update makes of a configuration, ...          *)
Updated(c, u) ==
  LET Set(f) == CASE f \in {"fft", "analysis"} /\ "analysis" \in DOMAIN u -> u["analysis"]
                  [] f = "analysis" /\ "analysis" \notin DOMAIN u /\ "fft" \in DOMAIN u -> u["fft"]
                  [] f = "rate" /\ "survRate" \in DOMAIN u -> u["survRate"]
                  [] OTHER -> IF f \in DOMAIN u THEN u[f] ELSE c[f]
      next == [f \in Fields |-> Set(f)]
  IN  IF DOMAIN u \cap {"start", "end", "span", "profile"} = {} THEN next ELSE [next EXCEPT !.span = SpanOf(next)]

(* ... and whether it is accepted: a section is judged only if it is there.    *)
Accepted(c, u) ==
  LET next == Updated(c, u)
      Has(fs) == DOMAIN u \cap fs
  IN  /\ \A f \in Has({"fft", "analysis", "survRate", "displayFps", "concurrent", "detail", "jobs", "span",
                       "hold", "train", "rank"}) : u[f] > 0
      /\ \A f \in Has({"fft", "analysis", "detail"}) : u[f] \in PowersOf2
      /\ \A f \in Has({"minSpan", "maxSpan", "decisionHold", "gap"}) : u[f] >= 0
      /\ Has({"start", "end", "span", "profile"}) # {} => ~(next.start # 0 /\ next.end # 0 /\ next.end <= next.start)
      /\ Has({"enabled", "concurrent", "detail", "minSNR", "minSpan", "maxSpan"}) # {} =>
           ~(next.maxSpan > 0 /\ next.minSpan > next.maxSpan)
      /\ Has({"rank"}) # {} => next.rank <= 2 * next.train

(* MergeProfile: whole sections are replaced, and nothing is normalised.       *)
Merged(c, name) ==
  LET next == Over(Profiles[name], c)
  IN  [next EXCEPT !.fft = IF next.analysis > 0 THEN next.analysis ELSE @,
                   !.rate = IF next.survRate > 0 THEN next.survRate ELSE @]

Requested(u) ==
  IF "profile" \in DOMAIN u /\ u["profile"] \in DOMAIN Profiles
  THEN Merged(Updated(cfg, u), u["profile"]) ELSE Updated(cfg, u)

(* POST /api/config.  What is refused, by the manager or by the source,       *)
(* changes nothing.  Saving truncates the autosave before it writes: it may    *)
(* fail before or after, and only a log line tells.                          *)
Post(u) ==
  /\ up /\ posts < MaxPosts /\ Accepted(cfg, u)
  /\ cfg' = Requested(u)
  /\ autosave' \in {cfg', autosave, <<>>}
  /\ posts' = posts + 1
  /\ UNCHANGED <<file, up>>

(* The program is killed; if in the middle of a save, the autosave is empty.   *)
Crash ==
  /\ up
  /\ autosave' \in {autosave} \cup (IF posts < MaxPosts THEN {<<>>} ELSE {})
  /\ up' = FALSE /\ cfg' = <<>>
  /\ UNCHANGED <<file, posts>>

(* The operator edits config.yaml, or removes the autosave.                   *)
Edit ==
  /\ ~up
  /\ \/ file' \in Files /\ UNCHANGED autosave
     \/ autosave' = Nothing /\ UNCHANGED file
  /\ UNCHANGED <<up, cfg, posts>>

Next == Start \/ Crash \/ Edit \/ \E u \in Updates : Post(u)

Spec == Init /\ [][Next]_vars
-----------------------------------------------------------------------------
(* What Load replaces: a value that may stand for "not set", or one that does  *)
(* not go with another.                                                     *)
CountsAsUnset(c, f) ==
  CASE f \in {"fft", "analysis"} -> c.analysis <= 0
    [] f = "enabled" -> c.concurrent = 0 /\ c.minSNR = 0
    [] f = "detail" -> c.detail \notin PowersOf2
    [] f = "rank" -> c.rank > 2 * c.train
    [] f = "maxSpan" -> c.maxSpan < 0 \/ c.maxSpan < c.minSpan
    [] OTHER -> c[f] <= 0

(* What was saved survives a restart: the program comes up with each setting   *)
(* as it was when it was saved, whatever config.yaml says, except for those     *)
(* that Load takes for not set.  So refinement, once switched off, stays off.   *)
(* A save that failed half-way is the price: the next start takes the          *)
(* defaults of the program for all settings, and config.yaml counts for none.  *)
SettingsSurvive ==
  [][~up /\ up' /\ autosave # Nothing =>
       \A f \in Fields :
         IF autosave = <<>> THEN cfg'[f] = Normalized(Default)[f]
         ELSE cfg'[f] = autosave[f] \/ CountsAsUnset(autosave, f)]_vars

(* "De-emphasis time constant in µs. 50=Europe, 75=US/Japan, 0=disabled."       *)
(* (config.go:133).  The code does not keep it: Load takes a 0 for not set.     *)
DeemphasisOff ==
  up /\ autosave = Nothing /\ file # Broken /\ "deemphasis" \in DOMAIN file /\ file["deemphasis"] = 0 => cfg.deemphasis = 0
=============================================================================
