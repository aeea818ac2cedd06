----------------------- MODULE ConfigPropagationProofs -----------------------
(***************************************************************************)
(* That a change of the configuration arrives in the autosave file, the     *)
(* collector, the DSP loop and the source, and that the DSP loop's detector *)
(* and window fit its configuration, for any handlers, values and requests.  *)
(* At the end: that settings survive a restart, whatever the files contain.   *)
(***************************************************************************)
EXTENDS ConfigPropagation, TLAPS

(* What the DSP loop gets to know of a configuration, and what it will work  *)
(* with once it has taken the queued update.                                *)
Shared == {"fft", "det", "corr"}

Ahead == IF upd = None THEN rtCfg ELSE upd.cfg

Reaches(c) == \A f \in Shared : Ahead[f] = c[f]

Saved(c) == disk = c \/ unsaved

(* Where a handler has only its snapshot, and where it has a result as well. *)
Fresh == {"apply", "replace"}
Later == {"profile", "source", "save", "push", "send", "saveTelemetry"}

(* What a request can set.                                                  *)
MaySet(kind) == Sets(kind) \cup ProfileSets(kind)

(* A handler at work has what its place presupposes.                         *)
Placed ==
  \A h \in Handlers :
    /\ at[h] # "idle" => prev[h] \in Config /\ req[h] \in Requests
    /\ at[h] \in Later => next[h] \in Config
    /\ at[h] # "idle" => (req[h].kind = "telemetry" <=> at[h] \in {"replace", "saveTelemetry"})

(* The driver does what the source was set to, or refused its AGC.          *)
SourceSound == src.hw \in {src.set, WithoutAGC}

Alone == \A g, h \in Handlers : at[g] # "idle" /\ at[h] # "idle" => g = h

(* Between requests everything follows the manager.                         *)
AllFollow == Saved(cfg) /\ collector = cfg["telem"] /\ Reaches(cfg)

(* The manager's configuration is the snapshot of the request in progress    *)
(* and then its result, which differs where the request may set something.   *)
ManagerOf(h) ==
  /\ at[h] \in Fresh => cfg = prev[h]
  /\ at[h] \in Later => cfg = next[h] /\ \A f \in Fields \ MaySet(req[h].kind) : cfg[f] = prev[h][f]

(* The file and the collector follow the snapshot until the handler gets to  *)
(* them.                                                                    *)
FileOf(h) ==
  /\ at[h] \in {"apply", "replace", "profile", "source"} => Saved(prev[h])
  /\ at[h] \in {"push", "send"} /\ req[h].kind = "config" => Saved(cfg)
  /\ at[h] # "idle" => collector = prev[h]["telem"]

(* So does the DSP loop until the update is queued.                         *)
RuntimeOf(h) ==
  /\ at[h] \in {"apply", "replace", "profile", "source", "push", "saveTelemetry"} => Reaches(prev[h])
  /\ at[h] = "save" => Reaches(IF req[h].kind = "config" THEN prev[h] ELSE cfg)
  /\ at[h] = "send" => lost /\ upd = None

(* The source is set to what the manager has, or, before the handler gets to *)
(* it, had.                                                                 *)
SourceSet ==
  ~outdated /\ src.alive =>
    \/ src.set = cfg["tuner"]
    \/ \E h \in Handlers : at[h] \in {"profile", "source"} /\ src.set = prev[h]["tuner"]

(* A queued update that leaves the detector or the window alone leaves what  *)
(* they were built for alone.                                               *)
UpdateFits ==
  ~lost /\ upd # None =>
    /\ IF upd.det = None THEN upd.cfg["fft"] = rtCfg["fft"] /\ upd.cfg["det"] = rtCfg["det"]
       ELSE upd.det.fft = upd.cfg["fft"] /\ upd.det.det = upd.cfg["det"]
    /\ IF upd.window = None THEN upd.cfg["fft"] = rtCfg["fft"] ELSE upd.window = upd.cfg["fft"]

Orderly ==
  /\ Alone
  /\ Idle => AllFollow
  /\ \A h \in Handlers : ManagerOf(h) /\ FileOf(h) /\ RuntimeOf(h)
  /\ SourceSet
  /\ UpdateFits /\ DetectorMatches

ConfigInv == TypeOK /\ Placed /\ SourceSound /\ (~overlap => Orderly)
-----------------------------------------------------------------------------
(* What a request consists of, and what merging it gives.                    *)
LEMMA RequestType ==
  ASSUME NEW r \in Requests
  PROVE  /\ r.kind \in {"config", "settings", "telemetry"}
         /\ r.chg \in Changes /\ DOMAIN r.chg \subseteq MaySet(r.kind)
         /\ r.profile \in Changes /\ DOMAIN r.profile \subseteq MaySet(r.kind)
BY ConfigPropagationAssumption DEF Request, MaySet

(* What a request of each kind can set.                                      *)
LEMMA KindsSet ==
  /\ MaySet("config") = {"tuner", "fft", "det"}
  /\ MaySet("settings") = {"tuner", "corr"}
  /\ MaySet("telemetry") = {"telem"}
BY DEF MaySet, Sets, ProfileSets

(* Merging changes what is set, to values, and nothing else.                 *)
LEMMA MergeType ==
  ASSUME NEW c \in Config, NEW chg \in Changes
  PROVE  /\ Merge(c, chg) \in Config
         /\ \A f \in Fields \ DOMAIN chg : Merge(c, chg)[f] = c[f]
<1>1. PICK S \in SUBSET Fields : chg \in [S -> Vals]
  BY DEF Changes
<1>2. \A f \in Fields : f \in DOMAIN chg => chg[f] \in Vals
  BY <1>1
<1> QED
  BY <1>2 DEF Merge, Config

(* The source manager keeps the types, and what the source is set to.         *)
LEMMA NewSourceType ==
  ASSUME Sources!SourceOK, NEW s \in Vals, NEW n \in {0, 1}, Sources!NewSource(s, n)
  PROVE  Sources!SourceOK' /\ SourceSound' /\ src'.set = s
<1>1. failures' \in 0 .. MaxFaults
  BY ConfigPropagationAssumption DEF Sources!SourceOK, Sources!NewSource, Sources!Failing
<1>2. PICK h \in {s, WithoutAGC} : src' = Sources!Running(s, h)
  BY DEF Sources!NewSource
<1> QED
  BY <1>1, <1>2 DEF Sources!SourceOK, Sources!Running, SourceSound

LEMMA OldStaysType ==
  ASSUME Sources!SourceOK, SourceSound, NEW n \in {0, 1}, Sources!OldStays(n)
  PROVE  Sources!SourceOK' /\ SourceSound' /\ ~src'.alive
<1>1. failures' \in 0 .. MaxFaults
  BY ConfigPropagationAssumption DEF Sources!SourceOK, Sources!OldStays, Sources!Failing
<1>2. src' = [src EXCEPT !.alive = FALSE]
  BY DEF Sources!OldStays
<1>3. /\ src' \in [set : Vals, hw : Vals \cup {WithoutAGC}, alive : BOOLEAN]
      /\ src'.set = src.set /\ src'.hw = src.hw /\ src'.alive = FALSE
  BY <1>2 DEF Sources!SourceOK
<1> QED
  BY <1>1, <1>3 DEF Sources!SourceOK, SourceSound

LEMMA ApplyConfigType ==
  ASSUME Sources!SourceOK, SourceSound, NEW s \in Vals, Sources!ApplyConfig(s)
  PROVE  Sources!SourceOK' /\ SourceSound' /\ src'.set = s
<1>1. CASE Sources!UpdateConfig(s)
  <2>1. failures' = failures
    BY <1>1 DEF Sources!UpdateConfig
  <2>2. CASE s = src.set /\ src' = src
    BY <2>1, <2>2 DEF Sources!SourceOK, SourceSound
  <2>3. ASSUME NEW x \in {s, WithoutAGC}, src' = Sources!Running(s, x)
        PROVE  Sources!SourceOK' /\ SourceSound' /\ src'.set = s
    BY <2>1, <2>3 DEF Sources!SourceOK, Sources!Running, SourceSound
  <2> QED
    BY <1>1, <2>2, <2>3, Zenon DEF Sources!UpdateConfig
<1>2. CASE \E n \in Sources!UpdateFailures(s) : Sources!NewSource(s, n)
  BY <1>2, NewSourceType DEF Sources!UpdateFailures
<1> QED
  BY <1>1, <1>2 DEF Sources!ApplyConfig

LEMMA ApplyConfigFailsType ==
  ASSUME Sources!SourceOK, SourceSound, NEW s \in Vals, Sources!ApplyConfigFails(s)
  PROVE  Sources!SourceOK' /\ SourceSound' /\ ~src'.alive
BY OldStaysType DEF Sources!ApplyConfigFails, Sources!UpdateFailures

LEMMA RestartType ==
  ASSUME Sources!SourceOK, SourceSound, NEW s \in Vals, Sources!Restart(s)
  PROVE  Sources!SourceOK' /\ SourceSound' /\ (src'.alive => src'.set = s)
<1> DEFINE n == IF src.alive THEN 1 ELSE 0
<1>1. Sources!NewSource(s, n) \/ Sources!OldStays(n)
  BY DEF Sources!Restart
<1>2. n \in {0, 1}
  OBVIOUS
<1> QED
  BY <1>1, <1>2, NewSourceType, OldStaysType
-----------------------------------------------------------------------------
(* A request begins when nothing is in progress, or with an overlap.         *)
LEMMA PostStep ==
  ASSUME ConfigInv, NEW h \in Handlers, NEW r \in Requests, Post(h, r)
  PROVE  ConfigInv'
<1> USE DEF source, runtime
<1> DEFINE place == IF r.kind = "telemetry" THEN "replace" ELSE "apply"
<1>1. /\ at[h] = "idle" /\ at' = [at EXCEPT ![h] = place]
      /\ req' = [req EXCEPT ![h] = r] /\ prev' = [prev EXCEPT ![h] = cfg]
      /\ posted' = posted + 1 /\ posted < MaxRequests
      /\ UNCHANGED <<cfg, src, failures, outdated, disk, collector, next, upd, rtCfg, rtDet, rtWin, lost, unsaved>>
      /\ overlap' = (overlap \/ \E o \in Handlers : at[o] # "idle")
  BY DEF Post, Goto
<1>2. /\ \A g \in Handlers : at'[g] = IF g = h THEN place ELSE at[g]
      /\ \A g \in Handlers : req'[g] = IF g = h THEN r ELSE req[g]
      /\ \A g \in Handlers : prev'[g] = IF g = h THEN cfg ELSE prev[g]
  BY <1>1 DEF ConfigInv, TypeOK
<1> HIDE DEF place
<1>3. place \in Fresh /\ (place = "replace" <=> r.kind = "telemetry")
  BY DEF place, Fresh
<1>4. TypeOK'
  BY <1>1, <1>3, ConfigPropagationAssumption DEF ConfigInv, TypeOK, Sources!SourceOK, Fresh
<1>5. Placed' /\ SourceSound'
  BY <1>1, <1>2, <1>3 DEF ConfigInv, TypeOK, Placed, SourceSound, Fresh, Later
<1>6. ASSUME ~overlap' PROVE Orderly'
  <2>1. ~overlap /\ Idle /\ Orderly
    BY <1>1, <1>6 DEF Idle, ConfigInv
  <2>2. Alone' /\ ~Idle'
    BY <1>2, <1>3, <2>1 DEF Alone, Idle, Fresh
  <2>3. AllFollow
    BY <2>1 DEF Orderly
  <2>4. ASSUME NEW g \in Handlers PROVE ManagerOf(g)' /\ FileOf(g)' /\ RuntimeOf(g)'
    <3>1. CASE g = h
      BY <1>1, <1>2, <1>3, <2>3, <3>1
         DEF AllFollow, ManagerOf, FileOf, RuntimeOf, Fresh, Later, Saved, Reaches, Ahead
    <3>2. CASE g # h
      BY <1>2, <2>1, <3>2 DEF Idle, ManagerOf, FileOf, RuntimeOf, Fresh, Later
    <3> QED
      BY <3>1, <3>2
  <2>5. SourceSet' /\ UpdateFits' /\ DetectorMatches'
    BY <1>1, <1>6, <2>1 DEF Orderly, Idle, SourceSet, UpdateFits, DetectorMatches
  <2> QED
    BY <2>2, <2>4, <2>5 DEF Orderly
<1> QED
  BY <1>4, <1>5, <1>6 DEF ConfigInv

(* Without an overlap a step of a handler leaves the others idle, so that      *)
(* only its own place counts.                                               *)
LEMMA ByOne ==
  ASSUME Orderly, NEW h \in Handlers, at[h] # "idle",
         \A g \in Handlers \ {h} : at'[g] = at[g],
         at'[h] = "idle" => AllFollow',
         at'[h] # "idle" => ManagerOf(h)' /\ FileOf(h)' /\ RuntimeOf(h)',
         SourceSet', UpdateFits', DetectorMatches'
  PROVE  Orderly'
<1>1. \A g \in Handlers \ {h} : at[g] = "idle" /\ at'[g] = "idle"
  BY DEF Orderly, Alone
<1>2. Alone' /\ (Idle' => AllFollow')
  BY <1>1 DEF Alone, Idle
<1>3. ASSUME NEW g \in Handlers PROVE ManagerOf(g)' /\ FileOf(g)' /\ RuntimeOf(g)'
  BY <1>1 DEF ManagerOf, FileOf, RuntimeOf, Fresh, Later
<1> QED
  BY <1>2, <1>3 DEF Orderly

(* Where the source stands before a step that leaves it and its snapshot       *)
(* alone, it stands after it, as long as the manager has what the handler had  *)
(* in mind, or had.                                                         *)
LEMMA SourceStays ==
  ASSUME Orderly, NEW h \in Handlers, at[h] # "idle",
         src' = src, outdated' = outdated,
         src.set = cfg["tuner"] \/ (at[h] \in {"profile", "source"} /\ src.set = prev[h]["tuner"])
           => src.set = cfg'["tuner"] \/ (at'[h] \in {"profile", "source"} /\ src.set = prev'[h]["tuner"])
  PROVE  SourceSet'
<1>1. \A g \in Handlers \ {h} : at[g] = "idle"
  BY DEF Orderly, Alone
<1> QED
  BY <1>1 DEF Orderly, SourceSet

(* The manager takes what the body sets.                                     *)
LEMMA ApplyStep ==
  ASSUME ConfigInv, NEW h \in Handlers, Apply(h)
  PROVE  ConfigInv'
<1> DEFINE merged == Merge(cfg, req[h].chg)
           place  == IF req[h].profile # <<>> THEN "profile"
                     ELSE IF SourceChanged(h) THEN "source" ELSE AfterSource(h, cfg')
<1>1. /\ at[h] = "apply" /\ at' = [at EXCEPT ![h] = place]
      /\ cfg' = merged /\ next' = [next EXCEPT ![h] = merged]
      /\ UNCHANGED <<src, failures, outdated, disk, collector, req, prev, posted, upd, rtCfg, rtDet, rtWin,
                      lost, unsaved, overlap>>
  BY DEF Apply, Goto, source, runtime, faults
<1>2. /\ prev[h] \in Config /\ req[h] \in Requests /\ req[h].kind \in {"config", "settings"}
  BY <1>1, RequestType DEF ConfigInv, Placed
<1>3. /\ merged \in Config
      /\ \A f \in Fields \ MaySet(req[h].kind) : merged[f] = cfg[f]
  BY <1>2, RequestType, MergeType DEF ConfigInv, TypeOK
<1>4. /\ next'[h] = merged /\ at'[h] = place
      /\ \A g \in Handlers \ {h} : next'[g] = next[g] /\ at'[g] = at[g]
  BY <1>1 DEF ConfigInv, TypeOK
<1>5. /\ place \in {"profile", "source", "save", "push"}
      /\ place = "save" => prev[h]["tuner"] = merged["tuner"]
      /\ place = "push" => prev[h]["tuner"] = merged["tuner"]
      /\ place = "push" => req[h].kind = "settings"
      /\ place = "save" /\ req[h].kind = "settings" => prev[h]["corr"] = merged["corr"]
  BY <1>1, <1>2, <1>4 DEF AfterSource, SourceChanged
<1> HIDE DEF merged, place
<1>6. TypeOK'
  BY <1>1, <1>3, <1>5 DEF ConfigInv, TypeOK, Sources!SourceOK
<1>7. Placed' /\ SourceSound'
  BY <1>1, <1>2, <1>3, <1>4, <1>5 DEF ConfigInv, Placed, SourceSound, Later
<1>8. ASSUME ~overlap' PROVE Orderly'
  <2>1. Orderly /\ cfg = prev[h] /\ Reaches(prev[h]) /\ Saved(prev[h]) /\ collector = prev[h]["telem"]
    BY <1>1, <1>8 DEF ConfigInv, Orderly, ManagerOf, RuntimeOf, FileOf, Fresh
  <2>2. ManagerOf(h)' /\ FileOf(h)'
    BY <1>1, <1>3, <1>4, <1>5, <2>1 DEF ManagerOf, FileOf, Fresh, Later, Saved
  <2>3. RuntimeOf(h)'
    BY <1>1, <1>2, <1>3, <1>4, <1>5, <2>1, KindsSet DEF RuntimeOf, Reaches, Ahead, Shared, Fields
  <2>4. SourceSet'
    BY <1>1, <1>4, <1>5, <2>1, SourceStays
  <2>5. UpdateFits' /\ DetectorMatches'
    BY <1>1, <2>1 DEF Orderly, UpdateFits, DetectorMatches
  <2> QED
    BY <1>1, <1>4, <1>5, <2>1, <2>2, <2>3, <2>4, <2>5, ByOne
<1> QED
  BY <1>6, <1>7, <1>8 DEF ConfigInv

(* The profile sets no more than the FFT size, so that the source is where it  *)
(* was.                                                                     *)
LEMMA ApplyProfileStep ==
  ASSUME ConfigInv, NEW h \in Handlers, ApplyProfile(h)
  PROVE  ConfigInv'
<1> DEFINE merged == Merge(next[h], req[h].profile)
           place  == IF SourceChanged(h) THEN "source" ELSE AfterSource(h, cfg')
<1>1. /\ at[h] = "profile" /\ at' = [at EXCEPT ![h] = place]
      /\ cfg' = merged /\ next' = [next EXCEPT ![h] = merged]
      /\ UNCHANGED <<src, failures, outdated, disk, collector, req, prev, posted, upd, rtCfg, rtDet, rtWin,
                      lost, unsaved, overlap>>
  BY DEF ApplyProfile, Goto, source, runtime, faults
<1>2. /\ prev[h] \in Config /\ next[h] \in Config /\ req[h] \in Requests
      /\ req[h].kind \in {"config", "settings"}
  BY <1>1, RequestType DEF ConfigInv, Placed, Later
<1>3. /\ merged \in Config
      /\ \A f \in Fields \ DOMAIN req[h].profile : merged[f] = next[h][f]
  BY <1>2, RequestType, MergeType
<1>4. /\ next'[h] = merged /\ at'[h] = place
      /\ \A g \in Handlers \ {h} : next'[g] = next[g] /\ at'[g] = at[g]
  BY <1>1 DEF ConfigInv, TypeOK
<1>5. /\ place \in {"source", "save", "push"}
      /\ place = "save" => prev[h]["tuner"] = merged["tuner"]
      /\ place = "push" => prev[h]["tuner"] = merged["tuner"]
      /\ place = "push" => req[h].kind = "settings"
      /\ place = "save" /\ req[h].kind = "settings" => prev[h]["corr"] = merged["corr"]
  BY <1>1, <1>2, <1>4 DEF AfterSource, SourceChanged
<1> HIDE DEF merged, place
<1>6. TypeOK'
  BY <1>1, <1>3, <1>5 DEF ConfigInv, TypeOK, Sources!SourceOK
<1>7. Placed' /\ SourceSound'
  BY <1>1, <1>2, <1>3, <1>4, <1>5 DEF ConfigInv, Placed, SourceSound, Later
<1>8. ASSUME ~overlap' PROVE Orderly'
  <2>1. /\ Orderly /\ cfg = next[h] /\ Reaches(prev[h]) /\ Saved(prev[h]) /\ collector = prev[h]["telem"]
        /\ \A f \in Fields \ MaySet(req[h].kind) : cfg[f] = prev[h][f]
    BY <1>1, <1>8 DEF ConfigInv, Orderly, ManagerOf, RuntimeOf, FileOf, Later
  <2>2. /\ merged["tuner"] = cfg["tuner"]
        /\ \A f \in Fields \ MaySet(req[h].kind) : merged[f] = prev[h][f]
    <3>1. DOMAIN req[h].profile \subseteq MaySet(req[h].kind) /\ "tuner" \notin DOMAIN req[h].profile
      BY <1>2, ConfigPropagationAssumption, RequestType DEF Request, ProfileSets
    <3> QED
      BY <1>3, <2>1, <3>1 DEF Fields
  <2>3. ManagerOf(h)' /\ FileOf(h)'
    BY <1>1, <1>3, <1>4, <1>5, <2>1, <2>2 DEF ManagerOf, FileOf, Fresh, Later, Saved
  <2>4. RuntimeOf(h)'
    BY <1>1, <1>2, <1>3, <1>4, <1>5, <2>1, <2>2, KindsSet DEF RuntimeOf, Reaches, Ahead, Shared, Fields
  <2>5. SourceSet'
    BY <1>1, <1>4, <1>5, <2>1, <2>2, SourceStays
  <2>6. UpdateFits' /\ DetectorMatches'
    BY <1>1, <2>1 DEF Orderly, UpdateFits, DetectorMatches
  <2> QED
    BY <1>1, <1>4, <1>5, <2>1, <2>3, <2>4, <2>5, <2>6, ByOne
<1> QED
  BY <1>6, <1>7, <1>8 DEF ConfigInv

(* The source takes the result.                                              *)
LEMMA ApplySourceStep ==
  ASSUME ConfigInv, NEW h \in Handlers, ApplySource(h)
  PROVE  ConfigInv'
<1> DEFINE place == AfterSource(h, next[h])
<1>1. /\ at[h] = "source" /\ at' = [at EXCEPT ![h] = place]
      /\ Sources!ApplyConfig(next[h]["tuner"]) /\ outdated' = FALSE
      /\ UNCHANGED <<cfg, disk, collector, req, prev, next, posted, upd, rtCfg, rtDet, rtWin,
                      lost, unsaved, overlap>>
  BY DEF ApplySource, Goto, runtime, faults
<1>2. /\ prev[h] \in Config /\ next[h] \in Config /\ req[h] \in Requests
      /\ req[h].kind \in {"config", "settings"}
  BY <1>1, RequestType DEF ConfigInv, Placed, Later
<1>3. at'[h] = place /\ \A g \in Handlers \ {h} : at'[g] = at[g]
  BY <1>1 DEF ConfigInv, TypeOK
<1>4. /\ place \in {"save", "push"}
      /\ place = "push" => req[h].kind = "settings"
      /\ place = "save" /\ req[h].kind = "settings" => prev[h]["corr"] = next[h]["corr"]
  BY <1>2 DEF AfterSource
<1>5. Sources!SourceOK' /\ SourceSound' /\ src'.set = next[h]["tuner"]
  <2>1. next[h]["tuner"] \in Vals
    BY <1>2 DEF Config, Fields
  <2> QED
    BY <1>1, <2>1, ApplyConfigType DEF ConfigInv, TypeOK
<1> HIDE DEF place
<1>6. TypeOK'
  BY <1>1, <1>4, <1>5 DEF ConfigInv, TypeOK
<1>7. Placed'
  BY <1>1, <1>2, <1>3, <1>4 DEF ConfigInv, Placed, Later
<1>8. ASSUME ~overlap' PROVE Orderly'
  <2>1. /\ Orderly /\ cfg = next[h] /\ Reaches(prev[h]) /\ Saved(prev[h]) /\ collector = prev[h]["telem"]
        /\ \A f \in Fields \ MaySet(req[h].kind) : cfg[f] = prev[h][f]
    BY <1>1, <1>8 DEF ConfigInv, Orderly, ManagerOf, RuntimeOf, FileOf, Later
  <2>2. ManagerOf(h)' /\ FileOf(h)'
    BY <1>1, <1>3, <1>4, <2>1 DEF ManagerOf, FileOf, Fresh, Later, Saved
  <2>3. RuntimeOf(h)'
    BY <1>1, <1>2, <1>3, <1>4, <2>1, KindsSet DEF RuntimeOf, Reaches, Ahead, Shared, Fields
  <2>4. SourceSet'
    BY <1>1, <1>5, <2>1 DEF SourceSet
  <2>5. UpdateFits' /\ DetectorMatches'
    BY <1>1, <2>1 DEF Orderly, UpdateFits, DetectorMatches
  <2> QED
    BY <1>1, <1>3, <1>4, <2>1, <2>2, <2>3, <2>4, <2>5, ByOne
<1> QED
  BY <1>5, <1>6, <1>7, <1>8 DEF ConfigInv

(* No source takes the result, and the manager gets its snapshot back.         *)
LEMMA SourceFailsStep ==
  ASSUME ConfigInv, NEW h \in Handlers, SourceFails(h)
  PROVE  ConfigInv'
<1>1. /\ at[h] = "source" /\ at' = [at EXCEPT ![h] = "idle"]
      /\ req' = [req EXCEPT ![h] = None] /\ prev' = [prev EXCEPT ![h] = None]
      /\ next' = [next EXCEPT ![h] = None]
      /\ cfg' = prev[h] /\ Sources!ApplyConfigFails(next[h]["tuner"])
      /\ UNCHANGED <<outdated, disk, collector, posted, upd, rtCfg, rtDet, rtWin, lost, unsaved, overlap>>
  BY DEF SourceFails, Answer, Goto, runtime, faults
<1>2. prev[h] \in Config /\ next[h] \in Config
  BY <1>1 DEF ConfigInv, Placed, Later
<1>3. /\ at'[h] = "idle" /\ \A g \in Handlers \ {h} : at'[g] = at[g]
      /\ \A g \in Handlers \ {h} : req'[g] = req[g] /\ prev'[g] = prev[g] /\ next'[g] = next[g]
  BY <1>1 DEF ConfigInv, TypeOK
<1>4. Sources!SourceOK' /\ SourceSound' /\ ~src'.alive
  <2>1. next[h]["tuner"] \in Vals
    BY <1>2 DEF Config, Fields
  <2> QED
    BY <1>1, <2>1, ApplyConfigFailsType DEF ConfigInv, TypeOK
<1>5. TypeOK'
  BY <1>1, <1>2, <1>4 DEF ConfigInv, TypeOK
<1>6. Placed'
  BY <1>3 DEF ConfigInv, Placed, Later
<1>7. ASSUME ~overlap' PROVE Orderly'
  <2>1. Orderly /\ Reaches(prev[h]) /\ Saved(prev[h]) /\ collector = prev[h]["telem"]
    BY <1>1, <1>7 DEF ConfigInv, Orderly, RuntimeOf, FileOf
  <2>2. AllFollow'
    BY <1>1, <2>1 DEF AllFollow, Saved, Reaches, Ahead
  <2>3. SourceSet'
    BY <1>4 DEF SourceSet
  <2>4. UpdateFits' /\ DetectorMatches'
    BY <1>1, <2>1 DEF Orderly, UpdateFits, DetectorMatches
  <2> QED
    BY <1>1, <1>3, <2>1, <2>2, <2>3, <2>4, ByOne
<1> QED
  BY <1>4, <1>5, <1>6, <1>7 DEF ConfigInv

(* Writing the file changes the file only, or it stays what it was.           *)
LEMMA WriteType ==
  ASSUME TypeOK, NEW h \in Handlers, next[h] \in Config, Write(h), src' = src
  PROVE  /\ disk' \in Config /\ unsaved' \in BOOLEAN /\ Sources!SourceOK'
         /\ disk' = next[h] \/ unsaved'
<1>1. CASE disk' = next[h] /\ unsaved' = FALSE /\ UNCHANGED failures
  BY <1>1 DEF TypeOK, Sources!SourceOK
<1>2. CASE disk' = disk /\ unsaved' = TRUE /\ Sources!Failing(1)
  <2>1. failures' \in 0 .. MaxFaults
    BY <1>2, ConfigPropagationAssumption DEF TypeOK, Sources!SourceOK, Sources!Failing
  <2> QED
    BY <1>2, <2>1 DEF TypeOK, Sources!SourceOK
<1> QED
  BY <1>1, <1>2 DEF Write

(* The config handler saves before it pushes, the settings handler after.      *)
LEMMA SaveConfigStep ==
  ASSUME ConfigInv, NEW h \in Handlers, SaveConfig(h)
  PROVE  ConfigInv'
<1>1. /\ at[h] = "save" /\ Write(h)
      /\ UNCHANGED <<cfg, src, outdated, collector, posted, upd, rtCfg, rtDet, rtWin, lost, overlap>>
  BY DEF SaveConfig, runtime
<1>2. /\ prev[h] \in Config /\ next[h] \in Config /\ req[h] \in Requests
      /\ req[h].kind \in {"config", "settings"}
  BY <1>1, RequestType DEF ConfigInv, Placed, Later
<1>3. disk' \in Config /\ unsaved' \in BOOLEAN /\ Sources!SourceOK' /\ (disk' = next[h] \/ unsaved')
  BY <1>1, <1>2, WriteType DEF ConfigInv
<1>4. ASSUME ~overlap'
      PROVE  /\ Orderly /\ cfg = next[h] /\ collector = prev[h]["telem"]
             /\ \A f \in Fields \ MaySet(req[h].kind) : cfg[f] = prev[h][f]
             /\ Reaches(IF req[h].kind = "config" THEN prev[h] ELSE cfg)
             /\ UpdateFits' /\ DetectorMatches'
  <2>1. Orderly
    BY <1>1, <1>4 DEF ConfigInv
  <2>2. UpdateFits' /\ DetectorMatches'
    BY <1>1, <2>1 DEF Orderly, UpdateFits, DetectorMatches
  <2> QED
    BY <1>1, <2>1, <2>2 DEF Orderly, ManagerOf, FileOf, RuntimeOf, Later
<1>5. CASE req[h].kind = "config"
  <2>1. at' = [at EXCEPT ![h] = "push"] /\ UNCHANGED <<req, prev, next>>
    BY <1>5 DEF SaveConfig, Goto
  <2>2. at'[h] = "push" /\ \A g \in Handlers \ {h} : at'[g] = at[g]
    BY <2>1 DEF ConfigInv, TypeOK
  <2>3. TypeOK' /\ Placed' /\ SourceSound'
    BY <1>1, <1>2, <1>3, <1>5, <2>1, <2>2 DEF ConfigInv, TypeOK, Placed, Later, SourceSound
  <2>4. ASSUME ~overlap' PROVE Orderly'
    <3>1. ManagerOf(h)' /\ FileOf(h)' /\ RuntimeOf(h)'
      BY <1>1, <1>3, <1>4, <1>5, <2>1, <2>2, <2>4
         DEF ManagerOf, FileOf, RuntimeOf, Fresh, Later, Saved, Reaches, Ahead
    <3>2. SourceSet'
      BY <1>1, <1>4, <2>2, <2>4, SourceStays
    <3> QED
      BY <1>1, <1>4, <2>2, <2>4, <3>1, <3>2, ByOne
  <2> QED
    BY <2>3, <2>4 DEF ConfigInv
<1>6. CASE req[h].kind = "settings"
  <2>1. /\ at' = [at EXCEPT ![h] = "idle"] /\ req' = [req EXCEPT ![h] = None]
        /\ prev' = [prev EXCEPT ![h] = None] /\ next' = [next EXCEPT ![h] = None]
    BY <1>6 DEF SaveConfig, Answer, Goto
  <2>2. /\ at'[h] = "idle"
        /\ \A g \in Handlers \ {h} : at'[g] = at[g] /\ req'[g] = req[g] /\ prev'[g] = prev[g] /\ next'[g] = next[g]
    BY <2>1 DEF ConfigInv, TypeOK
  <2>3. TypeOK'
    BY <1>1, <1>3, <2>1 DEF ConfigInv, TypeOK
  <2>4. Placed' /\ SourceSound'
    BY <1>1, <2>2 DEF ConfigInv, Placed, Later, SourceSound
  <2>5. ASSUME ~overlap' PROVE Orderly'
    <3>1. collector = cfg["telem"]
      BY <1>4, <1>6, <2>5, KindsSet DEF Fields
    <3>2. AllFollow'
      BY <1>1, <1>3, <1>4, <1>6, <2>5, <3>1 DEF AllFollow, Saved, Reaches, Ahead
    <3>3. SourceSet'
      BY <1>1, <1>4, <2>2, <2>5, SourceStays
    <3> QED
      BY <1>1, <1>4, <2>2, <2>5, <3>2, <3>3, ByOne
  <2> QED
    BY <2>3, <2>4, <2>5 DEF ConfigInv
<1> QED
  BY <1>2, <1>5, <1>6

(* What is sent is the result, with a detector and a window where they have to  *)
(* be replaced.                                                             *)
LEMMA UpdateOfType ==
  ASSUME NEW h \in Handlers, prev[h] \in Config, next[h] \in Config
  PROVE  /\ UpdateOf(h) \in Update /\ UpdateOf(h) # None /\ UpdateOf(h).cfg = next[h]
         /\ UpdateOf(h).det # None =>
              UpdateOf(h).det.fft = next[h]["fft"] /\ UpdateOf(h).det.det = next[h]["det"]
         /\ UpdateOf(h).det = None /\ req[h].kind = "config" =>
              next[h]["fft"] = prev[h]["fft"] /\ next[h]["det"] = prev[h]["det"]
         /\ UpdateOf(h).window # None => UpdateOf(h).window = next[h]["fft"]
         /\ UpdateOf(h).window = None /\ req[h].kind = "config" => next[h]["fft"] = prev[h]["fft"]
<1>1. next[h]["fft"] \in Vals /\ next[h]["det"] \in Vals /\ next[h]["tuner"] \in Vals
  BY DEF Config, Fields
<1>2. DetFor(next[h]) \in [fft : Vals, det : Vals, tuner : Vals]
  BY <1>1 DEF DetFor
<1>3. DetFor(next[h]) # None /\ next[h]["fft"] # None
  BY <1>1, <1>2, ConfigPropagationAssumption
<1>4. UpdateOf(h) \in Update
  BY <1>1, <1>2 DEF UpdateOf, Update
<1>5. UpdateOf(h) # None
  BY <1>4, ConfigPropagationAssumption
<1> QED
  BY <1>3, <1>4, <1>5 DEF UpdateOf, DetFor

(* The update is queued, by Push or by Send.                                  *)
LEMMA SentStep ==
  ASSUME ConfigInv, NEW h \in Handlers, at[h] \in {"push", "send"}, upd = None, Sent(h),
         UNCHANGED <<cfg, source, disk, collector, posted, runtime, faults>>
  PROVE  ConfigInv'
<1>1. /\ upd' = UpdateOf(h)
      /\ UNCHANGED <<cfg, src, failures, outdated, disk, collector, posted, rtCfg, rtDet, rtWin, lost, unsaved, overlap>>
  BY DEF Sent, source, runtime, faults
<1>2. /\ prev[h] \in Config /\ next[h] \in Config /\ req[h] \in Requests
      /\ req[h].kind \in {"config", "settings"}
  BY RequestType DEF ConfigInv, Placed, Later
<1>3. upd' \in Update /\ upd' # None /\ upd'.cfg = next[h]
  BY <1>1, <1>2, UpdateOfType
<1>4. ASSUME ~overlap'
      PROVE  /\ Orderly /\ cfg = next[h] /\ collector = prev[h]["telem"]
             /\ \A f \in Fields \ MaySet(req[h].kind) : cfg[f] = prev[h][f]
             /\ req[h].kind = "config" => Saved(cfg)
             /\ at[h] = "push" => Reaches(prev[h])
             /\ at[h] = "send" => lost
             /\ Reaches(cfg)' /\ DetectorMatches'
  <2>1. Orderly
    BY <1>1, <1>4 DEF ConfigInv
  <2>2. DetectorMatches'
    BY <1>1, <2>1 DEF Orderly, DetectorMatches
  <2>3. cfg = next[h]
    BY <2>1 DEF Orderly, ManagerOf, Later
  <2>4. Reaches(cfg)'
    BY <1>1, <1>3, <2>3 DEF Reaches, Ahead
  <2> QED
    BY <2>1, <2>2, <2>3, <2>4 DEF Orderly, ManagerOf, FileOf, RuntimeOf, Later
<1>5. ASSUME ~overlap' PROVE UpdateFits'
  <2>1. CASE lost
    BY <1>1, <2>1 DEF UpdateFits
  <2>2. CASE ~lost
    <3>1. rtCfg["fft"] = prev[h]["fft"] /\ rtCfg["det"] = prev[h]["det"]
      BY <1>4, <1>5, <2>2 DEF Reaches, Ahead, Shared
    <3>2. req[h].kind = "settings" => next[h]["fft"] = prev[h]["fft"] /\ next[h]["det"] = prev[h]["det"]
      BY <1>4, <1>5, KindsSet DEF Fields
    <3> QED
      BY <1>1, <1>2, <1>3, <3>1, <3>2, UpdateOfType DEF UpdateFits
  <2> QED
    BY <2>1, <2>2
<1>6. CASE req[h].kind = "config"
  <2>1. /\ at' = [at EXCEPT ![h] = "idle"] /\ req' = [req EXCEPT ![h] = None]
        /\ prev' = [prev EXCEPT ![h] = None] /\ next' = [next EXCEPT ![h] = None]
    BY <1>6 DEF Sent, Answer, Goto
  <2>2. /\ at'[h] = "idle"
        /\ \A g \in Handlers \ {h} : at'[g] = at[g] /\ req'[g] = req[g] /\ prev'[g] = prev[g] /\ next'[g] = next[g]
    BY <2>1 DEF ConfigInv, TypeOK
  <2>3. TypeOK'
    BY <1>1, <1>3, <2>1 DEF ConfigInv, TypeOK, Sources!SourceOK
  <2>4. Placed' /\ SourceSound'
    BY <1>1, <2>2 DEF ConfigInv, Placed, Later, SourceSound
  <2>5. ASSUME ~overlap' PROVE Orderly'
    <3>1. collector = cfg["telem"]
      BY <1>4, <1>6, <2>5, KindsSet DEF Fields
    <3>2. AllFollow'
      BY <1>1, <1>4, <1>6, <2>5, <3>1 DEF AllFollow, Saved
    <3>3. SourceSet'
      BY <1>1, <1>4, <2>2, <2>5, SourceStays
    <3> QED
      BY <1>4, <1>5, <2>2, <2>5, <3>2, <3>3, ByOne
  <2> QED
    BY <2>3, <2>4, <2>5 DEF ConfigInv
<1>7. CASE req[h].kind = "settings"
  <2>1. at' = [at EXCEPT ![h] = "save"] /\ UNCHANGED <<req, prev, next>>
    BY <1>7 DEF Sent, Goto
  <2>2. at'[h] = "save" /\ \A g \in Handlers \ {h} : at'[g] = at[g]
    BY <2>1 DEF ConfigInv, TypeOK
  <2>3. TypeOK' /\ Placed' /\ SourceSound'
    BY <1>1, <1>2, <1>3, <1>7, <2>1, <2>2 DEF ConfigInv, TypeOK, Placed, Later, SourceSound, Sources!SourceOK
  <2>4. ASSUME ~overlap' PROVE Orderly'
    <3>1. ManagerOf(h)' /\ FileOf(h)' /\ RuntimeOf(h)'
      BY <1>1, <1>4, <1>7, <2>1, <2>2, <2>4 DEF ManagerOf, FileOf, RuntimeOf, Fresh, Later
    <3>2. SourceSet'
      BY <1>1, <1>4, <2>2, <2>4, SourceStays
    <3> QED
      BY <1>4, <1>5, <2>2, <2>4, <3>1, <3>2, ByOne
  <2> QED
    BY <2>3, <2>4 DEF ConfigInv
<1> QED
  BY <1>2, <1>6, <1>7

(* The update in the channel is thrown away: the next one has all of it but      *)
(* for the detector and the window.                                         *)
LEMMA DrainStep ==
  ASSUME ConfigInv, NEW h \in Handlers, Drain(h)
  PROVE  ConfigInv'
<1>1. /\ at[h] = "push" /\ at' = [at EXCEPT ![h] = "send"]
      /\ upd' = None /\ lost' = TRUE
      /\ UNCHANGED <<cfg, src, failures, outdated, disk, collector, req, prev, next, posted, rtCfg, rtDet, rtWin,
                      unsaved, overlap>>
  BY DEF Drain, Goto, source, runtime
<1>2. at'[h] = "send" /\ \A g \in Handlers \ {h} : at'[g] = at[g]
  BY <1>1 DEF ConfigInv, TypeOK
<1>3. TypeOK' /\ Placed' /\ SourceSound'
  BY <1>1, <1>2 DEF ConfigInv, TypeOK, Placed, Later, SourceSound, Sources!SourceOK
<1>4. ASSUME ~overlap' PROVE Orderly'
  <2>1. Orderly
    BY <1>1, <1>4 DEF ConfigInv
  <2>2. ManagerOf(h)' /\ FileOf(h)' /\ RuntimeOf(h)'
    BY <1>1, <1>2, <2>1 DEF Orderly, ManagerOf, FileOf, RuntimeOf, Fresh, Later, Saved
  <2>3. SourceSet'
    BY <1>1, <1>2, <2>1, SourceStays
  <2>4. UpdateFits' /\ DetectorMatches'
    BY <1>1 DEF UpdateFits, DetectorMatches
  <2> QED
    BY <1>1, <1>2, <2>1, <2>2, <2>3, <2>4, ByOne
<1> QED
  BY <1>3, <1>4 DEF ConfigInv

(* The telemetry handler's copy replaces what the manager has.                 *)
LEMMA ReplaceTelemetryStep ==
  ASSUME ConfigInv, NEW h \in Handlers, ReplaceTelemetry(h)
  PROVE  ConfigInv'
<1> DEFINE merged == Merge(prev[h], req[h].chg)
<1>1. /\ at[h] = "replace" /\ at' = [at EXCEPT ![h] = "saveTelemetry"]
      /\ cfg' = merged /\ next' = [next EXCEPT ![h] = merged]
      /\ UNCHANGED <<src, failures, outdated, disk, collector, req, prev, posted, upd, rtCfg, rtDet, rtWin,
                      lost, unsaved, overlap>>
  BY DEF ReplaceTelemetry, Goto, source, runtime, faults
<1>2. prev[h] \in Config /\ req[h] \in Requests /\ req[h].kind = "telemetry"
  BY <1>1 DEF ConfigInv, Placed
<1>3. merged \in Config /\ \A f \in Fields \ {"telem"} : merged[f] = prev[h][f]
  BY <1>2, RequestType, MergeType, KindsSet
<1>4. /\ next'[h] = merged /\ at'[h] = "saveTelemetry"
      /\ \A g \in Handlers \ {h} : next'[g] = next[g] /\ at'[g] = at[g]
  BY <1>1 DEF ConfigInv, TypeOK
<1> HIDE DEF merged
<1>5. TypeOK' /\ Placed' /\ SourceSound'
  BY <1>1, <1>2, <1>3, <1>4 DEF ConfigInv, TypeOK, Sources!SourceOK, Placed, SourceSound, Later
<1>6. ASSUME ~overlap' PROVE Orderly'
  <2>1. Orderly /\ cfg = prev[h] /\ Reaches(prev[h]) /\ collector = prev[h]["telem"]
    BY <1>1, <1>6 DEF ConfigInv, Orderly, ManagerOf, RuntimeOf, FileOf, Fresh
  <2>2. ManagerOf(h)' /\ FileOf(h)'
    BY <1>1, <1>2, <1>3, <1>4, <2>1, KindsSet DEF ManagerOf, FileOf, Fresh, Later
  <2>3. RuntimeOf(h)'
    BY <1>1, <1>4, <2>1 DEF RuntimeOf, Reaches, Ahead
  <2>4. SourceSet'
    <3>1. cfg'["tuner"] = cfg["tuner"]
      BY <1>1, <1>3, <2>1 DEF Fields
    <3> QED
      BY <1>1, <1>4, <2>1, <3>1, SourceStays
  <2>5. UpdateFits' /\ DetectorMatches'
    BY <1>1, <2>1 DEF Orderly, UpdateFits, DetectorMatches
  <2> QED
    BY <1>1, <1>4, <2>1, <2>2, <2>3, <2>4, <2>5, ByOne
<1> QED
  BY <1>5, <1>6 DEF ConfigInv

(* It saves the copy and configures the collector.                           *)
LEMMA SaveTelemetryStep ==
  ASSUME ConfigInv, NEW h \in Handlers, SaveTelemetry(h)
  PROVE  ConfigInv'
<1>1. /\ at[h] = "saveTelemetry" /\ Write(h) /\ collector' = next[h]["telem"]
      /\ at' = [at EXCEPT ![h] = "idle"] /\ req' = [req EXCEPT ![h] = None]
      /\ prev' = [prev EXCEPT ![h] = None] /\ next' = [next EXCEPT ![h] = None]
      /\ UNCHANGED <<cfg, src, outdated, posted, upd, rtCfg, rtDet, rtWin, lost, overlap>>
  BY DEF SaveTelemetry, Answer, Goto, runtime
<1>2. /\ next[h] \in Config /\ req[h].kind = "telemetry"
  BY <1>1 DEF ConfigInv, Placed, Later
<1>3. /\ at'[h] = "idle"
      /\ \A g \in Handlers \ {h} : at'[g] = at[g] /\ req'[g] = req[g] /\ prev'[g] = prev[g] /\ next'[g] = next[g]
  BY <1>1 DEF ConfigInv, TypeOK
<1>4. disk' \in Config /\ unsaved' \in BOOLEAN /\ Sources!SourceOK' /\ (disk' = next[h] \/ unsaved')
  BY <1>1, <1>2, WriteType DEF ConfigInv
<1>5. TypeOK'
  <2>1. next[h]["telem"] \in Vals
    BY <1>2 DEF Config, Fields
  <2> QED
    BY <1>1, <1>4, <2>1 DEF ConfigInv, TypeOK
<1>6. Placed' /\ SourceSound'
  BY <1>1, <1>3 DEF ConfigInv, Placed, Later, SourceSound
<1>7. ASSUME ~overlap' PROVE Orderly'
  <2>1. /\ Orderly /\ cfg = next[h] /\ Reaches(prev[h])
        /\ \A f \in Fields \ {"telem"} : cfg[f] = prev[h][f]
    BY <1>1, <1>2, <1>7, KindsSet DEF ConfigInv, Orderly, ManagerOf, RuntimeOf, Later
  <2>2. AllFollow'
    BY <1>1, <1>4, <2>1 DEF AllFollow, Saved, Reaches, Ahead, Shared, Fields
  <2>3. SourceSet'
    BY <1>1, <1>3, <2>1, SourceStays
  <2>4. UpdateFits' /\ DetectorMatches'
    BY <1>1, <2>1 DEF Orderly, UpdateFits, DetectorMatches
  <2> QED
    BY <1>1, <1>3, <2>1, <2>2, <2>3, <2>4, ByOne
<1> QED
  BY <1>5, <1>6, <1>7 DEF ConfigInv
-----------------------------------------------------------------------------
(* What the DSP loop will have, it has.                                       *)
LEMMA ApplyUpdateStep ==
  ASSUME ConfigInv, ApplyUpdate
  PROVE  ConfigInv'
<1>1. /\ upd # None /\ rtCfg' = upd.cfg /\ upd' = None
      /\ rtDet' = IF upd.det # None THEN upd.det ELSE rtDet
      /\ rtWin' = IF upd.window # None THEN upd.window ELSE rtWin
      /\ UNCHANGED <<cfg, src, failures, outdated, disk, collector, at, req, prev, next, posted, lost, unsaved, overlap>>
  BY DEF ApplyUpdate, source, handler, faults
<1>2. upd \in Update
  BY <1>1 DEF ConfigInv, TypeOK
<1>3. TypeOK' /\ Placed' /\ SourceSound'
  <2>1. rtCfg' \in Config /\ rtDet' \in [fft : Vals, det : Vals, tuner : Vals] /\ rtWin' \in Vals
    BY <1>1, <1>2 DEF Update, ConfigInv, TypeOK
  <2> QED
    BY <1>1, <2>1 DEF ConfigInv, TypeOK, Sources!SourceOK, Placed, SourceSound
<1>4. ASSUME ~overlap' PROVE Orderly'
  <2>1. Orderly
    BY <1>1, <1>4 DEF ConfigInv
  <2>2. Ahead' = Ahead
    BY <1>1 DEF Ahead
  <2>3. /\ Alone' /\ SourceSet' /\ UpdateFits'
        /\ Idle' => AllFollow'
        /\ \A h \in Handlers : ManagerOf(h)' /\ FileOf(h)' /\ RuntimeOf(h)'
    BY <1>1, <2>1, <2>2
       DEF Orderly, Alone, SourceSet, UpdateFits, Idle, AllFollow, ManagerOf, FileOf, RuntimeOf, Saved, Reaches
  <2>4. DetectorMatches'
    BY <1>1, <2>1 DEF Orderly, UpdateFits, DetectorMatches
  <2> QED
    BY <2>3, <2>4 DEF Orderly
<1> QED
  BY <1>3, <1>4 DEF ConfigInv

(* A restart sets the source to what the DSP loop has, which is marked when it   *)
(* is not what the manager has.                                             *)
LEMMA RestartStep ==
  ASSUME ConfigInv, Restart
  PROVE  ConfigInv'
<1>1. /\ Sources!Restart(rtCfg["tuner"]) /\ outdated' = (rtCfg["tuner"] # cfg["tuner"])
      /\ UNCHANGED <<cfg, disk, collector, at, req, prev, next, posted, upd, rtCfg, rtDet, rtWin, lost, unsaved, overlap>>
  BY DEF Restart, handler, runtime, faults
<1>2. Sources!SourceOK' /\ SourceSound' /\ (src'.alive => src'.set = rtCfg["tuner"])
  <2>1. rtCfg["tuner"] \in Vals
    BY DEF ConfigInv, TypeOK, Config, Fields
  <2> QED
    BY <1>1, <2>1, RestartType DEF ConfigInv, TypeOK
<1>3. TypeOK' /\ Placed'
  BY <1>1, <1>2 DEF ConfigInv, TypeOK, Placed
<1>4. ASSUME ~overlap' PROVE Orderly'
  <2>1. Orderly
    BY <1>1, <1>4 DEF ConfigInv
  <2>2. SourceSet'
    BY <1>1, <1>2 DEF SourceSet
  <2> QED
    BY <1>1, <2>1, <2>2
       DEF Orderly, Alone, UpdateFits, DetectorMatches, Idle, AllFollow, ManagerOf, FileOf, RuntimeOf, Saved, Reaches, Ahead
<1> QED
  BY <1>2, <1>3, <1>4 DEF ConfigInv
-----------------------------------------------------------------------------
(* Every step of a handler, of the DSP loop and of the source manager keeps      *)
(* the invariant.                                                           *)
LEMMA ConfigNext == ConfigInv /\ [Next]_vars => ConfigInv'
<1> SUFFICES ASSUME ConfigInv, [Next]_vars PROVE ConfigInv'
  OBVIOUS
<1>1. ASSUME NEW h \in Handlers, Handler(h) PROVE ConfigInv'
  <2>1. ASSUME NEW r \in Requests, Post(h, r) PROVE ConfigInv'
    BY <2>1, PostStep
  <2>2. CASE Apply(h)
    BY <2>2, ApplyStep
  <2>3. CASE ApplyProfile(h)
    BY <2>3, ApplyProfileStep
  <2>4. CASE ApplySource(h)
    BY <2>4, ApplySourceStep
  <2>5. CASE SourceFails(h)
    BY <2>5, SourceFailsStep
  <2>6. CASE SaveConfig(h)
    BY <2>6, SaveConfigStep
  <2>7. CASE Push(h) \/ Send(h)
    BY <2>7, SentStep DEF Push, Send
  <2>8. CASE Drain(h)
    BY <2>8, DrainStep
  <2>9. CASE ReplaceTelemetry(h)
    BY <2>9, ReplaceTelemetryStep
  <2>10. CASE SaveTelemetry(h)
    BY <2>10, SaveTelemetryStep
  <2> QED
    BY <1>1, <2>1, <2>2, <2>3, <2>4, <2>5, <2>6, <2>7, <2>8, <2>9, <2>10 DEF Handler
<1>2. CASE ApplyUpdate
  BY <1>2, ApplyUpdateStep
<1>3. CASE Restart
  BY <1>3, RestartStep
<1>4. CASE UNCHANGED vars
  <2>1. /\ UNCHANGED <<cfg, src, failures, outdated, disk, collector, at, req, prev, next, posted>>
        /\ UNCHANGED <<upd, rtCfg, rtDet, rtWin, lost, unsaved, overlap>>
    BY <1>4 DEF vars, source, handler, runtime, faults
  <2>2. TypeOK' /\ Placed' /\ SourceSound'
    BY <2>1 DEF ConfigInv, TypeOK, Sources!SourceOK, Placed, SourceSound
  <2>3. ASSUME ~overlap' PROVE Orderly'
    BY <2>1, <2>3
       DEF ConfigInv, Orderly, Alone, SourceSet, UpdateFits, DetectorMatches, Idle, AllFollow, ManagerOf, FileOf,
           RuntimeOf, Saved, Reaches, Ahead
  <2> QED
    BY <2>2, <2>3 DEF ConfigInv
<1> QED
  BY <1>1, <1>2, <1>3, <1>4 DEF Next

(* At first everything is as the file says.                                  *)
LEMMA ConfigStart == Init => ConfigInv
<1> SUFFICES ASSUME Init PROVE ConfigInv
  OBVIOUS
<1>1. cfg \in Config /\ \A f \in Fields : cfg[f] \in Vals
  BY ConfigPropagationAssumption DEF Init, Config
<1>2. TypeOK
  <2>1. \A f \in {"tuner", "fft", "det", "telem"} : cfg[f] \in Vals
    BY <1>1 DEF Fields
  <2>2. Sources!SourceOK
    BY <2>1, ConfigPropagationAssumption DEF Init, Sources!SourceOK, Sources!Running
  <2>3. rtDet \in [fft : Vals, det : Vals, tuner : Vals]
    BY <2>1 DEF Init, DetFor
  <2>4. posted \in 0 .. MaxRequests
    BY ConfigPropagationAssumption DEF Init
  <2> QED
    BY <1>1, <2>1, <2>2, <2>3, <2>4 DEF Init, TypeOK
<1>3. Placed /\ SourceSound
  BY DEF Init, Placed, Later, SourceSound, Sources!Running
<1>4. AllFollow
  BY DEF Init, AllFollow, Saved, Reaches, Ahead
<1>5. Alone /\ SourceSet /\ UpdateFits /\ DetectorMatches
  BY DEF Init, Alone, SourceSet, Sources!Running, UpdateFits, DetectorMatches, DetFor
<1>6. \A h \in Handlers : ManagerOf(h) /\ FileOf(h) /\ RuntimeOf(h)
  BY DEF Init, ManagerOf, FileOf, RuntimeOf, Fresh, Later
<1> QED
  BY <1>2, <1>3, <1>4, <1>5, <1>6 DEF ConfigInv, Orderly

(* Every variable has its type, and the source's fields theirs.                *)
THEOREM ConfigTypes == Spec => []TypeOK
<1>1. ConfigInv => TypeOK
  BY DEF ConfigInv
<1> QED
  BY <1>1, ConfigStart, ConfigNext, PTL DEF Spec

(* A change that was answered is in the autosave file and the collector, on its  *)
(* way to the DSP loop or there, and in the source (the POST handlers,          *)
(* applyUpdate, source manager).                                            *)
THEOREM ChangesArriveAlways == Spec => []ChangesArrive
<1>1. ConfigInv => ChangesArrive
  <2> SUFFICES ASSUME ConfigInv PROVE ChangesArrive
    OBVIOUS
  <2>1. SavedWhenIdle
    BY DEF ConfigInv, Orderly, AllFollow, Saved, SavedWhenIdle
  <2>2. RuntimeFollows
    BY DEF ConfigInv, Orderly, AllFollow, Reaches, Ahead, Shared, RuntimeFollows, Settled
  <2>3. SourceFollows
    BY DEF ConfigInv, Orderly, SourceSet, SourceSound, SourceFollows, Settled, Idle
  <2> QED
    BY <2>1, <2>2, <2>3 DEF ChangesArrive
<1> QED
  BY <1>1, ConfigStart, ConfigNext, PTL DEF Spec

(* The detector and the window fit the configuration of the DSP loop as long as  *)
(* no update was thrown away (pushDSPUpdate, applyUpdate).                     *)
THEOREM DetectorFits == Spec => []DetectorMatches
<1>1. ConfigInv => DetectorMatches
  BY DEF ConfigInv, Orderly, DetectorMatches
<1> QED
  BY <1>1, ConfigStart, ConfigNext, PTL DEF Spec
-----------------------------------------------------------------------------
(* What survives a restart is an instance of its own.                        *)
CONSTANTS Files, Broken, Nothing, Updates, Profiles, MaxPosts

VARIABLES file, autosave, up, loaded, posts

Stored == INSTANCE ConfigFile WITH cfg <- loaded

Settings == [Stored!Fields -> Int]

(* A file, an update or a profile maps some fields to integers; an update may   *)
(* name a profile besides.  A profile has no section with the detector's        *)
(* parameters (ProfileConfig).  That there is no autosave is told from any that *)
(* there may be.                                                            *)
WellTyped ==
  /\ Nothing # <<>> /\ Nothing \notin Settings
  /\ \A f \in Files \ {Broken} : DOMAIN f \subseteq Stored!Fields /\ \A x \in DOMAIN f : f[x] \in Int
  /\ \A u \in Updates : \A x \in DOMAIN u \cap Stored!Fields : u[x] \in Int
  /\ \A n \in DOMAIN Profiles :
       /\ DOMAIN Profiles[n] \subseteq Stored!Fields \ {"train", "rank"}
       /\ \A x \in DOMAIN Profiles[n] : Profiles[n][x] \in Int

(* What may be saved: the FFT size is the analysis size's if there is one, and  *)
(* the detector's parameters were never left out.                            *)
Sound(c) ==
  /\ c \in Settings
  /\ c["analysis"] > 0 => c["fft"] = c["analysis"]
  /\ c["train"] > 0 /\ c["rank"] > 0

StoredInv ==
  /\ up => Sound(loaded)
  /\ autosave = Nothing \/ autosave = <<>> \/ Sound(autosave)
  /\ file \in Files

(* What is laid over the defaults has every field.                            *)
LEMMA OverIs ==
  ASSUME NEW c \in Settings, NEW f, DOMAIN f \subseteq Stored!Fields, \A x \in DOMAIN f : f[x] \in Int
  PROVE  /\ Stored!Over(f, c) \in Settings
         /\ \A x \in DOMAIN f : Stored!Over(f, c)[x] = f[x]
         /\ \A x \in Stored!Fields \ DOMAIN f : Stored!Over(f, c)[x] = c[x]
<1>1. DOMAIN c = Stored!Fields /\ \A x \in Stored!Fields : c[x] \in Int
  BY DEF Settings
<1>2. DOMAIN f \cup DOMAIN c = Stored!Fields
  BY <1>1
<1> QED
  BY <1>1, <1>2 DEF Stored!Over, Settings

(* Fields by their names.                                                    *)
LEMMA FieldsAre ==
  Stored!Fields =
    {"fft", "analysis", "rate", "survRate", "displayFps", "enabled", "concurrent", "minSNR", "detail", "minSpan",
     "maxSpan", "jobs", "decisionHold", "hold", "gap", "train", "rank", "start", "end", "span", "deemphasis"}
  BY DEF Stored!Fields, Stored!Default

LEMMA DefaultIs == Stored!Default \in Settings
  BY DEF Settings, Stored!Fields, Stored!Default

(* What Load makes of each field, one by one.                                *)
LEMMA NormalizedFields ==
  ASSUME NEW c \in Settings, NEW n, n = Stored!Normalized(c)
  PROVE  /\ n["fft"] = n["analysis"]
         /\ n["analysis"] \in Int /\ (c["analysis"] > 0 => n["analysis"] = c["analysis"])
         /\ n["rate"] \in Int /\ (c["rate"] > 0 => n["rate"] = c["rate"])
         /\ n["survRate"] \in Int /\ (c["survRate"] > 0 => n["survRate"] = c["survRate"])
         /\ n["displayFps"] \in Int /\ (c["displayFps"] > 0 => n["displayFps"] = c["displayFps"])
         /\ n["enabled"] \in Int /\ (n["enabled"] = c["enabled"] \/ (c["concurrent"] = 0 /\ c["minSNR"] = 0))
         /\ n["concurrent"] \in Int /\ (c["concurrent"] > 0 => n["concurrent"] = c["concurrent"])
         /\ n["minSNR"] = c["minSNR"]
         /\ n["detail"] \in Int /\ (c["detail"] \in Stored!PowersOf2 => n["detail"] = c["detail"])
         /\ n["minSpan"] \in Int /\ (c["minSpan"] > 0 => n["minSpan"] = c["minSpan"])
         /\ n["maxSpan"] \in Int /\ (c["maxSpan"] >= 0 /\ c["maxSpan"] >= c["minSpan"] => n["maxSpan"] = c["maxSpan"])
         /\ n["jobs"] \in Int /\ (c["jobs"] > 0 => n["jobs"] = c["jobs"])
         /\ n["decisionHold"] \in Int /\ (c["decisionHold"] > 0 => n["decisionHold"] = c["decisionHold"])
         /\ n["hold"] \in Int /\ (c["hold"] > 0 => n["hold"] = c["hold"])
         /\ n["gap"] \in Int /\ (c["gap"] > 0 => n["gap"] = c["gap"])
         /\ n["train"] \in Int /\ n["train"] > 0 /\ (c["train"] > 0 => n["train"] = c["train"])
         /\ n["rank"] \in Int /\ n["rank"] > 0 /\ (c["rank"] > 0 /\ c["rank"] <= 2 * c["train"] => n["rank"] = c["rank"])
         /\ n["start"] = c["start"] /\ n["end"] = c["end"]
         /\ n["span"] \in Int /\ (c["span"] > 0 => n["span"] = c["span"])
         /\ n["deemphasis"] \in Int /\ (c["deemphasis"] # 0 => n["deemphasis"] = c["deemphasis"])
<1>1. DOMAIN c = Stored!Fields /\ \A x \in Stored!Fields : c[x] \in Int
  BY DEF Settings
<1>2. n["fft"] = n["analysis"]
  BY <1>1, FieldsAre DEF Stored!Normalized, Stored!Positive
<1>3. n["analysis"] \in Int /\ (c["analysis"] > 0 => n["analysis"] = c["analysis"])
  BY <1>1, FieldsAre DEF Stored!Normalized, Stored!Positive
<1>4. n["rate"] \in Int /\ (c["rate"] > 0 => n["rate"] = c["rate"])
  BY <1>1, FieldsAre DEF Stored!Normalized, Stored!Positive
<1>5. n["survRate"] \in Int /\ (c["survRate"] > 0 => n["survRate"] = c["survRate"])
  BY <1>1, FieldsAre DEF Stored!Normalized, Stored!Positive
<1>6. n["displayFps"] \in Int /\ (c["displayFps"] > 0 => n["displayFps"] = c["displayFps"])
  BY <1>1, FieldsAre DEF Stored!Normalized, Stored!Positive
<1>7. n["enabled"] \in Int /\ (n["enabled"] = c["enabled"] \/ (c["concurrent"] = 0 /\ c["minSNR"] = 0))
  BY <1>1, FieldsAre DEF Stored!Normalized, Stored!MayEnable
<1>8. n["concurrent"] \in Int /\ (c["concurrent"] > 0 => n["concurrent"] = c["concurrent"])
  BY <1>1, FieldsAre DEF Stored!Normalized, Stored!Positive
<1>9. n["minSNR"] = c["minSNR"]
  BY <1>1, FieldsAre DEF Stored!Normalized
<1>10. n["detail"] \in Int /\ (c["detail"] \in Stored!PowersOf2 => n["detail"] = c["detail"])
  BY <1>1, FieldsAre DEF Stored!Normalized, Stored!Positive, Stored!PowersOf2
<1>11. n["minSpan"] \in Int /\ (c["minSpan"] > 0 => n["minSpan"] = c["minSpan"])
  BY <1>1, FieldsAre DEF Stored!Normalized, Stored!Positive
<1>12. n["maxSpan"] \in Int /\ (c["maxSpan"] >= 0 /\ c["maxSpan"] >= c["minSpan"] => n["maxSpan"] = c["maxSpan"])
  BY <1>1, FieldsAre DEF Stored!Normalized, Stored!Positive
<1>13. n["jobs"] \in Int /\ (c["jobs"] > 0 => n["jobs"] = c["jobs"])
  BY <1>1, FieldsAre DEF Stored!Normalized, Stored!Positive
<1>14. n["decisionHold"] \in Int /\ (c["decisionHold"] > 0 => n["decisionHold"] = c["decisionHold"])
  BY <1>1, FieldsAre DEF Stored!Normalized, Stored!Positive
<1>15. n["hold"] \in Int /\ (c["hold"] > 0 => n["hold"] = c["hold"])
  BY <1>1, FieldsAre DEF Stored!Normalized, Stored!Positive
<1>16. n["gap"] \in Int /\ (c["gap"] > 0 => n["gap"] = c["gap"])
  BY <1>1, FieldsAre DEF Stored!Normalized, Stored!Positive
<1>17. n["train"] \in Int /\ n["train"] > 0 /\ (c["train"] > 0 => n["train"] = c["train"])
  BY <1>1, FieldsAre DEF Stored!Normalized, Stored!Positive
<1>18. n["rank"] \in Int /\ n["rank"] > 0 /\ (c["rank"] > 0 /\ c["rank"] <= 2 * c["train"] => n["rank"] = c["rank"])
  BY <1>1, FieldsAre DEF Stored!Normalized, Stored!Positive
<1>19. n["start"] = c["start"] /\ n["end"] = c["end"]
  BY <1>1, FieldsAre DEF Stored!Normalized
<1>20. n["span"] \in Int /\ (c["span"] > 0 => n["span"] = c["span"])
  BY <1>1, FieldsAre DEF Stored!Normalized, Stored!SpanOf
<1>21. n["deemphasis"] \in Int /\ (c["deemphasis"] # 0 => n["deemphasis"] = c["deemphasis"])
  BY <1>1, FieldsAre DEF Stored!Normalized
<1> QED
  BY <1>2, <1>3, <1>4, <1>5, <1>6, <1>7, <1>8, <1>9, <1>10, <1>11, <1>12, <1>13, <1>14, <1>15, <1>16, <1>17, <1>18, <1>19, <1>20, <1>21

(* A configuration that is normalised is sound, and a setting is another only   *)
(* where it counted as not set.                                              *)
LEMMA NormalizedIs ==
  ASSUME NEW c \in Settings
  PROVE  Sound(Stored!Normalized(c))
<1>1. PICK n : n = Stored!Normalized(c)
  OBVIOUS
<1>2. n = [x \in Stored!Fields |-> n[x]]
  BY <1>1, FieldsAre DEF Stored!Normalized
<1>3. \A x \in Stored!Fields : n[x] \in Int
  <2>1. \A x \in Stored!Fields : c[x] \in Int
    BY DEF Settings
  <2> QED
    BY <1>1, <2>1, NormalizedFields, FieldsAre
<1>4. n["fft"] = n["analysis"] /\ n["train"] > 0 /\ n["rank"] > 0
  BY <1>1, NormalizedFields
<1> QED
  BY <1>1, <1>2, <1>3, <1>4 DEF Sound, Settings

LEMMA NormalizedKeeps ==
  ASSUME NEW c, Sound(c), NEW f \in Stored!Fields
  PROVE  Stored!Normalized(c)[f] = c[f] \/ Stored!CountsAsUnset(c, f)
<1>1. PICK n : n = Stored!Normalized(c)
  OBVIOUS
<1>2. /\ c \in Settings /\ \A x \in Stored!Fields : c[x] \in Int
      /\ c["analysis"] > 0 => c["fft"] = c["analysis"]
      /\ c["train"] > 0 /\ c["rank"] > 0
  BY DEF Settings, Sound
<1>3. CASE f = "fft"
  BY <1>1, <1>2, <1>3, NormalizedFields, FieldsAre DEF Stored!CountsAsUnset
<1>4. CASE f = "analysis"
  BY <1>1, <1>2, <1>4, NormalizedFields, FieldsAre DEF Stored!CountsAsUnset
<1>5. CASE f = "rate"
  BY <1>1, <1>2, <1>5, NormalizedFields, FieldsAre DEF Stored!CountsAsUnset
<1>6. CASE f = "survRate"
  BY <1>1, <1>2, <1>6, NormalizedFields, FieldsAre DEF Stored!CountsAsUnset
<1>7. CASE f = "displayFps"
  BY <1>1, <1>2, <1>7, NormalizedFields, FieldsAre DEF Stored!CountsAsUnset
<1>8. CASE f = "enabled"
  BY <1>1, <1>2, <1>8, NormalizedFields, FieldsAre DEF Stored!CountsAsUnset
<1>9. CASE f = "concurrent"
  BY <1>1, <1>2, <1>9, NormalizedFields, FieldsAre DEF Stored!CountsAsUnset
<1>10. CASE f = "minSNR"
  BY <1>1, <1>2, <1>10, NormalizedFields, FieldsAre DEF Stored!CountsAsUnset
<1>11. CASE f = "detail"
  BY <1>1, <1>2, <1>11, NormalizedFields, FieldsAre DEF Stored!CountsAsUnset
<1>12. CASE f = "minSpan"
  BY <1>1, <1>2, <1>12, NormalizedFields, FieldsAre DEF Stored!CountsAsUnset
<1>13. CASE f = "maxSpan"
  BY <1>1, <1>2, <1>13, NormalizedFields, FieldsAre DEF Stored!CountsAsUnset
<1>14. CASE f = "jobs"
  BY <1>1, <1>2, <1>14, NormalizedFields, FieldsAre DEF Stored!CountsAsUnset
<1>15. CASE f = "decisionHold"
  BY <1>1, <1>2, <1>15, NormalizedFields, FieldsAre DEF Stored!CountsAsUnset
<1>16. CASE f = "hold"
  BY <1>1, <1>2, <1>16, NormalizedFields, FieldsAre DEF Stored!CountsAsUnset
<1>17. CASE f = "gap"
  BY <1>1, <1>2, <1>17, NormalizedFields, FieldsAre DEF Stored!CountsAsUnset
<1>18. CASE f = "train"
  BY <1>1, <1>2, <1>18, NormalizedFields, FieldsAre DEF Stored!CountsAsUnset
<1>19. CASE f = "rank"
  BY <1>1, <1>2, <1>19, NormalizedFields, FieldsAre DEF Stored!CountsAsUnset
<1>20. CASE f = "start"
  BY <1>1, <1>2, <1>20, NormalizedFields, FieldsAre DEF Stored!CountsAsUnset
<1>21. CASE f = "end"
  BY <1>1, <1>2, <1>21, NormalizedFields, FieldsAre DEF Stored!CountsAsUnset
<1>22. CASE f = "span"
  BY <1>1, <1>2, <1>22, NormalizedFields, FieldsAre DEF Stored!CountsAsUnset
<1>23. CASE f = "deemphasis"
  BY <1>1, <1>2, <1>23, NormalizedFields, FieldsAre DEF Stored!CountsAsUnset
<1> QED
  BY FieldsAre, <1>3, <1>4, <1>5, <1>6, <1>7, <1>8, <1>9, <1>10, <1>11, <1>12, <1>13, <1>14, <1>15, <1>16, <1>17, <1>18, <1>19, <1>20, <1>21, <1>22, <1>23

(* An update that is accepted leaves a sound configuration sound.              *)
LEMMA UpdatedIs ==
  ASSUME NEW c, Sound(c), NEW u \in Updates, WellTyped, Stored!Accepted(c, u)
  PROVE  Sound(Stored!Updated(c, u))
<1> DEFINE Set(f) == CASE f \in {"fft", "analysis"} /\ "analysis" \in DOMAIN u -> u["analysis"]
                       [] f = "analysis" /\ "analysis" \notin DOMAIN u /\ "fft" \in DOMAIN u -> u["fft"]
                       [] f = "rate" /\ "survRate" \in DOMAIN u -> u["survRate"]
                       [] OTHER -> IF f \in DOMAIN u THEN u[f] ELSE c[f]
           result == [f \in Stored!Fields |-> Set(f)]
<1>1. PICK n : n = Stored!Updated(c, u)
  OBVIOUS
<1>2. /\ c \in Settings /\ \A x \in Stored!Fields : c[x] \in Int
      /\ c["analysis"] > 0 => c["fft"] = c["analysis"]
      /\ c["train"] > 0 /\ c["rank"] > 0
  BY DEF Settings, Sound
<1>3. \A x \in DOMAIN u \cap Stored!Fields : u[x] \in Int
  BY DEF WellTyped
<1>4. \A f \in Stored!Fields : Set(f) \in Int
  BY <1>2, <1>3, FieldsAre
<1>5. result \in Settings
  BY <1>4 DEF Settings
<1>6. result["analysis"] > 0 => result["fft"] = result["analysis"]
  BY <1>2, FieldsAre
<1>7. result["train"] > 0 /\ result["rank"] > 0
  <2>1. /\ "train" \in DOMAIN u => u["train"] > 0
        /\ "rank" \in DOMAIN u => u["rank"] > 0
    BY DEF Stored!Accepted
  <2> QED
    BY <1>2, <2>1, FieldsAre
<1>8. n = result \/ n = [result EXCEPT !["span"] = Stored!SpanOf(result)]
  BY <1>1, Zenon DEF Stored!Updated
<1> HIDE DEF result
<1>9. Stored!SpanOf(result) \in Int
  BY <1>5, FieldsAre DEF Stored!SpanOf, Settings
<1>10. /\ n \in Settings
       /\ \A x \in Stored!Fields \ {"span"} : n[x] = result[x]
  BY <1>5, <1>8, <1>9, FieldsAre DEF Settings
<1> QED
  BY <1>1, <1>6, <1>7, <1>10, FieldsAre DEF Sound

(* So does a profile that is merged into it.                                  *)
LEMMA MergedIs ==
  ASSUME NEW c, Sound(c), NEW name \in DOMAIN Profiles, WellTyped
  PROVE  Sound(Stored!Merged(c, name))
<1>1. PICK n : n = Stored!Merged(c, name)
  OBVIOUS
<1>2. PICK result : result = Stored!Over(Profiles[name], c)
  OBVIOUS
<1>3. c \in Settings /\ c["train"] > 0 /\ c["rank"] > 0
  BY DEF Sound
<1>4. /\ DOMAIN Profiles[name] \subseteq Stored!Fields \ {"train", "rank"}
      /\ \A x \in DOMAIN Profiles[name] : Profiles[name][x] \in Int
  BY DEF WellTyped
<1>5. result \in Settings /\ result["train"] = c["train"] /\ result["rank"] = c["rank"]
  BY <1>2, <1>3, <1>4, OverIs, FieldsAre
<1>6. \A x \in Stored!Fields : result[x] \in Int
  BY <1>5 DEF Settings
<1>7. n = [result EXCEPT !["fft"] = IF result["analysis"] > 0 THEN result["analysis"] ELSE result["fft"],
                       !["rate"] = IF result["survRate"] > 0 THEN result["survRate"] ELSE result["rate"]]
  BY <1>1, <1>2 DEF Stored!Merged
<1>8. /\ n \in Settings
      /\ n["fft"] = IF result["analysis"] > 0 THEN result["analysis"] ELSE result["fft"]
      /\ \A x \in Stored!Fields \ {"fft", "rate"} : n[x] = result[x]
  BY <1>5, <1>6, <1>7, FieldsAre DEF Settings
<1> QED
  BY <1>1, <1>3, <1>5, <1>8, FieldsAre DEF Sound

(* What the program comes up with.                                           *)
LEMMA StartIs ==
  ASSUME StoredInv, WellTyped, Stored!Start
  PROVE  /\ Sound(loaded')
         /\ autosave = <<>> => loaded' = Stored!Normalized(Stored!Default)
         /\ Sound(autosave) => loaded' = Stored!Normalized(autosave)
<1>1. Stored!Default \in Settings
  BY DefaultIs
<1>2. loaded' = Stored!Normalized(Stored!Over(IF autosave # Nothing THEN autosave ELSE file, Stored!Default))
  BY Zenon DEF Stored!Start, Stored!Load
<1>3. ASSUME autosave = <<>> PROVE Stored!Over(autosave, Stored!Default) = Stored!Default
  <2>1. Stored!Default = [x \in Stored!Fields |-> Stored!Default[x]] /\ DOMAIN Stored!Default = Stored!Fields
    BY <1>1 DEF Settings
  <2>2. DOMAIN autosave = {}
    BY <1>3
  <2>3. DOMAIN autosave \cup DOMAIN Stored!Default = Stored!Fields
    BY <2>1, <2>2
  <2> QED
    BY <2>1, <2>2, <2>3 DEF Stored!Over
<1>4. ASSUME Sound(autosave) PROVE Stored!Over(autosave, Stored!Default) = autosave
  <2>1. autosave = [x \in Stored!Fields |-> autosave[x]] /\ DOMAIN autosave = Stored!Fields
    BY <1>4 DEF Settings, Sound
  <2>2. DOMAIN Stored!Default = Stored!Fields
    BY <1>1 DEF Settings
  <2> QED
    BY <2>1, <2>2 DEF Stored!Over
<1>5. ASSUME autosave = Nothing PROVE Stored!Over(file, Stored!Default) \in Settings
  <2>1. file \in Files \ {Broken}
    BY <1>5 DEF StoredInv, Stored!Start
  <2>2. DOMAIN file \subseteq Stored!Fields /\ \A x \in DOMAIN file : file[x] \in Int
    BY <2>1 DEF WellTyped
  <2> QED
    BY <1>1, <2>2, OverIs
<1>6. Sound(autosave) => autosave \in Settings
  BY DEF Sound
<1>7. autosave # Nothing => autosave = <<>> \/ Sound(autosave)
  BY DEF StoredInv
<1> QED
  BY <1>1, <1>2, <1>3, <1>4, <1>5, <1>6, <1>7, NormalizedIs DEF WellTyped

(* Every step keeps what is saved sound, and a start brings it back.            *)
LEMMA StoredStep ==
  ASSUME StoredInv, WellTyped, Stored!Next
  PROVE  StoredInv'
<1>1. CASE Stored!Start
  BY <1>1, StartIs DEF StoredInv, Stored!Start
<1>2. CASE Stored!Crash
  BY <1>2 DEF StoredInv, Stored!Crash
<1>3. CASE Stored!Edit
  BY <1>3 DEF StoredInv, Stored!Edit
<1>4. ASSUME NEW u \in Updates, Stored!Post(u) PROVE StoredInv'
  <2>1. Sound(loaded) /\ Stored!Accepted(loaded, u) /\ up
    BY <1>4 DEF StoredInv, Stored!Post
  <2>2. Sound(Stored!Updated(loaded, u))
    BY <2>1, UpdatedIs
  <2>3. Sound(Stored!Requested(u))
    BY <2>2, MergedIs DEF Stored!Requested
  <2> QED
    BY <1>4, <2>3 DEF StoredInv, Stored!Post
<1> QED
  BY <1>1, <1>2, <1>3, <1>4 DEF Stored!Next

(* What was saved survives a restart (save and load of config/save.go and       *)
(* config.go): the program comes up with every setting as it was saved,         *)
(* except for those that Load takes for not set, whatever the files, the         *)
(* updates and the profiles contain.                                         *)
THEOREM SettingsLast ==
  ASSUME WellTyped
  PROVE  Stored!Spec => Stored!SettingsSurvive
<1>1. Stored!Init => StoredInv
  BY DEF Stored!Init, StoredInv
<1>2. StoredInv /\ [Stored!Next]_Stored!vars => StoredInv'
  <2>1. StoredInv /\ UNCHANGED Stored!vars => StoredInv'
    BY DEF StoredInv, Stored!vars
  <2> QED
    BY <2>1, StoredStep
<1> DEFINE Survives ==
      ~up /\ up' /\ autosave # Nothing =>
        \A f \in Stored!Fields :
          IF autosave = <<>> THEN loaded'[f] = Stored!Normalized(Stored!Default)[f]
          ELSE loaded'[f] = autosave[f] \/ Stored!CountsAsUnset(autosave, f)
<1>3. ASSUME StoredInv, Stored!Next PROVE Survives
  <2>1. ~up /\ up' => Stored!Start
    BY <1>3 DEF Stored!Next, Stored!Crash, Stored!Edit, Stored!Post
  <2>2. autosave # Nothing => autosave = <<>> \/ Sound(autosave)
    BY <1>3 DEF StoredInv
  <2> QED
    BY <1>3, <2>1, <2>2, StartIs, NormalizedKeeps
<1>4. StoredInv /\ [Stored!Next]_Stored!vars => [Survives]_Stored!vars
  BY <1>3
<1> QED
  BY <1>1, <1>2, <1>4, PTL DEF Stored!Spec, Stored!SettingsSurvive
=============================================================================
