-------------------------- MODULE ConfigPropagation --------------------------
(***************************************************************************)
(* How a change of the configuration reaches the parts of the running      *)
(* program: the three POST handlers of cmd/sdrd/http_handlers.go, each of  *)
(* them a sequence of steps that take one lock each, the manager of        *)
(* internal/runtime, the source manager, the autosave file, and the channel of one *)
(* update to the DSP loop, whose applyUpdate replaces the detector and the *)
(* FFT window when the update brings them.                                 *)
(*                                                                         *)
(* A configuration has a field per part that needs something done about    *)
(* it: what the source is told (center, rate, gain, AGC, bandwidth), the   *)
(* FFT size, the detector's parameters, the DC and IQ corrections, the     *)
(* telemetry knobs.  Requests whose values are out of range change         *)
(* nothing and are left out.                                               *)
(***************************************************************************)
EXTENDS Integers, Sequences, FiniteSets

CONSTANTS Handlers,    (* HTTP requests served at the same time              *)
          Vals,        (* values of a field                                  *)
          Initial,     (* the one the configuration file has in each         *)
          Requests,    (* what a client may post                             *)
          MaxRequests, (* bound: requests posted                             *)
          MaxFaults,   (* bound: calls of driver and disk that fail          *)
          WithoutAGC,  (* a source whose AGC could not be set                *)
          None

Fields == {"tuner", "fft", "det", "corr", "telem"}

Config == [Fields -> Vals]

(* The fields that the body of a request can set: ConfigUpdate,             *)
(* SettingsUpdate, and the telemetry handler's own struct.                  *)
Sets(kind) ==
  CASE kind = "config"    -> {"tuner", "fft", "det"}
    [] kind = "settings"  -> {"tuner", "corr"}
    [] kind = "telemetry" -> {"telem"}

(* Of what a profile sets, only the FFT size is among the fields.           *)
ProfileSets(kind) == IF kind = "config" THEN {"fft"} ELSE {}

Changes == UNION {[S -> Vals] : S \in SUBSET Fields}

(* chg is what the body sets; profile what the profile it names sets.       *)
Request ==
  {r \in [kind : {"config", "settings", "telemetry"}, chg : Changes, profile : Changes] :
     DOMAIN r.chg \subseteq Sets(r.kind) /\ DOMAIN r.profile \subseteq ProfileSets(r.kind)}

(* What a detector or a window is built for.                                *)
DetFor(c) == [fft |-> c["fft"], det |-> c["det"], tuner |-> c["tuner"]]

Update == [cfg : Config,
           det : [fft : Vals, det : Vals, tuner : Vals] \cup {None},
           window : Vals \cup {None}]

ASSUME ConfigPropagationAssumption ==
  /\ Requests \subseteq Request /\ Initial \in Vals
  /\ MaxRequests \in Nat /\ MaxFaults \in Nat
  /\ None \notin Vals /\ None \notin Config /\ None \notin Request /\ None \notin Update
  /\ None \notin [fft : Vals, det : Vals, tuner : Vals]
-----------------------------------------------------------------------------
VARIABLES cfg,          (* the runtime manager's configuration               *)
          src, failures,(* the source in use, see SourceManager              *)
          disk,         (* the autosave file                                 *)
          collector,    (* the telemetry collector's settings                *)
          at, req,      (* each handler: where it is and what it serves      *)
          prev, next,   (* its snapshot and its result                       *)
          posted,       (* requests so far                                   *)
          upd,          (* the channel dspUpdates, None when empty           *)
          rtCfg,        (* the DSP runtime: its configuration, what its      *)
          rtDet, rtWin, (* detector and its window were built for            *)
          lost,         (* a queued update has been thrown away              *)
          unsaved,      (* the last write of the autosave file failed        *)
          outdated,     (* a restart set the source to something outdated    *)
          overlap       (* two requests have been in progress together       *)

handler == <<at, req, prev, next, posted>>
runtime == <<rtCfg, rtDet, rtWin>>
source  == <<src, failures, outdated>>
faults  == <<lost, unsaved, overlap>>
vars    == <<cfg, source, disk, collector, handler, upd, runtime, faults>>

Sources == INSTANCE SourceManager WITH Settings <- Vals

Merge(c, chg) == [f \in Fields |-> IF f \in DOMAIN chg THEN chg[f] ELSE c[f]]

Init ==
  /\ cfg = [f \in Fields |-> Initial]
  /\ src = Sources!Running(cfg["tuner"], cfg["tuner"]) /\ failures = 0 /\ outdated = FALSE
  /\ disk = cfg /\ collector = cfg["telem"]
  /\ at = [h \in Handlers |-> "idle"] /\ req = [h \in Handlers |-> None]
  /\ prev = [h \in Handlers |-> None] /\ next = [h \in Handlers |-> None]
  /\ posted = 0 /\ upd = None /\ lost = FALSE /\ unsaved = FALSE
  /\ overlap = FALSE
  /\ rtCfg = cfg /\ rtDet = DetFor(cfg) /\ rtWin = cfg["fft"]
-----------------------------------------------------------------------------
(* The handlers.                                                            *)

Goto(h, p) == at' = [at EXCEPT ![h] = p]

Answer(h) ==
  /\ Goto(h, "idle")
  /\ req' = [req EXCEPT ![h] = None]
  /\ prev' = [prev EXCEPT ![h] = None]
  /\ next' = [next EXCEPT ![h] = None]

(* The request is decoded and the manager's configuration is copied.        *)
Post(h, r) ==
  /\ at[h] = "idle" /\ posted < MaxRequests
  /\ posted' = posted + 1
  /\ req' = [req EXCEPT ![h] = r]
  /\ prev' = [prev EXCEPT ![h] = cfg]
  /\ Goto(h, IF r.kind = "telemetry" THEN "replace" ELSE "apply")
  /\ UNCHANGED <<cfg, source, disk, collector, next, upd, runtime, lost, unsaved>>
  /\ overlap' = (overlap \/ \E o \in Handlers : at[o] # "idle")

SourceChanged(h) == prev[h]["tuner"] # next'[h]["tuner"]

(* The settings handler pushes before it saves, and only for the            *)
(* corrections.                                                             *)
AfterSource(h, n) ==
  IF req[h].kind = "config" THEN "save"
  ELSE IF prev[h]["corr"] # n["corr"] THEN "push" ELSE "save"

(* ApplyConfig or ApplySettings of the manager, under its lock.             *)
Apply(h) ==
  /\ at[h] = "apply"
  /\ cfg' = Merge(cfg, req[h].chg)
  /\ next' = [next EXCEPT ![h] = cfg']
  /\ Goto(h, IF req[h].profile # <<>> THEN "profile"
             ELSE IF SourceChanged(h) THEN "source" ELSE AfterSource(h, cfg'))
  /\ UNCHANGED <<source, disk, collector, req, prev, posted, upd, runtime, faults>>

(* The profile is merged into the result, which replaces whatever the       *)
(* manager holds by now.                                                    *)
ApplyProfile(h) ==
  /\ at[h] = "profile"
  /\ cfg' = Merge(next[h], req[h].profile)
  /\ next' = [next EXCEPT ![h] = cfg']
  /\ Goto(h, IF SourceChanged(h) THEN "source" ELSE AfterSource(h, cfg'))
  /\ UNCHANGED <<source, disk, collector, req, prev, posted, upd, runtime, faults>>

ApplySource(h) ==
  /\ at[h] = "source"
  /\ Sources!ApplyConfig(next[h]["tuner"])
  /\ outdated' = FALSE
  /\ Goto(h, AfterSource(h, next[h]))
  /\ UNCHANGED <<cfg, disk, collector, req, prev, next, posted, upd, runtime, faults>>

(* Mutant: the manager keeps the configuration the source refused.           *)
SourceFailsKeeps(h) ==
  /\ at[h] = "source"
  /\ Sources!ApplyConfigFails(next[h]["tuner"])
  /\ Answer(h)
  /\ UNCHANGED <<cfg, outdated, disk, collector, posted, upd, runtime, faults>>

(* No source takes it: the manager gets the snapshot back.                  *)
SourceFails(h) ==
  /\ at[h] = "source"
  /\ Sources!ApplyConfigFails(next[h]["tuner"])
  /\ cfg' = prev[h]
  /\ Answer(h)
  /\ UNCHANGED <<outdated, disk, collector, posted, upd, runtime, faults>>

(* The file is written, or it cannot be, which is only logged.              *)
Write(h) ==
  \/ disk' = next[h] /\ unsaved' = FALSE /\ UNCHANGED failures
  \/ disk' = disk /\ unsaved' = TRUE /\ Sources!Failing(1)

SaveConfig(h) ==
  /\ at[h] = "save"
  /\ Write(h)
  /\ IF req[h].kind = "config" THEN Goto(h, "push") /\ UNCHANGED <<req, prev, next>>
     ELSE Answer(h)
  /\ UNCHANGED <<cfg, src, outdated, collector, posted, upd, runtime, lost, overlap>>

(* What a handler sends: the config handler builds a detector and a window  *)
(* for what changed between its snapshot and its result.                    *)
UpdateOf(h) ==
  LET changed(f) == prev[h][f] # next[h][f]
      isConfig   == req[h].kind = "config"
  IN  [cfg    |-> next[h],
       det    |-> IF isConfig /\ (changed("det") \/ changed("fft") \/ changed("tuner"))
                  THEN DetFor(next[h]) ELSE None,
       window |-> IF isConfig /\ changed("fft") THEN next[h]["fft"] ELSE None]

Sent(h) ==
  /\ upd' = UpdateOf(h)
  /\ IF req[h].kind = "config" THEN Answer(h)
     ELSE Goto(h, "save") /\ UNCHANGED <<req, prev, next>>

(* pushDSPUpdate: the update goes into the empty channel...                 *)
Push(h) ==
  /\ at[h] = "push" /\ upd = None
  /\ Sent(h)
  /\ UNCHANGED <<cfg, source, disk, collector, posted, runtime, faults>>

(* ... or the channel is full, and what it holds is thrown away...          *)
Drain(h) ==
  /\ at[h] = "push" /\ upd # None
  /\ upd' = None /\ lost' = TRUE
  /\ Goto(h, "send")
  /\ UNCHANGED <<cfg, source, disk, collector, req, prev, next, posted, runtime, unsaved, overlap>>

(* ... and then it is sent, which blocks while another handler's is there.  *)
Send(h) ==
  /\ at[h] = "send" /\ upd = None
  /\ Sent(h)
  /\ UNCHANGED <<cfg, source, disk, collector, posted, runtime, faults>>

(* The telemetry handler: its copy of the configuration replaces the        *)
(* manager's, is saved, and configures the collector.                       *)
ReplaceTelemetry(h) ==
  /\ at[h] = "replace"
  /\ cfg' = Merge(prev[h], req[h].chg)
  /\ next' = [next EXCEPT ![h] = cfg']
  /\ Goto(h, "saveTelemetry")
  /\ UNCHANGED <<source, disk, collector, req, prev, posted, upd, runtime, faults>>

SaveTelemetry(h) ==
  /\ at[h] = "saveTelemetry"
  /\ Write(h)
  /\ collector' = next[h]["telem"]
  /\ Answer(h)
  /\ UNCHANGED <<cfg, src, outdated, posted, upd, runtime, lost, overlap>>
-----------------------------------------------------------------------------
(* The DSP loop.                                                            *)

(* Mutant: the window is replaced only if the update brings no detector.     *)
ApplyUpdateNoWindow ==
  /\ upd # None
  /\ rtCfg' = upd.cfg
  /\ rtDet' = IF upd.det # None THEN upd.det ELSE rtDet
  /\ rtWin' = IF upd.window # None /\ upd.det = None THEN upd.window ELSE rtWin
  /\ upd' = None
  /\ UNCHANGED <<cfg, source, disk, collector, handler, faults>>

(* Mutant: an update that brings no detector is left in the channel.         *)
ApplyUpdateDetOnly ==
  /\ upd # None /\ upd.det # None
  /\ rtCfg' = upd.cfg
  /\ rtDet' = upd.det
  /\ rtWin' = IF upd.window # None THEN upd.window ELSE rtWin
  /\ upd' = None
  /\ UNCHANGED <<cfg, source, disk, collector, handler, faults>>

ApplyUpdate ==
  /\ upd # None
  /\ rtCfg' = upd.cfg
  /\ rtDet' = IF upd.det # None THEN upd.det ELSE rtDet
  /\ rtWin' = IF upd.window # None THEN upd.window ELSE rtWin
  /\ upd' = None
  /\ UNCHANGED <<cfg, source, disk, collector, handler, faults>>

(* A read timed out: the source is rebuilt from the DSP loop's copy of the   *)
(* configuration.  An error is only logged; the next read times out again.  *)
Restart ==
  /\ Sources!Restart(rtCfg["tuner"])
  /\ outdated' = (rtCfg["tuner"] # cfg["tuner"])
  /\ UNCHANGED <<cfg, disk, collector, handler, upd, runtime, faults>>
-----------------------------------------------------------------------------
Handler(h) ==
  \/ \E r \in Requests : Post(h, r)
  \/ Apply(h) \/ ApplyProfile(h) \/ ApplySource(h) \/ SourceFails(h)
  \/ SaveConfig(h) \/ Push(h) \/ Drain(h) \/ Send(h)
  \/ ReplaceTelemetry(h) \/ SaveTelemetry(h)

Next == (\E h \in Handlers : Handler(h)) \/ ApplyUpdate \/ Restart

Spec == Init /\ [][Next]_vars

(* A handler that was started runs, and so does the DSP loop; reading from a *)
(* stopped source times out after five seconds.                             *)
Fairness ==
  /\ \A h \in Handlers : WF_vars(at[h] # "idle" /\ Handler(h))
  /\ WF_vars(ApplyUpdate)
  /\ WF_vars(~src.alive /\ Restart)

FairSpec == Spec /\ Fairness
-----------------------------------------------------------------------------
(* Every variable has the type its declaration gives it.                    *)
TypeOK ==
  /\ cfg \in Config /\ disk \in Config /\ rtCfg \in Config
  /\ Sources!SourceOK /\ outdated \in BOOLEAN /\ collector \in Vals /\ rtWin \in Vals
  /\ at \in [Handlers -> {"idle", "apply", "profile", "source", "save", "push",
                          "send", "replace", "saveTelemetry"}]
  /\ req \in [Handlers -> Requests \cup {None}]
  /\ prev \in [Handlers -> Config \cup {None}]
  /\ next \in [Handlers -> Config \cup {None}]
  /\ posted \in 0 .. MaxRequests
  /\ lost \in BOOLEAN /\ unsaved \in BOOLEAN /\ overlap \in BOOLEAN
  /\ upd \in Update \cup {None}
  /\ rtDet \in [fft : Vals, det : Vals, tuner : Vals]

Idle == \A h \in Handlers : at[h] = "idle"

Settled == Idle /\ upd = None

(* When every request has been answered the autosave file and the collector *)
(* have what the manager has, whether or not the source took it, unless the *)
(* file could not be written, or two requests were in progress together.    *)
SavedWhenIdle ==
  Idle /\ ~overlap => (disk = cfg \/ unsaved) /\ collector = cfg["telem"]

(* The DSP loop ends up with the manager's sizes, detector parameters and   *)
(* corrections: throwing away a queued update never loses a change, because *)
(* an update carries the whole configuration; unless two requests were in   *)
(* progress together.                                                       *)
RuntimeFollows ==
  Settled /\ ~overlap => \A f \in {"fft", "det", "corr"} : rtCfg[f] = cfg[f]

(* The detector and the window in use were built for the FFT size and the   *)
(* parameters the DSP loop works with, as long as no queued update was      *)
(* thrown away and no two requests were in progress together: the detector  *)
(* and the window are not in every update.                                  *)
DetectorMatches ==
  ~lost /\ ~overlap =>
    rtWin = rtCfg["fft"] /\ rtDet.fft = rtCfg["fft"] /\ rtDet.det = rtCfg["det"]

(* The source does what the manager's configuration says, whether it was    *)
(* updated, replaced, or lost and found again: unless the driver refused the *)
(* AGC of a new source, two requests were in progress together, or a read   *)
(* timed out while the DSP loop's copy of the configuration lagged behind.  *)
SourceFollows ==
  Settled /\ ~overlap /\ ~outdated /\ src.alive =>
    src.hw \in {cfg["tuner"], WithoutAGC}

(* A change arrives everywhere: in the file and the collector, in the DSP     *)
(* loop, and in the source.                                                 *)
ChangesArrive == SavedWhenIdle /\ RuntimeFollows /\ SourceFollows

(* A source that was lost because no new one could be opened is replaced    *)
(* when the driver works again, though nothing reports the loss: the reads  *)
(* time out.                                                                *)
SourceRecovers == ~src.alive ~> src.alive

(* Every request is answered: the handlers' sends do not wait for ever for  *)
(* each other, because the DSP loop empties the channel.                    *)
RequestsAnswered == \A h \in Handlers : at[h] # "idle" ~> at[h] = "idle"

(* "All fields are optional. Only provided fields are changed": a request   *)
(* for the telemetry settings leaves the rest of the configuration alone.   *)
(* The code does not keep this: it copies and replaces in two steps.         *)
TelemetryOnly ==
  [][\A h \in Handlers : ReplaceTelemetry(h) =>
       \A f \in Fields \ DOMAIN req[h].chg : cfg'[f] = cfg[f]]_vars
=============================================================================
