------------------------- MODULE MCConfigPropagation -------------------------
(* Bounds for the configuration, ConfigPropagation (extended here) and        *)
(* ConfigFile.  They share no state: a behaviour follows one of them, named   *)
(* by part.                                                                 *)
EXTENDS ConfigPropagation, TLC

CONSTANTS Broken, Nothing

VARIABLES part
VARIABLES file, autosave, up, loaded, posts

onDisk == <<file, autosave, up, loaded, posts>>

Req(k, c, p) == [kind |-> k, chg |-> c, profile |-> p]

(* Two values per field; three requests by two clients, one after the other    *)
(* or at the same time.                                                     *)
Bits == {0, 1}

(* Detector and source, with a profile that sets the FFT size; source and   *)
(* corrections; telemetry.                                                  *)
MCRequests ==
  {Req("config", "det" :> 1 @@ "tuner" :> 1, "fft" :> 1),
   Req("settings", "corr" :> 1 @@ "tuner" :> 0, <<>>),
   Req("telemetry", "telem" :> 1, <<>>)}

(* Files that leave out, contradict or switch off what belongs together.      *)
MCFiles ==
  {<<>>, Broken, "fft" :> 1024, "analysis" :> 1000 @@ "fft" :> 4096, "analysis" :> 0 @@ "fft" :> 4096,
   "rate" :> 0 @@ "survRate" :> 0, "rate" :> 20 @@ "displayFps" :> 0, "enabled" :> 0 @@ "concurrent" :> 0,
   "train" :> 4 @@ "gap" :> 0 @@ "hold" :> 200, "deemphasis" :> 0, "start" :> 90 @@ "end" :> 108,
   "minSpan" :> 20 @@ "maxSpan" :> 10}

(* A profile that sets all of its sections, and one that leaves zeros in them.  *)
MCProfiles ==
  "wide" :> ("analysis" :> 8192 @@ "survRate" :> 10 @@ "displayFps" :> 10 @@ "enabled" :> 1
             @@ "concurrent" :> 32 @@ "minSNR" :> 0 @@ "detail" :> 0 @@ "minSpan" :> 6000
             @@ "maxSpan" :> 250000 @@ "jobs" :> 32 @@ "decisionHold" :> 2000)
  @@ "off" :> ("enabled" :> 0 @@ "concurrent" :> 0 @@ "minSNR" :> 0 @@ "detail" :> 0
               @@ "minSpan" :> 0 @@ "maxSpan" :> 0)

MCUpdates ==
  {"fft" :> 4096, "analysis" :> 512, "fft" :> 1000, "survRate" :> 10, "enabled" :> 0, "concurrent" :> 3,
   "minSNR" :> 6, "detail" :> 256, "minSpan" :> 30, "maxSpan" :> 20, "decisionHold" :> 0, "gap" :> 0,
   "hold" :> 100, "train" :> 10, "rank" :> 40, "start" :> 80, "end" :> 85, "span" :> 0,
   "profile" :> "wide", "profile" :> "off", "profile" :> "unknown"}

F == INSTANCE ConfigFile WITH
       Files <- MCFiles, Updates <- MCUpdates, Profiles <- MCProfiles, MaxPosts <- 2, cfg <- loaded

(* What is not followed starts in a single state, and stays there; none of the  *)
(* steps of ConfigPropagation that are fair can be taken there.              *)
PartInit ==
  /\ part \in {"requests", "file"}
  /\ Init
  /\ IF part = "file" THEN F!Init
     ELSE file = <<>> /\ autosave = Nothing /\ up = FALSE /\ loaded = <<>> /\ posts = 0

PartNext ==
  \/ part = "requests" /\ Next /\ UNCHANGED <<part, onDisk>>
  \/ part = "file" /\ F!Next /\ UNCHANGED <<part, vars>>

PartSpec == PartInit /\ [][PartNext]_<<part, vars, onDisk>> /\ Fairness

-----------------------------------------------------------------------------
(* What was saved survives a restart of the program.                          *)
SettingsSurvive == F!SettingsSurvive
=============================================================================
