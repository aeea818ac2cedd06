------------------------------ MODULE MCSignals ------------------------------
(* Bounds for what becomes of the samples: from a spectrum to the candidates   *)
(* of refinement, Detection, Cfar, Fusion, Tracker (extended here) and         *)
(* ClassVotes; from a candidate to its audio, Extraction, OutRings and         *)
(* Resampling; and from the audio to a station's name, RDS.  They share no     *)
(* state: a behaviour follows one of them, named by part.                    *)
EXTENDS Tracker, TLC

VARIABLES part
VARIABLES smooth, how, signals
VARIABLES spectrum, shape, thresholds
VARIABLES found, other, bands, by, candidates
VARIABLES history, class
VARIABLES up, down, factor, processed, calls, aligned, outTime, resampled, phase, kept
VARIABLES block, got, stream, groups, lastPI, ps
VARIABLES fed, host, dev, out, holes
VARIABLES frame, rings, pool, bufs, at, gone, todo, items, feed, busy

detection == <<smooth, how, signals>>
cfar      == <<spectrum, shape, thresholds>>
fusion    == <<found, other, bands, by, candidates>>
votes     == <<history, class>>
rates     == <<up, down, factor, processed, calls, aligned, outTime, resampled, phase, kept>>
rds       == <<block, got, stream, groups, lastPI, ps>>
streaming == <<fed, host, dev, out, holes>>
buffers   == <<frame, rings, pool, bufs, at, gone, todo, items, feed, busy>>
toList    == <<vars, detection, cfar, fusion, votes>>
toAudio   == <<rates, rds, streaming, buffers>>

(* Three frequencies, two of them in the window of the first, so that events  *)
(* compete for signals and signals for events; a tolerance that grows with    *)
(* maturity from two frames to three.                                        *)
MCFreqs == {1, 2, 4}
MCMaturity == 1 :> 100 @@ 2 :> 118 @@ 3 :> 160

(* Seven bins: two emissions, each with its flanks, and what lies between.    *)
MCThresholdAt(h) == CASE h = 0 -> 300 [] h = 1 -> 173 [] h = 2 -> 134

D == INSTANCE Detection WITH
       Bins <- 7, Values <- {0, 2, 4}, Thresholds <- {2, 4}, Hysteresis <- 1, GapBins <- {0, 1},
       Far <- 2, Near <- 1, OccThresh <- 1, OccMinPeak <- 2, OccMinBws <- {1, 2}, 
       OccGaps <- {0, 1}, OccDrops <- {0, 2}, OccWidths <- {0, 3}, Opening <- {2}, Scales <- <<0, 1, 2>>, ThresholdAt <- MCThresholdAt,
       Cut <- 150, MinGap <- 1, MinBw <- 2, MinSNR <- 250

C == INSTANCE Cfar WITH
       Cells <- 5, Powers <- {1, 2, 5}, Trains <- {1, 2}, Guards <- {0, 1}, Ranks <- {1, 3}

(* Bands of the primary, of two coarser levels or of the sharp pass, such     *)
(* that they touch, contain each other and bridge several.                   *)
Band(l, a, w, s) == [level |-> l, at |-> a, bw |-> w, snr |-> s]
MCPrimaries ==
  {<<>>} \cup {<<Band("primary", a, w, 1)>> : a \in {8, 12}, w \in {4, 16}}
  \cup {s \in {<<Band("primary", a, w, 1), Band("primary", b, v, 1)>> :
                 a \in {4, 8}, w \in {4, 12}, b \in {14, 20}, v \in {4, 12}} :
          s[1].at + s[1].bw \div 2 < s[2].at - s[2].bw \div 2}
MCLevel(l) == {<<>>} \cup {<<Band(l, a, w, 1)>> : a \in {4, 10, 14}, w \in {4, 12}}
MCSharp ==
  {<<Band("sharp", a, 2, x), Band("sharp", b, 2, y), Band("sharp", c, 2, z)>> :
     a \in {4, 6}, b \in {10, 12, 14}, c \in {16, 18, 22}, x \in 0 .. 2, y \in 0 .. 2, z \in 0 .. 2}
  \cup {<<Band("sharp", a, 2, x), Band("sharp", b, 2, y)>> :
     a \in {2, 6}, b \in {10, 12, 14}, x \in 0 .. 2, y \in 0 .. 2}
MCSeconds ==
  {d \o e : d \in MCLevel("low"), e \in MCLevel("lower")} \cup MCSharp
  \cup {<<Band("low", 4, 2, 1), Band("low", 10, 4, 1)>>}

F == INSTANCE Fusion WITH
       Primaries <- MCPrimaries, Seconds <- MCSeconds, Bands <- {{}, {<<6, 14>>}},
       BinOf <- [primary |-> 2, low |-> 4, lower |-> 8, sharp |-> 2],
       MinSplitSNR <- 1, MinSplitSeparation <- 6, how <- by

V == INSTANCE ClassVotes WITH
       Classes <- {"WFM", "NFM", ""}, Unknown <- "", Names <- {"A", "B"}, HistorySize <- 5, SwitchRatio <- 60

(* Ratios below and above one, blocks shorter and longer than a period.       *)
S == INSTANCE Resampling WITH
       Ratios <- {<<15, 16>>, <<3, 7>>, <<2, 1>>, <<1, 1>>}, Factors <- {1, 3},
       Blocks <- {3, 5, 7, 16}, MaxInput <- 32, l <- up, m <- down, fed <- processed, out <- resampled

(* Every fault of one bit or two neighbours; of groups of five bits every way   *)
(* to succeed in nine places, and some in the complement.                    *)
MCGroup(p) == [pi |-> p % 3, addr |-> p % 2, text |-> p]
MCAt(P) == [p \in P |-> MCGroup(p)]
MCStreams ==
  {[len |-> n, dir |-> MCAt(P), inv |-> <<>>] : n \in {13, 14}, P \in SUBSET (0 .. 8)}
  \cup {[len |-> 14, dir |-> MCAt({}), inv |-> MCAt(P)] : P \in {{1, 6}, {0, 2, 4}}}
MCFaults == {{}} \cup {{i} : i \in 0 .. 25} \cup {{i, i + 1} : i \in 0 .. 24}

G == INSTANCE RDS WITH
       Data <- {{25, 14, 11}}, Faults <- MCFaults, GroupBits <- 5, Jitter <- 1, Streams <- MCStreams,
       Addrs <- {0, 1}, found <- groups

(* One signal and another, with two bandwidths and two geometries; blocks that *)
(* are no multiple of a decimation.                                         *)
Job(band, decim, taps) == [band |-> band, geo |-> [decim |-> decim, taps |-> taps]]
MCJobs ==
  {<<>>, 1 :> Job("wide", 2, 3), 1 :> Job("narrow", 2, 3), 1 :> Job("wide", 3, 4),
   1 :> Job("wide", 2, 3) @@ 2 :> Job("wide", 3, 4)}

E == INSTANCE Extraction WITH Jobs <- MCJobs, Blocks <- {1, 3}, MaxInput <- 7

(* Two signals, one with outputs of two lengths; a ring as much deeper than the *)
(* channel as the code's, which is deeper by one.                            *)
B == INSTANCE OutRings WITH
       Ids <- {1, 2}, Lengths <- 1 :> {2} @@ 2 :> {1, 2}, Depth <- 3, FeedCap <- 1, MaxPooled <- 2, MaxFrames <- 4

(* What is not followed starts in a single state, and stays there.            *)
PartInit ==
  /\ part \in {"tracker", "detection", "cfar", "fusion", "votes", "rates", "rds", "streaming", "buffers"}
  /\ Init /\ V!Init /\ G!Init /\ E!Init /\ B!Init /\ S!Init
  /\ part # "rates" => up = 1 /\ factor = 1
  /\ IF part = "detection" THEN D!Init ELSE smooth = <<>> /\ how = <<>> /\ signals = {}
  /\ IF part = "cfar" THEN C!Init ELSE spectrum = <<>> /\ shape = <<>> /\ thresholds = <<>>
  /\ IF part = "fusion" THEN F!Init
     ELSE found = <<>> /\ other = <<>> /\ bands = {} /\ by = "" /\ candidates = <<>>

PartNext ==
  \/ part = "tracker" /\ Next /\ UNCHANGED <<part, detection, cfar, fusion, votes, toAudio>>
  \/ part = "detection" /\ D!Next /\ UNCHANGED <<part, vars, cfar, fusion, votes, toAudio>>
  \/ part = "cfar" /\ C!Next /\ UNCHANGED <<part, vars, detection, fusion, votes, toAudio>>
  \/ part = "fusion" /\ F!Next /\ UNCHANGED <<part, vars, detection, cfar, votes, toAudio>>
  \/ part = "votes" /\ V!Next /\ UNCHANGED <<part, vars, detection, cfar, fusion, toAudio>>
  \/ part = "rates" /\ S!Next /\ UNCHANGED <<part, toList, rds, streaming, buffers>>
  \/ part = "rds" /\ G!Next /\ UNCHANGED <<part, toList, rates, streaming, buffers>>
  \/ part = "streaming" /\ E!Next /\ UNCHANGED <<part, toList, rates, rds, buffers>>
  \/ part = "buffers" /\ B!Next /\ UNCHANGED <<part, toList, rates, rds, streaming>>

PartSpec == PartInit /\ [][PartNext]_<<part, toList, toAudio>>

-----------------------------------------------------------------------------
(* Detected signals do not overlap, and each emission that stands out is in one *)
(* of them (detectSignals).                                                 *)
EmissionsFound == part = "detection" => D!EmissionsFound

(* What the multi-scale baseline and the CFAR detectors carry along from bin to *)
(* bin is what they would compute for each bin from the start.                *)
SlidingExact == (part = "detection" => D!WindowsExact) /\ (part = "cfar" => C!SlidingIsDirect)

(* An observation of a second pass counts for one candidate, and bands that a   *)
(* sharper pass splits are shared out among its emissions.                    *)
FusedRightly == part = "fusion" => F!FusedRightly

(* An event's class is that of its last votes, and keeps a station's name.     *)
VotesDecide == V!VotesDecide

(* How a stream is cut into blocks hardly shows in what the rate changers make  *)
(* of it.                                                                   *)
CutsHardlyShow == part = "rates" => S!CutsHardlyShow

(* How a stream is cut into blocks does not show in the resampler's output.      *)
ChunksDoNotShow == part = "rates" => S!ChunksDoNotShow

(* RDS blocks are what was sent, and groups what the blocks make up.           *)
GroupsRight == G!GroupsRight

(* How the samples are cut into frames does not show in the extractor's output. *)
CutsDoNotShow == part = "streaming" => E!CutsDoNotShow

(* The extractor's filter of a signal is that of its bandwidth.                *)
FilterFollows == part = "streaming" => E!FilterFollows

(* A snippet is not written over while the frames since are fed.               *)
KeptWhileFed == part = "buffers" => B!KeptWhileFed

(* A snippet is not written over before the worker has read it.                *)
NeverReused == part = "buffers" => B!NeverReused
=============================================================================
