------------------------------- MODULE Extraction -------------------------------
(***************************************************************************)
(* The streaming extractor: every frame's new samples go through one shift,   *)
(* filter and decimation per signal, whose state is carried from frame to     *)
(* frame (demod/gpudemod, the CUDA build).  A signal has a host state, which    *)
(* the runner keeps, and a device state, which the kernel works on.           *)
(*                                                                         *)
(* A sample is its place in the stream, from 1; 0 is the zero read before the  *)
(* first.  A filter is the bandwidth it was made for and an output the set of   *)
(* the taps and the samples they weigh.  The field all of a state is a ghost:  *)
(* every sample that went through it.                                       *)
(***************************************************************************)
EXTENDS Integers, Sequences

CONSTANTS Jobs,            (* frames: id -> [band, geo], geo = [decim, taps]   *)
          Blocks, MaxInput (* lengths of a frame, samples in all               *)

VARIABLES fed,      (* samples so far                                        *)
          host, dev, (* id -> state, for the signals that have one             *)
          out,      (* id -> what the last frame gave, [band, taps, windows]   *)
          holes     (* samples were dropped, or a frame failed                *)

vars == <<fed, host, dev, out, holes>>

Init == fed = 0 /\ host = <<>> /\ dev = <<>> /\ out = <<>> /\ holes = FALSE

(* Mutant: the history is a sample short.                                     *)
NewestShort(s, n) == SubSeq(s, IF n < Len(s) THEN Len(s) - n + 2 ELSE 1, Len(s))

(* The last n of s.                                                          *)
Newest(s, n) == SubSeq(s, IF n < Len(s) THEN Len(s) - n + 1 ELSE 1, Len(s))

Fresh(geo) == [geo |-> geo, taps |-> "none", count |-> 0, hist |-> <<>>, all |-> <<>>]
-----------------------------------------------------------------------------
PhaseLen(geo) == (geo.taps + geo.decim - 1) \div geo.decim

(* BuildPolyphaseTapsPhaseMajor: which tap of the filter is at a place of the  *)
(* layout; -1 is the padding.                                                *)
Layout(geo) ==
  [x \in 0 .. geo.decim * PhaseLen(geo) - 1 |->
     LET tap == x \div PhaseLen(geo) + (x % PhaseLen(geo)) * geo.decim IN IF tap < geo.taps THEN tap ELSE -1]

(* One output: every tap of the layout with the sample so far back; newest is   *)
(* the place of the newest one in line.                                     *)
Taps(geo, line, newest) ==
  {<<Layout(geo)[p * PhaseLen(geo) + k],
     IF newest > p + k * geo.decim THEN line[newest - p - k * geo.decim] ELSE 0>> :
     p \in 0 .. geo.decim - 1, k \in 0 .. PhaseLen(geo) - 1}

(* Where in the new samples the first output is.                             *)
Start(s) == s.geo.decim - s.count

(* The kernel over n new samples; the host core does the same sample by sample. *)
Launch(s, n) ==
  LET new  == [i \in 1 .. n |-> fed + i]
      line == s.hist \o new
      outputs == (s.count + n) \div s.geo.decim
  IN  [windows |-> [k \in 1 .. outputs |-> Taps(s.geo, line, Len(s.hist) + Start(s) + (k - 1) * s.geo.decim)],
       state |-> [geo |-> s.geo, taps |-> s.taps, count |-> (s.count + n) % s.geo.decim,
                  hist |-> Newest(line, s.geo.taps - 1), all |-> s.all \o new]]

WithTaps(s, band) == [geo |-> s.geo, taps |-> band, count |-> s.count, hist |-> s.hist, all |-> s.all]
-----------------------------------------------------------------------------
(* getOrInitExtractState: started over when the geometry, which the hash is     *)
(* made of, has changed; the filter is always that of the job's bandwidth.     *)
HostState(id, job) ==
  WithTaps(IF id \in DOMAIN host /\ host[id].geo = job.geo THEN host[id] ELSE Fresh(job.geo), job.band)

(* getOrInitNativeStreamingState: made from the host's state, its filter        *)
(* included, when there is none or the geometry has changed.                 *)
DeviceState(id, job) ==
  IF id \in DOMAIN dev /\ dev[id].geo = job.geo THEN dev[id] ELSE HostState(id, job)

(* StreamingExtractGPUExec: the states of absent signals go, the others are     *)
(* prepared, the kernel runs and the host's states are brought up to date.     *)
Extract(jobs, n) ==
  LET run == [id \in DOMAIN jobs |-> Launch(DeviceState(id, jobs[id]), n)]
  IN  /\ fed' = fed + n
      /\ dev' = [id \in DOMAIN jobs |-> run[id].state]
      /\ host' = [id \in DOMAIN jobs |-> WithTaps(run[id].state, jobs[id].band)]
      /\ out' = [id \in DOMAIN jobs |-> [band |-> jobs[id].band, taps |-> run[id].state.taps, n |-> n,
                                         windows |-> run[id].windows]]
      /\ UNCHANGED holes

(* The job of one signal fails, while its device state is prepared, which then  *)
(* is lost, or after.  Those before it have gone through, no host state is       *)
(* brought up to date, and the frame takes the legacy path.                  *)
ExtractFails(jobs, n, done, bad, lost) ==
  /\ bad \in DOMAIN jobs /\ done \subseteq DOMAIN jobs \ {bad}
  /\ fed' = fed + n
  /\ host' = [id \in DOMAIN jobs |-> HostState(id, jobs[id])]
  /\ dev' = [id \in done \cup (DOMAIN dev \cap (DOMAIN jobs \ {bad})) \cup (IF lost THEN {} ELSE {bad}) |->
               CASE id \in done -> Launch(DeviceState(id, jobs[id]), n).state
                 [] id = bad    -> DeviceState(id, jobs[id])
                 [] OTHER       -> dev[id]]
  /\ out' = <<>> /\ holes' = TRUE

(* A backlog is thrown away: the DSP loop resets the state of the legacy path    *)
(* and of the streamer, not the extractor's.                                 *)
DropIQ(n) ==
  /\ fed' = fed + n /\ holes' = TRUE /\ out' = <<>>
  /\ UNCHANGED <<host, dev>>

Next ==
  \E n \in Blocks :
    /\ fed + n <= MaxInput
    /\ \/ \E jobs \in Jobs : Extract(jobs, n)
       \/ \E jobs \in Jobs, lost \in BOOLEAN : \E bad \in DOMAIN jobs, done \in SUBSET (DOMAIN jobs) :
            ExtractFails(jobs, n, done, bad, lost)
       \/ DropIQ(n)

Spec == Init /\ [][Next]_vars
-----------------------------------------------------------------------------
(* The whole filter over the samples up to the jth that went through a state.  *)
Whole(s, j) == {<<tap, IF j > tap THEN s.all[j - tap] ELSE 0>> : tap \in 0 .. s.geo.taps - 1}

(* What n samples more gave: an output for each that is a multiple of decim.    *)
Shown(windows, s, n) ==
  LET total  == Len(s.all)
      before == (total - n) \div s.geo.decim
  IN  /\ Len(windows) = total \div s.geo.decim - before
      /\ \A j \in total - n + 1 .. total : j % s.geo.decim = 0 =>
           {w \in windows[j \div s.geo.decim - before] : w[1] >= 0} = Whole(s, j)

(* How the samples are cut into frames does not show: the outputs of a signal   *)
(* are one for every decim samples that went through its state, each the whole   *)
(* filter over the samples up to it; and no sample is missing or used twice as   *)
(* long as none was dropped and no frame failed.                             *)
CutsDoNotShow ==
  \A id \in DOMAIN out :
    LET all == dev[id].all IN
    /\ Shown(out[id].windows, dev[id], out[id].n)
    /\ ~holes => \A j \in DOMAIN all : all[j] = fed - Len(all) + j

(* The filter of a signal is that of its bandwidth: its bandwidth is not part of  *)
(* the hash that resets a state "because taps are rebuilt every frame".         *)
FilterFollows == \A id \in DOMAIN out : out[id].taps = out[id].band
=============================================================================
