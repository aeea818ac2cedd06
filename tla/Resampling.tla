------------------------------- MODULE Resampling -------------------------------
(***************************************************************************)
(* The two rate changers of a session, fed block by block: the polyphase      *)
(* resampler (dsp/resample.go) and the decimating FIR (dsp/decimating_fir.go). *)
(*                                                                         *)
(* A sample is its place in the stream, counted from 1, and an output is what *)
(* it is computed from: the resampler's the arm of its filter bank and the    *)
(* newest sample in its delay line, 0 before the first; the FIR's the newest   *)
(* sample.  The samples before it are in the lines by their shifts.          *)
(***************************************************************************)
EXTENDS Integers, Sequences

CONSTANTS Ratios,      (* <<L, M>>: up by L, then down by M                   *)
          Factors,     (* of decimation                                      *)
          Blocks,      (* lengths of the blocks                              *)
          MaxInput     (* bound on the samples of a behaviour                 *)

VARIABLES l, m, factor,
          fed, calls,           (* samples and blocks so far                  *)
          aligned,              (* every block was a multiple of M            *)
          outTime,              (* resampler: where its next output is        *)
          out,                  (* its outputs, [arm, newest]                  *)
          phase, kept           (* FIR: samples to the next output, its outputs *)

vars == <<l, m, factor, fed, calls, aligned, outTime, out, phase, kept>>

Init ==
  /\ \E r \in Ratios : l = r[1] /\ m = r[2]
  /\ factor \in Factors
  /\ fed = 0 /\ calls = 0 /\ aligned = TRUE
  /\ outTime = 0 /\ out = <<>> /\ phase = 0 /\ kept = <<>>
-----------------------------------------------------------------------------
(* Mutant: outTime stays when the block ends between two samples.             *)
ShortStays(t, have) == t

(* outTime when the block ends while a further sample is due: that sample's    *)
(* share has been taken off already.                                         *)
Short(t, have) == t - (have + 1) * l

(* The loop of Process from place pos and time t on: consume until outTime is   *)
(* below L, emit, advance by M.                                              *)
Outputs(n) ==
  LET f[s \in (0 .. n) \X (0 .. l + m)] ==
        LET pos  == s[1]
            t    == s[2]
            due  == t \div l
            rest == f[<<pos + due, t - due * l + m>>]
        IN  IF pos = n THEN [t |-> t, at |-> <<>>]
            ELSE IF pos + due > n THEN [t |-> Short(t, n - pos), at |-> <<>>]
            ELSE [t |-> rest.t, at |-> <<[arm |-> t - due * l, newest |-> fed + pos + due]>> \o rest.at]
  IN  f[<<0, outTime>>]

(* Resampler.Process.                                                        *)
Resample(n) ==
  IF l = m
  THEN /\ out' = out \o [i \in 1 .. n |-> [arm |-> 0, newest |-> fed + i]]
       /\ UNCHANGED outTime
  ELSE out' = out \o Outputs(n).at /\ outTime' = Outputs(n).t

(* StatefulDecimatingFIRComplex.Process: the first output when the count to    *)
(* it has run out, then one every factor samples.                            *)
Decimate(n) ==
  /\ kept' = kept \o [k \in 1 .. (n - phase + factor - 1) \div factor |-> fed + phase + 1 + (k - 1) * factor]
  /\ phase' = (phase - n) % factor

Process(n) ==
  /\ fed + n <= MaxInput
  /\ fed' = fed + n /\ calls' = calls + 1 /\ aligned' = (aligned /\ n % m = 0)
  /\ Resample(n) /\ Decimate(n)
  /\ UNCHANGED <<l, m, factor>>

Next == \E n \in Blocks : Process(n)

Spec == Init /\ [][Next]_vars
-----------------------------------------------------------------------------
(* The k-th output, from 0, of a resampler fed with a single block.           *)
Exact(k) == [arm |-> (k * m) % l, newest |-> (k * m) \div l]

(* How a stream is cut into blocks hardly shows.  The decimated stream is the  *)
(* same whatever the cuts.  The resampler uses the arms in their order and      *)
(* holds back no output that is due; each block makes what follows at most one *)
(* sample early, and blocks that are multiples of M do not even that (what     *)
(* resample_test.go allows).  The comments promise more: ChunksDoNotShow.    *)
CutsHardlyShow ==
  /\ kept = [k \in 1 .. (fed + factor - 1) \div factor |-> 1 + (k - 1) * factor]
  /\ l # m =>
       /\ \A k \in 0 .. Len(out) - 1 :
            /\ out[k + 1].arm = Exact(k).arm
            /\ Exact(k).newest - out[k + 1].newest \in 0 .. (IF aligned THEN 0 ELSE calls - 1)
       /\ Exact(Len(out)).newest >= fed
       /\ Len(out) > 0 => out[Len(out)].newest <= fed

(* "This single counter gives exact, chunk-independent output": the cuts do     *)
(* not show in the resampler's output at all.  The code does not keep this: a   *)
(* block that ends while a further sample is due leaves an outTime from which   *)
(* that sample has been taken off, and the next block emits without it.        *)
ChunksDoNotShow == l # m => \A k \in 0 .. Len(out) - 1 : out[k + 1] = Exact(k)
=============================================================================
