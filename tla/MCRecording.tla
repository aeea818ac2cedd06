------------------------------ MODULE MCRecording ------------------------------
(* Bounds for the way of the samples into recordings: SourceRing, Streamer and *)
(* RecorderManager (extended here), under fair scheduling.  They share no      *)
(* state: a behaviour follows one of them, named by part.                    *)
EXTENDS RecorderManager

CONSTANTS s1, s2, AnyMode, NoSession, NotPending

VARIABLES part
VARIABLES sPolicy, sess, audioSubs, pending, chan, chClosed, ws, told, feedCh, onAir, dsp,
          pc, msg, ix, sPhase
VARIABLES buf, cap, head, size, dropped, delivered, rpc, asked, late, timer, got,
          called, stopping, params

streaming == <<sPolicy, sess, audioSubs, pending, chan, chClosed, ws, told, feedCh, onAir, dsp,
               pc, msg, ix, sPhase>>
source    == <<buf, cap, head, size, dropped, delivered, rpc, asked, late, timer, got,
               called, stopping, params>>
all       == <<part, vars, streaming, source>>

(* Signals 1 and 2 come and go, the second too weak to be recorded; the      *)
(* band may fall silent.                                                    *)
Sig(i, k) == [id |-> i, freq |-> 0, mode |-> "NFM", ok |-> k]
MCFrames  == {<<>>, <<Sig(1, TRUE)>>, <<Sig(2, FALSE)>>}
MCSubs    == {s1, s2}

S == INSTANCE Streamer WITH
       Ids <- {1, 2}, Subs <- MCSubs, Freqs <- {0}, NearHz <- 1, Modes <- {"NFM", "WFM"}, StereoModes <- {},
       DefaultMode <- "NFM", Frames <- MCFrames, Policies <- {[enabled |-> TRUE, record |-> TRUE]},
       FeedCap <- 1, ChanCap <- 1, RecGrace <- 0, ListenGrace <- 0, DiskFails <- FALSE,
       policy <- sPolicy, phase <- sPhase

(* Buffers of one and two samples, batches larger than both, reads larger   *)
(* than the smaller one.                                                       *)
R == INSTANCE SourceRing WITH
       Caps <- {1, 2}, MaxBatch <- 3, MaxRead <- 2, MaxSample <- 3, n <- asked

(* What is not followed starts in a single state, and stays there.  The       *)
(* streamer is followed twice: with one listener, and with the weak signal    *)
(* alone on the air and two listeners who may want different things of it.    *)
PartInit ==
  /\ part \in {"streamer", "listeners", "manager", "source"}
  /\ Init /\ S!Init /\ R!Init
  /\ part = "listeners" => onAir = <<Sig(2, FALSE)>>
  /\ part \in {"manager", "source"} => onAir = <<>>
  /\ part # "manager" => ~policy.enabled /\ ~policy.record /\ ~listening
  /\ part # "source" => cap = 1

Manages(A) == part = "manager" /\ A /\ UNCHANGED <<part, streaming, source>>
Reads(A)   == part = "source" /\ A /\ UNCHANGED <<part, vars, streaming>>
Streams(A) == /\ \/ part = "streamer" /\ A /\ UNCHANGED ws[s2]
                 \/ part = "listeners" /\ A /\ UNCHANGED <<onAir, sPhase>>
              /\ UNCHANGED <<part, vars, source>>

PartNext == Manages(Next) \/ Streams(S!Next) \/ Reads(R!Next)

(* The fairness of RecorderManager, Streamer and SourceRing.  As a behaviour    *)
(* follows one part, that of a disjunction over the parts is that of the one  *)
(* disjunct.                                                                *)
Hears(s) == Streams(S!Receive(s) \/ S!StreamEnded(s))

PartSpec ==
  /\ PartInit /\ [][PartNext]_all
  /\ WF_all(Manages(Loop) \/ Streams(S!Worker) \/ Reads(R!ReadIQ))
  /\ WF_all(Manages(Streamer) \/ Streams(S!FeedSend) \/ Reads(R!Expire))
  /\ WF_all(Manages(Worker) \/ Streams(S!CloseAll) \/ Reads(R!TimerFires))
  /\ WF_all(Manages(Close) \/ Hears(s1)) /\ WF_all(Hears(s2))
  /\ SF_all(Streams(S!FeedGate)) /\ SF_all(Streams(S!Tick))
  /\ \A s \in MCSubs : SF_all(Streams(S!Unsubscribe(s)))

-----------------------------------------------------------------------------
(* The recording session of a signal that stays away is closed, while others   *)
(* are on the air.                                                          *)
GoneSignalCloses == S!GoneSignalCloses


(* Shutdown of the streamer comes to an end, with every session finalised.   *)
ShutdownFinalises == S!ShutdownFinalises

(* The SDRplay source's ring is the bounded queue of SourceStream.            *)
ImplementsStream == R!ImplementsStream

(* ReadIQ returns, also on a device that has fallen silent, unless the         *)
(* broadcast of its timer was missed.                                         *)
ReadReturns == R!ReadReturns
=============================================================================
