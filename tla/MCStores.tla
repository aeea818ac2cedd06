-------------------------------- MODULE MCStores --------------------------------
(* Bounds for what is kept beyond a frame and thrown away in time: the states  *)
(* of RDSWorkers (extended here, under fair scheduling), IQRing and Quota.     *)
(* They share no state: a behaviour follows one of them, named by part.      *)
EXTENDS RDSWorkers, Integers

VARIABLES part
VARIABLES ring, mem, last, from, resets
VARIABLES dirs, writing, next, locks

iq    == <<ring, mem, last, from, resets>>
quota == <<dirs, writing, next, locks>>
all   == <<part, vars, iq, quota>>

(* One and a half ticks a sample; rings that are no multiple of a block.      *)
R == INSTANCE IQRing WITH
       TicksPer <- <<3, 2>>, FreeMax <- 2, Maxes <- {4, 7}, Chunk <- 3, MaxIngest <- 4,
       MaxSample <- 12, MaxReset <- 1

Q == INSTANCE Quota WITH MaxDiskMB <- 3, Sizes <- {1, 2}, MaxDir <- 4, MaxSize <- 2

(* What is not followed starts in a single state, and stays there.            *)
PartInit ==
  /\ part \in {"rds", "iq", "quota"}
  /\ Init /\ R!Init /\ Q!Init
  /\ part # "iq" => ring = R!NewRing(4)
  /\ part # "quota" => ~locks

Decodes(A) == part = "rds" /\ A /\ UNCHANGED <<part, iq, quota>>

PartNext ==
  \/ Decodes(Next)
  \/ part = "iq" /\ R!Next /\ UNCHANGED <<part, vars, quota>>
  \/ part = "quota" /\ Q!Next /\ UNCHANGED <<part, vars, iq>>

(* The fairness of RDSWorkers.                                               *)
PartSpec ==
  /\ PartInit /\ [][PartNext]_all
  /\ WF_all(Decodes(DSP))
  /\ \A s \in Slots : SF_all(Decodes(Decode(s))) /\ WF_all(Decodes(Decode(s) \/ GiveUp(s)))

-----------------------------------------------------------------------------
(* The IQ ring holds the last samples, and a slice is those of its window.     *)
RingRight == R!RingRight

(* The quota removes complete recordings from the oldest on, and no more than  *)
(* it must.                                                                 *)
RemovesOnlyOldest == Q!RemovesOnlyOldest
=============================================================================
