--------------------------------- MODULE IQRing ---------------------------------
(***************************************************************************)
(* The ring of recent IQ blocks (recorder/ring.go) and the way the manager  *)
(* cuts what it captures into blocks (recorder.go, Ingest).  Push copies a   *)
(* block into a buffer, a recycled one if one of the free list fits, and     *)
(* evicts from the head what is too much; Slice copies out the samples of a  *)
(* window of time.                                                          *)
(*                                                                         *)
(* Samples are numbered in the order of their capture.  Time is counted in   *)
(* ticks, TicksPer[1] / TicksPer[2] of them a sample, and both conversions   *)
(* truncate, as the ones by float64 and time.Duration do: a block's length   *)
(* need not be a whole number of ticks, as one need not be a whole number of *)
(* nanoseconds.                                                             *)
(***************************************************************************)
EXTENDS Integers, Sequences, FiniteSets, SequencesExt

CONSTANTS TicksPer,    (* <<ticks, samples>>                                 *)
          FreeMax,     (* ringFreeListMax                                    *)
          Maxes,       (* values of maxSamples                               *)
          Chunk,       (* Ingest: samples of a block                         *)
          MaxIngest,   (* samples ingested at once                           *)
          MaxSample, MaxReset   (* bounds                                    *)

VARIABLES ring,        (* the Ring: max, blocks, total, free                 *)
          mem,         (* what each buffer holds; its length is its capacity *)
          last,        (* number of the sample last captured                 *)
          from,        (* the first one captured since the ring was reset    *)
          resets

vars == <<ring, mem, last, from, resets>>

Duration(n) == (n * TicksPer[1]) \div TicksPer[2]
Index(d)    == (d * TicksPer[2]) \div TicksPer[1]

NewRing(max) == [max |-> max, blocks |-> <<>>, total |-> 0, free |-> <<>>]

Init == ring \in {NewRing(x) : x \in Maxes} /\ mem = <<>> /\ last = 0 /\ from = 1 /\ resets = 0

(* putBufLocked.                                                            *)
Freed(free, buf) == IF Len(free) < FreeMax THEN Append(free, buf) ELSE free

(* A block without its first k samples.                                     *)
Trimmed(b, k) == [t0 |-> b.t0 + Duration(k), buf |-> b.buf, off |-> b.off + k, n |-> b.n - k]

(* Mutant: the buffer of a block that is only trimmed is recycled, too.      *)
TrimHeadRecycling(r) ==
  LET b == Head(r.blocks) over == r.total - r.max IN
  IF over >= b.n
  THEN [max |-> r.max, blocks |-> Tail(r.blocks), total |-> r.total - b.n, free |-> Freed(r.free, b.buf)]
  ELSE [max |-> r.max, blocks |-> <<Trimmed(b, over)>> \o Tail(r.blocks), total |-> r.max, free |-> Freed(r.free, b.buf)]

(* A step of Push's loop: the head goes, its buffer to the free list, or     *)
(* loses what is too much.                                                  *)
TrimHead(r) ==
  LET b == Head(r.blocks) over == r.total - r.max IN
  IF over >= b.n
  THEN [max |-> r.max, blocks |-> Tail(r.blocks), total |-> r.total - b.n, free |-> Freed(r.free, b.buf)]
  ELSE [max |-> r.max, blocks |-> <<Trimmed(b, over)>> \o Tail(r.blocks), total |-> r.max, free |-> r.free]

(* The loop takes at most as many steps as there are blocks.                 *)
Evict(r) ==
  LET Step(x, b) == IF x.total > x.max THEN TrimHead(x) ELSE x
  IN  FoldLeft(Step, r, r.blocks)

(* getBufLocked: the last of the free buffers that fits, whose place the     *)
(* last of them takes; a new one if none does.                              *)
GetBuf(free, m, n) ==
  LET fit == {i \in DOMAIN free : Len(m[free[i]]) >= n} IN
  IF fit = {} THEN [buf |-> Len(m) + 1, free |-> free, mem |-> Append(m, [i \in 1 .. n |-> 0])]
  ELSE LET i == CHOOSE i \in fit : \A j \in fit : j <= i
       IN  [buf |-> free[i], mem |-> m,
            free |-> [j \in 1 .. Len(free) - 1 |-> IF j = i THEN free[Len(free)] ELSE free[j]]]

(* Push(t0, the samples from a to b), on a ring with its memory.            *)
Push(s, t0, a, b) ==
  LET r   == s.ring
      n   == b - a + 1
      g   == GetBuf(r.free, s.mem, n)
      blk == [t0 |-> t0, buf |-> g.buf, off |-> 0, n |-> n]
      all == [max |-> r.max, blocks |-> Append(r.blocks, blk), total |-> r.total + n, free |-> g.free]
  IN  [ring |-> Evict(all),
       mem  |-> [g.mem EXCEPT ![g.buf] = [i \in DOMAIN @ |-> IF i <= n THEN a + i - 1 ELSE @[i]]]]

(* Ingest(time.Now(), the last n samples): they are pushed chunk by chunk,   *)
(* each with its place after the time they were handed over, which is that   *)
(* of the end of the capture.                                               *)
Ingest(n) ==
  /\ last + n <= MaxSample
  /\ LET chunk  == IF Chunk > ring.max THEN ring.max ELSE Chunk
         t0     == Duration(last + n)
         PushAt(s, i) ==
           LET off == (i - 1) * chunk
               end == IF off + chunk > n THEN n ELSE off + chunk
           IN  Push(s, t0 + Duration(off), last + off + 1, last + end)
         s      == FoldLeft(PushAt, [ring |-> ring, mem |-> mem], [i \in 1 .. (n + chunk - 1) \div chunk |-> i])
     IN  ring' = s.ring /\ mem' = s.mem
  /\ last' = last + n
  /\ UNCHANGED <<from, resets>>

(* Reset: everything is new, the free list as well.                         *)
Reset(max) ==
  /\ resets < MaxReset /\ resets' = resets + 1
  /\ ring' = NewRing(max) /\ mem' = <<>>
  /\ from' = last + 1
  /\ UNCHANGED last

Next == (\E n \in 1 .. MaxIngest : Ingest(n)) \/ (\E x \in Maxes : Reset(x))

Spec == Init /\ [][Next]_vars
-----------------------------------------------------------------------------
Live(b) == SubSeq(mem[b.buf], b.off + 1, b.off + b.n)

(* What SliceInto takes of a block: none of it if the block lies outside,    *)
(* else what the indices of the overlap's ends enclose.                     *)
Overlap(b, start, end) ==
  LET bEnd == b.t0 + Duration(b.n)
      o    == IF start > b.t0 THEN start ELSE b.t0
      e    == IF end < bEnd THEN end ELSE bEnd
  IN  IF bEnd < start \/ b.t0 > end THEN <<>>
      ELSE SubSeq(Live(b), Index(o - b.t0) + 1, IF Index(e - b.t0) > b.n THEN b.n ELSE Index(e - b.t0))

Slice(start, end) ==
  FlattenSeq([i \in DOMAIN ring.blocks |-> Overlap(ring.blocks[i], start, end)])

(* The ring holds the last samples captured, as many as it may hold, in      *)
(* order and each once: no recycled buffer is written while a block still    *)
(* lies in it, whatever the sizes of the blocks and their trimming.         *)
HoldsLast ==
  LET first == IF last - ring.max + 1 > from THEN last - ring.max + 1 ELSE from
  IN  FlattenSeq([i \in DOMAIN ring.blocks |-> Live(ring.blocks[i])])
        = [i \in 1 .. last - first + 1 |-> first + i - 1]

(* The time of sample n, a fraction of which the ticks lose.                *)
At(n) == Duration(n - 1)

(* A slice has the samples of its window, in order and each once.  A capture  *)
(* is stamped at its end, so that the window lies up to a capture too early,   *)
(* with a sample and three ticks of rounding; it is never too late but for a   *)
(* tick, and one for every trimming of a block, which cannot be trimmed more    *)
(* often than it has lost samples.  Of the samples that are in the window by    *)
(* both, only the last of a block is missing, which its truncated length cuts. *)
SliceRight ==
  LET blocks  == {ring.blocks[i] : i \in DOMAIN ring.blocks}
      early   == Duration(MaxIngest) + Duration(1) + 3
      late(b) == b.off + 1
      T       == {Duration(n) : n \in 0 .. last + 2}
  IN  \A start, end \in T : start <= end =>
        LET out == Slice(start, end)
            got == {out[i] : i \in DOMAIN out}
        IN  /\ \A i \in 1 .. Len(out) - 1 : out[i] < out[i + 1]
            /\ \A n \in got : \E b \in blocks :
                 n \in {Live(b)[i] : i \in 1 .. b.n} /\ At(n) >= start - early /\ At(n) <= end + late(b)
            /\ \A b \in blocks : \A n \in {Live(b)[i] : i \in 1 .. b.n - 1} :
                 (At(n) >= start + late(b) /\ At(n) <= end - early) => n \in got

(* What the recorder cuts out of the ring is what was captured.               *)
RingRight == HoldsLast /\ SliceRight
=============================================================================
