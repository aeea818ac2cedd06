-------------------------------- MODULE OutRings --------------------------------
(***************************************************************************)
(* The extractor's output buffers: a ring per signal, a pool for the buffers    *)
(* of signals that have gone, and the snippets that cross the streamer's feed   *)
(* channel in them while the extractor goes on (streaming_out_ring.go,          *)
(* streaming_gpu_native_prepare.go, dsp_loop.go, Streamer.FeedSnippets).      *)
(*                                                                         *)
(* A buffer is a number, a new one gets the next.  What it holds is the signal  *)
(* and the frame of the output last copied into it.  A message is the list of   *)
(* its snippets, each [id, buf, frame, safe]; safe is a ghost: since it was     *)
(* written no frame was kept from the channel and its signal was in every one. *)
(***************************************************************************)
EXTENDS Integers, Sequences

CONSTANTS Ids, Lengths,   (* signals; of each, the lengths of its outputs that    *)
                          (* are not empty                                   *)
          Depth,          (* streamOutRingDepth                              *)
          MaxPooled,      (* maxPooled                                       *)
          FeedCap,        (* places in the feed channel                       *)
          MaxFrames

VARIABLES frame,      (* frames begun                                        *)
          rings,      (* id -> [bufs, idx]: the buffers it has, the next place *)
          pool,       (* buffers of signals gone                             *)
          bufs,       (* buffer -> [cap, id, frame]: capacity, what is in it   *)
          at,         (* the DSP loop: "idle", "extract" or "feed"             *)
          gone, todo, (* rings to prune, signals to extract                    *)
          items,      (* the snippets of this frame so far                    *)
          feed, busy  (* messages queued; the one in the worker's hands        *)

loop == <<frame, at, gone, todo>>
mem  == <<rings, pool, bufs>>
vars == <<loop, mem, items, feed, busy>>

Init ==
  /\ frame = 0 /\ rings = <<>> /\ pool = <<>> /\ bufs = <<>>
  /\ at = "idle" /\ gone = {} /\ todo = {} /\ items = <<>>
  /\ feed = <<>> /\ busy = <<>>
-----------------------------------------------------------------------------
(* Snippets that are unsafe from now on.                                     *)
Unsafe(ms, ids) ==
  [i \in DOMAIN ms |-> [k \in DOMAIN ms[i] |->
     IF ms[i][k].id \in ids THEN [ms[i][k] EXCEPT !.safe = FALSE] ELSE ms[i][k]]]

Taint(ids) == feed' = Unsafe(feed, ids) /\ busy' = Unsafe(busy, ids)

(* A frame with these signals begins.                                        *)
Extract(active) ==
  /\ at = "idle" /\ frame < MaxFrames
  /\ frame' = frame + 1 /\ at' = "extract"
  /\ gone' = DOMAIN rings \ active /\ todo' = active /\ items' = <<>>
  /\ Taint(DOMAIN rings \ active)
  /\ UNCHANGED mem

(* outBufPool.put: what does not fit is let go.                              *)
Put(p, bs) ==
  LET all == p \o bs IN SubSeq(all, 1, IF Len(all) > MaxPooled THEN MaxPooled ELSE Len(all))

(* pruneOutRings, for one signal that is not in the frame: a map has no order. *)
PruneOutRings(id) ==
  /\ at = "extract" /\ id \in gone
  /\ gone' = gone \ {id}
  /\ rings' = [i \in DOMAIN rings \ {id} |-> rings[i]]
  /\ pool' = Put(pool, rings[id].bufs)
  /\ UNCHANGED <<frame, at, todo, bufs, items, feed, busy>>

Fits(b, n) == bufs[b].cap >= n

(* outBufPool.get finds the first that fits, ...                              *)
FirstFit(i, n) == Fits(pool[i], n) /\ \A j \in 1 .. i - 1 : ~Fits(pool[j], n)

(* ... or else the first of the largest, which is let go for a new one.        *)
Largest(i, n) ==
  \A j \in DOMAIN pool :
    /\ ~Fits(pool[j], n)
    /\ IF j < i THEN bufs[pool[j]].cap < bufs[pool[i]].cap ELSE bufs[pool[j]].cap <= bufs[pool[i]].cap

(* The last one takes its place in the list.                                 *)
Without(p, i) == SubSeq([p EXCEPT ![i] = p[Len(p)]], 1, Len(p) - 1)

(* Mutant: a place of the ring is never used.                                *)
AdvanceShort(i) == IF i >= Depth - 1 THEN 1 ELSE i + 1

Advance(i) == IF i >= Depth THEN 1 ELSE i + 1

(* outRingFor.                                                              *)
RingFor(id) == IF id \in DOMAIN rings THEN rings[id] ELSE [bufs |-> <<>>, idx |-> 1]

HasOwn(ring, n) == ring.idx \in DOMAIN ring.bufs /\ Fits(ring.bufs[ring.idx], n)

Filled(ring, b) ==
  [bufs |-> [i \in DOMAIN ring.bufs \cup {ring.idx} |-> IF i = ring.idx THEN b ELSE ring.bufs[i]],
   idx  |-> Advance(ring.idx)]

(* The buffer goes into the ring, and into the snippet.                       *)
Fill(id, b) ==
  /\ rings' = [i \in DOMAIN rings \cup {id} |-> IF i = id THEN Filled(RingFor(id), b) ELSE rings[i]]
  /\ items' = Append(items, [id |-> id, buf |-> b, frame |-> frame, safe |-> TRUE])

(* The output is copied into the buffer.                                     *)
Copy(id, b) == bufs' = [bufs EXCEPT ![b] = [cap |-> bufs[b].cap, id |-> id, frame |-> frame]]

UseOwn(id, n) ==
  LET ring == RingFor(id) IN
  /\ HasOwn(ring, n)
  /\ Fill(id, ring.bufs[ring.idx]) /\ Copy(id, ring.bufs[ring.idx])
  /\ UNCHANGED pool

UsePooled(id, n) ==
  /\ ~HasOwn(RingFor(id), n)
  /\ \E i \in DOMAIN pool :
       FirstFit(i, n) /\ Fill(id, pool[i]) /\ Copy(id, pool[i]) /\ pool' = Without(pool, i)

UseNew(id, n) ==
  /\ ~HasOwn(RingFor(id), n)
  /\ \/ pool = <<>> /\ UNCHANGED pool
     \/ \E i \in DOMAIN pool : Largest(i, n) /\ pool' = Without(pool, i)
  /\ Fill(id, Len(bufs) + 1) /\ bufs' = Append(bufs, [cap |-> n, id |-> id, frame |-> frame])

(* streamOutRing.next and the copy of n samples, for one signal of the frame:   *)
(* the last one ends it.                                                     *)
Output(id, n) ==
  /\ at = "extract" /\ gone = {} /\ id \in todo
  /\ UseOwn(id, n) \/ UsePooled(id, n) \/ UseNew(id, n)
  /\ todo' = todo \ {id} /\ at' = IF todo = {id} THEN "feed" ELSE at
  /\ UNCHANGED <<frame, gone, feed, busy>>

(* One job that fails fails the frame.  (A copy that fails is its output and     *)
(* then this, or NotFed for the last one: nobody reads what is in the buffer.)  *)
Fail ==
  /\ at = "extract" /\ gone = {}
  /\ at' = "idle" /\ todo' = {} /\ items' = <<>> /\ Taint(Ids)
  /\ UNCHANGED <<frame, gone, mem>>

(* FeedSnippets puts the message into the channel.                           *)
Feed ==
  /\ at = "feed" /\ Len(feed) < FeedCap
  /\ feed' = Append(feed, items) /\ at' = "idle" /\ items' = <<>>
  /\ UNCHANGED <<frame, gone, todo, mem, busy>>

(* Or it does not: the channel is full, or nobody records or listens.          *)
NotFed ==
  /\ at = "feed"
  /\ at' = "idle" /\ items' = <<>> /\ Taint(Ids)
  /\ UNCHANGED <<frame, gone, todo, mem>>

(* The worker takes a message, and is done with it.                          *)
Take ==
  /\ busy = <<>> /\ feed # <<>>
  /\ busy' = <<Head(feed)>> /\ feed' = Tail(feed)
  /\ UNCHANGED <<loop, mem, items>>

Done ==
  /\ busy # <<>> /\ busy' = <<>>
  /\ UNCHANGED <<loop, mem, items, feed>>

Next ==
  \/ \E active \in SUBSET Ids \ {{}} : Extract(active)
  \/ \E id \in Ids : PruneOutRings(id)
  \/ \E id \in Ids : \E n \in Lengths[id] : Output(id, n)
  \/ Fail \/ Feed \/ NotFed \/ Take \/ Done

Spec == Init /\ [][Next]_vars
-----------------------------------------------------------------------------
SnippetsOf(ms) == UNION {{ms[i][k] : k \in DOMAIN ms[i]} : i \in DOMAIN ms}

Kept(x) == bufs[x.buf].id = x.id /\ bufs[x.buf].frame = x.frame

(* What the worker will read is what was extracted for its frame, as long as    *)
(* every frame since went into the channel and the signal was in all of them.  *)
KeptWhileFed == \A x \in SnippetsOf(busy \o feed) : x.safe => Kept(x)

(* And always: "the producer never reuses a slot the consumer still holds".     *)
NeverReused == \A x \in SnippetsOf(busy \o feed) : Kept(x)
=============================================================================
