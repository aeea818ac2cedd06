------------------------- MODULE RecorderManagerProofs -------------------------
(***************************************************************************)
(* That no track is recorded both by the streamer and from the ring, for any *)
(* number of tracks, queues of any capacity, and any order of frames, events, *)
(* updates and a shutdown; and that Close leaves nothing undone.              *)
(***************************************************************************)
EXTENDS RecorderManager, TLAPS

Tracks == [gen : Int, id : Int]

In(t, q)   == \E i \in DOMAIN q : q[i] = t
NoTwice(q) == \A i, j \in DOMAIN q : q[i] = q[j] => i = j

InQueue(t) == In(t, queue)
Works(t)   == wpc \in {"check", "policy", "write"} /\ ev = t

(* The streamer has been given the track: its frame is written, queued or in  *)
(* hand, and then already marked.                                           *)
Given(t) ==
  \/ t \in wav
  \/ \E i \in DOMAIN feedq : t \in feedq[i]
  \/ loop = "feed" /\ t \in items

(* The track may still come to the worker's look at the mark.                 *)
Ahead(t) == t \in active \/ t \in evs \/ InQueue(t) \/ (wpc = "check" /\ ev = t)

(* It is past it.                                                           *)
Past(t) == (wpc \in {"policy", "write"} /\ ev = t) \/ t \in saved

(* The types that the argument needs.                                       *)
Typed ==
  /\ gen \in Nat /\ nextId \in Int
  /\ active \subseteq Tracks /\ items \subseteq Tracks /\ evs \subseteq Tracks
  /\ wav \subseteq Tracks /\ saved \subseteq Tracks
  /\ feedq \in Seq(SUBSET Tracks) /\ queue \in Seq(Tracks)
  /\ wpc \in {"check", "policy", "write"} => ev \in Tracks

(* All tracks there are have been numbered by the first detector, so that an   *)
(* id means one track and the next one is new.                               *)
Numbered ==
  \A t \in Tracks : Ahead(t) \/ Past(t) \/ Given(t) => t.gen = 0 /\ t.id < nextId

(* A track is active, or on one place of the way of its event.                *)
OnePlace ==
  /\ items \subseteq active
  /\ \A t \in Tracks :
       /\ t \in active => t \notin evs /\ t \notin saved /\ ~Works(t) /\ ~InQueue(t)
       /\ t \in evs => ~Works(t) /\ ~InQueue(t)
       /\ Works(t) => ~InQueue(t)
  /\ NoTwice(queue)

(* What the streamer was given is marked until the worker has looked, and what *)
(* the worker goes on with was not given to the streamer.                     *)
Marked == \A t \in Tracks : Given(t) /\ Ahead(t) => t.id \in streamed
Unfed  == \A t \in Tracks : Past(t) => ~Given(t)

Once == Numbered /\ OnePlace /\ Marked /\ Unfed

OnceInv == Typed /\ (gen = 0 => Once)

(* Appending to the streamer's queue adds the frame's tracks to those given,    *)
(* taking the head away leaves only tracks that were there.                    *)
LEMMA FramesQueued ==
  ASSUME NEW q \in Seq(SUBSET Tracks), NEW f \in SUBSET Tracks, NEW t
  PROVE  /\ Append(q, f) \in Seq(SUBSET Tracks)
         /\ (\E i \in DOMAIN Append(q, f) : t \in Append(q, f)[i]) => (\E i \in DOMAIN q : t \in q[i]) \/ t \in f
         /\ q # <<>> => /\ Tail(q) \in Seq(SUBSET Tracks)
                        /\ (\E i \in DOMAIN Tail(q) : t \in Tail(q)[i]) => \E i \in DOMAIN q : t \in q[i]
                        /\ t \in Head(q) => \E i \in DOMAIN q : t \in q[i]
<1>1. Append(q, f) \in Seq(SUBSET Tracks)
  OBVIOUS
<1>2. (\E i \in DOMAIN Append(q, f) : t \in Append(q, f)[i]) => (\E i \in DOMAIN q : t \in q[i]) \/ t \in f
  <2> SUFFICES ASSUME NEW i \in DOMAIN Append(q, f), t \in Append(q, f)[i]
               PROVE  (\E k \in DOMAIN q : t \in q[k]) \/ t \in f
    OBVIOUS
  <2>1. i \in 1 .. Len(q) + 1 /\ DOMAIN q = 1 .. Len(q) /\ Len(q) \in Nat
    OBVIOUS
  <2>2. CASE i \in 1 .. Len(q)
    <3>1. Append(q, f)[i] = q[i]
      BY <2>2
    <3> QED
      BY <2>1, <2>2, <3>1
  <2>3. CASE i = Len(q) + 1
    BY <2>1, <2>3
  <2> QED
    BY <2>1, <2>2, <2>3
<1>3. ASSUME q # <<>>
      PROVE  /\ Tail(q) \in Seq(SUBSET Tracks)
             /\ (\E i \in DOMAIN Tail(q) : t \in Tail(q)[i]) => \E i \in DOMAIN q : t \in q[i]
             /\ t \in Head(q) => \E i \in DOMAIN q : t \in q[i]
  <2>1. Tail(q) \in Seq(SUBSET Tracks) /\ Len(q) \in Nat \ {0} /\ DOMAIN q = 1 .. Len(q)
    BY <1>3
  <2>2. Head(q) = q[1]
    BY <1>3
  <2>3. DOMAIN Tail(q) = 1 .. Len(q) - 1 /\ \A i \in 1 .. Len(q) - 1 : Tail(q)[i] = q[i + 1]
    BY <1>3, <2>1
  <2>4. \A i \in 1 .. Len(q) - 1 : i + 1 \in DOMAIN q
    BY <2>1
  <2> QED
    BY <2>1, <2>2, <2>3, <2>4
<1> QED
  BY <1>1, <1>2, <1>3

(* The event queue: what is appended comes to what is there, and what is taken  *)
(* from its head is no longer in it.                                         *)
LEMMA EventQueued ==
  ASSUME NEW q \in Seq(Tracks), NEW e \in Tracks
  PROVE  /\ Append(q, e) \in Seq(Tracks)
         /\ \A t : In(t, Append(q, e)) => In(t, q) \/ t = e
         /\ NoTwice(q) /\ ~In(e, q) => NoTwice(Append(q, e))
<1>1. /\ Append(q, e) \in Seq(Tracks) /\ Len(q) \in Nat
      /\ DOMAIN q = 1 .. Len(q) /\ DOMAIN Append(q, e) = 1 .. Len(q) + 1
      /\ \A i \in 1 .. Len(q) : Append(q, e)[i] = q[i]
      /\ Append(q, e)[Len(q) + 1] = e
  OBVIOUS
<1>2. \A i \in 1 .. Len(q) + 1 : i \in 1 .. Len(q) \/ i = Len(q) + 1
  BY <1>1
<1>3. \A t : In(t, Append(q, e)) => In(t, q) \/ t = e
  BY <1>1, <1>2 DEF In
<1>4. NoTwice(q) /\ ~In(e, q) => NoTwice(Append(q, e))
  BY <1>1, <1>2 DEF In, NoTwice
<1> QED
  BY <1>1, <1>3, <1>4

(* What is taken from the head of the queue was there once, and is gone.        *)
LEMMA EventTaken ==
  ASSUME NEW q \in Seq(Tracks), q # <<>>
  PROVE  /\ Tail(q) \in Seq(Tracks) /\ Head(q) \in Tracks /\ In(Head(q), q)
         /\ \A t : In(t, Tail(q)) => In(t, q)
         /\ NoTwice(q) => NoTwice(Tail(q)) /\ ~In(Head(q), Tail(q))
<1>1. /\ Tail(q) \in Seq(Tracks) /\ Len(q) \in Nat \ {0} /\ DOMAIN q = 1 .. Len(q)
      /\ Head(q) = q[1] /\ q[1] \in Tracks
  OBVIOUS
<1>2. DOMAIN Tail(q) = 1 .. Len(q) - 1 /\ \A i \in 1 .. Len(q) - 1 : Tail(q)[i] = q[i + 1]
  BY <1>1
<1>3. \A i \in 1 .. Len(q) - 1 : i + 1 \in 1 .. Len(q) /\ i + 1 # 1
  BY <1>1
<1>4. Tail(q) \in Seq(Tracks) /\ Head(q) \in Tracks /\ In(Head(q), q)
  BY <1>1 DEF In
<1>5. \A t : In(t, Tail(q)) => In(t, q)
  BY <1>1, <1>2, <1>3 DEF In
<1>6. ASSUME NoTwice(q) PROVE NoTwice(Tail(q)) /\ ~In(Head(q), Tail(q))
  <2>1. ~In(Head(q), Tail(q))
    BY <1>1, <1>2, <1>3, <1>6 DEF In, NoTwice
  <2>2. ASSUME NEW i \in 1 .. Len(q) - 1, NEW j \in 1 .. Len(q) - 1, q[i + 1] = q[j + 1] PROVE i = j
    <3>1. i + 1 = j + 1
      BY <1>1, <1>3, <1>6, <2>2 DEF NoTwice
    <3> QED
      BY <3>1
  <2> QED
    BY <1>2, <2>1, <2>2 DEF NoTwice
<1> QED
  BY <1>4, <1>5, <1>6

(* The steps that give the streamer nothing new, bring no event to a new place  *)
(* and delete no mark.                                                      *)
LEMMA Carried ==
  ASSUME Typed, Once, NoTwice(queue)',
         nextId' = nextId, active' = active, items' \subseteq items, evs' \subseteq evs,
         streamed' = streamed,
         \A t \in Tracks : /\ Given(t)' => Given(t)
                           /\ InQueue(t)' => InQueue(t)
                           /\ Works(t)' => Works(t)
                           /\ Ahead(t)' => Ahead(t)
                           /\ Past(t)' => Past(t)
  PROVE  Once'
<1>1. Numbered'
  BY DEF Once, Numbered
<1>2. OnePlace'
  <2>1. \A t \in Tracks : t \in active => ~Past(t)
    BY DEF Once, OnePlace, Past, Works
  <2>2. \A t \in Tracks : t \in saved' => Past(t)
    BY DEF Past
  <2> QED
    BY <2>1, <2>2 DEF Once, OnePlace
<1>3. Marked' /\ Unfed'
  BY DEF Once, Marked, Unfed
<1> QED
  BY <1>1, <1>2, <1>3 DEF Once

(* FeedSnippets marks what it is about to feed, which is still active.          *)
LEMMA FeedMarkStep ==
  ASSUME Typed, Once, FeedMark
  PROVE  Once'
<1>1. /\ loop = "mark" /\ loop' = "feed" /\ streamed' = streamed \cup {t.id : t \in items}
      /\ nextId' = nextId /\ active' = active /\ items' = items /\ evs' = evs
      /\ feedq' = feedq /\ wav' = wav /\ queue' = queue /\ wpc' = wpc /\ ev' = ev /\ saved' = saved
  BY DEF FeedMark, detector, streamer, worker
<1>2. \A t \in Tracks : /\ Given(t)' <=> Given(t) \/ t \in items
                        /\ InQueue(t)' = InQueue(t) /\ Works(t)' = Works(t)
                        /\ Ahead(t)' = Ahead(t) /\ Past(t)' = Past(t)
  BY <1>1 DEF Given, InQueue, Works, Ahead, Past
<1>3. \A t \in Tracks : t \in items => Ahead(t) /\ ~Past(t)
  BY DEF Once, OnePlace, Ahead, Past, Works
<1>4. Numbered'
  BY <1>1, <1>2, <1>3 DEF Once, Numbered
<1>5. OnePlace'
  BY <1>1, <1>2 DEF Once, OnePlace
<1>6. Marked' /\ Unfed'
  BY <1>1, <1>2, <1>3 DEF Once, Marked, Unfed
<1> QED
  BY <1>4, <1>5, <1>6 DEF Once

(* A frame: the new tracks have ids that no other track has had, and those that *)
(* end were active.                                                         *)
LEMMA FrameStep ==
  ASSUME Typed, Once, gen = 0,
         NEW n \in 0 .. MaxId, NEW gone \in SUBSET active, NEW fin \in SUBSET gone, NEW fed \in SUBSET Track,
         Frame(n, gone, fin, fed)
  PROVE  Once'
<1> DEFINE born == {[gen |-> gen, id |-> i] : i \in nextId .. nextId + n - 1}
<1>1. /\ loop = "top" /\ loop' \in {"closed?", "enabled?"} /\ active' = (active \ gone) \cup born
      /\ nextId' = nextId + n /\ items' = fed /\ fed \subseteq active' /\ evs' = fin
      /\ streamed' = streamed /\ feedq' = feedq /\ wav' = wav
      /\ queue' = queue /\ wpc' = wpc /\ ev' = ev /\ saved' = saved
  BY DEF Frame, streamer, worker
<1>2. n \in Int /\ n >= 0 /\ nextId \in Int
  BY DEF Typed
<1>3. \A t \in Tracks : /\ Given(t)' => Given(t)
                        /\ InQueue(t)' = InQueue(t) /\ Works(t)' = Works(t) /\ Past(t)' = Past(t)
  BY <1>1 DEF Given, InQueue, Works, Past
<1>4. \A t \in Tracks : Ahead(t)' => Ahead(t) \/ t \in born
  BY <1>1 DEF Ahead, InQueue
<1>5. \A t \in Tracks : t \in born => /\ t.gen = 0 /\ t.id < nextId + n /\ nextId <= t.id
                                      /\ ~Ahead(t) /\ ~Past(t) /\ ~Given(t)
  <2> SUFFICES ASSUME NEW t \in Tracks, t \in born
               PROVE  /\ t.gen = 0 /\ t.id < nextId + n /\ nextId <= t.id
                      /\ ~Ahead(t) /\ ~Past(t) /\ ~Given(t)
    OBVIOUS
  <2>1. PICK i \in nextId .. nextId + n - 1 : t = [gen |-> gen, id |-> i]
    OBVIOUS
  <2>2. t.gen = 0 /\ t.id = i
    BY <2>1
  <2>3. i < nextId + n /\ nextId <= i
    BY <1>2
  <2>4. ~(t.id < nextId)
    BY <1>2, <2>2, <2>3
  <2> QED
    BY <2>2, <2>3, <2>4 DEF Once, Numbered
<1>6. Numbered'
  <2> SUFFICES ASSUME NEW t \in Tracks, Ahead(t)' \/ Past(t)' \/ Given(t)' PROVE t.gen = 0 /\ t.id < nextId'
    BY DEF Numbered
  <2>1. CASE t \in born
    BY <1>1, <1>5, <2>1
  <2>2. CASE t \notin born
    <3>1. t.gen = 0 /\ t.id < nextId
      BY <1>3, <1>4, <2>2 DEF Once, Numbered
    <3>2. t.id \in Int
      BY DEF Tracks
    <3> QED
      BY <1>1, <1>2, <3>1, <3>2
  <2> QED
    BY <2>1, <2>2
<1>7. OnePlace'
  <2> SUFFICES ASSUME NEW t \in Tracks
               PROVE  /\ t \in active' => t \notin evs' /\ t \notin saved' /\ ~Works(t)' /\ ~InQueue(t)'
                      /\ t \in evs' => ~Works(t)' /\ ~InQueue(t)'
                      /\ Works(t)' => ~InQueue(t)'
    BY <1>1 DEF Once, OnePlace
  <2>1. t \in born => t \notin active /\ t \notin evs' /\ t \notin saved /\ ~Works(t) /\ ~InQueue(t)
    BY <1>1, <1>5 DEF Ahead, Past, Works
  <2> QED
    BY <1>1, <1>3, <2>1 DEF Once, OnePlace
<1>8. Marked' /\ Unfed'
  BY <1>1, <1>3, <1>4, <1>5 DEF Once, Marked, Unfed
<1> QED
  BY <1>6, <1>7, <1>8 DEF Once

(* An event moves from the frame to the queue, or is lost when that is full.    *)
LEMMA SendEventStep ==
  ASSUME Typed, Once, NEW e \in evs, SendEvent(e)
  PROVE  Once'
<1>1. /\ loop = "events" /\ loop' # "feed" /\ evs' = evs \ {e}
      /\ nextId' = nextId /\ active' = active /\ items' = items /\ streamed' = streamed
      /\ feedq' = feedq /\ wav' = wav /\ wpc' = wpc /\ ev' = ev /\ saved' = saved
      /\ queue' = queue \/ queue' = Append(queue, e)
  BY DEF SendEvent, detector, streamer, worker
<1>2. e \in Tracks /\ queue \in Seq(Tracks)
  BY DEF Typed
<1>3. \A t \in Tracks : InQueue(t)' => InQueue(t) \/ t = e
  BY <1>1, <1>2, EventQueued DEF InQueue
<1>4. NoTwice(queue')
  <2>1. ~In(e, queue)
    BY <1>2 DEF Once, OnePlace, InQueue
  <2> QED
    BY <1>1, <1>2, <2>1, EventQueued DEF Once, OnePlace
<1>5. \A t \in Tracks : (Given(t)' => Given(t)) /\ (Works(t)' <=> Works(t)) /\ (Past(t)' <=> Past(t))
  BY <1>1 DEF Given, Works, Past
<1>6. \A t \in Tracks : Ahead(t)' => Ahead(t)
  BY <1>1, <1>3 DEF Ahead
<1>7. Numbered' /\ Marked' /\ Unfed'
  BY <1>1, <1>5, <1>6 DEF Once, Numbered, Marked, Unfed
<1>8. OnePlace'
  BY <1>1, <1>2, <1>3, <1>4, <1>5 DEF Once, OnePlace
<1> QED
  BY <1>7, <1>8 DEF Once

(* The worker takes the event at the head of the queue.                        *)
LEMMA TakeEventStep ==
  ASSUME Typed, Once, TakeEvent
  PROVE  Once'
<1> DEFINE e == Head(queue)
<1>1. /\ wpc = "idle" /\ wpc' = "check" /\ queue # <<>> /\ ev' = e /\ queue' = Tail(queue)
      /\ loop' = loop /\ evs' = evs /\ saved' = saved
      /\ nextId' = nextId /\ active' = active /\ items' = items /\ streamed' = streamed
      /\ feedq' = feedq /\ wav' = wav
  BY DEF TakeEvent, detector, frame, streamer
<1>2. queue \in Seq(Tracks)
  BY DEF Typed
<1>3. /\ e \in Tracks /\ InQueue(e)
      /\ \A t \in Tracks : InQueue(t)' => InQueue(t) /\ t # e
      /\ NoTwice(queue')
  <2>1. NoTwice(queue)
    BY DEF Once, OnePlace
  <2>2. e \in Tracks /\ In(e, queue) /\ (\A t : In(t, Tail(queue)) => In(t, queue))
        /\ NoTwice(Tail(queue)) /\ ~In(e, Tail(queue))
    BY <1>1, <1>2, <2>1, EventTaken
  <2> QED
    BY <1>1, <2>2 DEF InQueue
<1>4. \A t \in Tracks : (Given(t)' <=> Given(t)) /\ (Past(t)' => Past(t))
                        /\ (Works(t)' <=> t = e)
  BY <1>1 DEF Given, Works, Past
<1>5. \A t \in Tracks : Ahead(t)' => Ahead(t)
  BY <1>1, <1>3 DEF Ahead
<1>6. Numbered' /\ Marked' /\ Unfed'
  BY <1>1, <1>4, <1>5 DEF Once, Numbered, Marked, Unfed
<1>7. OnePlace'
  BY <1>1, <1>3, <1>4 DEF Once, OnePlace
<1> QED
  BY <1>6, <1>7 DEF Once

(* The worker looks at the mark, which no other track has, and goes on only     *)
(* with a track that has none and thus was not given to the streamer.         *)
LEMMA CheckStreamedStep ==
  ASSUME Typed, Once, CheckStreamed
  PROVE  Once'
<1>1. /\ wpc = "check" /\ streamed' = streamed \ {ev.id}
      /\ \/ ev.id \in streamed /\ wpc' = "idle"
         \/ ev.id \notin streamed /\ wpc' = "policy" /\ ev' = ev
      /\ loop' = loop /\ evs' = evs /\ saved' = saved /\ queue' = queue
      /\ nextId' = nextId /\ active' = active /\ items' = items
      /\ feedq' = feedq /\ wav' = wav
  BY DEF CheckStreamed, detector, frame, streamer
<1>2. ev \in Tracks /\ Works(ev) /\ Ahead(ev)
  BY <1>1 DEF Typed, Works, Ahead
<1>3. \A t \in Tracks : t.id = ev.id /\ t.gen = 0 => t = ev
  BY <1>2 DEF Once, Numbered, Tracks
<1>4. \A t \in Tracks : /\ Given(t)' <=> Given(t)
                        /\ InQueue(t)' <=> InQueue(t)
                        /\ Works(t)' => Works(t)
  BY <1>1 DEF Given, InQueue, Works
<1>5. \A t \in Tracks : Ahead(t)' => Ahead(t) /\ t # ev
  <2> SUFFICES ASSUME NEW t \in Tracks, Ahead(t)' PROVE Ahead(t) /\ t # ev
    OBVIOUS
  <2>1. t \in active \/ t \in evs \/ InQueue(t)
    BY <1>1 DEF Ahead, InQueue
  <2> QED
    BY <1>2, <2>1 DEF Ahead, Once, OnePlace
<1>6. \A t \in Tracks : Past(t)' => Past(t) \/ (t = ev /\ ~Given(ev))
  <2>1. wpc' = "policy" => ~Given(ev)
    BY <1>1, <1>2 DEF Once, Marked
  <2> QED
    BY <1>1, <2>1 DEF Past
<1>7. Numbered'
  BY <1>1, <1>2, <1>4, <1>5, <1>6 DEF Once, Numbered
<1>8. OnePlace'
  BY <1>1, <1>4 DEF Once, OnePlace
<1>9. Marked'
  <2> SUFFICES ASSUME NEW t \in Tracks, Given(t)', Ahead(t)' PROVE t.id \in streamed'
    BY DEF Marked
  <2>1. t.id \in streamed /\ t.gen = 0 /\ t # ev
    BY <1>4, <1>5 DEF Once, Marked, Numbered
  <2> QED
    BY <1>1, <1>3, <2>1
<1>10. Unfed'
  BY <1>4, <1>6 DEF Once, Unfed
<1> QED
  BY <1>7, <1>8, <1>9, <1>10 DEF Once

(* The streamer takes the frame it was handed, or does not; then it records     *)
(* some of it.                                                              *)
LEMMA StreamerSteps ==
  ASSUME Typed, Once, FeedStreamer \/ \E rec \in SUBSET Track : StreamFrame(rec)
  PROVE  Once'
<1>1. /\ nextId' = nextId /\ active' = active /\ items' \subseteq items /\ evs' = evs /\ streamed' = streamed
      /\ queue' = queue /\ wpc' = wpc /\ ev' = ev /\ saved' = saved
  BY DEF FeedStreamer, StreamFrame, detector, frame, worker
<1>2. \A t \in Tracks : Given(t)' => Given(t)
  <2> SUFFICES ASSUME NEW t \in Tracks, Given(t)' PROVE Given(t)
    OBVIOUS
  <2>1. CASE FeedStreamer
    <3>1. loop = "feed" /\ loop' # "feed" /\ wav' = wav /\ (feedq' = feedq \/ feedq' = Append(feedq, items))
      BY <2>1 DEF FeedStreamer
    <3>2. (\E i \in DOMAIN Append(feedq, items) : t \in Append(feedq, items)[i])
            => (\E i \in DOMAIN feedq : t \in feedq[i]) \/ t \in items
      BY FramesQueued DEF Typed
    <3> QED
      BY <3>1, <3>2 DEF Given
  <2>2. CASE \E rec \in SUBSET Track : StreamFrame(rec)
    <3>1. PICK rec \in SUBSET Track : StreamFrame(rec)
      BY <2>2
    <3>2. /\ feedq # <<>> /\ rec \subseteq Head(feedq) /\ feedq' = Tail(feedq) /\ wav' = wav \cup rec
          /\ loop' = loop /\ items' = items
      BY <3>1 DEF StreamFrame, frame
    <3>3. /\ (\E i \in DOMAIN Tail(feedq) : t \in Tail(feedq)[i]) => \E i \in DOMAIN feedq : t \in feedq[i]
          /\ t \in Head(feedq) => \E i \in DOMAIN feedq : t \in feedq[i]
      BY <3>2, FramesQueued DEF Typed
    <3> QED
      BY <3>2, <3>3 DEF Given
  <2> QED
    BY <2>1, <2>2
<1>3. NoTwice(queue)'
  BY <1>1 DEF Once, OnePlace
<1>4. \A t \in Tracks : (InQueue(t)' => InQueue(t)) /\ (Works(t)' => Works(t))
  BY <1>1 DEF InQueue, Works
<1>5. \A t \in Tracks : (Ahead(t)' => Ahead(t)) /\ (Past(t)' => Past(t))
  BY <1>1, <1>4 DEF Ahead, Past
<1> QED
  BY <1>1, <1>2, <1>3, <1>4, <1>5, Carried

(* The other steps of the loop, the worker, of Close and of the surroundings     *)
(* move nothing, or drop it.                                                *)
LEMMA OtherSteps ==
  ASSUME Typed, Once,
         \/ FeedCheck \/ EventsCheck \/ CheckPolicy \/ WorkerExit \/ CloseFeed \/ Close
         \/ \E ok \in BOOLEAN : WriteEvent(ok)
         \/ \E p \in Policy : Update(p)
         \/ \E b \in BOOLEAN : Listen(b)
         \/ UNCHANGED vars
  PROVE  Once'
<1>1. /\ nextId' = nextId /\ active' = active /\ items' \subseteq items /\ evs' \subseteq evs
      /\ streamed' = streamed /\ feedq' = feedq /\ wav' = wav /\ queue' = queue
      /\ loop' = "feed" => loop = "feed"
  BY DEF FeedCheck, EventsCheck, CheckPolicy, WorkerExit, CloseFeed, Close, CloseStreamer, CloseQueue,
         CloseReturns, WriteEvent, Update, Listen, vars, detector, frame, streamer, worker
<1>2. /\ wpc' = "check" => wpc = "check" /\ ev' = ev
      /\ wpc' \in {"policy", "write"} => wpc \in {"policy", "write"} /\ ev' = ev
      /\ saved' = saved \/ (wpc = "write" /\ saved' = saved \cup {ev})
  BY DEF FeedCheck, EventsCheck, CheckPolicy, WorkerExit, CloseFeed, Close, CloseStreamer, CloseQueue,
         CloseReturns, WriteEvent, Update, Listen, vars, detector, frame, streamer, worker
<1>3. NoTwice(queue)'
  BY <1>1 DEF Once, OnePlace
<1>4. \A t \in Tracks : (Given(t)' => Given(t)) /\ (InQueue(t)' => InQueue(t)) /\ (Works(t)' => Works(t))
  BY <1>1, <1>2 DEF Given, InQueue, Works
<1>5. \A t \in Tracks : (Ahead(t)' => Ahead(t)) /\ (Past(t)' => Past(t))
  BY <1>1, <1>2, <1>4 DEF Ahead, Past
<1> QED
  BY <1>1, <1>3, <1>4, <1>5, Carried

(* Types are kept by every step.                                             *)
LEMMA TypedStep ==
  ASSUME Typed, [Next]_vars
  PROVE  Typed'
<1> Track \subseteq [gen : Int, id : Int]
  BY DEF Track
<1>1. ASSUME NEW n \in 0 .. MaxId, NEW gone \in SUBSET active, NEW fin \in SUBSET gone,
             NEW fed \in SUBSET Track, Frame(n, gone, fin, fed)
      PROVE  Typed'
  <2>1. {[gen |-> gen, id |-> i] : i \in nextId .. nextId + n - 1} \subseteq Tracks
    BY DEF Typed, Tracks
  <2> QED
    BY <1>1, <2>1 DEF Frame, streamer, worker, Typed, Tracks
<1>2. CASE FeedCheck \/ FeedMark \/ EventsCheck
  BY <1>2 DEF FeedCheck, FeedMark, EventsCheck, detector, streamer, worker, Typed
<1>3. CASE FeedStreamer
  <2>1. Append(feedq, items) \in Seq(SUBSET Tracks)
    BY DEF Typed
  <2> QED
    BY <1>3, <2>1 DEF FeedStreamer, detector, worker, Typed
<1>4. ASSUME NEW t \in evs, SendEvent(t) PROVE Typed'
  <2>1. Append(queue, t) \in Seq(Tracks)
    BY DEF Typed
  <2> QED
    BY <1>4, <2>1 DEF SendEvent, detector, streamer, worker, Typed
<1>5. ASSUME NEW rec \in SUBSET Track, StreamFrame(rec) PROVE Typed'
  <2>1. feedq # <<>> /\ Tail(feedq) \in Seq(SUBSET Tracks)
    BY <1>5 DEF StreamFrame, Typed
  <2> QED
    BY <1>5, <2>1 DEF StreamFrame, detector, frame, worker, Typed, Tracks
<1>6. CASE TakeEvent
  <2>1. Tail(queue) \in Seq(Tracks) /\ Head(queue) \in Tracks
    BY <1>6, EventTaken DEF TakeEvent, Typed
  <2> QED
    BY <1>6, <2>1 DEF TakeEvent, detector, frame, streamer, Typed
<1>7. CASE CheckStreamed \/ CheckPolicy \/ WorkerExit
  BY <1>7 DEF CheckStreamed, CheckPolicy, WorkerExit, detector, frame, streamer, Typed
<1>8. ASSUME NEW ok \in BOOLEAN, WriteEvent(ok) PROVE Typed'
  BY <1>8 DEF WriteEvent, detector, frame, streamer, Typed
<1>9. CASE CloseFeed \/ Close
  BY <1>9 DEF CloseFeed, Close, CloseStreamer, CloseQueue, CloseReturns, detector, frame, streamer, worker, Typed
<1>10. ASSUME NEW p \in Policy, Update(p) PROVE Typed'
  BY <1>10 DEF Update, detector, frame, streamer, worker, Typed
<1>11. CASE ReplaceDetector
  BY <1>11 DEF ReplaceDetector, frame, streamer, worker, Typed
<1>12. ASSUME NEW b \in BOOLEAN, Listen(b) PROVE Typed'
  BY <1>12 DEF Listen, detector, frame, worker, Typed
<1>13. CASE UNCHANGED vars
  BY <1>13 DEF vars, detector, frame, streamer, worker, Typed
<1> QED
  BY <1>1, <1>2, <1>3, <1>4, <1>5, <1>6, <1>7, <1>8, <1>9, <1>10, <1>11, <1>12, <1>13
  DEF Next, Loop, Streamer, Worker

(* Every step keeps the invariant; a second detector ends what depends on ids.  *)
LEMMA OnceNext == OnceInv /\ [Next]_vars => OnceInv'
<1> SUFFICES ASSUME Typed, gen = 0 => Once, [Next]_vars PROVE OnceInv'
  BY DEF OnceInv
<1>1. Typed'
  BY TypedStep
<1>2. gen' = 0 => gen = 0 /\ ~ReplaceDetector
  <2>1. gen' = gen \/ gen' = gen + 1
    BY DEF Next, Loop, Streamer, Worker, Close, Frame, FeedCheck, FeedMark, FeedStreamer, EventsCheck, SendEvent,
           StreamFrame, TakeEvent, CheckStreamed, CheckPolicy, WriteEvent, WorkerExit, CloseFeed, CloseStreamer,
           CloseQueue, CloseReturns, Update, ReplaceDetector, Listen, vars, detector
  <2>2. ReplaceDetector => gen' = gen + 1
    BY DEF ReplaceDetector
  <2> QED
    BY <2>1, <2>2 DEF Typed
<1>3. ASSUME gen = 0, ~ReplaceDetector PROVE Once'
  <2>1. Once
    BY <1>3
  <2>2. ASSUME NEW n \in 0 .. MaxId, NEW gone \in SUBSET active, NEW fin \in SUBSET gone,
               NEW fed \in SUBSET Track, Frame(n, gone, fin, fed)
        PROVE  Once'
    BY <1>3, <2>1, <2>2, FrameStep
  <2>3. CASE FeedMark
    BY <2>1, <2>3, FeedMarkStep
  <2>4. ASSUME NEW t \in evs, SendEvent(t) PROVE Once'
    BY <2>1, <2>4, SendEventStep
  <2>5. CASE TakeEvent
    BY <2>1, <2>5, TakeEventStep
  <2>6. CASE CheckStreamed
    BY <2>1, <2>6, CheckStreamedStep
  <2>7. CASE FeedStreamer \/ Streamer
    BY <2>1, <2>7, StreamerSteps DEF Streamer
  <2>8. CASE \/ FeedCheck \/ EventsCheck \/ CheckPolicy \/ WorkerExit \/ CloseFeed \/ Close
             \/ \E ok \in BOOLEAN : WriteEvent(ok)
             \/ \E p \in Policy : Update(p)
             \/ \E b \in BOOLEAN : Listen(b)
             \/ UNCHANGED vars
    BY <2>1, <2>8, OtherSteps
  <2> QED
    BY <1>3, <2>2, <2>3, <2>4, <2>5, <2>6, <2>7, <2>8 DEF Next, Loop, Worker
<1> QED
  BY <1>1, <1>2, <1>3 DEF OnceInv

(* No track is recorded both by the streamer and from the ring, as long as ids   *)
(* mean one track (FeedSnippets, OnEvents and recordEvent).                   *)
THEOREM RecordedAtMostOnce == Spec => []RecordedOnce
<1>1. Init => OnceInv
  BY DEF Init, OnceInv, Typed, Once, Numbered, OnePlace, Marked, Unfed, Ahead, Past, Given, Works, InQueue, In, NoTwice
<1>2. OnceInv => RecordedOnce
  BY DEF OnceInv, Once, Unfed, Past, Given, Typed, RecordedOnce
<1> QED
  BY <1>1, <1>2, OnceNext, PTL DEF Spec
-----------------------------------------------------------------------------
(* Close goes by steps: the streamer's queue is empty before the streamer is   *)
(* closed, the worker ends with an empty queue that nobody fills any more.     *)
DrainInv ==
  /\ phase \in {"running", "draining", "streamer closed", "waiting", "done"}
  /\ phase \notin {"running", "draining"} => feedq = <<>>
  /\ wpc \in {"idle", "exited"} => ev = NoTrack
  /\ wpc = "exited" => closed /\ queue = <<>>
  /\ phase = "done" => wpc = "exited"

(* The DSP loop, which still runs, adds nothing to queues that are closed.     *)
LEMMA LoopDrains ==
  ASSUME DrainInv, Loop
  PROVE  DrainInv' /\ UNCHANGED <<wav, saved>> /\ UNCHANGED phase
<1>1. UNCHANGED <<phase, wpc, ev, wav, saved>>
  BY DEF Loop, Frame, FeedCheck, FeedMark, FeedStreamer, EventsCheck, SendEvent, streamer, worker
<1>2. phase # "running" => feedq' = feedq
  BY DEF Loop, Frame, FeedCheck, FeedMark, FeedStreamer, EventsCheck, SendEvent, streamer
<1>3. closed => queue' = queue
  BY DEF Loop, Frame, FeedCheck, FeedMark, FeedStreamer, EventsCheck, SendEvent
<1> QED
  BY <1>1, <1>2, <1>3 DEF DrainInv, closed

(* Every step keeps the invariant; once Close has returned it stays so, and     *)
(* nothing is recorded any more.                                            *)
LEMMA DrainStep ==
  ASSUME DrainInv, [Next]_vars
  PROVE  DrainInv' /\ (phase = "done" => phase' = "done" /\ UNCHANGED <<wav, saved>>)
<1>1. CASE Loop
  BY <1>1, LoopDrains
<1>2. CASE Streamer
  BY <1>2 DEF DrainInv, closed, Streamer, StreamFrame, worker
<1>3. CASE TakeEvent
  BY <1>3 DEF DrainInv, closed, TakeEvent, streamer
<1>4. CASE CheckStreamed \/ CheckPolicy \/ (\E ok \in BOOLEAN : WriteEvent(ok))
  BY <1>4 DEF DrainInv, closed, CheckStreamed, CheckPolicy, WriteEvent, streamer
<1>5. CASE WorkerExit
  BY <1>5 DEF DrainInv, closed, WorkerExit, streamer
<1>6. CASE CloseFeed \/ CloseStreamer \/ CloseQueue \/ CloseReturns
  BY <1>6 DEF DrainInv, closed, CloseFeed, CloseStreamer, CloseQueue, CloseReturns, streamer, worker
<1>7. CASE (\E p \in Policy : Update(p)) \/ ReplaceDetector \/ (\E b \in BOOLEAN : Listen(b)) \/ UNCHANGED vars
  BY <1>7 DEF DrainInv, closed, Update, ReplaceDetector, Listen, vars, streamer, worker
<1> QED
  BY <1>1, <1>2, <1>3, <1>4, <1>5, <1>6, <1>7 DEF Next, Worker, Close

(* The safety half of CloseDrains: when Close has returned, every frame and      *)
(* every event that was queued has been handled, the worker is gone, and it     *)
(* stays so, whatever the DSP loop still does; nothing is recorded afterwards.   *)
THEOREM ClosedForGood ==
  Spec => /\ [](phase = "done" => [](phase = "done" /\ Drained))
          /\ [][phase = "done" => UNCHANGED <<wav, saved>>]_vars
<1>1. Init => DrainInv
  BY DEF Init, DrainInv, closed
<1>2. DrainInv /\ [Next]_vars => DrainInv'
  BY DrainStep
<1>3. DrainInv /\ phase = "done" => Drained
  BY DEF DrainInv, Drained
<1>4. DrainInv /\ [Next]_vars /\ phase = "done" => (phase = "done")'
  BY DrainStep
<1>5. DrainInv /\ [Next]_vars => [phase = "done" => UNCHANGED <<wav, saved>>]_vars
  BY DrainStep
<1> QED
  BY <1>1, <1>2, <1>3, <1>4, <1>5, PTL DEF Spec
=============================================================================
