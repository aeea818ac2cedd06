--------------------------- MODULE StreamerProofs ---------------------------
(* Safety of the streamer for any number of signals, listeners, frequencies *)
(* and modes, and any capacities.                                           *)
EXTENDS Streamer, SequenceTheorems, TLAPS

(* The worker's cursor points at an item of its message.                    *)
Cursor ==
  /\ pc = "item" => ix \in 1 .. Len(msg) + 1
  /\ pc \in {"open", "feed", "split"} => ix \in 1 .. Len(msg)

(* What the worker knows of the session of its item: nothing else may open  *)
(* or close it between two of its steps.                                    *)
Held ==
  /\ pc = "open"  => sess[sig.id] = NoSession
  /\ pc = "feed"  => sess[sig.id] # NoSession
  /\ pc = "split" => Recording(sig.id)

(* Subscribers are attached to sessions that exist, for handlers that have  *)
(* subscribed and not returned.                                             *)
Placed ==
  /\ \A id \in Ids : sess[id] = NoSession => audioSubs[id] = {}
  /\ \A s \in Subs : ws[s] \in {"new", "left"} => s \notin Attached \cup Waiting
  /\ \A s \in Subs : ws[s] = "new" => s \notin chClosed

IInv ==
  /\ TypeOK
  /\ Cursor
  /\ Held
  /\ Placed
  /\ ChannelSafety
  /\ NothingRecordedWhenDisabled
-----------------------------------------------------------------------------
(* The item under the worker's cursor is an item of its message.            *)
LEMMA ItemType ==
  ASSUME TypeOK, Cursor, pc \in {"open", "feed", "split"} \/ AtItem
  PROVE  /\ sig \in Item
         /\ sig.id \in Ids /\ sig.freq \in Freqs /\ sig.mode \in Modes
         /\ sig.ok \in BOOLEAN
         /\ ix \in 1 .. Len(msg)
<1>1. ix \in 1 .. Len(msg)
  BY DEF TypeOK, Cursor, AtItem
<1>2. sig \in Item
  BY <1>1 DEF TypeOK, sig
<1> QED
  BY <1>1, <1>2 DEF Item

(* The session getOrCreateSession makes for the item has the type of one.   *)
LEMMA SessionForType ==
  ASSUME TypeOK, Cursor, pc \in {"open", "feed", "split"},
         NEW m \in Modes, NEW listen \in BOOLEAN
  PROVE  SessionFor(m, listen) \in Session /\ SessionFor(m, listen) # NoSession
  BY ItemType, StreamerAssumption DEF SessionFor, Session

(* The modes pending listeners ask for are demodulators: AUTO is not one.   *)
LEMMA AskedType == ASSUME TypeOK PROVE Asked \subseteq Modes
  BY StreamerAssumption DEF TypeOK, Asked, Waiting, Request

(* What SubscribeAudio and a re-pended session put in the pending map.      *)
LEMMA RequestType ==
  ASSUME NEW f \in Freqs, NEW m \in Modes \cup {AnyMode}
  PROVE  [freq |-> f, mode |-> m] \in Request /\ [freq |-> f, mode |-> m] # NotPending
<1>1. [freq |-> f, mode |-> m] \in Request
  BY DEF Request
<1> QED
  BY <1>1, StreamerAssumption

(* A non-blocking send keeps a listener's channel within its capacity.      *)
LEMMA TrySendType ==
  ASSUME NEW q \in Seq(Chunk), Len(q) <= ChanCap, NEW c \in Chunk
  PROVE  TrySend(q, c) \in Seq(Chunk) /\ Len(TrySend(q, c)) <= ChanCap
  BY StreamerAssumption DEF TrySend

(* Membership in the union of the values of a map (Attached).               *)
LEMMA UnionOf ==
  \A f, s : s \in UNION {f[id] : id \in Ids} <=> \E id \in Ids : s \in f[id]
  OBVIOUS

(* NewStreamer: the initial state satisfies the inductive invariant.        *)
THEOREM InitIInv == Init => IInv
<1> SUFFICES ASSUME Init PROVE IInv
  OBVIOUS
<1>1. TypeOK
  <2>1. <<>> \in Seq(Chunk) /\ <<>> \in Seq(Frames) /\ <<>> \in Seq(Item)
    OBVIOUS
  <2>2. \A s \in Subs : Len(chan[s]) <= ChanCap
    BY StreamerAssumption DEF Init
  <2>3. feedCh \in Seq(Frames) /\ Len(feedCh) <= FeedCap
    BY StreamerAssumption DEF Init
  <2> QED
    BY <2>1, <2>2, <2>3, StreamerAssumption DEF Init, TypeOK
<1>2. Cursor /\ Held
  BY DEF Init, Cursor, Held
<1>3. Attached = {} /\ Waiting = {}
  BY DEF Init, Attached, Waiting
<1>4. Placed /\ ChannelSafety
  BY <1>3 DEF Init, Placed, ChannelSafety
<1>5. NothingRecordedWhenDisabled
  BY DEF Init, NothingRecordedWhenDisabled, Recording
<1> QED
  BY <1>1, <1>2, <1>4, <1>5 DEF IInv

(* What only depends on the tables is kept by the steps that leave them.    *)
TablesKept == UNCHANGED <<tables, chClosed, ws>>

(* A step that leaves the tables alone keeps what is said of them.          *)
LEMMA KeptByOthers ==
  ASSUME Placed, ChannelSafety, NothingRecordedWhenDisabled, TablesKept
  PROVE  (Placed /\ ChannelSafety /\ NothingRecordedWhenDisabled)'
  BY DEF Placed, ChannelSafety, NothingRecordedWhenDisabled, TablesKept, tables,
         Attached, Waiting, Recording

(* The steps of the DSP loop, of the worker between two items and of the    *)
(* clients that leave the tables alone.                                     *)
Quiet ==
  \/ Air \/ FeedGate \/ FeedSend \/ TakeMessage \/ Lock \/ SkipItem
  \/ KeepSession \/ NeedSession \/ OpenFails \/ KeepSegment
  \/ CloseFeed \/ \E s \in Subs : Receive(s)

(* The steps that leave the tables alone keep the inductive invariant.      *)
LEMMA QuietStep == IInv /\ Quiet => IInv'
<1> SUFFICES ASSUME IInv, Quiet PROVE IInv'
  OBVIOUS
<1> USE DEF IInv
<1>1. TablesKept
  BY DEF Quiet, TablesKept, tables, clients, Air, FeedGate, FeedSend, TakeMessage,
         Lock, Begin, SkipItem, KeepSession, NeedSession, OpenFails, KeepSegment,
         CloseFeed, Receive
<1>2. (Placed /\ ChannelSafety /\ NothingRecordedWhenDisabled)'
  BY <1>1, KeptByOthers
<1>3. CASE Air
  BY <1>2, <1>3 DEF Air, TypeOK, Cursor, Held, sig, Recording, tables, clients, worker
<1>4. CASE FeedGate
  BY <1>2, <1>4 DEF FeedGate, TypeOK, Cursor, Held, sig, Recording, tables, clients, worker
<1>5. CASE FeedSend
  <2>1. feedCh' \in Seq(Frames) /\ Len(feedCh') <= FeedCap
    <3>1. feedCh' = feedCh \/ (Len(feedCh) < FeedCap /\ feedCh' = Append(feedCh, onAir))
      BY <1>5 DEF FeedSend
    <3>2. feedCh \in Seq(Frames) /\ Len(feedCh) <= FeedCap /\ onAir \in Frames
      BY DEF TypeOK
    <3> QED
      BY <3>1, <3>2, StreamerAssumption, SMTT(30)
  <2>2. TypeOK' /\ Cursor'
    BY <2>1, <1>5 DEF FeedSend, TypeOK, Cursor, tables, clients, worker
  <2>3. Held'
    BY <1>5 DEF FeedSend, Held, sig, Recording, tables, clients, worker
  <2> QED
    BY <2>2, <2>3, <1>2
<1>6. CASE TakeMessage
  <2>1. Head(feedCh) \in Frames /\ Tail(feedCh) \in Seq(Frames)
        /\ Len(Tail(feedCh)) <= FeedCap
    BY <1>6, StreamerAssumption DEF TypeOK, TakeMessage
  <2> QED
    BY <2>1, <1>2, <1>6, StreamerAssumption
    DEF TakeMessage, TypeOK, Cursor, Held, tables, clients
<1>7. CASE Lock
  <2>1. msg' \in Seq(Item)
    <3>1. msg' = msg \/ msg' = <<>>
      BY <1>7 DEF Lock, Begin
    <3>2. CASE msg' = msg
      BY <3>2 DEF TypeOK
    <3>3. CASE msg' = <<>>
      BY <3>3
    <3> QED
      BY <3>1, <3>2, <3>3
  <2>4. ix' \in Nat
    BY <1>7 DEF Lock, Begin
  <2>2. Cursor' /\ Held'
    BY <1>7 DEF Lock, Begin, TypeOK, Cursor, Held
  <2>3. TypeOK'
    BY <2>1, <2>4, <1>7 DEF Lock, Begin, TypeOK, tables, clients, feeder
  <2> QED
    BY <2>2, <2>3, <1>2
<1>8. CASE SkipItem
  BY <1>2, <1>8
  DEF SkipItem, AtItem, NextItem, TypeOK, Cursor, Held, tables, clients, feeder
<1>9. CASE KeepSession
  BY <1>2, <1>9
  DEF KeepSession, AtItem, GoTo, TypeOK, Cursor, Held, sig, Live, tables, clients, feeder
<1>10. CASE NeedSession
  <2>1. sig.id \in Ids
    BY <1>10, ItemType DEF NeedSession
  <2> QED
    BY <2>1, <1>2, <1>10
    DEF NeedSession, AtItem, GoTo, TypeOK, Cursor, Held, sig, Live, tables, clients, feeder
<1>11. CASE OpenFails
  BY <1>2, <1>11 DEF OpenFails, NextItem, TypeOK, Cursor, Held, tables, clients, feeder
<1>12. CASE KeepSegment
  BY <1>2, <1>12 DEF KeepSegment, NextItem, TypeOK, Cursor, Held, tables, clients, feeder
<1>13. CASE CloseFeed
  BY <1>2, <1>13
  DEF CloseFeed, TypeOK, Cursor, Held, sig, Recording, tables, clients, worker, feeder
<1>14. ASSUME NEW s \in Subs, Receive(s) PROVE IInv'
  <2> DEFINE q == chan[s]
  <2>1. Head(q) \in Chunk /\ Tail(q) \in Seq(Chunk) /\ Len(Tail(q)) <= ChanCap
    <3>1. q \in Seq(Chunk) /\ q # <<>> /\ Len(q) <= ChanCap
      BY <1>14 DEF TypeOK, Receive
    <3> QED
      BY <3>1, StreamerAssumption
  <2>2. Head(chan[s]).mode \in Modes
    BY <2>1 DEF Chunk
  <2>3. TypeOK'
    BY <2>1, <2>2, <1>14 DEF Receive, TypeOK, tables, worker, feeder
  <2> QED
    BY <2>3, <1>2, <1>14 DEF Receive, Cursor, Held, sig, Recording, tables, worker
<1> QED
  BY <1>3, <1>4, <1>5, <1>6, <1>7, <1>8, <1>9, <1>10, <1>11, <1>12, <1>13, <1>14 DEF Quiet

-----------------------------------------------------------------------------
(* The steps that change the tables.                                        *)

LEMMA UpdatePolicyStep == ASSUME NEW p \in Policies, IInv, UpdatePolicy(p) PROVE IInv'
<1> USE DEF IInv
<1> DEFINE disabled == policy.enabled /\ ~p.enabled
<1>1. policy \in Policy /\ p \in Policy /\ policy' = p
  BY StreamerAssumption DEF UpdatePolicy, TypeOK
<1>2. \A id \in Ids :
        \/ sess'[id] = sess[id] /\ (~disabled \/ ~Recording(id))
        \/ disabled /\ Recording(id) /\ sess'[id] = NoSession /\ audioSubs[id] = {}
        \/ /\ disabled /\ Recording(id)
           /\ sess'[id] = [sess[id] EXCEPT !.listenOnly = TRUE]
           /\ sess'[id] \in Session
  BY ZenonT(40) DEF UpdatePolicy, TypeOK, Recording, Session
<1>3. TypeOK'
  <2>1. sess' \in [Ids -> Session \cup {NoSession}]
    BY <1>2 DEF UpdatePolicy, TypeOK
  <2> QED
    BY <2>1, <1>1 DEF UpdatePolicy, TypeOK, clients, worker, feeder
<1>4. Cursor' /\ Held'
  BY DEF UpdatePolicy, MuFree, Cursor, Held, worker
<1>5. Placed' /\ ChannelSafety'
  BY <1>2, StreamerAssumption
  DEF UpdatePolicy, Placed, ChannelSafety, Attached, Waiting, Recording, clients
<1>6. NothingRecordedWhenDisabled'
  BY <1>1, <1>2 DEF NothingRecordedWhenDisabled, Recording, Session
<1> QED
  BY <1>3, <1>4, <1>5, <1>6

(* The passing of time opens and closes no session.                         *)
LEMMA TickKeeps ==
  ASSUME IInv, Tick
  PROVE  \A id \in Ids :
           \/ sess[id] = NoSession /\ sess'[id] = NoSession
           \/ /\ sess[id] \in Session /\ sess'[id] \in Session
              /\ sess'[id].listenOnly = sess[id].listenOnly
<1> USE DEF IInv
<1> TAKE id \in Ids
<1>1. CASE sess[id] = NoSession
  BY <1>1 DEF Tick, Live
<1>2. CASE sess[id] # NoSession
  <2>1. sess[id] \in Session /\ id \in Live
    BY <1>2 DEF TypeOK, Live
  <2> DEFINE n == IF sess[id].idle > ListenGrace THEN sess[id].idle ELSE sess[id].idle + 1
  <2>2. sess'[id] = [sess[id] EXCEPT !.idle = n]
    BY <2>1 DEF Tick
  <2>3. n \in 0 .. ListenGrace + 1
    BY <2>1, StreamerAssumption DEF Session
  <2> HIDE DEF n
  <2> QED
    BY <2>1, <2>2, <2>3 DEF Session
<1> QED
  BY <1>1, <1>2

(* The passing of time keeps the invariant.                                 *)
LEMMA TickStep == IInv /\ Tick => IInv'
<1> SUFFICES ASSUME IInv, Tick PROVE IInv'
  OBVIOUS
<1> USE DEF IInv
<1>1. \A id \in Ids :
        \/ sess[id] = NoSession /\ sess'[id] = NoSession
        \/ /\ sess[id] \in Session /\ sess'[id] \in Session
           /\ sess'[id].listenOnly = sess[id].listenOnly
  BY TickKeeps
<1>2. TypeOK'
  <2>1. sess' \in [Ids -> Session \cup {NoSession}]
    BY <1>1 DEF Tick, TypeOK
  <2> QED
    BY <2>1 DEF Tick, TypeOK, clients, worker, feeder
<1>3. Cursor' /\ Held'
  BY DEF Tick, MuFree, Cursor, Held, worker
<1>4. Placed' /\ ChannelSafety'
  <2>1. \A id \in Ids : sess'[id] = NoSession => sess[id] = NoSession
    BY <1>1, StreamerAssumption
  <2> QED
    BY <2>1 DEF Tick, Placed, ChannelSafety, Attached, Waiting, clients
<1>5. NothingRecordedWhenDisabled'
  BY <1>1, StreamerAssumption DEF Tick, NothingRecordedWhenDisabled, Recording
<1> QED
  BY <1>2, <1>3, <1>4, <1>5

(* A session dropped for another demodulator: its subscribers move from     *)
(* the session to the pending map.                                          *)
LEMMA SwitchModeStep == ASSUME NEW m \in Modes, IInv, SwitchMode(m) PROVE IInv'
<1> USE DEF IInv
<1>1. sig \in Item /\ sig.id \in Ids /\ sig.freq \in Freqs /\ ix \in 1 .. Len(msg)
  BY ItemType DEF SwitchMode
<1>2. [freq |-> sig.freq, mode |-> m] \in Request
  BY <1>1 DEF Request
<1>3. TypeOK'
  BY <1>1, <1>2 DEF SwitchMode, RePend, GoTo, TypeOK, clients, feeder
<1>4. Cursor' /\ Held'
  BY <1>1 DEF SwitchMode, RePend, GoTo, Cursor, Held, sig, TypeOK
<1>5. /\ Attached' \cup Waiting' = Attached \cup Waiting
      /\ Attached' \cap Waiting' = {}
      /\ \A id \in Ids : audioSubs'[id] = IF id = sig.id THEN {} ELSE audioSubs[id]
  BY <1>1, <1>2, StreamerAssumption
  DEF SwitchMode, RePend, Attached, Waiting, TypeOK, ChannelSafety
<1>6. Placed' /\ ChannelSafety'
  BY <1>1, <1>5 DEF SwitchMode, RePend, Placed, ChannelSafety, TypeOK, clients
<1>7. NothingRecordedWhenDisabled'
  BY <1>1 DEF SwitchMode, RePend, NothingRecordedWhenDisabled, Recording, TypeOK
<1> QED
  BY <1>3, <1>4, <1>6, <1>7

(* Opening a session of either kind; a recording only under a policy that   *)
(* records.                                                                 *)
LEMMA OpenStep ==
  ASSUME NEW m \in Modes, NEW listen \in BOOLEAN, IInv, pc = "open",
         listen \/ RecEnabled, Open(m, listen)
  PROVE  IInv'
<1> USE DEF IInv
<1> DEFINE new == SessionFor(m, listen)
           A == Attaching(m)
<1>1. sig \in Item /\ sig.id \in Ids /\ ix \in 1 .. Len(msg) /\ sess[sig.id] = NoSession
  BY ItemType DEF Held
<1>2. new \in Session /\ new # NoSession /\ new.listenOnly = listen
  BY SessionForType DEF SessionFor
<1>3. A \subseteq Waiting
  BY DEF Attaching
<1>4. TypeOK'
  <2>1. \A s \in Subs : chan'[s] \in Seq(Chunk) /\ Len(chan'[s]) <= ChanCap
    <3>1. [tag |-> "info", mode |-> m] \in Chunk
      BY DEF Chunk
    <3> QED
      BY <3>1, TrySendType DEF Open, TypeOK
  <2>2. chan' \in [Subs -> Seq(Chunk)]
    BY <2>1 DEF Open
  <2>3. A \subseteq Subs
    BY <1>3 DEF Waiting
  <2> QED
    BY <1>1, <1>2, <2>1, <2>2, <2>3 DEF Open, GoTo, TypeOK, feeder
<1>5. Cursor' /\ Held'
  BY <1>1, <1>2 DEF Open, GoTo, Cursor, Held, sig, TypeOK
<1>6. \A id \in Ids : audioSubs'[id] = IF id = sig.id THEN audioSubs[id] \cup A
                                       ELSE audioSubs[id]
  BY <1>1 DEF Open, TypeOK
<1>7. Waiting' = Waiting \ A /\ Attached' = Attached \cup A
  <2>1. Waiting' = Waiting \ A
    BY DEF Open, Waiting
  <2>2. Attached' = Attached \cup A
    <3>1. \A s : s \in Attached' <=> \E id \in Ids : s \in audioSubs'[id]
      BY UnionOf DEF Attached
    <3>2. \A s : s \in Attached <=> \E id \in Ids : s \in audioSubs[id]
      BY UnionOf DEF Attached
    <3>3. \A s : s \in Attached' <=> s \in Attached \cup A
      BY <3>1, <3>2, <1>1, <1>6
    <3> QED
      BY <3>3
  <2> QED
    BY <2>1, <2>2
<1>8. Placed'
  BY <1>1, <1>2, <1>3, <1>6, <1>7 DEF Open, Placed, TypeOK
<1>9. ChannelSafety'
  <2>1. \A id \in Ids : audioSubs[id] \subseteq Attached
    BY DEF Attached
  <2> QED
    BY <2>1, <1>1, <1>3, <1>6, <1>7 DEF Open, ChannelSafety
<1>10. NothingRecordedWhenDisabled'
  BY <1>1, <1>2 DEF Open, NothingRecordedWhenDisabled, Recording, RecEnabled, TypeOK
<1> QED
  BY <1>4, <1>5, <1>8, <1>9, <1>10

(* processSnippet and fanoutPCM: subscribers can only be removed.           *)
LEMMA FeedSessionStep ==
  ASSUME NEW announce \in BOOLEAN, NEW audio \in BOOLEAN, IInv,
         FeedSession(announce, audio)
  PROVE  IInv'
<1> USE DEF IInv
<1> DEFINE m == sess[sig.id].mode
           info == [tag |-> "info", mode |-> m]
           pcm == [tag |-> "pcm", mode |-> m]
           afterInfo(s) == IF announce THEN TrySend(chan[s], info) ELSE chan[s]
<1>1. /\ sig \in Item /\ sig.id \in Ids /\ sig.freq \in Freqs /\ ix \in 1 .. Len(msg)
      /\ sess[sig.id] \in Session /\ sess[sig.id] # NoSession
  BY ItemType DEF FeedSession, Held, TypeOK
<1>2. /\ sess'[sig.id] \in Session /\ sess'[sig.id] # NoSession
      /\ sess'[sig.id].listenOnly = sess[sig.id].listenOnly
      /\ \A id \in Ids \ {sig.id} : sess'[id] = sess[id]
      /\ sess' \in [Ids -> Session \cup {NoSession}]
  <2> DEFINE fed == SessionFor(m, sess[sig.id].listenOnly)
  <2>1. sess' = [sess EXCEPT ![sig.id] = fed]
    BY DEF FeedSession
  <2>2. fed \in Session /\ fed.listenOnly = sess[sig.id].listenOnly
    BY <1>1, StreamerAssumption DEF Session, SessionFor
  <2> HIDE DEF fed
  <2> QED
    BY <2>1, <2>2, <1>1, StreamerAssumption DEF TypeOK
<1>9. /\ msg' = msg
      /\ \/ pc' = "item" /\ ix' = ix + 1
         \/ pc' = "split" /\ ix' = ix /\ ~sess[sig.id].listenOnly
  BY DEF FeedSession, NextItem, GoTo
<1>3. \A id \in Ids : audioSubs'[id] \subseteq audioSubs[id]
  BY DEF FeedSession, TypeOK
<1>4. TypeOK'
  <2>1. info \in Chunk /\ pcm \in Chunk
    BY <1>1 DEF Chunk, Session
  <2>2. \A s \in Subs : afterInfo(s) \in Seq(Chunk) /\ Len(afterInfo(s)) <= ChanCap
    BY <2>1, TrySendType DEF TypeOK
  <2>3. \A s \in Subs : chan'[s] \in {chan[s], afterInfo(s), TrySend(afterInfo(s), pcm)}
    BY DEF FeedSession
  <2>4. \A s \in Subs : chan'[s] \in Seq(Chunk) /\ Len(chan'[s]) <= ChanCap
    BY <2>1, <2>2, <2>3, TrySendType, ZenonT(40) DEF TypeOK
  <2>5. chan' \in [Subs -> Seq(Chunk)]
    BY <2>4 DEF FeedSession
  <2>6. audioSubs' \in [Ids -> SUBSET Subs]
    BY <1>3 DEF FeedSession, TypeOK
  <2> QED
    <3>1. pc' \in {"item", "split"} /\ msg' \in Seq(Item) /\ ix' \in Nat
      BY <1>1, <1>9 DEF TypeOK
    <3> QED
      BY <3>1, <1>2, <2>4, <2>5, <2>6 DEF FeedSession, TypeOK, feeder
<1>5. Cursor' /\ Held'
  BY <1>1, <1>2, <1>9 DEF Cursor, Held, Recording, sig
<1>6. Attached' \subseteq Attached /\ Waiting' = Waiting
  BY <1>3, UnionOf DEF FeedSession, Attached, Waiting
<1>7. Placed' /\ ChannelSafety'
  BY <1>2, <1>3, <1>6 DEF FeedSession, Placed, ChannelSafety
<1>8. NothingRecordedWhenDisabled'
  BY <1>1, <1>2 DEF FeedSession, NothingRecordedWhenDisabled, Recording
<1> QED
  BY <1>4, <1>5, <1>7, <1>8

(* A segment split hands the subscribers over to the new segment.           *)
LEMMA SplitSegmentStep == IInv /\ SplitSegment => IInv'
<1> SUFFICES ASSUME IInv, SplitSegment PROVE IInv'
  OBVIOUS
<1> USE DEF IInv
<1> DEFINE new == SessionFor(sig.mode, FALSE)
<1>1. sig \in Item /\ sig.id \in Ids /\ sig.mode \in Modes /\ ix \in 1 .. Len(msg)
  BY ItemType DEF SplitSegment
<1>2. Recording(sig.id) /\ new \in Session /\ new # NoSession
  BY <1>1, SessionForType DEF SplitSegment, Held
<1>3. TypeOK'
  <2>1. sess' \in [Ids -> Session \cup {NoSession}]
    BY <1>1, <1>2 DEF SplitSegment, TypeOK
  <2>2. msg' = msg /\ ix' \in Nat /\ pc' = "item"
    BY <1>1 DEF SplitSegment, NextItem
  <2> QED
    BY <2>1, <2>2 DEF SplitSegment, TypeOK, clients, feeder
<1>4. Cursor' /\ Held'
  BY <1>1 DEF SplitSegment, NextItem, Cursor, Held
<1>5. Placed' /\ ChannelSafety'
  <2>1. \A id \in Ids : sess'[id] = NoSession => sess[id] = NoSession
    <3>1. sess' = [sess EXCEPT ![sig.id] = new]
      BY DEF SplitSegment
    <3> HIDE DEF new
    <3> QED
      BY <3>1, <1>1, <1>2 DEF TypeOK
  <2>2. UNCHANGED <<audioSubs, pending, chClosed, ws>>
    BY DEF SplitSegment, clients
  <2> QED
    BY <2>1, <2>2 DEF Placed, ChannelSafety, Attached, Waiting
<1>6. NothingRecordedWhenDisabled'
  BY <1>1, <1>2 DEF SplitSegment, NothingRecordedWhenDisabled, Recording, TypeOK
<1> QED
  BY <1>3, <1>4, <1>5, <1>6

(* A failed segment split removes the session with its subscribers.         *)
LEMMA SplitFailsStep == IInv /\ SplitFails => IInv'
<1> SUFFICES ASSUME IInv, SplitFails PROVE IInv'
  OBVIOUS
<1> USE DEF IInv
<1>1. sig \in Item /\ sig.id \in Ids /\ ix \in 1 .. Len(msg)
  BY ItemType DEF SplitFails
<1>2. TypeOK'
  BY <1>1 DEF SplitFails, NextItem, TypeOK, clients, feeder
<1>3. Cursor' /\ Held'
  BY <1>1 DEF SplitFails, NextItem, Cursor, Held
<1>4. /\ \A id \in Ids : audioSubs'[id] = IF id = sig.id THEN {} ELSE audioSubs[id]
      /\ \A id \in Ids : sess'[id] = IF id = sig.id THEN NoSession ELSE sess[id]
  BY <1>1 DEF SplitFails, TypeOK
<1>5. Attached' \subseteq Attached /\ Waiting' = Waiting
  BY <1>4, UnionOf DEF SplitFails, Attached, Waiting
<1>6. Placed' /\ ChannelSafety'
  BY <1>4, <1>5 DEF SplitFails, Placed, ChannelSafety, clients
<1>7. NothingRecordedWhenDisabled'
  BY <1>4 DEF SplitFails, NothingRecordedWhenDisabled, Recording
<1> QED
  BY <1>2, <1>3, <1>6, <1>7

(* The sweep closes the channels of the subscribers of what it removes.     *)
LEMMA SweepStep == IInv /\ Sweep => IInv'
<1> SUFFICES ASSUME IInv, Sweep PROVE IInv'
  OBVIOUS
<1> USE DEF IInv
<1> DEFINE gone == UNION {audioSubs[id] : id \in Expired}
<1>1. Expired \subseteq Ids
  BY DEF Expired, Live
<1>2. /\ \A id \in Ids : audioSubs'[id] = IF id \in Expired THEN {} ELSE audioSubs[id]
      /\ \A id \in Ids : sess'[id] = IF id \in Expired THEN NoSession ELSE sess[id]
      /\ chClosed' = chClosed \cup gone
  BY DEF Sweep
<1>3. \A s : s \in gone <=> \E id \in Expired : s \in audioSubs[id]
  OBVIOUS
<1> HIDE DEF gone
<1>4. Attached' = Attached \ gone /\ Waiting' = Waiting
  <2>1. \A s : s \in Attached' <=> \E id \in Ids : s \in audioSubs'[id]
    BY UnionOf DEF Attached
  <2>2. \A s : s \in Attached <=> \E id \in Ids : s \in audioSubs[id]
    BY UnionOf DEF Attached
  <2>3. \A s : s \in Attached' <=> s \in Attached /\ s \notin gone
    BY <2>1, <2>2, <1>1, <1>2, <1>3 DEF ChannelSafety
  <2> QED
    BY <2>3 DEF Sweep, Waiting
<1>5. gone \subseteq Attached /\ gone \subseteq Subs
  BY <1>1, <1>3, UnionOf DEF Attached, TypeOK
<1>6. TypeOK'
  <2>1. <<>> \in Seq(Item)
    OBVIOUS
  <2>2. audioSubs' \in [Ids -> SUBSET Subs] /\ sess' \in [Ids -> Session \cup {NoSession}]
    BY DEF Sweep, TypeOK
  <2> QED
    BY <2>1, <2>2, <1>2, <1>5 DEF Sweep, TypeOK, feeder
<1>7. Cursor' /\ Held'
  BY DEF Sweep, Cursor, Held
<1>8. Placed' /\ ChannelSafety'
  BY <1>2, <1>4, <1>5 DEF Sweep, Placed, ChannelSafety
<1>9. NothingRecordedWhenDisabled'
  BY <1>2 DEF Sweep, NothingRecordedWhenDisabled, Recording
<1> QED
  BY <1>6, <1>7, <1>8, <1>9

(* SubscribeAudio next to a session: the subscriber is new, hence nowhere   *)
(* else, and its channel is open.                                           *)
LEMMA SubscribeAttachedStep ==
  ASSUME NEW s \in Subs, NEW f \in Freqs, NEW m \in Modes \cup {AnyMode}, NEW id \in Ids,
         IInv, SubscribeAttached(s, f, m, id)
  PROVE  IInv'
<1> USE DEF IInv
<1>1. /\ id \in Live /\ sess[id] \in Session /\ sess[id] # NoSession
      /\ ws[s] = "new" /\ s \notin Attached \cup Waiting \cup chClosed
  BY DEF SubscribeAttached, Nearest, Matching, Live, CanSubscribe, TypeOK, Placed
<1>2. TypeOK'
  BY <1>1 DEF SubscribeAttached, TypeOK, Session, worker, feeder
<1>3. Cursor' /\ Held'
  BY DEF SubscribeAttached, CanSubscribe, MuFree, Cursor, Held, worker
<1>4. \A j \in Ids : audioSubs'[j] = IF j = id THEN audioSubs[j] \cup {s} ELSE audioSubs[j]
  BY DEF SubscribeAttached, TypeOK
<1>5. Attached' = Attached \cup {s} /\ Waiting' = Waiting
  <2>1. \A r : r \in Attached' <=> \E j \in Ids : r \in audioSubs'[j]
    BY UnionOf DEF Attached
  <2>2. \A r : r \in Attached <=> \E j \in Ids : r \in audioSubs[j]
    BY UnionOf DEF Attached
  <2>3. \A r : r \in Attached' <=> r \in Attached \cup {s}
    BY <2>1, <2>2, <1>4
  <2> QED
    BY <2>3 DEF SubscribeAttached, Waiting
<1>6. Placed'
  BY <1>1, <1>4, <1>5 DEF SubscribeAttached, Placed, TypeOK
<1>7. ChannelSafety'
  <2>1. \A j \in Ids : s \notin audioSubs[j]
    BY <1>1, UnionOf DEF Attached
  <2> QED
    BY <2>1, <1>1, <1>4, <1>5 DEF SubscribeAttached, ChannelSafety
<1>8. NothingRecordedWhenDisabled'
  BY DEF SubscribeAttached, NothingRecordedWhenDisabled, Recording
<1> QED
  BY <1>2, <1>3, <1>6, <1>7, <1>8

(* SubscribeAudio without a matching session.                               *)
LEMMA SubscribePendingStep ==
  ASSUME NEW s \in Subs, NEW f \in Freqs, NEW m \in Modes \cup {AnyMode},
         IInv, SubscribePending(s, f, m)
  PROVE  IInv'
<1> USE DEF IInv
<1>1. ws[s] = "new" /\ s \notin Attached \cup Waiting \cup chClosed
  BY DEF SubscribePending, CanSubscribe, Placed
<1>2. [freq |-> f, mode |-> m] \in Request /\ [freq |-> f, mode |-> m] # NotPending
  BY RequestType
<1>3. TypeOK'
  <2>1. pending' \in [Subs -> Request \cup {NotPending}]
    BY <1>2 DEF SubscribePending, TypeOK
  <2>2. told' \in [Subs -> Modes]
    <3>1. told' = [told EXCEPT ![s] = DefaultMode] \/ (m \in Modes /\ told' = [told EXCEPT ![s] = m])
      BY DEF SubscribePending
    <3> QED
      BY <3>1, StreamerAssumption DEF TypeOK
  <2> QED
    BY <2>1, <2>2 DEF SubscribePending, TypeOK, worker, feeder
<1>4. Cursor' /\ Held'
  BY DEF SubscribePending, CanSubscribe, MuFree, Cursor, Held, worker
<1>5. Waiting' = Waiting \cup {s} /\ Attached' = Attached
  BY <1>2 DEF SubscribePending, Waiting, Attached, TypeOK
<1>6. Placed' /\ ChannelSafety'
  BY <1>1, <1>5 DEF SubscribePending, Placed, ChannelSafety, TypeOK
<1>7. NothingRecordedWhenDisabled'
  BY DEF SubscribePending, NothingRecordedWhenDisabled, Recording
<1> QED
  BY <1>3, <1>4, <1>6, <1>7

(* A handler that leaves its loop still has its subscriber where it was.    *)
LEMMA LeavingStep ==
  ASSUME NEW s \in Subs, IInv, StreamEnded(s) \/ Disconnect(s)
  PROVE  IInv'
<1> USE DEF IInv
<1>1. /\ ws[s] = "open" /\ ws' = [ws EXCEPT ![s] = "leaving"]
      /\ UNCHANGED <<tables, chan, chClosed, told, worker, feeder, phase>>
  BY DEF StreamEnded, Disconnect
<1>2. TypeOK'
  BY <1>1 DEF TypeOK, tables, worker, feeder
<1>3. Cursor' /\ Held'
  BY <1>1 DEF Cursor, Held, sig, Recording, tables, worker
<1>4. Attached' = Attached /\ Waiting' = Waiting
  BY <1>1 DEF Attached, Waiting, tables
<1>5. Placed' /\ ChannelSafety'
  BY <1>1, <1>4 DEF Placed, ChannelSafety, TypeOK, tables
<1>6. NothingRecordedWhenDisabled'
  BY <1>1 DEF NothingRecordedWhenDisabled, Recording, tables
<1> QED
  BY <1>2, <1>3, <1>5, <1>6

(* UnsubscribeAudio removes the subscriber from the one place it can be in. *)
LEMMA UnsubscribeStep == ASSUME NEW s \in Subs, IInv, Unsubscribe(s) PROVE IInv'
<1> USE DEF IInv
<1>1. \/ s \in Waiting /\ audioSubs' = audioSubs
      \/ s \notin Waiting /\ audioSubs' = [id \in Ids |-> audioSubs[id] \ {s}]
  BY DEF Unsubscribe
<1>2. /\ chClosed \subseteq chClosed' /\ chClosed' \subseteq chClosed \cup {s}
      /\ ws' = [ws EXCEPT ![s] = "left"]
  BY DEF Unsubscribe, CloseIf, Leave
<1>3. /\ Waiting' = Waiting \ {s} /\ Attached' = Attached \ {s}
      /\ \A id \in Ids : audioSubs'[id] \subseteq audioSubs[id]
  <2>1. Waiting' = Waiting \ {s}
    BY DEF Unsubscribe, Waiting, TypeOK
  <2>2. \A id \in Ids : audioSubs'[id] = audioSubs[id] \ {s}
    <3>1. CASE s \in Waiting
      <4>1. \A id \in Ids : s \notin audioSubs[id]
        BY <3>1, UnionOf DEF ChannelSafety, Attached
      <4> QED
        BY <4>1, <3>1, <1>1
    <3>2. CASE s \notin Waiting
      BY <3>2, <1>1
    <3> QED
      BY <3>1, <3>2
  <2>3. \A r : r \in Attached' <=> r \in Attached /\ r # s
    <3>1. \A r : r \in Attached' <=> \E j \in Ids : r \in audioSubs'[j]
      BY UnionOf DEF Attached
    <3>2. \A r : r \in Attached <=> \E j \in Ids : r \in audioSubs[j]
      BY UnionOf DEF Attached
    <3> QED
      BY <3>1, <3>2, <2>2
  <2> QED
    BY <2>1, <2>2, <2>3
<1>4. TypeOK'
  <2>1. audioSubs' \in [Ids -> SUBSET Subs]
    BY <1>1 DEF TypeOK
  <2>2. <<>> \in Seq(Chunk) /\ Len(<<>>) <= ChanCap
    BY StreamerAssumption
  <2>3. chan' \in [Subs -> Seq(Chunk)] /\ \A r \in Subs : Len(chan'[r]) <= ChanCap
    BY <2>2 DEF Unsubscribe, Leave, TypeOK
  <2> QED
    BY <2>1, <2>3, <1>2, StreamerAssumption
    DEF Unsubscribe, Leave, TypeOK, worker, feeder
<1>5. Cursor' /\ Held'
  BY DEF Unsubscribe, Leave, MuFree, Cursor, Held, worker
<1>6. Placed' /\ ChannelSafety'
  BY <1>2, <1>3 DEF Unsubscribe, Leave, Placed, ChannelSafety, TypeOK
<1>7. NothingRecordedWhenDisabled'
  BY DEF Unsubscribe, Leave, NothingRecordedWhenDisabled, Recording
<1> QED
  BY <1>4, <1>5, <1>6, <1>7

(* CloseAll empties the tables and closes every channel they held.          *)
LEMMA CloseAllStep == IInv /\ CloseAll => IInv'
<1> SUFFICES ASSUME IInv, CloseAll PROVE IInv'
  OBVIOUS
<1> USE DEF IInv
<1>1. Attached \cup Waiting \subseteq Subs
  BY UnionOf DEF Attached, Waiting, TypeOK
<1>2. TypeOK'
  BY <1>1 DEF CloseAll, TypeOK, worker, feeder
<1>3. Cursor' /\ Held'
  BY DEF CloseAll, Cursor, Held, worker
<1>4. Attached' = {} /\ Waiting' = {}
  BY DEF CloseAll, Attached, Waiting
<1>5. Placed'
  BY <1>4 DEF CloseAll, Placed
<1>6. ChannelSafety'
  BY <1>4 DEF CloseAll, ChannelSafety
<1>7. NothingRecordedWhenDisabled'
  BY DEF CloseAll, NothingRecordedWhenDisabled, Recording
<1> QED
  BY <1>2, <1>3, <1>5, <1>6, <1>7
-----------------------------------------------------------------------------
(* Every step keeps the inductive invariant: one lemma per action.          *)
LEMMA NextIInv == IInv /\ [Next]_vars => IInv'
<1> SUFFICES ASSUME IInv, [Next]_vars PROVE IInv'
  OBVIOUS
<1>1. CASE Quiet
  BY <1>1, QuietStep
<1>2. ASSUME NEW p \in Policies, UpdatePolicy(p) PROVE IInv'
  BY <1>2, UpdatePolicyStep
<1>3. CASE Tick
  BY <1>3, TickStep
<1>4. ASSUME NEW m \in Modes, SwitchMode(m) PROVE IInv'
  BY <1>4, SwitchModeStep
<1>5. CASE OpenRecording
  <2>1. sig.mode \in Modes
    BY <1>5, ItemType DEF OpenRecording, IInv
  <2> QED
    BY <1>5, <2>1, OpenStep DEF OpenRecording, NeedsRecording
<1>6. ASSUME NEW m \in Modes, OpenListen(m) PROVE IInv'
  BY <1>6, OpenStep DEF OpenListen
<1>7. ASSUME NEW announce \in BOOLEAN, NEW audio \in BOOLEAN, FeedSession(announce, audio)
      PROVE  IInv'
  BY <1>7, FeedSessionStep
<1>8. CASE SplitSegment
  BY <1>8, SplitSegmentStep
<1>9. CASE SplitFails
  BY <1>9, SplitFailsStep
<1>10. CASE Sweep
  BY <1>10, SweepStep
<1>11. ASSUME NEW s \in Subs, Subscribe(s) PROVE IInv'
  <2>1. PICK f \in Freqs, m \in Modes \cup {AnyMode} :
          \/ SubscribePending(s, f, m)
          \/ \E id \in Ids : SubscribeAttached(s, f, m, id)
    BY <1>11 DEF Subscribe
  <2>2. CASE SubscribePending(s, f, m)
    BY <2>2, SubscribePendingStep
  <2>3. ASSUME NEW id \in Ids, SubscribeAttached(s, f, m, id) PROVE IInv'
    BY <2>3, SubscribeAttachedStep
  <2> QED
    BY <2>1, <2>2, <2>3
<1>12. ASSUME NEW s \in Subs, StreamEnded(s) \/ Disconnect(s) PROVE IInv'
  BY <1>12, LeavingStep
<1>13. ASSUME NEW s \in Subs, Unsubscribe(s) PROVE IInv'
  BY <1>13, UnsubscribeStep
<1>14. CASE CloseAll
  BY <1>14, CloseAllStep
<1>15. CASE UNCHANGED vars
  BY <1>15 DEF IInv, TypeOK, Cursor, Held, Placed, ChannelSafety, NothingRecordedWhenDisabled,
     Recording, sig, Attached, Waiting, vars, tables, clients, worker, feeder
<1> QED
  BY <1>1, <1>2, <1>3, <1>4, <1>5, <1>6, <1>7, <1>8, <1>9, <1>10, <1>11, <1>12, <1>13, <1>14,
     <1>15
  DEF Next, Worker, DSPLoop, Main, Handler, Quiet

(* The inductive invariant holds in every state the streamer reaches.       *)
THEOREM InductiveInvariant == Spec => []IInv
  BY InitIInv, NextIInv, PTL DEF Spec

(* Type correctness, with the capacity of every listener's channel and of   *)
(* the feed channel.                                                        *)
THEOREM TypeCorrect == Spec => []TypeOK
  BY InductiveInvariant, PTL DEF IInv

(* No listener's channel is used after it was closed nor closed twice, for  *)
(* any number of listeners, signals and modes.                              *)
THEOREM ChannelsSafe == Spec => []ChannelSafety
  BY InductiveInvariant, PTL DEF IInv

(* The streamer holds no listener whose handler has returned.               *)
THEOREM NoListenerLeaks == Spec => []NoLeakedListener
<1>1. IInv => NoLeakedListener
  BY DEF IInv, Placed, NoLeakedListener
<1> QED
  BY <1>1, InductiveInvariant, PTL

(* Nothing is recorded while the recorder is disabled.                      *)
THEOREM DisabledRecordsNothing == Spec => []NothingRecordedWhenDisabled
  BY InductiveInvariant, PTL DEF IInv

(* A recording ends for one of four reasons, in every step.                 *)
LEMMA RecordingStep ==
  ASSUME IInv, [Next]_vars, NEW id \in Ids, Recording(id), ~Recording(id)'
  PROVE  ~policy'.enabled \/ sess[id].idle > RecGrace \/ SplitFails \/ phase' = "closed"
<1> USE DEF Recording
<1>1. sess' # sess
  OBVIOUS
<1>2. ASSUME NEW p \in Policies, UpdatePolicy(p) PROVE ~policy'.enabled
  BY <1>2 DEF UpdatePolicy
<1>3. CASE Tick
  BY <1>3, TickKeeps, StreamerAssumption
<1>4. ASSUME NEW m \in Modes, SwitchMode(m) PROVE FALSE
  <2>1. sig.id \in Ids
    BY <1>4, ItemType DEF SwitchMode, IInv
  <2>2. sess[sig.id].listenOnly /\ sess' = [sess EXCEPT ![sig.id] = NoSession]
    BY <1>4 DEF SwitchMode, RePend
  <2>3. \A j \in Ids : sess'[j] = IF j = sig.id THEN NoSession ELSE sess[j]
    BY <2>1, <2>2 DEF IInv, TypeOK
  <2>4. sess'[id] = NoSession
    BY <2>3
  <2> QED
    BY <2>2, <2>3, <2>4
<1>5. ASSUME NEW m, NEW listen, pc = "open", Open(m, listen) PROVE FALSE
  BY <1>5 DEF Open, IInv, TypeOK, Held
<1>6. ASSUME NEW announce, NEW audio, FeedSession(announce, audio) PROVE FALSE
  <2>1. sig.id \in Ids /\ sess[sig.id] \in Session /\ sess[sig.id] # NoSession
    BY <1>6, ItemType DEF FeedSession, IInv, Held, TypeOK
  <2>2. sess' = [sess EXCEPT ![sig.id] = SessionFor(@.mode, @.listenOnly)]
    BY <1>6 DEF FeedSession
  <2>3. /\ SessionFor(sess[sig.id].mode, sess[sig.id].listenOnly) # NoSession
        /\ SessionFor(sess[sig.id].mode, sess[sig.id].listenOnly).listenOnly
             = sess[sig.id].listenOnly
    <3>1. sess[sig.id].mode \in Modes /\ sess[sig.id].listenOnly \in BOOLEAN
      BY <2>1 DEF Session
    <3> QED
      BY <3>1, <1>6, SessionForType DEF FeedSession, IInv, SessionFor
  <2> QED
    BY <2>1, <2>2, <2>3 DEF IInv, TypeOK
<1>7. CASE SplitSegment
  <2>1. sig.id \in Ids /\ sig.mode \in Modes
    BY <1>7, ItemType DEF SplitSegment, IInv
  <2>2. SessionFor(sig.mode, FALSE) # NoSession /\ ~SessionFor(sig.mode, FALSE).listenOnly
    BY <2>1, <1>7, SessionForType DEF SplitSegment, IInv, SessionFor
  <2> QED
    BY <2>1, <2>2, <1>7 DEF SplitSegment, IInv, TypeOK
<1>8. CASE Sweep
  BY <1>8 DEF Sweep, Expired, Grace
<1>9. CASE CloseAll
  BY <1>9 DEF CloseAll
<1>10. ASSUME NEW s \in Subs, Handler(s) PROVE FALSE
  BY <1>10, <1>1 DEF Handler, Subscribe, SubscribePending, SubscribeAttached, Receive,
     StreamEnded, Disconnect, Unsubscribe, Leave, tables
<1>11. ASSUME Quiet PROVE FALSE
  BY <1>11, <1>1 DEF Quiet, Air, FeedGate, FeedSend, TakeMessage, Lock, Begin, SkipItem,
     KeepSession, NeedSession, OpenFails, KeepSegment, CloseFeed, Receive, tables
<1>12. CASE OpenRecording
  BY <1>5, <1>12 DEF OpenRecording
<1>13. ASSUME NEW m \in Modes, OpenListen(m) PROVE FALSE
  BY <1>5, <1>13 DEF OpenListen
<1>14. ASSUME UNCHANGED vars PROVE FALSE
  BY <1>14, <1>1 DEF vars, tables
<1> QED
  BY <1>2, <1>3, <1>4, <1>6, <1>7, <1>8, <1>9, <1>10, <1>11, <1>12, <1>13, <1>14
  DEF Next, Worker, DSPLoop, Main, Quiet

(* No listener, whatever it asks for and whenever it comes or goes, ends a  *)
(* recording.                                                               *)
THEOREM RecordingsSurviveListeners == Spec => RecordingSurvivesListeners
<1>1. IInv /\ [Next]_vars => [RecordingEnds]_vars
  BY RecordingStep DEF RecordingEnds
<1> QED
  BY <1>1, InductiveInvariant, PTL DEF Spec, RecordingSurvivesListeners

(* A listener that is let go of without an end of stream.                   *)
LEMMA DropStep ==
  ASSUME IInv, [Next]_vars, NEW s \in Subs, Dropped(s)
  PROVE  Len(chan'[s]) = ChanCap \/ (SplitFails /\ s \in audioSubs[sig.id])
<1> USE DEF Dropped
<1>1. ~UNCHANGED <<audioSubs, pending>>
  BY DEF Attached, Waiting
<1>2. s \in Waiting \/ \E id \in Ids : s \in audioSubs[id]
  BY UnionOf DEF Attached
<1>3. s \notin Waiting' /\ \A id \in Ids : s \notin audioSubs'[id]
  BY UnionOf DEF Attached
<1>4. ASSUME NEW m \in Modes, SwitchMode(m) PROVE FALSE
  <2>1. sig.id \in Ids /\ sig.freq \in Freqs
    BY <1>4, ItemType DEF SwitchMode, IInv
  <2>2. [freq |-> sig.freq, mode |-> m] # NotPending
    BY <2>1, RequestType
  <2>3. /\ audioSubs' = [audioSubs EXCEPT ![sig.id] = {}]
        /\ pending' = [r \in Subs |-> IF r \in audioSubs[sig.id]
                                      THEN [freq |-> sig.freq, mode |-> m] ELSE pending[r]]
    BY <1>4 DEF SwitchMode, RePend
  <2>4. s \notin audioSubs[sig.id] /\ s \notin Waiting
    BY <2>2, <2>3, <1>3 DEF Waiting
  <2> QED
    BY <2>1, <2>3, <2>4, <1>2, <1>3 DEF IInv, TypeOK
<1>5. ASSUME NEW m, NEW listen, pc = "open", Open(m, listen) PROVE FALSE
  <2>1. sig.id \in Ids
    BY <1>5, ItemType DEF IInv
  <2>2. /\ audioSubs' = [audioSubs EXCEPT ![sig.id] = @ \cup Attaching(m)]
        /\ pending' = [r \in Subs |-> IF r \in Attaching(m) THEN NotPending ELSE pending[r]]
    BY <1>5 DEF Open
  <2>3. s \notin Attaching(m)
    BY <2>1, <2>2, <1>3 DEF IInv, TypeOK
  <2> QED
    BY <2>1, <2>2, <2>3, <1>2, <1>3 DEF Waiting, IInv, TypeOK
<1>6. ASSUME NEW announce \in BOOLEAN, NEW audio \in BOOLEAN, FeedSession(announce, audio)
      PROVE  Len(chan'[s]) = ChanCap
  <2> DEFINE m == sess[sig.id].mode
             info == [tag |-> "info", mode |-> m]
             pcm == [tag |-> "pcm", mode |-> m]
             after(r) == IF announce THEN TrySend(chan[r], info) ELSE chan[r]
             full == {r \in audioSubs[sig.id] : audio /\ Len(after(r)) >= ChanCap}
  <2>1. sig.id \in Ids /\ m \in Modes
    BY <1>6, ItemType DEF FeedSession, IInv, Held, TypeOK, Session
  <2>2. /\ audioSubs' = [audioSubs EXCEPT ![sig.id] = @ \ full]
        /\ pending' = pending
        /\ s \in audioSubs[sig.id] /\ audio => chan'[s] = TrySend(after(s), pcm)
    BY <1>6 DEF FeedSession
  <2>3. s \in full
    BY <2>1, <2>2, <1>2, <1>3 DEF Waiting, IInv, TypeOK
  <2>4. info \in Chunk
    BY <2>1 DEF Chunk
  <2>5. after(s) \in Seq(Chunk) /\ Len(after(s)) <= ChanCap
    BY <2>4, TrySendType DEF IInv, TypeOK
  <2>6. Len(after(s)) = ChanCap
    BY <2>3, <2>5, StreamerAssumption
  <2> QED
    <3>1. chan'[s] = TrySend(after(s), pcm)
      BY <2>2, <2>3
    <3> HIDE DEF after, pcm
    <3>2. TrySend(after(s), pcm) = after(s)
      BY <2>6, StreamerAssumption DEF TrySend
    <3> QED
      BY <3>1, <3>2, <2>6
<1>7. CASE SplitFails
  <2>1. sig.id \in Ids
    BY <1>7, ItemType DEF SplitFails, IInv
  <2> QED
    BY <2>1, <1>2, <1>3, <1>7 DEF SplitFails, Waiting, IInv, TypeOK
<1>8. CASE Sweep
  BY <1>2, <1>3, <1>8 DEF Sweep, Waiting
<1>9. CASE CloseAll
  BY <1>9 DEF CloseAll
<1>10. ASSUME NEW r \in Subs, Handler(r) PROVE FALSE
  <2>1. ASSUME Subscribe(r) PROVE FALSE
    <3>1. PICK f \in Freqs, m \in Modes \cup {AnyMode} :
            \/ SubscribePending(r, f, m)
            \/ \E id \in Ids : SubscribeAttached(r, f, m, id)
      BY <2>1 DEF Subscribe
    <3>2. CASE SubscribePending(r, f, m)
      BY <3>2, <1>2, <1>3, RequestType DEF SubscribePending, Waiting, IInv, TypeOK
    <3>3. ASSUME NEW id \in Ids, SubscribeAttached(r, f, m, id) PROVE FALSE
      BY <3>3, <1>2, <1>3 DEF SubscribeAttached, Waiting, IInv, TypeOK
    <3> QED
      BY <3>1, <3>2, <3>3
  <2>2. ASSUME Unsubscribe(r) PROVE FALSE
    <3>1. s # r
      BY <2>2 DEF Unsubscribe, CloseIf
    <3> QED
      BY <3>1, <2>2, <1>2, <1>3 DEF Unsubscribe, Waiting
  <2>3. ASSUME Receive(r) \/ StreamEnded(r) \/ Disconnect(r) PROVE FALSE
    BY <2>3, <1>1 DEF Receive, StreamEnded, Disconnect, tables
  <2> QED
    BY <2>1, <2>2, <2>3, <1>10 DEF Handler
<1>11. ASSUME Quiet PROVE FALSE
  BY <1>11, <1>1 DEF Quiet, Air, FeedGate, FeedSend, TakeMessage, Lock, Begin, SkipItem,
     KeepSession, NeedSession, OpenFails, KeepSegment, CloseFeed, Receive, tables
<1>12. CASE OpenRecording
  BY <1>5, <1>12 DEF OpenRecording
<1>13. ASSUME NEW m \in Modes, OpenListen(m) PROVE FALSE
  BY <1>5, <1>13 DEF OpenListen
<1>14. ASSUME NEW p \in Policies, UpdatePolicy(p) PROVE FALSE
  BY <1>14, <1>1 DEF UpdatePolicy
<1>15. CASE Tick
  BY <1>15, <1>1 DEF Tick
<1>16. CASE SplitSegment
  BY <1>16, <1>1 DEF SplitSegment
<1>17. ASSUME UNCHANGED vars PROVE FALSE
  BY <1>17, <1>1 DEF vars, tables
<1> QED
  BY <1>4, <1>6, <1>7, <1>8, <1>9, <1>10, <1>11, <1>12, <1>13, <1>14, <1>15, <1>16, <1>17
  DEF Next, Worker, DSPLoop, Main, Quiet

(* A listener is only orphaned when its channel is full or the next segment *)
(* of its recording cannot be opened.                                       *)
THEOREM OrphansAreSlow == Spec => OrphanedOnlyWhenFull
<1>1. IInv /\ [Next]_vars => [DropsOnlyWhenFull]_vars
  BY DropStep DEF DropsOnlyWhenFull
<1> QED
  BY <1>1, InductiveInvariant, PTL DEF Spec, OrphanedOnlyWhenFull
=============================================================================
