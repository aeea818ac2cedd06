------------------------------ MODULE Streamer ------------------------------
(***************************************************************************)
(* The live-audio and recording streamer of internal/recorder/streamer.go: *)
(* one demodulation session per signal, WAV recordings, listeners attached *)
(* to sessions or held pending, and the goroutines around it:              *)
(*                                                                         *)
(*   - the DSP loop, which feeds one message per frame into a bounded      *)
(*     channel and drops it when the channel is full, and which applies    *)
(*     recorder policy updates between two frames;                         *)
(*   - the streamer's worker, which takes a message and processes its      *)
(*     items one after the other while it holds st.mu;                     *)
(*   - one /ws/audio handler per listener, which subscribes, drains its    *)
(*     channel without any lock, and unsubscribes when it returns;         *)
(*   - main, which closes everything on shutdown while the DSP loop still  *)
(*     runs (its context is cancelled by a later deferred call); a frame   *)
(*     that is sent then panics, which ends the DSP loop's goroutine only: *)
(*     runDSP recovers, with no lock held.                                 *)
(*                                                                         *)
(* The worker's handler is split at the points where a listener's          *)
(* goroutine can run: every other operation needs st.mu and is one step.   *)
(* Time is a Tick between two messages; a frequency is a slot on a small   *)
(* integer grid, 200 kHz being NearHz slots; a demodulator is a member of  *)
(* Modes.  Audio samples, metadata and telemetry are left out.             *)
(***************************************************************************)
EXTENDS Integers, Sequences, FiniteSets

CONSTANTS Ids,          (* tracker ids of signals                              *)
          Subs,         (* subscriber ids, never reused (nextSub)              *)
          Freqs,        (* frequency slots                                     *)
          NearHz,       (* 200 kHz, in slots                                   *)
          Modes,        (* demodulators                                        *)
          StereoModes,  (* the demodulators with two output channels           *)
          DefaultMode,  (* "NFM"                                               *)
          AnyMode,      (* a requested mode of "" or "AUTO"                    *)
          Frames,       (* the sets of signals a frame may carry, in order     *)
          Policies,     (* the recorder policies an update may install         *)
          FeedCap,      (* capacity of feedCh                                  *)
          ChanCap,      (* capacity of a listener's channel                    *)
          RecGrace,     (* ticks a missing signal's recording session is kept  *)
          ListenGrace,  (* the same for a listen-only session                  *)
          DiskFails,    (* whether a directory or file may fail to be created  *)
          NoSession, NotPending

(* What the DSP loop passes for one signal: dsp_loop.go only builds items    *)
(* with an id, a class and a non-empty snippet, so those guards of           *)
(* processFeed never fire.  "ok" is the outcome of MinSNRDb and ClassFilter. *)
Item == [id : Ids, freq : Freqs, mode : Modes, ok : BOOLEAN]

Policy == [enabled : BOOLEAN, record : BOOLEAN]

Session == [freq : Freqs, mode : Modes, listenOnly : BOOLEAN,
            idle : 0 .. ListenGrace + 1]

Request == [freq : Freqs, mode : Modes \cup {AnyMode}]

Chunk == [tag : {"info", "pcm"}, mode : Modes]

ASSUME StreamerAssumption ==
  /\ Freqs \subseteq Int /\ Freqs # {}
  /\ NearHz \in Nat \ {0}
  /\ StereoModes \subseteq Modes
  /\ DefaultMode \in Modes
  /\ AnyMode \notin Modes
  /\ Frames \subseteq Seq(Item)
  /\ Policies \subseteq Policy /\ Policies # {}
  /\ FeedCap \in Nat \ {0} /\ ChanCap \in Nat \ {0}
  /\ RecGrace \in Nat /\ ListenGrace \in Nat
  /\ DiskFails \in BOOLEAN
  /\ NoSession \notin Session
  /\ NotPending \notin Request
-----------------------------------------------------------------------------
VARIABLES policy,     (* st.policy                                            *)
          sess,       (* st.sessions, NoSession where the map has no entry    *)
          audioSubs,  (* the subscribers attached to each session             *)
          pending,    (* st.pendingListens                                    *)
          chan,       (* contents of each subscriber's channel                *)
          chClosed,   (* the subscribers whose channel has been closed        *)
          ws,         (* where each /ws/audio handler is                      *)
          told,       (* the demodulator last announced to each client        *)
          feedCh,     (* the messages queued for the worker                   *)
          onAir,      (* the signals of the DSP loop's current frame          *)
          dsp,        (* its goroutine: "free", "sending" (FeedSnippets is    *)
                      (* past its gate, about to send them) or "gone"         *)
          pc, msg, ix,(* the worker: position, message, index of its item     *)
          phase       (* "running", "closing" (feedCh closed) or "closed"     *)

tables  == <<policy, sess, audioSubs, pending>>
clients == <<chan, chClosed, ws, told>>
worker  == <<pc, msg, ix>>
feeder  == <<feedCh, onAir, dsp>>
vars    == <<tables, clients, worker, feeder, phase>>

Dist(f, g) == IF f >= g THEN f - g ELSE g - f

(* math.Abs(f-g) < 200000                                                   *)
Near(f, g) == Dist(f, g) < NearHz

Channels(m) == IF m \in StereoModes THEN 2 ELSE 1

Live == {id \in Ids : sess[id] # NoSession}

Recording(id) == sess[id] # NoSession /\ ~sess[id].listenOnly

Waiting == {s \in Subs : pending[s] # NotPending}

Attached == UNION {audioSubs[id] : id \in Ids}

RecEnabled == policy.enabled /\ policy.record

HasListeners == Waiting # {} \/ Attached # {}

(* st.mu is held by the worker while it is inside processFeed.              *)
MuFree == pc \in {"idle", "lock"}

(* Mutant: the channel is taken to be unbounded.                            *)
TrySendUnbounded(q, c) == Append(q, c)

(* A send in a select with a default case.                                  *)
TrySend(q, c) == IF Len(q) < ChanCap THEN Append(q, c) ELSE q

Init ==
  /\ policy \in Policies
  /\ sess = [id \in Ids |-> NoSession]
  /\ audioSubs = [id \in Ids |-> {}]
  /\ pending = [s \in Subs |-> NotPending]
  /\ chan = [s \in Subs |-> <<>>]
  /\ chClosed = {}
  /\ ws = [s \in Subs |-> "new"]
  /\ told = [s \in Subs |-> DefaultMode]
  /\ feedCh = <<>> /\ dsp = "free" /\ onAir \in Frames
  /\ pc = "idle" /\ msg = <<>> /\ ix = 0
  /\ phase = "running"
-----------------------------------------------------------------------------
(* The DSP loop.                                                            *)

(* The air changes: signals appear, disappear, drift, are reclassified.     *)
Air ==
  /\ dsp = "free"
  /\ onAir' \in Frames \ {onAir}
  /\ UNCHANGED <<tables, clients, worker, feedCh, dsp, phase>>

(* FeedSnippets up to the release of st.mu.  A frame without items never    *)
(* gets here, nor one that neither a recording nor a listener wants.        *)
FeedGate ==
  /\ dsp = "free" /\ MuFree
  /\ onAir # <<>>
  /\ RecEnabled \/ HasListeners
  /\ dsp' = "sending"
  /\ UNCHANGED <<tables, clients, worker, feedCh, onAir, phase>>

(* The non-blocking send.  On a closed channel it panics, and runDSP, which  *)
(* recovers, returns.                                                       *)
FeedSend ==
  /\ dsp = "sending"
  /\ IF phase = "running"
     THEN /\ dsp' = "free"
          /\ feedCh' = IF Len(feedCh) < FeedCap THEN Append(feedCh, onAir) ELSE feedCh
     ELSE dsp' = "gone" /\ UNCHANGED feedCh
  /\ UNCHANGED <<tables, clients, worker, onAir, phase>>

(* updatePolicy: disabling the recorder turns a recording session with      *)
(* listeners into a listen-only one and closes the others.                  *)
UpdatePolicy(p) ==
  /\ dsp = "free" /\ MuFree /\ p # policy
  /\ policy' = p
  /\ LET disabled == policy.enabled /\ ~p.enabled
     IN  sess' = [id \in Ids |->
           IF ~disabled \/ ~Recording(id) THEN sess[id]
           ELSE IF audioSubs[id] = {} THEN NoSession
           ELSE [sess[id] EXCEPT !.listenOnly = TRUE]]
  /\ UNCHANGED <<audioSubs, pending, clients, worker, feeder, phase>>

(* A second passes.  The worker takes the time once per message.            *)
Tick ==
  /\ MuFree
  /\ sess' = [id \in Ids |->
       IF id \notin Live THEN NoSession
       ELSE [sess[id] EXCEPT !.idle = IF @ > ListenGrace THEN @ ELSE @ + 1]]
  /\ UNCHANGED <<policy, audioSubs, pending, clients, worker, feeder, phase>>
-----------------------------------------------------------------------------
(* The worker.                                                              *)

TakeMessage ==
  /\ pc = "idle" /\ feedCh # <<>>
  /\ msg' = Head(feedCh) /\ feedCh' = Tail(feedCh)
  /\ pc' = "lock" /\ ix' = 0
  /\ UNCHANGED <<tables, clients, onAir, dsp, phase>>

(* processFeed returns at once when nobody wants the message any more.      *)
Begin ==
  /\ pc = "lock"
  /\ IF RecEnabled \/ HasListeners
     THEN pc' = "item" /\ ix' = 1 /\ UNCHANGED msg
     ELSE pc' = "idle" /\ ix' = 0 /\ msg' = <<>>
  /\ UNCHANGED <<tables, clients, feeder, phase>>

(* Mutant: CloseAll holds st.mu while it waits for the worker.               *)
LockWhileRunning == phase = "running" /\ Begin

Lock == Begin

AtItem == pc = "item" /\ ix <= Len(msg)

sig == msg[ix]

(* Mutant: the message was accepted, so the master switch is not read again. *)
NeedsRecordingIfRecording == policy.record /\ sig.ok

NeedsRecording == RecEnabled /\ sig.ok

(* signalHasListenerLocked                                                  *)
NeedsListen ==
  \/ audioSubs[sig.id] # {}
  \/ \E s \in Waiting : Near(sig.freq, pending[s].freq)


(* The modes the pending listeners near the signal ask for.  The code takes *)
(* the first one in the order of a map.                                     *)
Asked == {pending[s].mode : s \in {t \in Waiting : Near(sig.freq, pending[t].freq)}}
           \ {AnyMode}

NextItem == pc' = "item" /\ ix' = ix + 1 /\ UNCHANGED msg

GoTo(p) == pc' = p /\ UNCHANGED <<msg, ix>>

SkipItem ==
  /\ AtItem /\ ~NeedsRecording /\ ~NeedsListen
  /\ NextItem
  /\ UNCHANGED <<tables, clients, feeder, phase>>

(* A session is dropped for another demodulator: its subscribers become     *)
(* pending, with the mode that was asked for.                               *)
RePend(m) ==
  /\ m \in Asked /\ sess[sig.id].mode # m
  /\ pending' = [s \in Subs |->
       IF s \in audioSubs[sig.id] THEN [freq |-> sig.freq, mode |-> m] ELSE pending[s]]
  /\ sess' = [sess EXCEPT ![sig.id] = NoSession]
  /\ audioSubs' = [audioSubs EXCEPT ![sig.id] = {}]
  /\ GoTo("open")
  /\ UNCHANGED <<policy, clients, feeder, phase>>

(* Mutant: a recording session changes its demodulator too.                  *)
SwitchAnyMode(m) ==
  AtItem /\ (NeedsRecording \/ NeedsListen) /\ sig.id \in Live /\ RePend(m)

(* A listen-only session changes its demodulator when a pending listener    *)
(* asks for another.                                                        *)
SwitchMode(m) ==
  /\ AtItem /\ (NeedsRecording \/ NeedsListen)
  /\ sig.id \in Live /\ sess[sig.id].listenOnly
  /\ RePend(m)

(* The session is used as it is when no mode is asked for, when the one     *)
(* that is is its own, or when it records.                                  *)
KeepSession ==
  /\ AtItem /\ (NeedsRecording \/ NeedsListen)
  /\ sig.id \in Live
  /\ \/ Asked = {}
     \/ ~sess[sig.id].listenOnly
     \/ sess[sig.id].mode \in Asked
  /\ GoTo("feed")
  /\ UNCHANGED <<tables, clients, feeder, phase>>

NeedSession ==
  /\ AtItem /\ (NeedsRecording \/ NeedsListen)
  /\ sig.id \notin Live
  /\ GoTo("open")
  /\ UNCHANGED <<tables, clients, feeder, phase>>

(* A session as the item leaves it: its frequency is the item's and it has  *)
(* just been fed.                                                           *)
SessionFor(m, listen) ==
  [freq |-> sig.freq, mode |-> m, listenOnly |-> listen, idle |-> 0]

(* attachPendingListeners: the ones near the signal whose mode the session  *)
(* has; each is sent the session's parameters if its channel has room.      *)
Attaching(m) ==
  {s \in Waiting : /\ pending[s].mode \in {AnyMode, m}
                   /\ Near(sig.freq, pending[s].freq)}

Open(m, listen) ==
  /\ sess' = [sess EXCEPT ![sig.id] = SessionFor(m, listen)]
  /\ audioSubs' = [audioSubs EXCEPT ![sig.id] = @ \cup Attaching(m)]
  /\ pending' = [s \in Subs |-> IF s \in Attaching(m) THEN NotPending ELSE pending[s]]
  /\ chan' = [s \in Subs |-> IF s \in Attaching(m)
                             THEN TrySend(chan[s], [tag |-> "info", mode |-> m])
                             ELSE chan[s]]
  /\ GoTo("feed")
  /\ UNCHANGED <<policy, chClosed, ws, told, feeder, phase>>

OpenRecording ==
  /\ pc = "open" /\ NeedsRecording
  /\ Open(sig.mode, FALSE)

OpenListen(m) ==
  /\ pc = "open" /\ ~NeedsRecording
  /\ m \in IF Asked = {} THEN {sig.mode} ELSE Asked
  /\ Open(m, TRUE)

(* The directory or the WAV file cannot be created.                         *)
OpenFails ==
  /\ DiskFails
  /\ pc = "open" /\ NeedsRecording
  /\ NextItem
  /\ UNCHANGED <<tables, clients, feeder, phase>>

(* Metadata, processSnippet and fanoutPCM.  A stereo session may announce a *)
(* change of its stereo state; a snippet may be too short to yield audio; a *)
(* subscriber whose channel has no room for the audio is removed from the   *)
(* session, and its channel is not closed.                                  *)
FeedSession(announce, audio) ==
  /\ pc = "feed"
  /\ LET m == sess[sig.id].mode
         subs == audioSubs[sig.id]
         afterInfo(s) == IF announce THEN TrySend(chan[s], [tag |-> "info", mode |-> m])
                         ELSE chan[s]
         full == {s \in subs : audio /\ Len(afterInfo(s)) >= ChanCap}
     IN /\ announce => m \in StereoModes
        /\ chan' = [s \in Subs |->
             IF s \notin subs THEN chan[s]
             ELSE IF audio THEN TrySend(afterInfo(s), [tag |-> "pcm", mode |-> m])
             ELSE afterInfo(s)]
        /\ audioSubs' = [audioSubs EXCEPT ![sig.id] = @ \ full]
  /\ sess' = [sess EXCEPT ![sig.id] = SessionFor(@.mode, @.listenOnly)]
  /\ IF sess[sig.id].listenOnly THEN NextItem ELSE GoTo("split")
  /\ UNCHANGED <<policy, pending, chClosed, ws, told, feeder, phase>>

(* Segment split: the recording reached MaxDuration or it did not.  The new *)
(* session takes its demodulator from the signal's class as it is now.      *)
KeepSegment ==
  /\ pc = "split"
  /\ NextItem
  /\ UNCHANGED <<tables, clients, feeder, phase>>

(* Mutant: the subscribers are not handed over to the new segment.           *)
SplitForgetsSubs ==
  /\ pc = "split"
  /\ sess' = [sess EXCEPT ![sig.id] = SessionFor(sig.mode, FALSE)]
  /\ audioSubs' = [audioSubs EXCEPT ![sig.id] = {}]
  /\ NextItem
  /\ UNCHANGED <<policy, pending, clients, feeder, phase>>

SplitSegment ==
  /\ pc = "split"
  /\ sess' = [sess EXCEPT ![sig.id] = SessionFor(sig.mode, FALSE)]
  /\ NextItem
  /\ UNCHANGED <<policy, audioSubs, pending, clients, feeder, phase>>

(* The old segment is closed and the new file cannot be created: the        *)
(* session goes, and its subscribers with it.                               *)
SplitFails ==
  /\ DiskFails
  /\ pc = "split"
  /\ sess' = [sess EXCEPT ![sig.id] = NoSession]
  /\ audioSubs' = [audioSubs EXCEPT ![sig.id] = {}]
  /\ NextItem
  /\ UNCHANGED <<policy, pending, clients, feeder, phase>>

Grace(id) == IF sess[id].listenOnly THEN ListenGrace ELSE RecGrace

(* Mutant: the sweep is for listen-only sessions.                            *)
ExpiredListenOnly ==
  LET seen == {msg[i].id : i \in DOMAIN msg}
  IN  {id \in Live \ seen : sess[id].listenOnly /\ sess[id].idle > Grace(id)}

Expired ==
  LET seen == {msg[i].id : i \in DOMAIN msg}
  IN  {id \in Live \ seen : sess[id].idle > Grace(id)}

(* After the last item: sessions of signals missing for longer than the     *)
(* grace period are closed, with the channels of their subscribers.         *)
Sweep ==
  /\ pc = "item" /\ ix > Len(msg)
  /\ sess' = [id \in Ids |-> IF id \in Expired THEN NoSession ELSE sess[id]]
  /\ chClosed' = chClosed \cup UNION {audioSubs[id] : id \in Expired}
  /\ audioSubs' = [id \in Ids |-> IF id \in Expired THEN {} ELSE audioSubs[id]]
  /\ pc' = "idle" /\ msg' = <<>> /\ ix' = 0
  /\ UNCHANGED <<policy, pending, chan, ws, told, feeder, phase>>
-----------------------------------------------------------------------------
(* The /ws/audio handlers.                                                  *)

(* The sessions SubscribeAudio considers, and the nearest of them.          *)
Matching(m) == {id \in Live : m \in {AnyMode, sess[id].mode}}

Nearest(f, m) ==
  {id \in Matching(m) :
     \A j \in Matching(m) : Dist(sess[id].freq, f) <= Dist(sess[j].freq, f)}

CanSubscribe(s) == ws[s] = "new" /\ phase = "running" /\ MuFree

SubscribeAttached(s, f, m, id) ==
  /\ CanSubscribe(s)
  /\ id \in Nearest(f, m) /\ Near(sess[id].freq, f)
  /\ audioSubs' = [audioSubs EXCEPT ![id] = @ \cup {s}]
  /\ told' = [told EXCEPT ![s] = sess[id].mode]
  /\ ws' = [ws EXCEPT ![s] = "open"]
  /\ UNCHANGED <<policy, sess, pending, chan, chClosed, worker, feeder, phase>>

(* No matching session: defaultAudioInfoForMode is what the client is told. *)
SubscribePending(s, f, m) ==
  /\ CanSubscribe(s)
  /\ \A id \in Nearest(f, m) : ~Near(sess[id].freq, f)
  /\ pending' = [pending EXCEPT ![s] = [freq |-> f, mode |-> m]]
  /\ told' = [told EXCEPT ![s] = IF m = AnyMode THEN DefaultMode ELSE m]
  /\ ws' = [ws EXCEPT ![s] = "open"]
  /\ UNCHANGED <<policy, sess, audioSubs, chan, chClosed, worker, feeder, phase>>

(* One message is taken from the channel and written to the client.         *)
Receive(s) ==
  /\ ws[s] = "open" /\ chan[s] # <<>>
  /\ chan' = [chan EXCEPT ![s] = Tail(@)]
  /\ told' = IF Head(chan[s]).tag = "info"
             THEN [told EXCEPT ![s] = Head(chan[s]).mode] ELSE told
  /\ UNCHANGED <<tables, chClosed, ws, worker, feeder, phase>>

StreamEnded(s) ==
  /\ ws[s] = "open" /\ chan[s] = <<>> /\ s \in chClosed
  /\ ws' = [ws EXCEPT ![s] = "leaving"]
  /\ UNCHANGED <<tables, chan, chClosed, told, worker, feeder, phase>>

(* The client goes away, or a write or a ping to it fails.                  *)
Disconnect(s) ==
  /\ ws[s] = "open"
  /\ ws' = [ws EXCEPT ![s] = "leaving"]
  /\ UNCHANGED <<tables, chan, chClosed, told, worker, feeder, phase>>

(* The handler returns: its client and what it had buffered are gone.        *)
Leave(s) ==
  /\ ws[s] = "leaving" /\ MuFree
  /\ ws' = [ws EXCEPT ![s] = "left"]
  /\ chan' = [chan EXCEPT ![s] = <<>>]
  /\ told' = [told EXCEPT ![s] = DefaultMode]
  /\ UNCHANGED <<policy, sess, worker, feeder, phase>>

CloseIf(s, cond) == chClosed' = IF cond THEN chClosed \cup {s} ELSE chClosed

(* Mutant: the pending map is not looked at.                                 *)
UnsubscribeAttached(s) ==
  /\ Leave(s) /\ CloseIf(s, s \in Attached)
  /\ audioSubs' = [id \in Ids |-> audioSubs[id] \ {s}]
  /\ UNCHANGED pending

(* Mutant: the channel of an attached listener is closed and stays attached. *)
UnsubscribeKeepsAttached(s) ==
  /\ Leave(s) /\ CloseIf(s, s \in Waiting \cup Attached)
  /\ pending' = [pending EXCEPT ![s] = NotPending]
  /\ UNCHANGED audioSubs

(* The deferred UnsubscribeAudio: pending first, then the sessions.         *)
Unsubscribe(s) ==
  /\ Leave(s) /\ CloseIf(s, s \in Waiting \cup Attached)
  /\ pending' = [pending EXCEPT ![s] = NotPending]
  /\ audioSubs' = IF s \in Waiting THEN audioSubs
                  ELSE [id \in Ids |-> audioSubs[id] \ {s}]
-----------------------------------------------------------------------------
(* Shutdown: CloseAll, called by main after the HTTP server has stopped.    *)

CloseFeed ==
  /\ phase = "running"
  /\ phase' = "closing"
  /\ UNCHANGED <<tables, clients, worker, feeder>>

(* The worker has drained the channel and closed st.done.                   *)
CloseAll ==
  /\ phase = "closing" /\ feedCh = <<>> /\ pc = "idle"
  /\ phase' = "closed"
  /\ chClosed' = chClosed \cup Waiting \cup Attached
  /\ sess' = [id \in Ids |-> NoSession]
  /\ audioSubs' = [id \in Ids |-> {}]
  /\ pending' = [s \in Subs |-> NotPending]
  /\ UNCHANGED <<policy, chan, ws, told, worker, feeder>>
-----------------------------------------------------------------------------
Worker ==
  \/ TakeMessage \/ Lock
  \/ SkipItem \/ KeepSession \/ NeedSession
  \/ \E m \in Modes : SwitchMode(m) \/ OpenListen(m)
  \/ OpenRecording \/ OpenFails
  \/ \E announce, audio \in BOOLEAN : FeedSession(announce, audio)
  \/ KeepSegment \/ SplitSegment \/ SplitFails
  \/ Sweep

DSPLoop == FeedGate \/ FeedSend \/ \E p \in Policies : UpdatePolicy(p)

Subscribe(s) ==
  \E f \in Freqs, m \in Modes \cup {AnyMode} :
    \/ SubscribePending(s, f, m)
    \/ \E id \in Ids : SubscribeAttached(s, f, m, id)

Handler(s) ==
  \/ Subscribe(s) \/ Receive(s) \/ StreamEnded(s) \/ Disconnect(s) \/ Unsubscribe(s)

Main == CloseFeed \/ CloseAll

Next ==
  \/ Worker \/ DSPLoop \/ Main \/ Air \/ Tick
  \/ \E s \in Subs : Handler(s)

Spec == Init /\ [][Next]_vars

(* The goroutines run: the worker whenever it can, a handler whenever its   *)
(* channel has something or is closed (a blocked write fails after 500 ms   *)
(* and ends it), main until CloseAll returns.  The DSP loop's FeedSnippets  *)
(* and UnsubscribeAudio compete for st.mu with a worker that keeps taking   *)
(* it, and get it because a sync.Mutex is handed to a waiter that starves;  *)
(* seconds pass whoever holds it.  Nothing is assumed of the air, the       *)
(* clients or the operator.                                                 *)
Fairness ==
  /\ WF_vars(Worker)
  /\ SF_vars(FeedGate)
  /\ WF_vars(FeedSend)
  /\ WF_vars(CloseAll)
  /\ SF_vars(Tick)
  /\ \A s \in Subs : /\ WF_vars(Receive(s) \/ StreamEnded(s))
                     /\ SF_vars(Unsubscribe(s))

FairSpec == Spec /\ Fairness
-----------------------------------------------------------------------------
(* Every variable has the type its declaration in streamer.go gives it; a    *)
(* channel never holds more than its capacity.                               *)
TypeOK ==
  /\ policy \in Policies
  /\ sess \in [Ids -> Session \cup {NoSession}]
  /\ audioSubs \in [Ids -> SUBSET Subs]
  /\ pending \in [Subs -> Request \cup {NotPending}]
  /\ chan \in [Subs -> Seq(Chunk)] /\ \A s \in Subs : Len(chan[s]) <= ChanCap
  /\ chClosed \subseteq Subs
  /\ ws \in [Subs -> {"new", "open", "leaving", "left"}]
  /\ told \in [Subs -> Modes]
  /\ feedCh \in Seq(Frames) /\ Len(feedCh) <= FeedCap
  /\ onAir \in Frames /\ dsp \in {"free", "sending", "gone"}
  /\ pc \in {"idle", "lock", "item", "open", "feed", "split"}
  /\ msg \in Seq(Item) /\ ix \in Nat
  /\ phase \in {"running", "closing", "closed"}

(* A subscriber is in at most one place, the pending map or one session, and *)
(* the streamer only holds channels that are open.  Otherwise fanoutPCM,     *)
(* attachPendingListeners or sendAudioInfo sends on a closed channel, or two *)
(* of UnsubscribeAudio, the sweep and CloseAll close the same channel: both  *)
(* panic, which in the worker's goroutine ends the whole process.            *)
ChannelSafety ==
  /\ \A id, j \in Ids : id # j => audioSubs[id] \cap audioSubs[j] = {}
  /\ Attached \cap Waiting = {}
  /\ (Attached \cup Waiting) \cap chClosed = {}

(* The streamer forgets a listener whose handler has returned: a client that *)
(* left keeps no session fed and HasListeners does not stay true for it.     *)
NoLeakedListener ==
  \A s \in Subs : ws[s] \in {"new", "left"} => s \notin Attached \cup Waiting

(* While the recorder is disabled no session has a WAV file open, whatever   *)
(* message was queued, and whatever policy it was queued under, before the   *)
(* update.                                                                   *)
NothingRecordedWhenDisabled ==
  ~policy.enabled => \A id \in Ids : ~Recording(id)

(* Listeners come and go, and ask for modes, without ever ending a           *)
(* recording: it ends when the recorder is disabled, when its signal is      *)
(* missing for longer than the grace period, when the next segment's file    *)
(* cannot be created, and at shutdown.                                       *)
RecordingEnds ==
  \A id \in Ids :
    Recording(id) /\ ~Recording(id)'
      => \/ ~policy'.enabled
         \/ sess[id].idle > RecGrace
         \/ SplitFails
         \/ phase' = "closed"

RecordingSurvivesListeners == [][RecordingEnds]_vars

(* The streamer lets go of a listener without closing its channel only when  *)
(* that channel was full (fanoutPCM) or the next segment's file could not be *)
(* opened; the handler of such a listener gets neither audio nor an end of   *)
(* stream, and stays until its client leaves.                                *)
Dropped(s) ==
  /\ s \in Attached \cup Waiting
  /\ s \notin (Attached \cup Waiting)'
  /\ s \notin chClosed'

DropsOnlyWhenFull ==
  \A s \in Subs :
    Dropped(s) => Len(chan'[s]) = ChanCap \/ (SplitFails /\ s \in audioSubs[sig.id])

OrphanedOnlyWhenFull == [][DropsOnlyWhenFull]_vars

OnAirIds == {onAir[i].id : i \in DOMAIN onAir}

Wanted == RecEnabled \/ HasListeners

(* "Close sessions for disappeared signals (with grace period)": a signal    *)
(* that stays away loses its session, as long as the streamer is wanted and  *)
(* some other signal is on air to be fed.                                    *)
GoneSignalCloses ==
  \A id \in Ids :
    <>[](id \notin OnAirIds /\ onAir # <<>> /\ Wanted /\ phase = "running")
      => <>[](sess[id] = NoSession)

(* The same without the other signal, as the comment of processFeed has it.  *)
(* The code does not keep this: the sweep runs when something is fed, and a   *)
(* band that falls silent feeds nothing.                                    *)
MissingSignalCloses ==
  \A id \in Ids :
    <>[](id \notin OnAirIds /\ Wanted /\ phase = "running")
      => <>[](sess[id] = NoSession)

(* The session of a signal records in another mode than the listener asks     *)
(* for, or it is in the mode asked for and was there before the listener was  *)
(* near: neither is a session that pending listeners are attached to.         *)
KeptFrom(s, id) ==
  /\ id \in Live
  /\ Recording(id) \/ pending[s].mode = sess[id].mode


(* The client decodes a chunk of audio with as many channels as the chunk    *)
(* has: the last audio_info it received says so.  The code does not keep     *)
(* this: a segment split takes the demodulator of the signal's class as it   *)
(* is now and tells nobody, and an audio_info that finds the channel full is *)
(* dropped.                                                                  *)
FormatAnnounced ==
  \A s \in Subs :
    (ws[s] = "open" /\ chan[s] # <<>> /\ Head(chan[s]).tag = "pcm")
      => Channels(told[s]) = Channels(Head(chan[s]).mode)

(* "CloseAll finalises all sessions and stops the worker goroutine": once     *)
(* main has called it, it does not wait for ever for the worker, nor the      *)
(* worker for it or for a DSP loop that has panicked; afterwards no WAV file  *)
(* is open, nobody waits for audio, and the frames still to come change       *)
(* nothing of it.                                                            *)
ShutdownFinalises ==
  <>[](\/ phase = "running"
       \/ /\ phase = "closed" /\ feedCh = <<>> /\ pc = "idle"
          /\ Live = {} /\ Attached \cup Waiting = {})
=============================================================================
