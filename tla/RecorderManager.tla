--------------------------- MODULE RecorderManager ---------------------------
(***************************************************************************)
(* The recorder manager of internal/recorder/recorder.go: it hands every   *)
(* frame's snippets to the streamer, which may record them as they come,   *)
(* and records the events the tracker has finished after the fact, from    *)
(* the IQ ring.  A signal the streamer was fed is marked in streamedIDs    *)
(* so that its event is not recorded a second time.                        *)
(*                                                                         *)
(*   - the DSP loop runs a frame: the detector, FeedSnippets, OnEvents;    *)
(*     between two frames it applies a policy update or replaces the       *)
(*     detector, whose track ids then start again at 1;                    *)
(*   - the worker takes events from the bounded queue (recordEvent);       *)
(*   - main closes the manager on shutdown, while the DSP loop still runs: *)
(*     what that sends to a closed queue panics, which ends its goroutine  *)
(*     only, as runDSP recovers; no lock is held then.                     *)
(*                                                                         *)
(* The streamer is what module Streamer details, as its caller sees it: a  *)
(* bounded queue of frames, each recorded if the recorder is enabled when  *)
(* the frame is processed and the signal qualifies.                        *)
(***************************************************************************)
EXTENDS Integers, Sequences, FiniteSets

CONSTANTS MaxGen,     (* bound: detectors built after the first              *)
          MaxId,      (* bound: tracks of one detector                       *)
          QueueCap,   (* capacity of the event queue (64)                    *)
          FeedCap,    (* capacity of the streamer's queue                    *)
          NoTrack

(* A track is a signal as one detector follows it; the rest of the program  *)
(* knows it by its id.                                                      *)
Track == [gen : 0 .. MaxGen, id : 1 .. MaxId]

Policy == [enabled : BOOLEAN, record : BOOLEAN]
-----------------------------------------------------------------------------
VARIABLES gen, nextId, active,  (* the detector: which one, nextID, active    *)
          loop, items, evs,     (* the DSP loop: where, what it feeds, events *)
          policy,               (* m.policy                                   *)
          listening,            (* the streamer has a listener                *)
          streamed,             (* m.streamedIDs                              *)
          feedq,                (* the streamer's queue                       *)
          wav,                  (* the tracks the streamer has recorded       *)
          queue,                (* m.queue                                    *)
          wpc, ev,              (* the worker: position and event             *)
          saved,                (* the tracks recorded from the ring          *)
          phase                 (* how far Close is                           *)

detector == <<gen, nextId, active>>
frame    == <<loop, items, evs>>
streamer == <<listening, feedq, wav>>
worker   == <<wpc, ev, saved>>
vars     == <<detector, frame, policy, streamed, streamer, queue, worker, phase>>

RecEnabled == policy.enabled /\ policy.record

(* m.closed, set under m.mu together with close(m.queue).                   *)
closed == phase \in {"waiting", "done"}

Init ==
  /\ gen = 0 /\ nextId = 1 /\ active = {}
  /\ loop = "top" /\ items = {} /\ evs = {}
  /\ policy \in Policy /\ listening \in BOOLEAN
  /\ streamed = {} /\ feedq = <<>> /\ wav = {}
  /\ queue = <<>> /\ wpc = "idle" /\ ev = NoTrack /\ saved = {}
  /\ phase = "running"
-----------------------------------------------------------------------------
(* The DSP loop.                                                            *)

(* One frame of the detector.  Signals appear and are given the next ids;   *)
(* tracks end, the mature ones as finished events.  Of the tracks that      *)
(* remain some have a class and a snippet and are fed.                      *)
Frame(n, gone, fin, fed) ==
  /\ loop = "top"
  /\ nextId + n <= MaxId + 1
  /\ LET born == {[gen |-> gen, id |-> i] : i \in nextId .. nextId + n - 1}
     IN  active' = (active \ gone) \cup born
  /\ gone \subseteq active /\ fin \subseteq gone /\ fed \subseteq active'
  /\ nextId' = nextId + n
  /\ items' = fed /\ evs' = fin
  /\ loop' = IF fed # {} THEN "closed?" ELSE "enabled?"
  /\ UNCHANGED <<gen, policy, streamed, streamer, queue, worker, phase>>

(* FeedSnippets reads m.closed and releases m.mu.                           *)
FeedCheck ==
  /\ loop = "closed?"
  /\ loop' = IF closed THEN "enabled?" ELSE "mark"
  /\ UNCHANGED <<detector, items, evs, policy, streamed, streamer, queue, worker, phase>>

(* Mutant: only the signals that are recorded right now are marked.          *)
FeedMarkEnabled ==
  /\ loop = "mark"
  /\ streamed' = IF policy.enabled THEN streamed \cup {t.id : t \in items} ELSE streamed
  /\ loop' = "feed"
  /\ UNCHANGED <<detector, items, evs, policy, streamer, queue, worker, phase>>

FeedMark ==
  /\ loop = "mark"
  /\ streamed' = streamed \cup {t.id : t \in items}
  /\ loop' = "feed"
  /\ UNCHANGED <<detector, items, evs, policy, streamer, queue, worker, phase>>

(* The streamer takes the frame, drops it because nobody wants it or its    *)
(* queue is full, or its queue has been closed: the send panics and runDSP,  *)
(* which recovers, returns.                                                 *)
FeedStreamer ==
  /\ loop = "feed"
  /\ LET wanted == RecEnabled \/ listening IN
       /\ feedq' = IF wanted /\ phase = "running" /\ Len(feedq) < FeedCap
                   THEN Append(feedq, items) ELSE feedq
       /\ loop' = IF wanted /\ phase # "running" THEN "gone" ELSE "enabled?"
  /\ items' = {}
  /\ UNCHANGED <<detector, evs, policy, streamed, listening, wav, queue, worker, phase>>

(* OnEvents reads policy.Enabled and m.closed and releases m.mu.            *)
EventsCheck ==
  /\ loop = "enabled?"
  /\ IF evs # {} /\ policy.enabled /\ ~closed
     THEN loop' = "events" /\ UNCHANGED evs
     ELSE loop' = "top" /\ evs' = {}
  /\ items' = {}
  /\ UNCHANGED <<detector, policy, streamed, streamer, queue, worker, phase>>

(* The non-blocking send of one finished event; on a closed queue it panics. *)
SendEvent(t) ==
  /\ loop = "events" /\ t \in evs
  /\ evs' = evs \ {t}
  /\ loop' = IF closed THEN "gone" ELSE IF evs' = {} THEN "top" ELSE "events"
  /\ queue' = IF ~closed /\ Len(queue) < QueueCap THEN Append(queue, t) ELSE queue
  /\ UNCHANGED <<detector, items, policy, streamed, streamer, worker, phase>>

(* A policy update, and a detector rebuilt by applyUpdate: its active       *)
(* tracks end without an event.                                             *)
Update(p) ==
  /\ loop = "top" /\ p # policy
  /\ policy' = p
  /\ UNCHANGED <<detector, frame, streamed, streamer, queue, worker, phase>>

ReplaceDetector ==
  /\ loop = "top" /\ gen < MaxGen
  /\ gen' = gen + 1 /\ nextId' = 1 /\ active' = {}
  /\ UNCHANGED <<frame, policy, streamed, streamer, queue, worker, phase>>
-----------------------------------------------------------------------------
(* The streamer.  Listeners come and go until CloseAll has run.             *)

Listen(b) ==
  /\ phase = "running" /\ listening' = b /\ b # listening
  /\ UNCHANGED <<detector, frame, policy, streamed, feedq, wav, queue, worker, phase>>

(* processFeed: rec is the set of the frame's signals whose session writes. *)
StreamFrame(rec) ==
  /\ feedq # <<>>
  /\ rec \subseteq Head(feedq) /\ (rec = {} \/ RecEnabled)
  /\ feedq' = Tail(feedq)
  /\ wav' = wav \cup rec
  /\ UNCHANGED <<detector, frame, policy, streamed, listening, queue, worker, phase>>
-----------------------------------------------------------------------------
(* The worker (recordEvent).                                                *)

TakeEvent ==
  /\ wpc = "idle" /\ queue # <<>>
  /\ ev' = Head(queue) /\ queue' = Tail(queue)
  /\ wpc' = "check"
  /\ UNCHANGED <<detector, frame, policy, streamed, streamer, saved, phase>>

(* The mark is deleted whether or not it is there.                          *)
CheckStreamed ==
  /\ wpc = "check"
  /\ streamed' = streamed \ {ev.id}
  /\ IF ev.id \in streamed THEN wpc' = "idle" /\ ev' = NoTrack
     ELSE wpc' = "policy" /\ UNCHANGED ev
  /\ UNCHANGED <<detector, frame, policy, streamer, queue, saved, phase>>

(* The policy is copied; then SNR, duration and class filters.              *)
CheckPolicy ==
  /\ wpc = "policy"
  /\ \/ wpc' = "idle" /\ ev' = NoTrack
     \/ RecEnabled /\ wpc' = "write" /\ UNCHANGED ev
  /\ UNCHANGED <<detector, frame, policy, streamed, streamer, queue, saved, phase>>

(* The ring is sliced and the files are written.  The samples may have left *)
(* the ring, and the directory or a file may fail.                          *)
WriteEvent(ok) ==
  /\ wpc = "write"
  /\ saved' = IF ok THEN saved \cup {ev} ELSE saved
  /\ wpc' = "idle" /\ ev' = NoTrack
  /\ UNCHANGED <<detector, frame, policy, streamed, streamer, queue, phase>>

(* Mutant: the worker stops at once when the manager is closed.              *)
WorkerStops ==
  /\ wpc = "idle" /\ closed
  /\ wpc' = "exited"
  /\ UNCHANGED <<detector, frame, policy, streamed, streamer, queue, ev, saved, phase>>

(* The range over the closed queue ends when it is empty.                   *)
WorkerExit ==
  /\ wpc = "idle" /\ queue = <<>> /\ closed
  /\ wpc' = "exited"
  /\ UNCHANGED <<detector, frame, policy, streamed, streamer, queue, ev, saved, phase>>
-----------------------------------------------------------------------------
(* Close.                                                                   *)

CloseFeed ==
  /\ phase = "running"
  /\ phase' = "draining"
  /\ UNCHANGED <<detector, frame, policy, streamed, streamer, queue, worker>>

(* The streamer has drained its queue; it lets go of its listeners.         *)
CloseStreamer ==
  /\ phase = "draining" /\ feedq = <<>>
  /\ phase' = "streamer closed" /\ listening' = FALSE
  /\ UNCHANGED <<detector, frame, policy, streamed, feedq, wav, queue, worker>>

CloseQueue ==
  /\ phase = "streamer closed"
  /\ phase' = "waiting"
  /\ UNCHANGED <<detector, frame, policy, streamed, streamer, queue, worker>>

(* workerWG.Wait()                                                          *)
CloseReturns ==
  /\ phase = "waiting" /\ wpc = "exited"
  /\ phase' = "done"
  /\ UNCHANGED <<detector, frame, policy, streamed, streamer, queue, worker>>
-----------------------------------------------------------------------------
Loop ==
  \/ \E n \in 0 .. MaxId, gone \in SUBSET active :
       \E fin \in SUBSET gone, fed \in SUBSET Track : Frame(n, gone, fin, fed)
  \/ FeedCheck \/ FeedMark \/ FeedStreamer \/ EventsCheck
  \/ \E t \in evs : SendEvent(t)

Streamer == \E rec \in SUBSET Track : StreamFrame(rec)

Worker ==
  \/ TakeEvent \/ CheckStreamed \/ CheckPolicy
  \/ \E ok \in BOOLEAN : WriteEvent(ok)
  \/ WorkerExit

Close == CloseStreamer \/ CloseQueue \/ CloseReturns

Next ==
  \/ Loop \/ Streamer \/ Worker \/ CloseFeed \/ Close
  \/ \E p \in Policy : Update(p)
  \/ ReplaceDetector
  \/ \E b \in BOOLEAN : Listen(b)

Spec == Init /\ [][Next]_vars

(* The goroutines run; updates, listeners and the order to stop need not    *)
(* come.                                                                    *)
FairSpec ==
  /\ Spec
  /\ WF_vars(Loop) /\ WF_vars(Streamer) /\ WF_vars(Worker) /\ WF_vars(Close)
-----------------------------------------------------------------------------
(* Every variable has the type its declaration gives it; the two queues     *)
(* never exceed their capacities.                                           *)
TypeOK ==
  /\ gen \in 0 .. MaxGen /\ nextId \in 1 .. MaxId + 1 /\ active \subseteq Track
  /\ loop \in {"top", "closed?", "mark", "feed", "enabled?", "events", "gone"}
  /\ items \subseteq Track /\ evs \subseteq Track
  /\ policy \in Policy /\ listening \in BOOLEAN
  /\ streamed \subseteq 1 .. MaxId
  /\ feedq \in Seq(SUBSET Track) /\ Len(feedq) <= FeedCap
  /\ wav \subseteq Track /\ saved \subseteq Track
  /\ queue \in Seq(Track) /\ Len(queue) <= QueueCap
  /\ wpc \in {"idle", "check", "policy", "write", "exited"}
  /\ ev \in Track \cup {NoTrack}
  /\ phase \in {"running", "draining", "streamer closed", "waiting", "done"}

(* A track is not recorded twice, by the streamer and from the ring,        *)
(* whatever is queued on the way to either (recordEvent's purpose in        *)
(* looking at streamedIDs), until a new detector uses the ids again.         *)
RecordedOnce == gen = 0 => wav \cap saved = {}

(* What Close leaves behind.                                                *)
Drained == feedq = <<>> /\ queue = <<>> /\ wpc = "exited" /\ ev = NoTrack

(* Close, once called, returns, though a DSP loop that panics or goes on with *)
(* its frames comes between any two of its steps, and what it leaves stays as *)
(* it is: every frame and every event that was queued has been handled, the  *)
(* worker is gone and nothing is recorded any more.                          *)
CloseDrains == <>[](phase = "running" \/ (phase = "done" /\ Drained))

(* "Skip events that were already recorded via streaming": an event that    *)
(* recordEvent skips belongs to a track the streamer has been given and has *)
(* recorded or still has queued.                                            *)
Skips == wpc = "check" /\ wpc' = "idle"

Streaming(t) == t \in wav \/ \E i \in DOMAIN feedq : t \in feedq[i]

SkippedWereRecorded == [][Skips => Streaming(ev)]_vars
=============================================================================
