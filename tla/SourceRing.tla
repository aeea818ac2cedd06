----------------------------- MODULE SourceRing -----------------------------
(***************************************************************************)
(* The ring buffer of internal/sdrplay/sdrplay.go between the driver's     *)
(* callback thread and the DSP loop's ReadIQ, under one mutex with a       *)
(* condition variable.  ReadIQ waits with a deadline: before each wait it  *)
(* arms a timer whose function broadcasts without holding the mutex.       *)
(*                                                                         *)
(* A sample is its number in the order of delivery.  appendRing, which     *)
(* nothing calls, repeats the callback's arithmetic and is left out.       *)
(***************************************************************************)
EXTENDS Integers, Sequences, FiniteSets

CONSTANTS Caps,       (* capSamples for the sample rates in use              *)
          MaxBatch,   (* bound: samples in one callback                      *)
          MaxRead,    (* bound: samples asked for by one ReadIQ              *)
          MaxSample   (* bound: samples delivered                            *)

VARIABLES buf, cap, head, size,  (* the ring                                 *)
          dropped,               (* s.dropped                                *)
          delivered,             (* number of the newest sample              *)
          rpc, n,                (* ReadIQ: where it is, what it asks for    *)
          late,                  (* its deadline has passed                  *)
          timer,                 (* its timer: "off", "armed", or "fired"    *)
                                 (* when nobody was waiting for it           *)
          got,                   (* what it returned last                    *)
          called,                (* a callback is past its look at stopping  *)
          stopping,              (* Stop has set s.stopping                  *)
          params                 (* s.params is not nil                      *)

ring   == <<buf, cap, head, size>>
reader == <<rpc, n, late, timer, got>>
device == <<called, stopping, params>>
vars   == <<ring, dropped, delivered, reader, device>>

Lesser(a, b) == IF a < b THEN a ELSE b

(* The mutex is only kept from one step to the next between the reader's    *)
(* look at the clock and cond.Wait.                                         *)
MuFree == rpc # "armed"

(* cond.Broadcast wakes the reader if it waits; it stops its timer.         *)
Broadcast ==
  IF rpc = "waiting" THEN rpc' = "check" /\ timer' = "off"
  ELSE UNCHANGED <<rpc, timer>>

Init ==
  /\ cap \in Caps /\ buf = [i \in 0 .. cap - 1 |-> 0]
  /\ head = 0 /\ size = 0 /\ dropped = 0 /\ delivered = 0
  /\ rpc = "idle" /\ n = 0 /\ late = FALSE /\ timer = "off" /\ got = <<>>
  /\ called = FALSE /\ stopping = FALSE /\ params = TRUE
-----------------------------------------------------------------------------
(* goStreamCallback.  Of a batch larger than the ring only the newest       *)
(* samples are copied; the oldest in the ring make room.                    *)

(* The ring after the oldest `over` of `left` samples from h on made room   *)
(* for `count` new ones, the last of which has the number newest.           *)
Write(h, left, over, count, newest) ==
  LET h2    == (h + over) % cap
      kept  == left - over
      start == (h2 + kept) % cap
      first == Lesser(count, cap - start)
      num(i) == newest - count + 1 + i
  IN  /\ head' = h2
      /\ size' = kept + count
      /\ buf' = [k \in 0 .. cap - 1 |->
           IF k \in start .. start + first - 1 THEN num(k - start)
           ELSE IF k < count - first THEN num(first + k)
           ELSE buf[k]]

(* Mutant: the ring makes room for the batch before it is cut.               *)
OverUncut(left, count, batch) == IF left + batch > cap THEN left + batch - cap ELSE 0

Over(left, count, batch) == IF left + count > cap THEN left + count - cap ELSE 0

(* The driver calls one callback at a time.                                 *)
CallbackStart ==
  /\ ~called /\ ~stopping
  /\ called' = TRUE
  /\ UNCHANGED <<ring, dropped, delivered, reader, stopping, params>>

Callback(batch, reset) ==
  /\ called /\ MuFree /\ delivered + batch <= MaxSample
  /\ called' = FALSE
  /\ delivered' = delivered + batch
  /\ LET count == Lesser(batch, cap)
         h     == IF reset THEN 0 ELSE head
         left  == IF reset THEN 0 ELSE size
         over  == Over(left, count, batch)
     IN  /\ Write(h, left, over, count, delivered + batch)
         /\ dropped' = dropped + (batch - count) + over
  /\ Broadcast
  /\ UNCHANGED <<cap, n, late, got, stopping, params>>
-----------------------------------------------------------------------------
(* ReadIQ.                                                                  *)

ReadStart(count) ==
  /\ rpc = "idle"
  /\ rpc' = "check" /\ n' = count /\ late' = FALSE
  /\ UNCHANGED <<ring, dropped, delivered, timer, got, device>>

(* Mutant: the read asks the clock only once, when it starts.                *)
ReadArmOnce ==
  /\ rpc = "check" /\ size < n /\ ~late
  /\ rpc' = "armed" /\ UNCHANGED timer
  /\ UNCHANGED <<ring, dropped, delivered, n, late, got, device>>

NextHead(h, count) == (h + count) % cap

ReadDone ==
  /\ rpc = "check" /\ size >= n
  /\ got' = [i \in 1 .. n |-> buf[(head + i - 1) % cap]]
  /\ head' = NextHead(head, n) /\ size' = size - n
  /\ rpc' = "idle" /\ n' = 0
  /\ UNCHANGED <<buf, cap, dropped, delivered, late, timer, device>>

ReadTimeout ==
  /\ rpc = "check" /\ size < n /\ late
  /\ rpc' = "idle" /\ n' = 0
  /\ UNCHANGED <<ring, dropped, delivered, late, timer, got, device>>

(* remaining > 0: the timer is armed.                                       *)
ReadArm ==
  /\ rpc = "check" /\ size < n /\ ~late
  /\ rpc' = "armed" /\ timer' = "armed"
  /\ UNCHANGED <<ring, dropped, delivered, n, late, got, device>>

(* cond.Wait joins the list of waiters and releases the mutex.              *)
ReadWait ==
  /\ rpc = "armed"
  /\ rpc' = "waiting"
  /\ UNCHANGED <<ring, dropped, delivered, n, late, timer, got, device>>

(* Five seconds have passed since ReadIQ was called.                        *)
Expire ==
  /\ rpc # "idle" /\ ~late
  /\ late' = TRUE
  /\ UNCHANGED <<ring, dropped, delivered, rpc, n, timer, got, device>>

(* The timer's function takes no lock: its broadcast may come after the      *)
(* reader has looked at the clock and before it waits, and wakes nobody.     *)
TimerFires ==
  /\ timer = "armed" /\ late
  /\ IF rpc = "waiting" THEN rpc' = "check" /\ timer' = "off"
     ELSE timer' = "fired" /\ UNCHANGED rpc
  /\ UNCHANGED <<ring, dropped, delivered, n, late, got, device>>
-----------------------------------------------------------------------------
(* Flush, UpdateConfig's resizeBuffer, and Stop, which waits for the        *)
(* mutex between its two assignments.  Flush broadcasts after it has        *)
(* released the mutex; as the ring is empty then, a reader it wakes only    *)
(* looks at the clock again.                                                *)

Flush ==
  /\ MuFree
  /\ head' = 0 /\ size' = 0
  /\ Broadcast
  /\ UNCHANGED <<buf, cap, dropped, delivered, n, late, got, device>>

OldSample(i) == buf[(head + i) % cap]

ResizeBuffer(c) ==
  /\ MuFree /\ params /\ c # cap
  /\ LET kept == Lesser(size, c)
     IN  /\ buf' = [i \in 0 .. c - 1 |-> IF i < kept THEN OldSample(i) ELSE 0]
         /\ size' = kept
  /\ cap' = c /\ head' = 0
  /\ UNCHANGED <<dropped, delivered, reader, device>>

StopMark ==
  /\ ~stopping
  /\ stopping' = TRUE
  /\ UNCHANGED <<ring, dropped, delivered, reader, called, params>>

StopRelease ==
  /\ MuFree /\ stopping /\ params
  /\ params' = FALSE
  /\ UNCHANGED <<ring, dropped, delivered, reader, called, stopping>>
-----------------------------------------------------------------------------
ReadIQ == ReadDone \/ ReadTimeout \/ ReadArm \/ ReadWait

Next ==
  \/ CallbackStart
  \/ \E batch \in 1 .. MaxBatch, reset \in BOOLEAN : Callback(batch, reset)
  \/ \E count \in 1 .. MaxRead : ReadStart(count)
  \/ ReadIQ \/ Expire \/ TimerFires
  \/ Flush \/ StopMark \/ StopRelease
  \/ \E c \in Caps : ResizeBuffer(c)

Spec == Init /\ [][Next]_vars

(* The DSP loop runs, time passes and the timer's function is called; the   *)
(* device may fall silent.                                                  *)
FairSpec == Spec /\ WF_vars(ReadIQ) /\ WF_vars(Expire) /\ WF_vars(TimerFires)
-----------------------------------------------------------------------------
(* Every variable has the type its declaration gives it and the ring's      *)
(* cursor and size stay within the buffer.                                  *)
TypeOK ==
  /\ cap \in Caps /\ buf \in [0 .. cap - 1 -> Nat]
  /\ head \in 0 .. cap - 1 /\ size \in 0 .. cap
  /\ dropped \in Nat /\ delivered \in 0 .. MaxSample
  /\ rpc \in {"idle", "check", "armed", "waiting"} /\ n \in 0 .. MaxRead
  /\ late \in BOOLEAN /\ timer \in {"off", "armed", "fired"}
  /\ called \in BOOLEAN /\ stopping \in BOOLEAN /\ params \in BOOLEAN
  /\ got \in Seq(Nat)

(* The samples in the ring, oldest first.                                   *)
Content == [i \in 1 .. size |-> buf[(head + i - 1) % cap]]

(* The ring is the queue of samples SourceStream describes: whatever wraps, *)
(* overflows, is resized or flushed while a read waits, a read returns the  *)
(* queue's oldest samples, in order, and the counter counts what an         *)
(* overflow threw away.                                                     *)
Stream == INSTANCE SourceStream WITH content <- Content, asked <- n

ImplementsStream == Stream!Spec

(* The reader waits for a broadcast of its timer that has already been.      *)
Missed == rpc = "waiting" /\ timer = "fired"

(* ReadIQ returns, with samples or with "timeout waiting for IQ samples",   *)
(* on which the DSP loop restarts the source; also when the device is       *)
(* silent.  One case is left: the timer fired between the reader's look at   *)
(* the clock and its wait, and neither a callback nor Flush ever broadcasts  *)
(* again.                                                                   *)
ReadReturns == []<>(rpc = "idle") \/ <>[]Missed
=============================================================================
