------------------------------ MODULE RingProofs ------------------------------
(***************************************************************************)
(* That the ring of the SDRplay source is the bounded queue of SourceStream *)
(* for rings, batches and reads of any size; and, below, that the rings of  *)
(* the extractor's output buffers are deep enough for the messages that are *)
(* in flight, for any number of signals, lengths and frames.                *)
(***************************************************************************)
EXTENDS SourceRing, SequenceTheorems, TLAPS

(* A ring holds at least one sample: resizeBuffer makes none of less than     *)
(* 4096.                                                                    *)
Sized ==
  /\ Caps \subseteq Nat \ {0}
  /\ MaxBatch \in Nat /\ MaxRead \in Nat /\ MaxSample \in Nat

(* A read asks for something exactly while it is under way.                  *)
RingInv == TypeOK /\ (rpc = "idle" <=> n = 0)
-----------------------------------------------------------------------------
(* Places in the ring: a cursor that has passed the end comes back once.     *)
LEMMA Wraps ==
  ASSUME NEW c \in Nat \ {0}, NEW a \in 0 .. 2 * c - 1
  PROVE  a % c = (IF a < c THEN a ELSE a - c) /\ a % c \in 0 .. c - 1
OBVIOUS

(* The k-th place from h on.                                                 *)
LEMMA PlaceAfter ==
  ASSUME NEW c \in Nat \ {0}, NEW h \in 0 .. c - 1, NEW k \in 0 .. c
  PROVE  /\ (h + k) % c = IF h + k < c THEN h + k ELSE h + k - c
         /\ (h + k) % c \in 0 .. c - 1
<1> DEFINE a == h + k
<1>1. a \in 0 .. 2 * c - 1
  OBVIOUS
<1> HIDE DEF a
<1>2. a % c = (IF a < c THEN a ELSE a - c) /\ a % c \in 0 .. c - 1
  BY <1>1, Wraps
<1> QED
  BY <1>2 DEF a

(* Writing a batch leaves the samples that were not to make room, and the new *)
(* ones behind them.                                                        *)
LEMMA WriteQueues ==
  ASSUME NEW cc \in Nat \ {0}, cap = cc, buf \in [0 .. cc - 1 -> Nat],
         NEW h \in 0 .. cc - 1, NEW left \in 0 .. cc, NEW over \in 0 .. left,
         NEW count \in 1 .. cc, left - over + count <= cc,
         NEW newest \in Nat, count <= newest,
         Write(h, left, over, count, newest)
  PROVE  /\ head' \in 0 .. cc - 1 /\ size' = left - over + count
         /\ buf' \in [0 .. cc - 1 -> Nat]
         /\ \A i \in 1 .. left - over :
              buf'[(head' + i - 1) % cc] = buf[(h + over + i - 1) % cc]
         /\ \A j \in 1 .. count :
              buf'[(head' + left - over + j - 1) % cc] = newest - count + j
<1> DEFINE h2    == (h + over) % cc
           kept  == left - over
           start == (h2 + kept) % cc
           first == IF count < cc - start THEN count ELSE cc - start
           value(k) == IF k \in start .. start + first - 1 THEN newest - count + 1 + (k - start)
                       ELSE IF k < count - first THEN newest - count + 1 + (first + k)
                       ELSE buf[k]
<1>1. kept \in 0 .. cc /\ kept + count <= cc
  OBVIOUS
<1>2. h2 \in 0 .. cc - 1 /\ h2 = IF h + over < cc THEN h + over ELSE h + over - cc
  <2>1. over \in 0 .. cc
    OBVIOUS
  <2> QED
    BY <2>1, PlaceAfter
<1> HIDE DEF h2
<1>3. start \in 0 .. cc - 1 /\ start = IF h2 + kept < cc THEN h2 + kept ELSE h2 + kept - cc
  <2> HIDE DEF kept
  <2> QED
    BY <1>1, <1>2, PlaceAfter
<1> HIDE DEF start, kept
<1>4. /\ first \in Nat /\ first <= count /\ start + first <= cc /\ count - first \in Nat
      /\ first < count => first = cc - start
  <2>1. start \in Nat /\ start < cc /\ count \in Nat
    BY <1>3
  <2>2. CASE count < cc - start
    BY <2>1, <2>2
  <2>3. CASE ~(count < cc - start)
    BY <2>1, <2>3
  <2> QED
    BY <2>2, <2>3
<1>5. Lesser(count, cc - start) = first \/ (count = cc - start /\ first = count)
  BY <1>3 DEF Lesser
<1>6. /\ head' = h2 /\ size' = kept + count
      /\ buf' = [k \in 0 .. cc - 1 |-> value(k)]
  <2>1. Lesser(count, cc - start) = first
    BY <1>5, <1>3 DEF Lesser
  <2> HIDE DEF first
  <2> QED
    BY <2>1 DEF Write, h2, start, kept
<1>7. \A k \in 0 .. cc - 1 : value(k) \in Nat
  <2> HIDE DEF first
  <2> SUFFICES ASSUME NEW k \in 0 .. cc - 1 PROVE value(k) \in Nat
    OBVIOUS
  <2>1. k \in start .. start + first - 1 => newest - count + 1 + (k - start) \in Nat
    <3>1. newest - count + 1 \in Nat
      OBVIOUS
    <3>2. k \in start .. start + first - 1 => k - start \in Nat
      BY <1>3
    <3> QED
      BY <3>1, <3>2
  <2>2. newest - count + 1 + (first + k) \in Nat
    BY <1>4
  <2> QED
    BY <2>1, <2>2
<1> HIDE DEF first
<1>8. buf' \in [0 .. cc - 1 -> Nat] /\ \A k \in 0 .. cc - 1 : buf'[k] = value(k)
  BY <1>6, <1>7
<1>9. ASSUME NEW i \in 1 .. kept
      PROVE  buf'[(h2 + i - 1) % cc] = buf[(h + over + i - 1) % cc]
  <2> DEFINE p == (h2 + (i - 1)) % cc
             q == (h + (over + (i - 1))) % cc
  <2>1. i - 1 \in 0 .. cc /\ over + (i - 1) \in 0 .. cc
    BY <1>1 DEF kept
  <2>2. p \in 0 .. cc - 1 /\ p = IF h2 + (i - 1) < cc THEN h2 + (i - 1) ELSE h2 + (i - 1) - cc
    BY <1>2, <2>1, PlaceAfter
  <2>3. q = IF h + (over + (i - 1)) < cc THEN h + (over + (i - 1))
            ELSE h + (over + (i - 1)) - cc
    BY <2>1, PlaceAfter
  <2> HIDE DEF p, q
  <2>4. q = p
    BY <1>1, <1>2, <2>1, <2>2, <2>3 DEF kept
  <2>5. value(p) = buf[p]
    BY <1>1, <1>2, <1>3, <1>4, <2>2
  <2>6. h2 + i - 1 = h2 + (i - 1) /\ h + over + i - 1 = h + (over + (i - 1))
    BY <1>2
  <2> QED
    BY <1>8, <2>2, <2>4, <2>5, <2>6 DEF p, q
<1>10. ASSUME NEW j \in 1 .. count
       PROVE  buf'[(h2 + left - over + j - 1) % cc] = newest - count + j
  <2> DEFINE k == kept + (j - 1)
             p == (h2 + k) % cc
  <2>1. k \in 0 .. cc
    BY <1>1
  <2>2. p \in 0 .. cc - 1 /\ p = IF h2 + k < cc THEN h2 + k ELSE h2 + k - cc
    BY <1>2, <2>1, PlaceAfter
  <2> HIDE DEF p
  <2>3. value(p) = newest - count + j
    BY <1>1, <1>2, <1>3, <1>4, <2>2, SMTT(30)
  <2>4. h2 + left - over + j - 1 = h2 + k
    BY <1>1, <1>2 DEF kept
  <2> QED
    BY <1>8, <2>2, <2>3, <2>4 DEF p
<1> QED
  BY <1>2, <1>6, <1>8, <1>9, <1>10 DEF kept

(* The queue in the ring.                                                    *)
ContentRight ==
  /\ Content \in Seq(Nat) /\ Len(Content) = size
  /\ \A i \in 1 .. size : Content[i] = buf[(head + i - 1) % cap]

(* It is a sequence of the samples from the head on, ...                      *)
LEMMA ContentIs == Sized /\ TypeOK => ContentRight
<1> SUFFICES ASSUME Sized, TypeOK PROVE ContentRight
  OBVIOUS
<1>1. ASSUME NEW i \in 1 .. size PROVE buf[(head + i - 1) % cap] \in Nat
  <2>1. cap \in Nat \ {0} /\ head \in 0 .. cap - 1 /\ i - 1 \in 0 .. cap
    BY DEF Sized, TypeOK
  <2>2. (head + (i - 1)) % cap \in 0 .. cap - 1
    BY <2>1, PlaceAfter
  <2>3. head + (i - 1) = head + i - 1
    BY <2>1
  <2> QED
    BY <2>2, <2>3 DEF TypeOK
<1>2. size \in Nat
  BY DEF Sized, TypeOK
<1>3. Content \in [1 .. size -> Nat]
  BY <1>1 DEF Content
<1>4. Content \in Seq(Nat) /\ Len(Content) = size
  BY <1>2, <1>3, SeqDef, LenProperties
<1> QED
  BY <1>4 DEF Content, ContentRight

(* ... also in the next state.                                               *)
LEMMA ContentNext == Sized /\ TypeOK' => ContentRight'
<1>1. Sized => Sized'
  BY DEF Sized
<1> QED
  BY <1>1, ContentIs, PTL

(* What a callback makes of the ring.                                        *)
LEMMA CallbackWrites ==
  ASSUME Sized, TypeOK, NEW batch \in 1 .. MaxBatch, NEW reset \in BOOLEAN,
         Callback(batch, reset)
  PROVE  LET count == Lesser(batch, cap)
             h     == IF reset THEN 0 ELSE head
             left  == IF reset THEN 0 ELSE size
             over  == Over(left, count, batch)
             newest == delivered + batch
         IN  /\ head' \in 0 .. cap - 1 /\ size' = left - over + count
             /\ buf' \in [0 .. cap - 1 -> Nat]
             /\ over \in 0 .. left /\ left - over + count <= cap
             /\ \A i \in 1 .. left - over :
                  buf'[(head' + i - 1) % cap] = buf[(h + over + i - 1) % cap]
             /\ \A j \in 1 .. count :
                  buf'[(head' + left - over + j - 1) % cap] = newest - count + j
<1> DEFINE count == Lesser(batch, cap)
           h     == IF reset THEN 0 ELSE head
           left  == IF reset THEN 0 ELSE size
           over  == Over(left, count, batch)
           newest == delivered + batch
<1>1. /\ cap \in Nat \ {0} /\ buf \in [0 .. cap - 1 -> Nat] /\ batch \in Nat \ {0}
      /\ h \in 0 .. cap - 1 /\ left \in 0 .. cap /\ newest \in Nat
  BY DEF Sized, TypeOK
<1>2. count \in 1 .. cap /\ count <= batch /\ count <= newest
  BY <1>1 DEF Lesser, Sized, TypeOK
<1>3. Write(h, left, over, count, newest)
  BY DEF Callback
<1> HIDE DEF h, left, newest, count
<1>4. over \in 0 .. left /\ left - over + count <= cap
  BY <1>1, <1>2 DEF Over
<1> HIDE DEF over
<1>5. /\ head' \in 0 .. cap - 1 /\ size' = left - over + count
      /\ buf' \in [0 .. cap - 1 -> Nat]
      /\ \A i \in 1 .. left - over :
           buf'[(head' + i - 1) % cap] = buf[(h + over + i - 1) % cap]
      /\ \A j \in 1 .. count :
           buf'[(head' + left - over + j - 1) % cap] = newest - count + j
  BY <1>1, <1>2, <1>3, <1>4, WriteQueues, SMTT(30)
<1> QED
  BY <1>4, <1>5 DEF h, left, newest, count, over
-----------------------------------------------------------------------------
(* Types.                                                                    *)
LEMMA RingInit == Sized /\ Init => RingInv
BY DEF Sized, Init, RingInv, TypeOK

(* A callback keeps the types.                                               *)
LEMMA CallbackKeeps ==
  ASSUME Sized, RingInv, NEW batch \in 1 .. MaxBatch, NEW reset \in BOOLEAN,
         Callback(batch, reset)
  PROVE  RingInv'
<1> DEFINE count == Lesser(batch, cap)
           left  == IF reset THEN 0 ELSE size
           over  == Over(left, count, batch)
<1>1. TypeOK /\ cap \in Nat \ {0} /\ batch \in Nat \ {0}
  BY DEF RingInv, TypeOK, Sized
<1>2. /\ head' \in 0 .. cap - 1 /\ size' = left - over + count
      /\ buf' \in [0 .. cap - 1 -> Nat]
      /\ over \in 0 .. left /\ left - over + count <= cap
  BY <1>1, CallbackWrites
<1>3. count \in 1 .. cap /\ count <= batch /\ left \in 0 .. cap
  BY <1>1 DEF Lesser, TypeOK
<1>4. dropped' = dropped + (batch - count) + over
  BY DEF Callback
<1> HIDE DEF count, left, over
<1>5. size' \in 0 .. cap /\ dropped' \in Nat
  BY <1>1, <1>2, <1>3, <1>4 DEF TypeOK
<1>6. /\ delivered' = delivered + batch /\ delivered' <= MaxSample
      /\ cap' = cap /\ n' = n /\ late' = late /\ got' = got
      /\ called' = FALSE /\ stopping' = stopping /\ params' = params
  BY DEF Callback
<1>7. /\ rpc' \in {"idle", "check", "armed", "waiting"} /\ timer' \in {"off", "armed", "fired"}
      /\ rpc' = "idle" <=> rpc = "idle"
  BY <1>1 DEF Callback, Broadcast, TypeOK
<1>8. delivered' \in 0 .. MaxSample
  BY <1>1, <1>6 DEF TypeOK, Sized
<1> QED
  BY <1>1, <1>2, <1>5, <1>6, <1>7, <1>8 DEF RingInv, TypeOK

(* The other actions keep the types, but for the two that move samples.       *)
LEMMA OthersKeep ==
  ASSUME Sized, RingInv,
         \/ CallbackStart \/ \E count \in 1 .. MaxRead : ReadStart(count)
         \/ ReadTimeout \/ ReadArm \/ ReadWait \/ Expire \/ TimerFires
         \/ Flush \/ StopMark \/ StopRelease \/ UNCHANGED vars
  PROVE  RingInv'
<1> USE DEF RingInv, TypeOK, ring, reader, device
<1>1. CASE CallbackStart
  BY <1>1 DEF CallbackStart
<1>2. ASSUME NEW count \in 1 .. MaxRead, ReadStart(count) PROVE RingInv'
  <2>1. count \in 0 .. MaxRead /\ count # 0
    BY DEF Sized
  <2>2. /\ rpc' = "check" /\ n' = count /\ late' = FALSE
        /\ UNCHANGED <<buf, cap, head, size, dropped, delivered, timer, got,
                       called, stopping, params>>
    BY <1>2 DEF ReadStart
  <2> QED
    BY <2>1, <2>2
<1>3. CASE ReadTimeout
  BY <1>3 DEF ReadTimeout, Sized
<1>4. CASE ReadArm
  BY <1>4 DEF ReadArm
<1>5. CASE ReadWait
  BY <1>5 DEF ReadWait
<1>6. CASE Expire
  BY <1>6 DEF Expire
<1>7. CASE TimerFires
  BY <1>7 DEF TimerFires
<1>8. CASE Flush
  <2>1. cap \in Nat \ {0}
    BY DEF Sized
  <2>2. 0 \in 0 .. cap - 1 /\ 0 \in 0 .. cap
    BY <2>1
  <2>3. /\ head' = 0 /\ size' = 0
        /\ UNCHANGED <<buf, cap, dropped, delivered, n, late, got, called, stopping, params>>
    BY <1>8 DEF Flush
  <2>4. /\ rpc' \in {"idle", "check", "armed", "waiting"} /\ timer' \in {"off", "armed", "fired"}
        /\ rpc' = "idle" <=> rpc = "idle"
    BY <1>8 DEF Flush, Broadcast
  <2> QED
    BY <2>2, <2>3, <2>4
<1>9. CASE StopMark
  BY <1>9 DEF StopMark
<1>10. CASE StopRelease
  BY <1>10 DEF StopRelease
<1>11. CASE UNCHANGED vars
  BY <1>11 DEF vars
<1> QED
  BY <1>1, <1>2, <1>3, <1>4, <1>5, <1>6, <1>7, <1>8, <1>9, <1>10, <1>11

(* Resizing keeps the types and the oldest samples.                          *)
LEMMA ResizeKeeps ==
  ASSUME Sized, RingInv, NEW c \in Caps, ResizeBuffer(c)
  PROVE  /\ RingInv' /\ size' = Lesser(size, c)
         /\ \A i \in 1 .. size' : buf'[(head' + i - 1) % c] = buf[(head + i - 1) % cap]
<1> DEFINE kept == Lesser(size, c)
<1>1. /\ cap \in Nat \ {0} /\ c \in Nat \ {0} /\ head \in 0 .. cap - 1 /\ size \in 0 .. cap
      /\ buf \in [0 .. cap - 1 -> Nat]
  BY DEF RingInv, TypeOK, Sized
<1>2. kept \in 0 .. c /\ kept <= size
  BY <1>1 DEF Lesser
<1>3. /\ buf' = [i \in 0 .. c - 1 |-> IF i < kept THEN OldSample(i) ELSE 0]
      /\ size' = kept /\ cap' = c /\ head' = 0
  BY DEF ResizeBuffer
<1> HIDE DEF kept
<1>4. ASSUME NEW i \in 0 .. c - 1, i < kept
      PROVE  OldSample(i) \in Nat /\ OldSample(i) = buf[(head + i) % cap]
  <2>1. i \in 0 .. cap
    BY <1>1, <1>2, <1>4
  <2>2. (head + i) % cap \in 0 .. cap - 1
    BY <1>1, <2>1, PlaceAfter
  <2> QED
    BY <1>1, <2>2 DEF OldSample
<1>5. buf' \in [0 .. c - 1 -> Nat]
  BY <1>3, <1>4
<1>6. ASSUME NEW i \in 1 .. kept
      PROVE  buf'[(head' + i - 1) % c] = buf[(head + i - 1) % cap]
  <2>1. i - 1 \in 0 .. c - 1 /\ i - 1 < kept
    BY <1>1, <1>2
  <2>2. (i - 1) % c = i - 1
    <3> DEFINE a == i - 1
    <3>1. a \in 0 .. 2 * c - 1 /\ a < c
      BY <1>1, <2>1
    <3> HIDE DEF a
    <3>2. a % c = a
      BY <1>1, <3>1, Wraps
    <3> QED
      BY <3>2 DEF a
  <2>3. buf'[i - 1] = buf[(head + (i - 1)) % cap]
    BY <1>3, <1>4, <2>1
  <2>4. head + (i - 1) = head + i - 1 /\ head' + i - 1 = i - 1
    BY <1>1, <1>3, <2>1
  <2> QED
    BY <2>2, <2>3, <2>4
<1>7. RingInv'
  <2>1. UNCHANGED <<dropped, delivered, rpc, n, late, timer, got, called, stopping, params>>
    BY DEF ResizeBuffer, reader, device
  <2> QED
    BY <1>1, <1>2, <1>3, <1>5, <2>1 DEF RingInv, TypeOK
<1> QED
  BY <1>3, <1>6, <1>7 DEF kept

(* A read that finds enough keeps the types, takes the oldest samples in       *)
(* order and leaves the others.                                             *)
LEMMA ReadKeeps ==
  ASSUME Sized, RingInv, ReadDone
  PROVE  /\ RingInv' /\ n <= size /\ size' = size - n
         /\ Len(got') = n /\ \A i \in 1 .. n : got'[i] = buf[(head + i - 1) % cap]
         /\ \A i \in 1 .. size' : buf'[(head' + i - 1) % cap] = buf[(head + n + i - 1) % cap]
<1>1. /\ cap \in Nat \ {0} /\ head \in 0 .. cap - 1 /\ size \in 0 .. cap /\ n \in Nat
      /\ buf \in [0 .. cap - 1 -> Nat]
  BY DEF RingInv, TypeOK, Sized
<1>2. /\ n <= size /\ size' = size - n /\ head' = (head + n) % cap
      /\ got' = [i \in 1 .. n |-> buf[(head + i - 1) % cap]]
      /\ UNCHANGED <<buf, cap, dropped, delivered, late, timer, called, stopping, params>>
      /\ rpc' = "idle" /\ n' = 0
  BY <1>1 DEF ReadDone, NextHead, device
<1>3. ASSUME NEW i \in 1 .. n PROVE buf[(head + i - 1) % cap] \in Nat
  <2>1. i - 1 \in 0 .. cap
    BY <1>1, <1>2
  <2>2. (head + (i - 1)) % cap \in 0 .. cap - 1
    BY <1>1, <2>1, PlaceAfter
  <2>3. head + (i - 1) = head + i - 1
    BY <1>1
  <2> QED
    BY <1>1, <2>2, <2>3
<1>4. got' \in [1 .. n -> Nat]
  BY <1>2, <1>3
<1>5. got' \in Seq(Nat) /\ Len(got') = n
  BY <1>1, <1>4, SeqDef, LenProperties
<1>6. head' \in 0 .. cap - 1 /\ head' = IF head + n < cap THEN head + n ELSE head + n - cap
  <2>1. n \in 0 .. cap
    BY <1>1, <1>2
  <2> QED
    BY <1>1, <1>2, <2>1, PlaceAfter
<1>7. ASSUME NEW i \in 1 .. size'
      PROVE  (head' + i - 1) % cap = (head + n + i - 1) % cap
  <2> DEFINE p == (head' + (i - 1)) % cap
             q == (head + (n + (i - 1))) % cap
  <2>1. i - 1 \in 0 .. cap /\ n + (i - 1) \in 0 .. cap
    BY <1>1, <1>2
  <2>2. p = IF head' + (i - 1) < cap THEN head' + (i - 1) ELSE head' + (i - 1) - cap
    BY <1>1, <1>6, <2>1, PlaceAfter
  <2>3. q = IF head + (n + (i - 1)) < cap THEN head + (n + (i - 1))
            ELSE head + (n + (i - 1)) - cap
    BY <1>1, <2>1, PlaceAfter
  <2> HIDE DEF p, q
  <2>4. p = q
    BY <1>1, <1>2, <1>6, <2>1, <2>2, <2>3
  <2>5. head' + (i - 1) = head' + i - 1 /\ head + (n + (i - 1)) = head + n + i - 1
    BY <1>1, <1>6
  <2> QED
    BY <2>4, <2>5 DEF p, q
<1>8. RingInv'
  BY <1>1, <1>2, <1>5, <1>6 DEF RingInv, TypeOK, Sized
<1> QED
  BY <1>2, <1>5, <1>7, <1>8

(* The invariant holds in every state.                                       *)
LEMMA NextKeeps == Sized /\ RingInv /\ [Next]_vars => RingInv'
BY CallbackKeeps, OthersKeep, ResizeKeeps, ReadKeeps DEF Next, ReadIQ
-----------------------------------------------------------------------------
(* What each action is for the queue.  The initial ring is the empty queue.   *)
LEMMA InitMaps == Sized /\ Init => Stream!Init
<1> SUFFICES ASSUME Sized, Init PROVE Stream!Init
  OBVIOUS
<1>1. Content = <<>>
  BY DEF Init, Content
<1> QED
  BY <1>1 DEF Init, Stream!Init

(* Two sequences of samples of the same length and elements are the same.    *)
LEMMA SameSamples ==
  ASSUME NEW s \in Seq(Nat), NEW t \in Seq(Nat), Len(s) = Len(t),
         \A i \in 1 .. Len(s) : s[i] = t[i]
  PROVE  s = t
BY SeqEqual

(* A callback delivers its batch.                                            *)
LEMMA CallbackDelivers ==
  ASSUME Sized, RingInv, NEW batch \in 1 .. MaxBatch, NEW reset \in BOOLEAN,
         Callback(batch, reset)
  PROVE  Stream!Deliver(batch, reset)
<1> DEFINE count == Lesser(batch, cap)
           h     == IF reset THEN 0 ELSE head
           left  == IF reset THEN 0 ELSE size
           over  == Over(left, count, batch)
           old   == IF reset THEN <<>> ELSE Content
           new   == Stream!Batch(batch)
           all   == old \o new
           total == left + batch
           m     == total - Lesser(cap, total) + 1
           newest == delivered + batch
<1>1. /\ TypeOK /\ cap \in Nat \ {0} /\ batch \in Nat \ {0} /\ delivered \in Nat
      /\ dropped \in Nat /\ size \in 0 .. cap
  BY DEF RingInv, TypeOK, Sized
<1>2. RingInv' /\ cap' = cap
  BY CallbackKeeps DEF Callback
<1>3. /\ head' \in 0 .. cap - 1 /\ size' = left - over + count
      /\ over \in 0 .. left /\ left - over + count <= cap
      /\ \A i \in 1 .. left - over :
           buf'[(head' + i - 1) % cap] = buf[(h + over + i - 1) % cap]
      /\ \A j \in 1 .. count :
           buf'[(head' + left - over + j - 1) % cap] = newest - count + j
  BY <1>1, CallbackWrites
<1>4. /\ Content' \in Seq(Nat) /\ Len(Content') = size'
      /\ \A i \in 1 .. size' : Content'[i] = buf'[(head' + i - 1) % cap]
  BY <1>2, ContentNext DEF RingInv, ContentRight
<1>5. /\ old \in Seq(Nat) /\ Len(old) = left
      /\ \A i \in 1 .. left : old[i] = buf[(h + i - 1) % cap]
  BY <1>1, ContentIs DEF ContentRight
<1>6. /\ new \in Seq(Nat) /\ Len(new) = batch
      /\ \A j \in 1 .. batch : new[j] = delivered + j
  <2>1. new = [j \in 1 .. batch |-> delivered + j]
    BY DEF Stream!Batch
  <2>2. new \in [1 .. batch -> Nat]
    BY <1>1, <2>1
  <2> HIDE DEF new
  <2> QED
    BY <1>1, <2>1, <2>2, SeqDef, LenProperties
<1>7. /\ left \in 0 .. cap /\ count \in 1 .. cap /\ count <= batch
      /\ count < batch => count = cap /\ over = left
      /\ count = batch => over = IF left + batch > cap THEN left + batch - cap ELSE 0
  BY <1>1 DEF Lesser, Over
<1>8. dropped' = dropped + (batch - count) + over /\ delivered' = newest /\ newest <= MaxSample
  BY DEF Callback
<1>9. UNCHANGED <<cap, n, got>>
  BY DEF Callback
<1> HIDE DEF count, h, left, over, old, new, newest
<1>10. /\ all \in Seq(Nat) /\ Len(all) = total
       /\ \A i \in 1 .. total : all[i] = IF i <= left THEN old[i] ELSE new[i - left]
  BY <1>5, <1>6, ConcatProperties, ZenonT(40)
<1> HIDE DEF all
<1>11. total - m + 1 = size' /\ m - 1 = over + (batch - count) /\ m \in 1 .. total
  BY <1>1, <1>3, <1>7 DEF Lesser
<1> DEFINE queue == SubSeq(all, m, total)
<1>12. /\ queue \in Seq(Nat) /\ Len(queue) = size'
       /\ \A i \in 1 .. size' : queue[i] = all[over + (batch - count) + i]
  <2>1. total \in Nat /\ m \in Int
    BY <1>1, <1>7, <1>11
  <2> HIDE DEF m, total
  <2>2. \A i \in m .. total : all[i] \in Nat
    BY <1>10, <1>11, <2>1, ElementOfSeq
  <2>3. /\ queue \in Seq(Nat) /\ Len(queue) = IF m <= total THEN total - m + 1 ELSE 0
        /\ \A i \in 1 .. total - m + 1 : queue[i] = all[m + i - 1]
    BY <2>1, <2>2, SubSeqProperties
  <2> HIDE DEF queue
  <2>4. \A i \in 1 .. size' : m + i - 1 = over + (batch - count) + i
    <3>1. over \in Nat /\ batch - count \in Nat
      BY <1>1, <1>3, <1>7
    <3> SUFFICES ASSUME NEW i \in 1 .. size' PROVE m + i - 1 = over + (batch - count) + i
      OBVIOUS
    <3> DEFINE d == batch - count
    <3>2. d \in Nat /\ m - 1 = over + d
      BY <1>11, <3>1
    <3> HIDE DEF d
    <3>3. i \in Int
      OBVIOUS
    <3>4. m + i - 1 = over + d + i
      BY <2>1, <3>1, <3>2, <3>3
    <3> QED
      BY <3>4 DEF d
  <2> QED
    BY <1>11, <2>1, <2>3, <2>4
<1> HIDE DEF queue
<1>13. ASSUME NEW i \in 1 .. size' PROVE Content'[i] = queue[i]
  <2>1. queue[i] = all[over + (batch - count) + i]
    BY <1>12
  <2>2. /\ left \in Nat /\ over \in Nat /\ over <= left /\ count \in Nat /\ batch \in Nat
        /\ count <= batch /\ i \in Nat /\ i >= 1 /\ i <= left - over + count
    BY <1>1, <1>3, <1>7
  <2>3. CASE i <= left - over
    <3>1. batch = count
      BY <1>7, <2>2, <2>3
    <3>2. over + (batch - count) + i = over + i /\ over + i \in 1 .. left /\ over + i \in 1 .. total
      BY <2>2, <2>3, <3>1
    <3>3. all[over + i] = buf[(h + (over + i) - 1) % cap]
      BY <1>5, <1>10, <3>2
    <3>4. i \in 1 .. left - over /\ h + (over + i) - 1 = h + over + i - 1
      <4>1. h \in Int
        BY <1>1 DEF h, TypeOK
      <4> QED
        BY <2>2, <2>3, <4>1
    <3>5. Content'[i] = buf[(h + over + i - 1) % cap]
      BY <1>3, <1>4, <3>4
    <3> QED
      BY <2>1, <3>2, <3>3, <3>4, <3>5
  <2>4. CASE ~(i <= left - over)
    <3> DEFINE j == i - (left - over)
    <3>1. /\ j \in 1 .. count /\ i = left - over + j
          /\ batch - count + j \in 1 .. batch
      BY <2>2, <2>4
    <3>2. over + (batch - count) + i = left + (batch - count + j)
      BY <2>2
    <3> HIDE DEF j
    <3>3. /\ left + (batch - count + j) \in 1 .. total
          /\ ~(left + (batch - count + j) <= left)
          /\ left + (batch - count + j) - left = batch - count + j
      BY <2>2, <3>1
    <3>4. all[left + (batch - count + j)] = delivered + (batch - count + j)
      <4> DEFINE e == batch - count + j
      <4> HIDE DEF e, total
      <4>1. e \in 1 .. batch /\ left + e \in 1 .. total /\ ~(left + e <= left) /\ left + e - left = e
        BY <3>1, <3>3 DEF e
      <4>2. all[left + e] = new[e]
        <5> DEFINE p == left + e
        <5> HIDE DEF p
        <5>1. p \in 1 .. total
          BY <4>1 DEF p
        <5>2. ~(p <= left)
          BY <4>1 DEF p
        <5>3. p - left = e
          BY <1>1, <1>7, <4>1 DEF p
        <5>4. all[p] = new[p - left]
          BY <1>10, <5>1, <5>2
        <5> QED
          BY <5>3, <5>4 DEF p
      <4>3. all[left + e] = delivered + e
        BY <1>6, <4>1, <4>2
      <4> QED
        BY <4>3 DEF e
    <3>5. head' + left - over + j - 1 = head' + i - 1
      <4>1. head' \in Int
        BY <1>3
      <4> QED
        BY <2>2, <3>1, <4>1
    <3>6. Content'[i] = newest - count + j
      BY <1>3, <1>4, <3>1, <3>5
    <3>7. newest - count + j = delivered + (batch - count + j)
      BY <1>1, <2>2, <3>1 DEF newest
    <3> QED
      BY <2>1, <3>2, <3>4, <3>6, <3>7
  <2> QED
    BY <2>3, <2>4
<1> HIDE DEF queue
<1>14. Content' = queue
  BY <1>4, <1>12, <1>13, SameSamples
<1>15. Stream!Newest(all, cap) = queue
  BY <1>10 DEF Stream!Newest, Stream!Lesser, Lesser, queue
<1>16. dropped' = dropped + Len(all) - Len(Content')
  <2>1. Len(all) = left + batch /\ Len(Content') = left - over + count
    BY <1>3, <1>4, <1>10
  <2>2. left \in Nat /\ over \in Nat /\ count \in Nat /\ batch \in Nat /\ dropped \in Nat
    BY <1>1, <1>3, <1>7
  <2>3. dropped + (batch - count) + over = dropped + (left + batch) - (left - over + count)
    BY <2>2
  <2> QED
    BY <1>8, <2>1, <2>3
<1> QED
  BY <1>8, <1>9, <1>14, <1>15, <1>16 DEF Stream!Deliver, all, old, new, newest

(* A read that finds enough returns the queue's oldest samples.               *)
LEMMA ReadReturnsOldest ==
  ASSUME Sized, RingInv, ReadDone
  PROVE  Stream!Return
<1>1. /\ RingInv' /\ n <= size /\ size' = size - n
      /\ Len(got') = n /\ \A i \in 1 .. n : got'[i] = buf[(head + i - 1) % cap]
      /\ \A i \in 1 .. size' : buf'[(head' + i - 1) % cap] = buf[(head + n + i - 1) % cap]
  BY ReadKeeps
<1>2. TypeOK /\ TypeOK' /\ n \in Nat /\ n # 0 /\ size \in Nat /\ head \in Nat
  BY <1>1 DEF RingInv, TypeOK, ReadDone, Sized
<1>3. /\ n' = 0 /\ UNCHANGED <<cap, delivered, dropped>>
  BY DEF ReadDone
<1>4. /\ Content \in Seq(Nat) /\ Len(Content) = size
      /\ \A i \in 1 .. size : Content[i] = buf[(head + i - 1) % cap]
  BY <1>2, ContentIs DEF ContentRight
<1>5. /\ Content' \in Seq(Nat) /\ Len(Content') = size'
      /\ \A i \in 1 .. size' : Content'[i] = buf'[(head' + i - 1) % cap]
  BY <1>2, <1>3, ContentNext DEF ContentRight
<1> DEFINE c == Content
           taken == SubSeq(c, 1, n)
           rest  == SubSeq(c, n + 1, size)
<1> HIDE DEF c
<1>6. \A i \in 1 .. size : c[i] \in Nat /\ c[i] = buf[(head + i - 1) % cap]
  BY <1>4, ElementOfSeq DEF c
<1>7. /\ taken \in Seq(Nat) /\ Len(taken) = n /\ \A i \in 1 .. n : taken[i] = c[i]
  <2>1. \A i \in 1 .. n : i \in 1 .. size /\ c[i] \in Nat
    BY <1>1, <1>2, <1>6
  <2>2. /\ taken \in Seq(Nat) /\ Len(taken) = IF 1 <= n THEN n - 1 + 1 ELSE 0
        /\ \A i \in 1 .. n - 1 + 1 : taken[i] = c[1 + i - 1]
    BY <1>2, <2>1, SubSeqProperties
  <2> HIDE DEF taken
  <2>3. n - 1 + 1 = n /\ 1 <= n /\ \A i \in 1 .. n : 1 + i - 1 = i
    BY <1>2
  <2> QED
    BY <2>2, <2>3
<1>8. /\ rest \in Seq(Nat) /\ Len(rest) = size - n
      /\ \A i \in 1 .. size - n : rest[i] = c[n + i]
  <2>1. n + 1 \in Int /\ \A i \in n + 1 .. size : i \in 1 .. size /\ c[i] \in Nat
    BY <1>1, <1>2, <1>6
  <2>2. /\ rest \in Seq(Nat)
        /\ Len(rest) = IF n + 1 <= size THEN size - (n + 1) + 1 ELSE 0
        /\ \A i \in 1 .. size - (n + 1) + 1 : rest[i] = c[n + 1 + i - 1]
    BY <1>2, <2>1, SubSeqProperties
  <2> HIDE DEF rest
  <2>3. size - (n + 1) + 1 = size - n /\ \A i \in 1 .. size - n : n + 1 + i - 1 = n + i
    BY <1>2
  <2>4. ~(n + 1 <= size) => size - n = 0
    BY <1>1, <1>2
  <2> QED
    BY <2>2, <2>3, <2>4
<1> HIDE DEF taken, rest
<1>9. got' = taken
  <2>1. got' \in Seq(Nat) /\ Len(got') = n
    BY <1>1, <1>2 DEF TypeOK
  <2>2. \A i \in 1 .. n : i \in 1 .. size
    BY <1>1, <1>2
  <2>3. \A i \in 1 .. n : got'[i] = taken[i]
    BY <1>1, <1>6, <1>7, <2>2
  <2> QED
    BY <1>7, <2>1, <2>3, SameSamples
<1>10. Content' = rest
  <2>1. ASSUME NEW i \in 1 .. size' PROVE Content'[i] = rest[i]
    <3>1. i \in 1 .. size - n /\ n + i \in 1 .. size /\ head + (n + i) - 1 = head + n + i - 1
      BY <1>1, <1>2
    <3>2. rest[i] = buf[(head + (n + i) - 1) % cap]
      BY <1>6, <1>8, <3>1
    <3>3. Content'[i] = buf[(head + n + i - 1) % cap]
      BY <1>1, <1>3, <1>5
    <3> QED
      BY <3>1, <3>2, <3>3
  <2> QED
    BY <1>1, <1>5, <1>8, <2>1, SameSamples
<1> QED
  BY <1>1, <1>2, <1>3, <1>4, <1>9, <1>10 DEF Stream!Return, c, taken, rest

(* Resizing keeps the oldest that fit.                                       *)
LEMMA ResizeMaps ==
  ASSUME Sized, RingInv, NEW k \in Caps, ResizeBuffer(k)
  PROVE  Stream!Resize(k)
<1>1. /\ RingInv' /\ size' = Lesser(size, k)
      /\ \A i \in 1 .. size' : buf'[(head' + i - 1) % k] = buf[(head + i - 1) % cap]
  BY ResizeKeeps
<1>2. TypeOK /\ TypeOK' /\ size \in Nat /\ k \in Nat /\ size' \in Nat /\ size' <= size
  <2>1. TypeOK /\ TypeOK'
    BY <1>1 DEF RingInv
  <2>2. size \in Nat /\ k \in Nat
    BY <2>1 DEF TypeOK, Sized
  <2>3. size' \in Nat /\ size' <= size
    BY <1>1, <2>2 DEF Lesser
  <2> QED
    BY <2>1, <2>2, <2>3
<1>3. cap' = k /\ UNCHANGED <<delivered, dropped, n, got>>
  BY DEF ResizeBuffer, reader
<1>4. /\ Content \in Seq(Nat) /\ Len(Content) = size
      /\ \A i \in 1 .. size : Content[i] = buf[(head + i - 1) % cap]
  BY <1>2, ContentIs DEF ContentRight
<1>5. /\ Content' \in Seq(Nat) /\ Len(Content') = size'
      /\ \A i \in 1 .. size' : Content'[i] = buf'[(head' + i - 1) % k]
  BY <1>2, <1>3, ContentNext DEF ContentRight
<1> DEFINE c == Content
           m == size'
           front == SubSeq(c, 1, m)
<1> HIDE DEF c, m
<1>6. /\ front \in Seq(Nat) /\ Len(front) = m /\ \A i \in 1 .. m : front[i] = c[i]
  <2>1. \A i \in 1 .. m : i \in 1 .. size /\ c[i] \in Nat
    BY <1>2, <1>4, ElementOfSeq DEF c, m
  <2>2. /\ front \in Seq(Nat) /\ Len(front) = IF 1 <= m THEN m - 1 + 1 ELSE 0
        /\ \A i \in 1 .. m - 1 + 1 : front[i] = c[1 + i - 1]
    <3>1. m \in Int /\ 1 \in Int
      BY <1>2 DEF m
    <3>2. \A i \in 1 .. m : c[i] \in Nat
      BY <2>1
    <3> QED
      BY <3>1, <3>2, SubSeqProperties
  <2> HIDE DEF front
  <2>3. m \in Nat
    BY <1>2 DEF m
  <2>4. m - 1 + 1 = m /\ (~(1 <= m) => m = 0) /\ \A i \in 1 .. m : 1 + i - 1 = i
    BY <2>3
  <2> QED
    BY <2>2, <2>4
<1> HIDE DEF front
<1>7. Content' = front
  <2>1. \A i \in 1 .. size' : i \in 1 .. size
    BY <1>2
  <2>2. \A i \in 1 .. size' : Content'[i] = front[i]
    BY <1>1, <1>4, <1>5, <1>6, <2>1 DEF c, m
  <2> QED
    BY <1>5, <1>6, <2>2, SameSamples DEF m
<1>8. Stream!Lesser(k, Len(Content)) = size'
  BY <1>1, <1>2, <1>4 DEF Stream!Lesser, Lesser
<1> QED
  BY <1>3, <1>7, <1>8 DEF Stream!Resize, front, c, m

(* The other actions are a question, a failed answer, an emptied queue, or      *)
(* nothing to the queue.                                                    *)
LEMMA OthersMap ==
  ASSUME Sized, RingInv
  PROVE  /\ \A count \in 1 .. MaxRead : ReadStart(count) => Stream!Ask(count)
         /\ ReadTimeout => Stream!Fail
         /\ Flush => Stream!Empty
         /\ CallbackStart \/ ReadArm \/ ReadWait \/ Expire \/ TimerFires \/ StopMark \/ StopRelease
            \/ UNCHANGED vars => UNCHANGED Stream!vars
<1>1. ASSUME NEW count \in 1 .. MaxRead, ReadStart(count) PROVE Stream!Ask(count)
  BY <1>1 DEF ReadStart, Stream!Ask, RingInv, ring, Content, device
<1>2. ASSUME ReadTimeout PROVE Stream!Fail
  <2>1. n # 0 /\ Len(Content) = size /\ n > size
    BY <1>2, ContentIs DEF RingInv, TypeOK, ReadTimeout, ContentRight, Sized
  <2> QED
    BY <1>2, <2>1 DEF ReadTimeout, Stream!Fail, ring, Content, device
<1>3. ASSUME Flush PROVE Stream!Empty
  BY <1>3 DEF Flush, Stream!Empty, Content, device
<1>4. ASSUME CallbackStart \/ ReadArm \/ ReadWait \/ Expire \/ TimerFires \/ StopMark \/ StopRelease
             \/ UNCHANGED vars
      PROVE  UNCHANGED Stream!vars
  <2>1. UNCHANGED <<buf, cap, head, size, dropped, delivered, n, got>>
    BY <1>4 DEF CallbackStart, ReadArm, ReadWait, Expire, TimerFires, StopMark, StopRelease,
                vars, ring, reader, device
  <2> QED
    BY <2>1 DEF Stream!vars, Content
<1> QED
  BY <1>1, <1>2, <1>3, <1>4

(* Every step of the ring is a step of the queue, or none.                     *)
LEMMA NextMaps == Sized /\ RingInv /\ [Next]_vars => [Stream!Next]_Stream!vars
<1> SUFFICES ASSUME Sized, RingInv, [Next]_vars PROVE [Stream!Next]_Stream!vars
  OBVIOUS
<1>1. ASSUME NEW batch \in 1 .. MaxBatch, NEW reset \in BOOLEAN, Callback(batch, reset)
      PROVE  Stream!Next
  BY <1>1, CallbackDelivers DEF Stream!Next
<1>2. CASE ReadDone
  BY <1>2, ReadReturnsOldest DEF Stream!Next
<1>3. ASSUME NEW c \in Caps, ResizeBuffer(c) PROVE Stream!Next
  BY <1>3, ResizeMaps DEF Stream!Next
<1> QED
  BY <1>1, <1>2, <1>3, OthersMap DEF Next, ReadIQ, Stream!Next

(* The SDRplay source's ring is the bounded queue of SourceStream: whatever    *)
(* wraps, overflows, is resized or flushed while a read waits, a read returns  *)
(* the oldest samples in order and an overflow is counted.                   *)
THEOREM RingIsQueue ==
  ASSUME Sized
  PROVE  Spec => ImplementsStream
<1>1. Init => RingInv /\ Stream!Init
  BY RingInit, InitMaps
<1>2. RingInv /\ [Next]_vars => RingInv' /\ [Stream!Next]_Stream!vars
  BY NextKeeps, NextMaps
<1> QED
  BY <1>1, <1>2, PTL DEF Spec, ImplementsStream, Stream!Spec

(* The cursors never leave the buffer.                                       *)
THEOREM RingTypes ==
  ASSUME Sized
  PROVE  Spec => []TypeOK
<1>1. Init => RingInv
  BY RingInit
<1>2. RingInv /\ [Next]_vars => RingInv'
  BY NextKeeps
<1>3. RingInv => TypeOK
  BY DEF RingInv
<1> QED
  BY <1>1, <1>2, <1>3, PTL DEF Spec
-----------------------------------------------------------------------------
(* The extractor's rings have state of their own.                            *)
CONSTANTS Ids, Lengths, Depth, MaxPooled, FeedCap, MaxFrames

VARIABLES frame, rings, pool, bufs, at, gone, todo, items, feed, busy

Out == INSTANCE OutRings

(* "Depth must exceed the maximum number of extracted snippets in flight":      *)
(* those queued, the one in the worker's hands and the one being written.      *)
DeepEnough ==
  /\ FeedCap \in Nat /\ MaxPooled \in Nat
  /\ Depth \in Nat /\ Depth >= FeedCap + 2
  /\ Lengths \in [Ids -> SUBSET Nat]

Snippet == [id : Ids, buf : Nat, frame : Int, safe : BOOLEAN]
Buffer  == [cap : Nat, id : Ids, frame : Int]

(* A ring is filled up to its next place, or full.                           *)
RingOK(r) ==
  /\ r.idx \in 1 .. Depth /\ r.bufs \in Seq(Nat) /\ Len(r.bufs) <= Depth
  /\ Len(r.bufs) < Depth => r.idx = Len(r.bufs) + 1

(* Every variable in its range; lists that are set up are taken down.        *)
OutTypes ==
  /\ frame \in Nat /\ at \in {"idle", "extract", "feed"}
  /\ DOMAIN rings \subseteq Ids /\ \A i \in DOMAIN rings : RingOK(rings[i])
  /\ pool \in Seq(Nat) /\ bufs \in Seq(Buffer)
  /\ gone \subseteq DOMAIN rings /\ todo \subseteq Ids
  /\ items \in Seq(Snippet) /\ feed \in Seq(Seq(Snippet)) /\ busy \in Seq(Seq(Snippet))
  /\ Len(feed) <= FeedCap /\ Len(busy) <= 1
  /\ at # "extract" => gone = {} /\ todo = {}
  /\ at = "idle" => items = <<>>

In(b, s) == \E k \in 1 .. Len(s) : s[k] = b
Once(s)  == \A k, l \in 1 .. Len(s) : s[k] = s[l] => k = l

(* A buffer is in one place of one ring, or in the pool, or lost.             *)
Apart ==
  /\ \A i \in DOMAIN rings : Once(rings[i].bufs)
  /\ \A i, j \in DOMAIN rings : \A b \in Nat : In(b, rings[i].bufs) /\ In(b, rings[j].bufs) => i = j
  /\ Once(pool)
  /\ \A i \in DOMAIN rings : \A b \in Nat : In(b, rings[i].bufs) => ~In(b, pool) /\ b \in 1 .. Len(bufs)
  /\ \A b \in Nat : In(b, pool) => b \in 1 .. Len(bufs)

(* How many frames before the newest a message is: those queued after it, and  *)
(* one more while a frame is under way.  Since counts the outputs of a signal   *)
(* since the one of age a, Slot is the place it then has in the ring.          *)
Begun == IF at = "idle" THEN 0 ELSE 1
Since(id, a) == IF id \in todo THEN a - 1 ELSE a
Slot(idx, w) == IF idx - 1 - w >= 1 THEN idx - 1 - w ELSE idx - 1 - w + Depth

(* A snippet of age a is still where it was put, and nothing has replaced it.  *)
InPlace(x, a) ==
  /\ x.frame = frame - a
  /\ x.id \in DOMAIN rings /\ x.id \notin gone
  /\ Since(x.id, a) >= 0
  /\ Slot(rings[x.id].idx, Since(x.id, a)) \in 1 .. Len(rings[x.id].bufs)
  /\ rings[x.id].bufs[Slot(rings[x.id].idx, Since(x.id, a))] = x.buf
  /\ Out!Kept(x)

FeedPlaced  == \A k \in 1 .. Len(feed) : \A j \in 1 .. Len(feed[k]) :
                 feed[k][j].safe => InPlace(feed[k][j], Len(feed) - k + Begun)
BusyPlaced  == \A k \in 1 .. Len(busy) : \A j \in 1 .. Len(busy[k]) :
                 busy[k][j].safe => InPlace(busy[k][j], Len(feed) + Begun)
ItemsPlaced == \A j \in 1 .. Len(items) : InPlace(items[j], 0)

OutInv == OutTypes /\ Apart /\ FeedPlaced /\ BusyPlaced /\ ItemsPlaced
-----------------------------------------------------------------------------
(* Taking a buffer out of the pool takes that one and no other.               *)
LEMMA WithoutIs ==
  ASSUME NEW p \in Seq(Nat), NEW i \in 1 .. Len(p), Once(p)
  PROVE  /\ Out!Without(p, i) \in Seq(Nat) /\ Once(Out!Without(p, i))
         /\ \A b \in Nat : In(b, Out!Without(p, i)) => In(b, p) /\ b # p[i]
<1> DEFINE m == Len(p)
           q == [p EXCEPT ![i] = p[m]]
           w == SubSeq(q, 1, m - 1)
<1>1. m \in Nat /\ m >= 1 /\ i \in 1 .. m
  OBVIOUS
<1>2. q \in Seq(Nat) /\ Len(q) = m /\ \A k \in 1 .. m : q[k] = IF k = i THEN p[m] ELSE p[k]
  BY <1>1
<1> HIDE DEF q
<1>3. w \in Seq(Nat) /\ Len(w) = m - 1 /\ \A k \in 1 .. m - 1 : w[k] = q[k]
  <2>1. \A k \in 1 .. m - 1 : q[k] \in Nat
    BY <1>1, <1>2
  <2>2. /\ w \in Seq(Nat) /\ Len(w) = IF 1 <= m - 1 THEN m - 1 - 1 + 1 ELSE 0
        /\ \A k \in 1 .. m - 1 - 1 + 1 : w[k] = q[1 + k - 1]
    BY <1>1, <2>1, SubSeqProperties
  <2> HIDE DEF w, m
  <2> QED
    BY <1>1, <2>2
<1> HIDE DEF w
<1>4. Out!Without(p, i) = w
  BY DEF Out!Without, w, q, m
<1>5. \A k, l \in 1 .. m : p[k] = p[l] => k = l
  BY DEF Once, m
<1> HIDE DEF m
<1>6. Once(w)
  <2>1. ASSUME NEW k \in 1 .. m - 1, NEW l \in 1 .. m - 1, w[k] = w[l] PROVE k = l
    <3>1. k \in 1 .. m /\ l \in 1 .. m /\ m \in 1 .. m /\ k # m /\ l # m
      BY <1>1, <2>1
    <3>2. (IF k = i THEN p[m] ELSE p[k]) = (IF l = i THEN p[m] ELSE p[l])
      BY <1>2, <1>3, <2>1, <3>1
    <3> QED
      BY <1>5, <3>1, <3>2
  <2> QED
    BY <1>3, <2>1 DEF Once
<1>7. ASSUME NEW b \in Nat, In(b, w) PROVE In(b, p) /\ b # p[i]
  <2>1. PICK k \in 1 .. m - 1 : w[k] = b
    BY <1>3, <1>7 DEF In
  <2>2. b = IF k = i THEN p[m] ELSE p[k]
    BY <1>1, <1>2, <1>3, <2>1, SMTT(30)
  <2>3. k \in 1 .. m /\ m \in 1 .. m /\ k # m
    BY <1>1, <2>1
  <2>4. b # p[i]
    BY <1>1, <1>5, <2>2, <2>3
  <2>5. In(b, p)
    BY <2>2, <2>3 DEF In, m
  <2> QED
    BY <2>4, <2>5
<1> QED
  BY <1>3, <1>4, <1>6, <1>7

(* A ring's buffers join those of the pool, as far as there is room: none is in   *)
(* it twice.                                                                *)
LEMMA PutIs ==
  ASSUME NEW p \in Seq(Nat), NEW bs \in Seq(Nat), Once(p), Once(bs),
         \A b \in Nat : In(b, bs) => ~In(b, p), MaxPooled \in Nat
  PROVE  /\ Out!Put(p, bs) \in Seq(Nat) /\ Once(Out!Put(p, bs))
         /\ \A b \in Nat : In(b, Out!Put(p, bs)) => In(b, p) \/ In(b, bs)
<1> DEFINE all == p \o bs
           m == Len(p)
           o == Len(bs)
           cut == IF Len(all) > MaxPooled THEN MaxPooled ELSE Len(all)
           w == SubSeq(all, 1, cut)
<1>1. m \in Nat /\ o \in Nat
  OBVIOUS
<1>2. all \in Seq(Nat) /\ Len(all) = m + o
      /\ \A k \in 1 .. m + o : all[k] = IF k <= m THEN p[k] ELSE bs[k - m]
  BY ConcatProperties
<1> HIDE DEF all
<1>3. cut \in Nat /\ cut <= m + o
  BY <1>1, <1>2
<1>4. w \in Seq(Nat) /\ Len(w) = cut /\ \A k \in 1 .. cut : w[k] = all[k]
  <2> HIDE DEF cut
  <2>1. \A k \in 1 .. cut : all[k] \in Nat
    BY <1>2, <1>3, <1>1
  <2>2. /\ w \in Seq(Nat) /\ Len(w) = IF 1 <= cut THEN cut - 1 + 1 ELSE 0
        /\ \A k \in 1 .. cut - 1 + 1 : w[k] = all[1 + k - 1]
    BY <1>3, <2>1, SubSeqProperties
  <2> HIDE DEF w
  <2> QED
    BY <1>3, <2>2
<1>5. Out!Put(p, bs) = w
  BY DEF Out!Put, w, all, cut
<1> HIDE DEF w, cut
<1>6. /\ \A k, l \in 1 .. m : p[k] = p[l] => k = l
      /\ \A k, l \in 1 .. o : bs[k] = bs[l] => k = l
  BY DEF Once
<1>7. \A k \in 1 .. m, l \in 1 .. o : p[k] # bs[l]
  BY DEF In
<1>8. \A k \in 1 .. m : p[k] \in Nat
  OBVIOUS
<1>9. \A k \in 1 .. o : bs[k] \in Nat
  OBVIOUS
<1> HIDE DEF m, o
<1>10. \A k, l \in 1 .. m + o : all[k] = all[l] => k = l
  <2> SUFFICES ASSUME NEW k \in 1 .. m + o, NEW l \in 1 .. m + o, all[k] = all[l] PROVE k = l
    OBVIOUS
  <2>1. CASE k <= m /\ l <= m
    <3>1. k \in 1 .. m /\ l \in 1 .. m
      BY <1>1, <2>1
    <3> QED
      BY <1>2, <1>6, <2>1, <3>1
  <2>2. CASE k > m /\ l > m
    <3>1. k - m \in 1 .. o /\ l - m \in 1 .. o /\ ~(k <= m) /\ ~(l <= m)
      BY <1>1, <2>2
    <3>2. k - m = l - m
      BY <1>2, <1>6, <3>1
    <3> QED
      BY <1>1, <3>2
  <2>3. CASE k <= m /\ l > m
    <3>1. k \in 1 .. m /\ l - m \in 1 .. o /\ ~(l <= m)
      BY <1>1, <2>3
    <3> QED
      BY <1>2, <1>7, <2>3, <3>1
  <2>4. CASE k > m /\ l <= m
    <3>1. k - m \in 1 .. o /\ l \in 1 .. m /\ ~(k <= m)
      BY <1>1, <2>4
    <3> QED
      BY <1>2, <1>7, <2>4, <3>1
  <2> QED
    BY <1>1, <2>1, <2>2, <2>3, <2>4
<1>11. Once(w)
  BY <1>1, <1>3, <1>4, <1>10 DEF Once
<1>12. ASSUME NEW b \in Nat, In(b, w) PROVE In(b, p) \/ In(b, bs)
  <2>1. PICK k \in 1 .. cut : w[k] = b
    BY <1>4, <1>12 DEF In
  <2>2. k \in 1 .. m + o /\ b = all[k]
    BY <1>1, <1>3, <1>4, <2>1
  <2>3. CASE k <= m
    <3>1. k \in 1 .. m /\ b = p[k]
      BY <1>1, <1>2, <2>2, <2>3
    <3> QED
      BY <3>1 DEF In, m
  <2>4. CASE k > m
    <3>1. k - m \in 1 .. o /\ ~(k <= m)
      BY <1>1, <2>2, <2>4
    <3>2. b = bs[k - m]
      BY <1>2, <2>2, <3>1
    <3> QED
      BY <3>1, <3>2 DEF In, o
  <2> QED
    BY <1>1, <2>2, <2>3, <2>4
<1> QED
  BY <1>4, <1>5, <1>11, <1>12

(* An output fills the next place of a ring and leaves the others alone.       *)
LEMMA FilledIs ==
  ASSUME DeepEnough, NEW r, RingOK(r), NEW b \in Nat
  PROVE  /\ RingOK(Out!Filled(r, b)) /\ Out!Filled(r, b).idx = Out!Advance(r.idx)
         /\ r.idx \in 1 .. Len(Out!Filled(r, b).bufs) /\ Out!Filled(r, b).bufs[r.idx] = b
         /\ \A k \in 1 .. Len(r.bufs) : k # r.idx =>
              k \in 1 .. Len(Out!Filled(r, b).bufs) /\ Out!Filled(r, b).bufs[k] = r.bufs[k]
         /\ \A k \in 1 .. Len(Out!Filled(r, b).bufs) : k # r.idx =>
              k \in 1 .. Len(r.bufs) /\ Out!Filled(r, b).bufs[k] = r.bufs[k]
<1> DEFINE m == Len(r.bufs)
           x == r.idx
           f == [k \in DOMAIN r.bufs \cup {x} |-> IF k = x THEN b ELSE r.bufs[k]]
           o == IF m < Depth /\ x = m + 1 THEN m + 1 ELSE m
<1>1. m \in Nat /\ m <= Depth /\ x \in 1 .. Depth /\ (m < Depth => x = m + 1) /\ Depth \in Nat /\ Depth >= 2
  BY DEF RingOK, DeepEnough
<1>2. DOMAIN r.bufs = 1 .. m /\ \A k \in 1 .. m : r.bufs[k] \in Nat
  BY DEF RingOK
<1>3. Out!Filled(r, b).bufs = f /\ Out!Filled(r, b).idx = Out!Advance(x)
  BY DEF Out!Filled
<1> HIDE DEF m, x
<1>4. o \in Nat /\ 1 .. m \cup {x} = 1 .. o /\ o <= Depth /\ x \in 1 .. o /\ m <= o
  BY <1>1
<1>5. f \in [1 .. o -> Nat]
  BY <1>2, <1>4
<1>6. f \in Seq(Nat) /\ Len(f) = o
  <2> HIDE DEF f, o
  <2>1. f \in Seq(Nat)
    BY <1>4, <1>5, SeqDef
  <2>2. DOMAIN f = 1 .. o /\ DOMAIN f = 1 .. Len(f) /\ Len(f) \in Nat
    BY <1>5, <2>1, LenProperties
  <2> QED
    BY <1>4, <2>1, <2>2
<1>7. \A k \in 1 .. o : f[k] = IF k = x THEN b ELSE r.bufs[k]
  BY <1>2, <1>4
<1>8. \A k \in 1 .. o : k # x => k \in 1 .. m
  BY <1>1
<1>9. \A k \in 1 .. m : k \in 1 .. o
  BY <1>1, <1>4
<1> HIDE DEF f
<1>10. Out!Advance(x) \in 1 .. Depth /\ (o < Depth => Out!Advance(x) = o + 1)
  BY <1>1 DEF Out!Advance
<1> HIDE DEF o
<1>11. RingOK(Out!Filled(r, b))
  BY <1>3, <1>4, <1>6, <1>10 DEF RingOK
<1> QED
  BY <1>3, <1>4, <1>6, <1>7, <1>8, <1>9, <1>11 DEF m, x

(* The place moves on with every output, and for FeedCap + 1 outputs the next    *)
(* place to be filled is another: this is where the depth is needed.           *)
LEMMA SlotMoves ==
  ASSUME DeepEnough, NEW idx \in 1 .. Depth
  PROVE  /\ Slot(Out!Advance(idx), 0) = idx
         /\ \A w \in 0 .. FeedCap : Slot(idx, w) # idx /\ Slot(Out!Advance(idx), w + 1) = Slot(idx, w)
<1>1. Depth \in Nat /\ FeedCap \in Nat /\ Depth >= FeedCap + 2
  BY DEF DeepEnough
<1> QED
  BY <1>1 DEF Slot, Out!Advance

(* What an output into buffer b does, wherever the buffer came from.           *)
OutputOf(id, b) ==
  /\ rings' = [i \in DOMAIN rings \cup {id} |-> IF i = id THEN Out!Filled(Out!RingFor(id), b) ELSE rings[i]]
  /\ items' = Append(items, [id |-> id, buf |-> b, frame |-> frame, safe |-> TRUE])
  /\ bufs' \in Seq(Buffer) /\ Len(bufs) <= Len(bufs') /\ b \in 1 .. Len(bufs')
  /\ bufs'[b].id = id /\ bufs'[b].frame = frame
  /\ \A c \in 1 .. Len(bufs) : c # b => bufs'[c] = bufs[c]
  /\ \A i \in DOMAIN rings : \A k \in 1 .. Len(rings[i].bufs) :
       rings[i].bufs[k] = b => i = id /\ k = rings[id].idx
  /\ pool' \in Seq(Nat) /\ Once(pool') /\ \A c \in Nat : In(c, pool') => In(c, pool) /\ c # b

(* outRingFor finds the ring or makes an empty one.                           *)
LEMMA RingForOK ==
  ASSUME DeepEnough, OutTypes, NEW id
  PROVE  /\ RingOK(Out!RingFor(id))
         /\ id \in DOMAIN rings => Out!RingFor(id) = rings[id]
         /\ id \notin DOMAIN rings => Out!RingFor(id).bufs = <<>>
  BY DEF RingOK, Out!RingFor, DeepEnough, OutTypes

(* Only the buffer written to changes.                                       *)
LEMMA CopyIs ==
  ASSUME OutTypes, NEW id \in Ids, NEW b \in 1 .. Len(bufs), Out!Copy(id, b)
  PROVE  /\ bufs' \in Seq(Buffer) /\ Len(bufs') = Len(bufs)
         /\ bufs'[b].id = id /\ bufs'[b].frame = frame
         /\ \A c \in 1 .. Len(bufs) : c # b => bufs'[c] = bufs[c]
<1>1. bufs \in Seq(Buffer) /\ frame \in Int
  BY DEF OutTypes
<1> DEFINE e == [cap |-> bufs[b].cap, id |-> id, frame |-> frame]
<1>2. bufs[b] \in Buffer
  BY <1>1, ElementOfSeq
<1>3. e \in Buffer /\ e.id = id /\ e.frame = frame
  BY <1>1, <1>2 DEF Buffer
<1>4. bufs' = [bufs EXCEPT ![b] = e]
  BY DEF Out!Copy
<1> HIDE DEF e
<1> QED
  BY <1>1, <1>3, <1>4, ExceptSeq

(* The ring's own buffer, one from the pool and a new one all do for an output. *)
LEMMA OutputIs ==
  ASSUME DeepEnough, OutTypes, Apart, NEW id \in Ids, NEW len \in Nat,
         Out!UseOwn(id, len) \/ Out!UsePooled(id, len) \/ Out!UseNew(id, len)
  PROVE  \E b \in Nat : OutputOf(id, b)
<1> DEFINE r == Out!RingFor(id)
<1>1. RingOK(r) /\ (id \in DOMAIN rings => r = rings[id]) /\ (id \notin DOMAIN rings => r.bufs = <<>>)
  BY RingForOK
<1>2. pool \in Seq(Nat) /\ bufs \in Seq(Buffer) /\ Len(bufs) \in Nat /\ frame \in Int
  BY DEF OutTypes
<1>3. CASE Out!UseOwn(id, len)
  <2> DEFINE b == r.bufs[r.idx]
  <2>1. r.idx \in 1 .. Len(r.bufs) /\ Out!Fill(id, b) /\ Out!Copy(id, b) /\ pool' = pool
    BY <1>1, <1>3 DEF Out!UseOwn, Out!HasOwn, RingOK
  <2>2. id \in DOMAIN rings /\ r = rings[id]
    BY <1>1, <2>1
  <2>3. b \in Nat
    BY <1>1, <2>1 DEF RingOK
  <2>4. In(b, rings[id].bufs)
    BY <2>1, <2>2 DEF In
  <2>5. ~In(b, pool) /\ b \in 1 .. Len(bufs)
    BY <2>2, <2>3, <2>4 DEF Apart
  <2> HIDE DEF b
  <2>6. /\ bufs' \in Seq(Buffer) /\ Len(bufs') = Len(bufs)
        /\ bufs'[b].id = id /\ bufs'[b].frame = frame
        /\ \A c \in 1 .. Len(bufs) : c # b => bufs'[c] = bufs[c]
    BY <2>1, <2>5, CopyIs
  <2>7. ASSUME NEW i \in DOMAIN rings, NEW k \in 1 .. Len(rings[i].bufs), rings[i].bufs[k] = b
        PROVE  i = id /\ k = rings[id].idx
    <3>1. In(b, rings[i].bufs)
      BY <2>7 DEF In
    <3>2. i = id
      BY <2>2, <2>3, <2>4, <3>1 DEF Apart
    <3>3. Once(rings[id].bufs)
      BY <2>2 DEF Apart
    <3> QED
      BY <2>1, <2>2, <2>7, <3>2, <3>3 DEF Once, b
  <2>8. Once(pool) /\ \A c \in Nat : In(c, pool) => c # b
    BY <2>5 DEF Apart
  <2>9. OutputOf(id, b)
    BY <1>2, <2>1, <2>5, <2>6, <2>7, <2>8 DEF OutputOf, Out!Fill
  <2> QED
    BY <2>3, <2>9
<1>4. CASE Out!UsePooled(id, len)
  <2>1. PICK j \in 1 .. Len(pool) : Out!Fill(id, pool[j]) /\ Out!Copy(id, pool[j]) /\ pool' = Out!Without(pool, j)
    BY <1>2, <1>4 DEF Out!UsePooled
  <2> DEFINE b == pool[j]
  <2>2. b \in Nat /\ In(b, pool)
    BY <1>2, <2>1 DEF In
  <2>3. b \in 1 .. Len(bufs)
    BY <2>2 DEF Apart
  <2>4. Once(pool)
    BY DEF Apart
  <2>5. pool' \in Seq(Nat) /\ Once(pool') /\ \A c \in Nat : In(c, pool') => In(c, pool) /\ c # b
    BY <1>2, <2>1, <2>4, WithoutIs
  <2>6. Out!Fill(id, b) /\ Out!Copy(id, b)
    BY <2>1
  <2> HIDE DEF b
  <2>7. /\ bufs' \in Seq(Buffer) /\ Len(bufs') = Len(bufs)
        /\ bufs'[b].id = id /\ bufs'[b].frame = frame
        /\ \A c \in 1 .. Len(bufs) : c # b => bufs'[c] = bufs[c]
    BY <2>3, <2>6, CopyIs
  <2>8. ASSUME NEW i \in DOMAIN rings, NEW k \in 1 .. Len(rings[i].bufs), rings[i].bufs[k] = b
        PROVE  FALSE
    <3>1. In(b, rings[i].bufs)
      BY <2>8 DEF In
    <3> QED
      BY <2>2, <3>1 DEF Apart
  <2>9. OutputOf(id, b)
    BY <1>2, <2>3, <2>5, <2>6, <2>7, <2>8 DEF OutputOf, Out!Fill
  <2> QED
    BY <2>2, <2>9
<1>5. CASE Out!UseNew(id, len)
  <2> DEFINE b == Len(bufs) + 1
             e == [cap |-> len, id |-> id, frame |-> frame]
  <2>1. Out!Fill(id, b) /\ bufs' = Append(bufs, e)
    BY <1>5 DEF Out!UseNew
  <2>2. e \in Buffer /\ e.id = id /\ e.frame = frame
    BY <1>2 DEF Buffer
  <2>3. Once(pool)
    BY DEF Apart
  <2>4. pool' \in Seq(Nat) /\ Once(pool') /\ \A c \in Nat : In(c, pool') => In(c, pool)
    <3>1. CASE pool' = pool
      BY <1>2, <2>3, <3>1
    <3>2. CASE \E j \in DOMAIN pool : pool' = Out!Without(pool, j)
      <4>1. PICK j \in 1 .. Len(pool) : pool' = Out!Without(pool, j)
        BY <1>2, <3>2
      <4> QED
        BY <1>2, <2>3, <4>1, WithoutIs
    <3> QED
      BY <1>5, <3>1, <3>2 DEF Out!UseNew
  <2>5. \A c \in Nat : In(c, pool) => c # b
    BY <1>2 DEF Apart
  <2>6. ASSUME NEW i \in DOMAIN rings, NEW k \in 1 .. Len(rings[i].bufs), rings[i].bufs[k] = b
        PROVE  FALSE
    <3>1. In(b, rings[i].bufs) /\ b \in Nat
      BY <1>2, <2>6 DEF In
    <3>2. b \in 1 .. Len(bufs)
      BY <3>1 DEF Apart
    <3> QED
      BY <1>2, <3>2
  <2>7. b \in Nat /\ Len(bufs) <= b
    BY <1>2
  <2> HIDE DEF e
  <2>8. /\ bufs' \in Seq(Buffer) /\ Len(bufs') = Len(bufs) + 1
        /\ \A c \in 1 .. Len(bufs) : bufs'[c] = bufs[c]
        /\ bufs'[Len(bufs) + 1] = e
    BY <1>2, <2>1, <2>2, AppendProperties
  <2>9. bufs'[b] = e /\ Len(bufs') = b /\ b \in 1 .. Len(bufs')
    BY <1>2, <2>8
  <2> HIDE DEF b
  <2>10. OutputOf(id, b)
    BY <2>1, <2>2, <2>4, <2>5, <2>6, <2>7, <2>8, <2>9 DEF OutputOf, Out!Fill
  <2> QED
    BY <2>7, <2>10
<1> QED
  BY <1>3, <1>4, <1>5

(* An output leaves a snippet of an earlier message where it is.              *)
LEMMA OutputPlaces ==
  ASSUME DeepEnough, OutTypes, Apart, NEW id \in todo, NEW b \in Nat, OutputOf(id, b), id \in Ids,
         frame' = frame, gone' = gone, gone = {}, todo' = todo \ {id},
         NEW x \in Snippet, NEW a \in 0 .. FeedCap + 1, InPlace(x, a)
  PROVE  InPlace(x, a)'
<1> DEFINE r == Out!RingFor(id)
           f == Out!Filled(r, b)
<1>1. RingOK(r) /\ (id \in DOMAIN rings => r = rings[id])
  BY RingForOK
<1>2. /\ RingOK(f) /\ f.idx = Out!Advance(r.idx)
      /\ \A k \in 1 .. Len(r.bufs) : k # r.idx => k \in 1 .. Len(f.bufs) /\ f.bufs[k] = r.bufs[k]
  BY <1>1, FilledIs
<1>3. /\ DOMAIN rings' = DOMAIN rings \cup {id} /\ rings'[id] = f
      /\ \A i \in DOMAIN rings : i # id => rings'[i] = rings[i]
  BY DEF OutputOf
<1> HIDE DEF r, f
<1> DEFINE old == Slot(rings[x.id].idx, Since(x.id, a))
<1>4. /\ x.id \in DOMAIN rings /\ Since(x.id, a) >= 0 /\ old \in 1 .. Len(rings[x.id].bufs)
      /\ rings[x.id].bufs[old] = x.buf /\ Out!Kept(x) /\ x.frame = frame - a
  BY DEF InPlace
<1>5. x.buf \in Nat /\ In(x.buf, rings[x.id].bufs)
  BY <1>4 DEF In, Snippet
<1>6. x.buf \in 1 .. Len(bufs)
  BY <1>4, <1>5 DEF Apart
<1>7. FeedCap \in Nat
  BY DEF DeepEnough
<1>8. CASE x.id = id
  <2>1. Since(id, a) = a - 1 /\ a - 1 \in 0 .. FeedCap /\ Since(id, a)' = a
    BY <1>4, <1>7, <1>8 DEF Since
  <2>2. r = rings[id] /\ r.idx \in 1 .. Depth
    BY <1>1, <1>4, <1>8 DEF RingOK
  <2>3. Slot(r.idx, a - 1) # r.idx /\ Slot(Out!Advance(r.idx), a - 1 + 1) = Slot(r.idx, a - 1)
    BY <2>1, <2>2, SlotMoves
  <2>4. a - 1 + 1 = a
    BY <2>1
  <2>5. old = Slot(r.idx, a - 1) /\ old # r.idx
    BY <1>8, <2>1, <2>2, <2>3
  <2>6. Slot(f.idx, a) = old
    BY <1>2, <2>3, <2>4, <2>5
  <2>7. old \in 1 .. Len(f.bufs) /\ f.bufs[old] = x.buf
    BY <1>2, <1>4, <1>8, <2>2, <2>5
  <2>8. x.buf # b
    BY <1>4, <1>8, <2>2, <2>5 DEF OutputOf
  <2>9. Out!Kept(x)'
    BY <1>4, <1>6, <2>8 DEF Out!Kept, OutputOf
  <2>10. Since(x.id, a)' >= 0
    BY <1>8, <2>1, <1>7
  <2> QED
    BY <1>3, <1>4, <1>8, <2>1, <2>6, <2>7, <2>9, <2>10 DEF InPlace, Slot
<1>9. CASE x.id # id
  <2>1. rings'[x.id] = rings[x.id] /\ x.id \in DOMAIN rings'
    BY <1>3, <1>4, <1>9
  <2>2. Since(x.id, a)' = Since(x.id, a)
    BY <1>9 DEF Since
  <2>3. x.buf # b
    BY <1>4, <1>9 DEF OutputOf
  <2>4. Out!Kept(x)'
    BY <1>4, <1>6, <2>3 DEF Out!Kept, OutputOf
  <2> QED
    BY <1>4, <2>1, <2>2, <2>4 DEF InPlace, Slot
<1> QED
  BY <1>8, <1>9

(* And the snippet it makes is in its place.                                 *)
LEMMA NewPlaced ==
  ASSUME DeepEnough, OutTypes, NEW id \in todo, NEW b \in Nat, OutputOf(id, b),
         frame' = frame, gone' = gone, gone = {}, todo' = todo \ {id},
         NEW x, x = [id |-> id, buf |-> b, frame |-> frame, safe |-> TRUE]
  PROVE  InPlace(x, 0)'
<1> DEFINE r == Out!RingFor(id)
           f == Out!Filled(r, b)
<1>1. RingOK(r)
  BY RingForOK
<1>2. f.idx = Out!Advance(r.idx) /\ r.idx \in 1 .. Len(f.bufs) /\ f.bufs[r.idx] = b
  BY <1>1, FilledIs
<1>3. Slot(Out!Advance(r.idx), 0) = r.idx
  BY <1>1, SlotMoves DEF RingOK
<1>4. DOMAIN rings' = DOMAIN rings \cup {id} /\ rings'[id] = f
  BY DEF OutputOf
<1> HIDE DEF r, f
<1>5. x.id = id /\ x.buf = b /\ x.frame = frame
  OBVIOUS
<1>6. Out!Kept(x)'
  BY <1>5 DEF Out!Kept, OutputOf
<1>7. Since(id, 0)' = 0
  BY DEF Since
<1>8. frame' - 0 = frame /\ frame \in Nat
  BY DEF OutTypes
<1> HIDE DEF OutputOf
<1> QED
  BY <1>2, <1>3, <1>4, <1>5, <1>6, <1>7, <1>8 DEF InPlace, Slot

(* No buffer comes into two places.                                          *)
LEMMA OutputApart ==
  ASSUME DeepEnough, OutTypes, Apart, NEW id \in Ids, NEW b \in Nat, OutputOf(id, b)
  PROVE  Apart'
<1> DEFINE r == Out!RingFor(id)
           f == Out!Filled(r, b)
<1>1. RingOK(r) /\ (id \in DOMAIN rings => r = rings[id]) /\ (id \notin DOMAIN rings => r.bufs = <<>>)
  BY RingForOK
<1>2. /\ r.idx \in 1 .. Len(f.bufs) /\ f.bufs[r.idx] = b
      /\ \A k \in 1 .. Len(f.bufs) : k # r.idx =>
           k \in 1 .. Len(r.bufs) /\ f.bufs[k] = r.bufs[k]
  BY <1>1, FilledIs
<1>3. /\ DOMAIN rings' = DOMAIN rings \cup {id} /\ rings'[id] = f
      /\ \A i \in DOMAIN rings : i # id => rings'[i] = rings[i]
  BY DEF OutputOf
<1> HIDE DEF r, f
<1>4. ASSUME NEW k \in 1 .. Len(r.bufs), k # r.idx PROVE id \in DOMAIN rings /\ r.bufs[k] # b
  <2>1. id \in DOMAIN rings /\ r = rings[id]
    BY <1>1, <1>4
  <2> QED
    BY <1>4, <2>1 DEF OutputOf
<1>5. Once(f.bufs)
  <2> SUFFICES ASSUME NEW k \in 1 .. Len(f.bufs), NEW l \in 1 .. Len(f.bufs), f.bufs[k] = f.bufs[l]
               PROVE  k = l
    BY DEF Once
  <2>1. CASE k # r.idx /\ l # r.idx
    <3>1. k \in 1 .. Len(r.bufs) /\ l \in 1 .. Len(r.bufs) /\ r.bufs[k] = r.bufs[l]
      BY <1>2, <2>1
    <3>2. id \in DOMAIN rings /\ r = rings[id]
      BY <1>1, <1>4, <2>1, <3>1
    <3> QED
      BY <3>1, <3>2 DEF Apart, Once
  <2>2. CASE k = r.idx \/ l = r.idx
    BY <1>2, <1>4, <2>2
  <2> QED
    BY <2>1, <2>2
<1>6. ASSUME NEW c \in Nat, In(c, f.bufs) PROVE c = b \/ (id \in DOMAIN rings /\ In(c, rings[id].bufs))
  <2>1. PICK k \in 1 .. Len(f.bufs) : f.bufs[k] = c
    BY <1>6 DEF In
  <2>2. CASE k = r.idx
    BY <1>2, <2>1, <2>2
  <2>3. CASE k # r.idx
    <3>1. k \in 1 .. Len(r.bufs) /\ r.bufs[k] = c
      BY <1>2, <2>1, <2>3
    <3>2. id \in DOMAIN rings /\ r = rings[id]
      BY <1>1, <1>4, <2>3, <3>1
    <3> QED
      BY <3>1, <3>2 DEF In
  <2> QED
    BY <2>2, <2>3
<1>7. ASSUME NEW i \in DOMAIN rings, i # id PROVE ~In(b, rings[i].bufs)
  BY <1>7 DEF OutputOf, In
<1>8. \A i \in DOMAIN rings' : Once(rings'[i].bufs)
  BY <1>3, <1>5 DEF Apart
<1>9. ASSUME NEW i \in DOMAIN rings', NEW j \in DOMAIN rings', NEW c \in Nat,
             In(c, rings'[i].bufs), In(c, rings'[j].bufs)
      PROVE  i = j
  <2>1. ASSUME NEW h \in DOMAIN rings', In(c, rings'[h].bufs)
        PROVE  (h = id /\ c = b) \/ (h \in DOMAIN rings /\ In(c, rings[h].bufs))
    BY <1>3, <1>6, <2>1
  <2>2. (i = id /\ c = b) \/ (i \in DOMAIN rings /\ In(c, rings[i].bufs))
    BY <1>9, <2>1
  <2>3. (j = id /\ c = b) \/ (j \in DOMAIN rings /\ In(c, rings[j].bufs))
    BY <1>9, <2>1
  <2> QED
    BY <1>7, <2>2, <2>3 DEF Apart
<1>10. Once(pool')
  BY DEF OutputOf
<1>11. ASSUME NEW i \in DOMAIN rings', NEW c \in Nat, In(c, rings'[i].bufs)
       PROVE  ~In(c, pool') /\ c \in 1 .. Len(bufs')
  <2>1. (i = id /\ c = b) \/ (i \in DOMAIN rings /\ In(c, rings[i].bufs))
    BY <1>3, <1>6, <1>11
  <2>2. CASE c = b
    BY <2>2 DEF OutputOf
  <2>3. CASE i \in DOMAIN rings /\ In(c, rings[i].bufs)
    <3>1. ~In(c, pool) /\ c \in 1 .. Len(bufs)
      BY <2>3 DEF Apart
    <3>2. Len(bufs) \in Nat /\ Len(bufs') \in Nat /\ Len(bufs) <= Len(bufs')
      BY DEF OutputOf, OutTypes
    <3> QED
      BY <3>1, <3>2 DEF OutputOf
  <2> QED
    BY <2>1, <2>2, <2>3
<1>12. ASSUME NEW c \in Nat, In(c, pool') PROVE c \in 1 .. Len(bufs')
  <2>1. c \in 1 .. Len(bufs)
    BY <1>12 DEF OutputOf, Apart
  <2>2. Len(bufs) \in Nat /\ Len(bufs') \in Nat /\ Len(bufs) <= Len(bufs')
    BY DEF OutputOf, OutTypes
  <2> QED
    BY <2>1, <2>2
<1> QED
  BY <1>8, <1>9, <1>10, <1>11, <1>12 DEF Apart

(* No message is older than the channel and the worker can hold.              *)
LEMMA AgesBounded ==
  ASSUME DeepEnough, OutTypes
  PROVE  /\ \A k \in 1 .. Len(feed) : Len(feed) - k + Begun \in 0 .. FeedCap + 1
         /\ Len(feed) + Begun \in 0 .. FeedCap + 1
<1>1. Len(feed) \in Nat /\ Len(feed) <= FeedCap /\ FeedCap \in Nat /\ Begun \in {0, 1}
  BY DEF OutTypes, DeepEnough, Begun
<1> QED
  BY <1>1

(* An output keeps the invariant, ...                                        *)
LEMMA OutputKeeps ==
  ASSUME DeepEnough, OutInv, NEW id \in Ids, NEW len \in Lengths[id], Out!Output(id, len)
  PROVE  OutInv'
<1>1. PICK b \in Nat : OutputOf(id, b)
  <2>1. len \in Nat
    BY DEF DeepEnough
  <2> QED
    BY <2>1, OutputIs DEF Out!Output, OutInv
<1>2. /\ at = "extract" /\ gone = {} /\ id \in todo /\ todo' = todo \ {id}
      /\ frame' = frame /\ gone' = gone /\ feed' = feed /\ busy' = busy
      /\ at' = IF todo = {id} THEN "feed" ELSE at
  BY DEF Out!Output
<1>3. OutTypes /\ Apart
  BY DEF OutInv
<1>4. PICK x \in Snippet : x = [id |-> id, buf |-> b, frame |-> frame, safe |-> TRUE]
  <2>1. frame \in Int
    BY <1>3 DEF OutTypes
  <2>2. [id |-> id, buf |-> b, frame |-> frame, safe |-> TRUE] \in Snippet
    BY <2>1 DEF Snippet
  <2> QED
    BY <2>2
<1>5. items' = Append(items, x)
  BY <1>1, <1>4 DEF OutputOf
<1>6. InPlace(x, 0)'
  BY <1>1, <1>2, <1>3, <1>4, NewPlaced
<1>7. items' \in Seq(Snippet) /\ Len(items') = Len(items) + 1
      /\ (\A j \in 1 .. Len(items) : items'[j] = items[j]) /\ items'[Len(items) + 1] = x
  BY <1>3, <1>4, <1>5, AppendProperties DEF OutTypes
<1>8. OutTypes'
  <2>1. \A i \in DOMAIN rings' : RingOK(rings'[i])
    <3>1. RingOK(Out!Filled(Out!RingFor(id), b))
      BY <1>3, RingForOK, FilledIs
    <3> QED
      BY <1>1, <1>3, <3>1 DEF OutputOf, OutTypes
  <2>2. DOMAIN rings' \subseteq Ids /\ gone' \subseteq DOMAIN rings'
    BY <1>1, <1>2, <1>3 DEF OutputOf, OutTypes
  <2>3. pool' \in Seq(Nat) /\ bufs' \in Seq(Buffer)
    BY <1>1 DEF OutputOf
  <2>4. at' \in {"idle", "extract", "feed"} /\ at' # "idle" /\ (at' # "extract" => gone' = {} /\ todo' = {})
    BY <1>2
  <2> QED
    BY <1>2, <1>3, <1>7, <2>1, <2>2, <2>3, <2>4 DEF OutTypes, RingOK
<1>9. Apart'
  BY <1>1, <1>3, OutputApart
<1>10. Begun' = Begun /\ Begun = 1
  BY <1>2 DEF Begun
<1>11. ASSUME NEW y \in Snippet, NEW a \in 0 .. FeedCap + 1, InPlace(y, a) PROVE InPlace(y, a)'
  BY <1>1, <1>2, <1>3, <1>11, OutputPlaces
<1>12. FeedPlaced'
  <2> SUFFICES ASSUME NEW k \in 1 .. Len(feed), NEW j \in 1 .. Len(feed[k]), feed[k][j].safe
               PROVE  InPlace(feed[k][j], Len(feed) - k + Begun)'
    BY <1>2 DEF FeedPlaced
  <2>1. feed[k][j] \in Snippet
    BY <1>3 DEF OutTypes
  <2>2. PICK y \in Snippet : y = feed[k][j]
    BY <2>1
  <2>3. PICK a \in 0 .. FeedCap + 1 : a = Len(feed) - k + Begun
    BY <1>3, AgesBounded
  <2>4. InPlace(y, a)
    BY <2>2, <2>3 DEF OutInv, FeedPlaced
  <2>5. InPlace(y, a)'
    BY <1>11, <2>4
  <2>6. y = feed'[k][j] /\ a = Len(feed') - k + Begun'
    BY <1>2, <1>10, <2>2, <2>3
  <2> QED
    BY <2>5, <2>6
<1>13. BusyPlaced'
  <2> SUFFICES ASSUME NEW k \in 1 .. Len(busy), NEW j \in 1 .. Len(busy[k]), busy[k][j].safe
               PROVE  InPlace(busy[k][j], Len(feed) + Begun)'
    BY <1>2 DEF BusyPlaced
  <2>1. busy[k][j] \in Snippet
    BY <1>3 DEF OutTypes
  <2>2. PICK y \in Snippet : y = busy[k][j]
    BY <2>1
  <2>3. PICK a \in 0 .. FeedCap + 1 : a = Len(feed) + Begun
    BY <1>3, AgesBounded
  <2>4. InPlace(y, a)
    BY <2>2, <2>3 DEF OutInv, BusyPlaced
  <2>5. InPlace(y, a)'
    BY <1>11, <2>4
  <2>6. y = busy'[k][j] /\ a = Len(feed') + Begun'
    BY <1>2, <1>10, <2>2, <2>3
  <2> QED
    BY <2>5, <2>6
<1>14. ItemsPlaced'
  <2> SUFFICES ASSUME NEW j \in 1 .. Len(items') PROVE InPlace(items[j], 0)'
    BY DEF ItemsPlaced
  <2>1. Len(items) \in Nat /\ \A i \in 1 .. Len(items) : items[i] \in Snippet
    BY <1>3 DEF OutTypes
  <2>2. CASE j \in 1 .. Len(items)
    <3>1. PICK y \in Snippet : y = items[j]
      BY <2>1, <2>2
    <3>2. InPlace(y, 0)
      BY <2>2, <3>1 DEF OutInv, ItemsPlaced
    <3>3. 0 \in 0 .. FeedCap + 1
      BY DEF DeepEnough
    <3>4. InPlace(y, 0)'
      BY <1>11, <3>2, <3>3
    <3> QED
      BY <1>7, <2>2, <3>1, <3>4
  <2>3. CASE j = Len(items) + 1
    BY <1>6, <1>7, <2>3
  <2> QED
    BY <1>7, <2>1, <2>2, <2>3
<1> QED
  BY <1>8, <1>9, <1>12, <1>13, <1>14 DEF OutInv

(* Tainting changes no snippet that stays safe.                              *)
LEMMA TaintIs ==
  ASSUME OutTypes, NEW ids, Out!Taint(ids)
  PROVE  /\ feed' \in Seq(Seq(Snippet)) /\ busy' \in Seq(Seq(Snippet))
         /\ Len(feed') = Len(feed) /\ Len(busy') = Len(busy)
         /\ \A k \in 1 .. Len(feed) : Len(feed'[k]) = Len(feed[k]) /\ \A j \in 1 .. Len(feed[k]) :
              feed'[k][j].safe => feed'[k][j] = feed[k][j] /\ feed[k][j].id \notin ids
         /\ \A k \in 1 .. Len(busy) : Len(busy'[k]) = Len(busy[k]) /\ \A j \in 1 .. Len(busy[k]) :
              busy'[k][j].safe => busy'[k][j] = busy[k][j] /\ busy[k][j].id \notin ids
<1>1. ASSUME NEW ms \in Seq(Seq(Snippet))
      PROVE  /\ Out!Unsafe(ms, ids) \in Seq(Seq(Snippet)) /\ Len(Out!Unsafe(ms, ids)) = Len(ms)
             /\ \A k \in 1 .. Len(ms) : Len(Out!Unsafe(ms, ids)[k]) = Len(ms[k]) /\ \A j \in 1 .. Len(ms[k]) :
                  Out!Unsafe(ms, ids)[k][j].safe => Out!Unsafe(ms, ids)[k][j] = ms[k][j] /\ ms[k][j].id \notin ids
  <2> DEFINE mark(x) == IF x.id \in ids THEN [x EXCEPT !.safe = FALSE] ELSE x
             line(m) == [j \in 1 .. Len(m) |-> mark(m[j])]
             u == [k \in 1 .. Len(ms) |-> line(ms[k])]
  <2>1. ASSUME NEW x \in Snippet PROVE mark(x) \in Snippet /\ (mark(x).safe => mark(x) = x /\ x.id \notin ids)
    <3>1. CASE x.id \in ids
      <4> DEFINE y == [x EXCEPT !.safe = FALSE]
      <4>1. y \in Snippet /\ y.safe = FALSE
        BY DEF Snippet
      <4> QED
        BY <3>1, <4>1
    <3>2. CASE x.id \notin ids
      BY <3>2
    <3> QED
      BY <3>1, <3>2
  <2> HIDE DEF mark
  <2>2. ASSUME NEW m \in Seq(Snippet)
        PROVE  /\ line(m) \in Seq(Snippet) /\ Len(line(m)) = Len(m)
               /\ \A j \in 1 .. Len(m) : line(m)[j] = mark(m[j])
    <3>1. \A j \in 1 .. Len(m) : mark(m[j]) \in Snippet
      BY <2>1, ElementOfSeq
    <3>2. line(m) \in [1 .. Len(m) -> Snippet] /\ Len(m) \in Nat
      BY <3>1
    <3>3. line(m) \in Seq(Snippet)
      BY <3>2, SeqDef
    <3>4. DOMAIN line(m) = 1 .. Len(line(m)) /\ Len(line(m)) \in Nat /\ DOMAIN line(m) = 1 .. Len(m)
      BY <3>3, LenProperties
    <3>5. Len(line(m)) = Len(m)
      BY <3>2, <3>4
    <3> QED
      BY <3>3, <3>5
  <2>3. \A k \in 1 .. Len(ms) : ms[k] \in Seq(Snippet)
    BY ElementOfSeq
  <2>4. Out!Unsafe(ms, ids) = u
    <3>1. DOMAIN ms = 1 .. Len(ms) /\ \A k \in 1 .. Len(ms) : DOMAIN ms[k] = 1 .. Len(ms[k])
      BY <2>3, LenProperties
    <3> QED
      BY <3>1 DEF Out!Unsafe, mark
  <2> HIDE DEF line
  <2>5. u \in [1 .. Len(ms) -> Seq(Snippet)] /\ Len(ms) \in Nat
    BY <2>2, <2>3
  <2>6. u \in Seq(Seq(Snippet))
    <3> DEFINE T == Seq(Snippet)
    <3>1. u \in [1 .. Len(ms) -> T] /\ Len(ms) \in Nat
      BY <2>5
    <3> HIDE DEF u, T
    <3>2. Seq(T) = UNION {[1 .. i -> T] : i \in Nat}
      BY SeqDef
    <3>3. \E i \in Nat : u \in [1 .. i -> T]
      BY <3>1
    <3>4. u \in UNION {[1 .. i -> T] : i \in Nat}
      BY <3>3
    <3>5. u \in Seq(T)
      BY <3>2, <3>4
    <3> QED
      BY <3>5 DEF T
  <2>7. DOMAIN u = 1 .. Len(u) /\ Len(u) \in Nat /\ DOMAIN u = 1 .. Len(ms)
    BY <2>6, LenProperties
  <2>8. Len(u) = Len(ms)
    BY <2>5, <2>7
  <2>9. \A k \in 1 .. Len(ms) : u[k] = line(ms[k])
    OBVIOUS
  <2> HIDE DEF u
  <2>10. ASSUME NEW k \in 1 .. Len(ms)
         PROVE  Len(u[k]) = Len(ms[k]) /\ \A j \in 1 .. Len(ms[k]) : u[k][j].safe => u[k][j] = ms[k][j] /\ ms[k][j].id \notin ids
    <3>1. PICK m \in Seq(Snippet) : m = ms[k]
      BY <2>3
    <3>2. u[k] = line(m)
      BY <2>9, <3>1
    <3>3. \A j \in 1 .. Len(m) : m[j] \in Snippet
      BY ElementOfSeq
    <3> QED
      BY <2>1, <2>2, <3>1, <3>2, <3>3
  <2> QED
    BY <2>4, <2>6, <2>8, <2>10
<1> QED
  BY <1>1, ZenonT(40) DEF Out!Taint, OutTypes

(* ... the beginning of a frame makes every message one frame older, ...        *)
LEMMA ExtractKeeps ==
  ASSUME DeepEnough, OutInv, NEW active \in SUBSET Ids, Out!Extract(active)
  PROVE  OutInv'
<1>1. /\ at = "idle" /\ frame' = frame + 1 /\ at' = "extract" /\ gone' = DOMAIN rings \ active /\ todo' = active
      /\ items' = <<>> /\ Out!Taint(DOMAIN rings \ active)
      /\ rings' = rings /\ pool' = pool /\ bufs' = bufs
  BY DEF Out!Extract, Out!mem
<1>2. OutTypes /\ Apart
  BY DEF OutInv
<1>3. /\ feed' \in Seq(Seq(Snippet)) /\ busy' \in Seq(Seq(Snippet))
      /\ Len(feed') = Len(feed) /\ Len(busy') = Len(busy)
      /\ \A k \in 1 .. Len(feed) : Len(feed'[k]) = Len(feed[k]) /\ \A j \in 1 .. Len(feed[k]) :
           feed'[k][j].safe => feed'[k][j] = feed[k][j] /\ feed[k][j].id \notin DOMAIN rings \ active
      /\ \A k \in 1 .. Len(busy) : Len(busy'[k]) = Len(busy[k]) /\ \A j \in 1 .. Len(busy[k]) :
           busy'[k][j].safe => busy'[k][j] = busy[k][j] /\ busy[k][j].id \notin DOMAIN rings \ active
  BY <1>1, <1>2, TaintIs
<1>4. OutTypes'
  BY <1>1, <1>2, <1>3 DEF OutTypes, RingOK
<1>5. Apart'
  BY <1>1, <1>2 DEF Apart
<1>6. ASSUME NEW x \in Snippet, NEW a \in 0 .. FeedCap + 1, InPlace(x, a), x.id \notin DOMAIN rings \ active
      PROVE  InPlace(x, a + 1)'
  <2>1. a \in Nat /\ frame \in Nat /\ todo = {} /\ x.id \in active
    BY <1>1, <1>2, <1>6 DEF OutTypes, DeepEnough, InPlace
  <2>2. Since(x.id, a) = a /\ Since(x.id, a + 1)' = a + 1 - 1 /\ a + 1 - 1 = a
    BY <1>1, <2>1 DEF Since
  <2>3. frame' - (a + 1) = frame - a
    BY <1>1, <2>1
  <2>4. Out!Kept(x)'
    BY <1>1, <1>6 DEF InPlace, Out!Kept
  <2> QED
    BY <1>1, <1>6, <2>1, <2>2, <2>3, <2>4 DEF InPlace, Slot
<1>7. Begun = 0 /\ Begun' = 1
  BY <1>1 DEF Begun
<1>8. FeedPlaced'
  <2> SUFFICES ASSUME NEW k \in 1 .. Len(feed'), NEW j \in 1 .. Len(feed'[k]), feed'[k][j].safe
               PROVE  InPlace(feed[k][j], Len(feed) - k + Begun)'
    BY DEF FeedPlaced
  <2>1. /\ k \in 1 .. Len(feed) /\ j \in 1 .. Len(feed[k]) /\ feed'[k][j] = feed[k][j]
        /\ feed[k][j].safe /\ feed[k][j].id \notin DOMAIN rings \ active
    BY <1>3
  <2>2. feed[k][j] \in Snippet
    BY <1>2, <2>1 DEF OutTypes
  <2>3. PICK y \in Snippet : y = feed[k][j]
    BY <2>2
  <2>4. PICK a \in 0 .. FeedCap + 1 : a = Len(feed) - k + Begun
    BY <1>2, <2>1, AgesBounded
  <2>5. InPlace(y, a)
    BY <2>1, <2>3, <2>4 DEF OutInv, FeedPlaced
  <2>6. InPlace(y, a + 1)'
    BY <1>6, <2>1, <2>3, <2>5
  <2>7. Len(feed) \in Nat
    BY <1>2 DEF OutTypes
  <2>8. y = feed'[k][j] /\ a + 1 = Len(feed') - k + Begun'
    BY <1>3, <1>7, <2>1, <2>3, <2>4, <2>7
  <2> QED
    BY <2>6, <2>8
<1>9. BusyPlaced'
  <2> SUFFICES ASSUME NEW k \in 1 .. Len(busy'), NEW j \in 1 .. Len(busy'[k]), busy'[k][j].safe
               PROVE  InPlace(busy[k][j], Len(feed) + Begun)'
    BY DEF BusyPlaced
  <2>1. /\ k \in 1 .. Len(busy) /\ j \in 1 .. Len(busy[k]) /\ busy'[k][j] = busy[k][j]
        /\ busy[k][j].safe /\ busy[k][j].id \notin DOMAIN rings \ active
    BY <1>3
  <2>2. busy[k][j] \in Snippet
    BY <1>2, <2>1 DEF OutTypes
  <2>3. PICK y \in Snippet : y = busy[k][j]
    BY <2>2
  <2>4. PICK a \in 0 .. FeedCap + 1 : a = Len(feed) + Begun
    BY <1>2, AgesBounded
  <2>5. InPlace(y, a)
    BY <2>1, <2>3, <2>4 DEF OutInv, BusyPlaced
  <2>6. InPlace(y, a + 1)'
    BY <1>6, <2>1, <2>3, <2>5
  <2>7. Len(feed) \in Nat
    BY <1>2 DEF OutTypes
  <2>8. y = busy'[k][j] /\ a + 1 = Len(feed') + Begun'
    BY <1>3, <1>7, <2>1, <2>3, <2>4, <2>7
  <2> QED
    BY <2>6, <2>8
<1>10. ItemsPlaced'
  BY <1>1 DEF ItemsPlaced
<1> QED
  BY <1>4, <1>5, <1>8, <1>9, <1>10 DEF OutInv

(* ... pruning gives away the buffers of a ring that no safe snippet has, as its *)
(* signal is not in the frame, ...                                           *)
LEMMA PruneKeeps ==
  ASSUME DeepEnough, OutInv, NEW id \in Ids, Out!PruneOutRings(id)
  PROVE  OutInv'
<1>1. /\ at = "extract" /\ id \in gone /\ gone' = gone \ {id}
      /\ rings' = [i \in DOMAIN rings \ {id} |-> rings[i]]
      /\ pool' = Out!Put(pool, rings[id].bufs)
      /\ frame' = frame /\ at' = at /\ todo' = todo /\ bufs' = bufs /\ items' = items /\ feed' = feed /\ busy' = busy
  BY DEF Out!PruneOutRings
<1>2. OutTypes /\ Apart
  BY DEF OutInv
<1>3. id \in DOMAIN rings
  BY <1>1, <1>2 DEF OutTypes
<1>4. DOMAIN rings' = DOMAIN rings \ {id} /\ \A i \in DOMAIN rings \ {id} : rings'[i] = rings[i]
  BY <1>1
<1>5. /\ pool' \in Seq(Nat) /\ Once(pool')
      /\ \A b \in Nat : In(b, pool') => In(b, pool) \/ In(b, rings[id].bufs)
  <2>1. pool \in Seq(Nat) /\ rings[id].bufs \in Seq(Nat) /\ MaxPooled \in Nat
    BY <1>2, <1>3 DEF OutTypes, RingOK, DeepEnough
  <2>2. Once(pool) /\ Once(rings[id].bufs) /\ \A b \in Nat : In(b, rings[id].bufs) => ~In(b, pool)
    BY <1>2, <1>3 DEF Apart
  <2> QED
    BY <1>1, <2>1, <2>2, PutIs
<1>6. OutTypes'
  <2>1. \A i \in DOMAIN rings' : RingOK(rings'[i])
    BY <1>2, <1>4 DEF OutTypes
  <2>2. DOMAIN rings' \subseteq Ids /\ gone' \subseteq DOMAIN rings'
    BY <1>1, <1>2, <1>4 DEF OutTypes
  <2> QED
    BY <1>1, <1>2, <1>5, <2>1, <2>2 DEF OutTypes, RingOK
<1>7. Apart'
  <2>1. ASSUME NEW i \in DOMAIN rings', NEW b \in Nat, In(b, rings'[i].bufs)
        PROVE  ~In(b, pool') /\ b \in 1 .. Len(bufs')
    <3>1. i \in DOMAIN rings /\ i # id /\ In(b, rings[i].bufs)
      BY <1>4, <2>1
    <3> QED
      BY <1>1, <1>2, <1>3, <1>5, <3>1 DEF Apart
  <2>2. \A b \in Nat : In(b, pool') => b \in 1 .. Len(bufs')
    BY <1>1, <1>2, <1>3, <1>5 DEF Apart
  <2>3. \A i \in DOMAIN rings' : Once(rings'[i].bufs)
    BY <1>2, <1>4 DEF Apart
  <2>4. \A i, j \in DOMAIN rings' : \A b \in Nat : In(b, rings'[i].bufs) /\ In(b, rings'[j].bufs) => i = j
    BY <1>2, <1>4 DEF Apart
  <2> QED
    BY <1>5, <2>1, <2>2, <2>3, <2>4 DEF Apart
<1>8. ASSUME NEW x, NEW a, InPlace(x, a) PROVE InPlace(x, a)'
  <2>1. x.id # id /\ x.id \in DOMAIN rings /\ x.id \notin gone
    BY <1>1, <1>8 DEF InPlace
  <2>2. rings'[x.id] = rings[x.id] /\ x.id \in DOMAIN rings' /\ x.id \notin gone'
    BY <1>1, <1>4, <2>1
  <2>3. Out!Kept(x)' /\ Since(x.id, a)' = Since(x.id, a)
    BY <1>1, <1>8 DEF InPlace, Out!Kept, Since
  <2> QED
    BY <1>1, <1>8, <2>2, <2>3 DEF InPlace, Slot
<1>9. Begun' = Begun
  BY <1>1 DEF Begun
<1>10. FeedPlaced'
  <2> SUFFICES ASSUME NEW k \in 1 .. Len(feed), NEW j \in 1 .. Len(feed[k]), feed[k][j].safe
               PROVE  InPlace(feed[k][j], Len(feed) - k + Begun)'
    BY <1>1 DEF FeedPlaced
  <2>1. PICK y : y = feed[k][j]
    OBVIOUS
  <2>2. PICK a : a = Len(feed) - k + Begun
    OBVIOUS
  <2>3. InPlace(y, a)
    BY <2>1, <2>2 DEF OutInv, FeedPlaced
  <2>4. InPlace(y, a)'
    BY <1>8, <2>3
  <2>5. y = feed'[k][j] /\ a = Len(feed') - k + Begun'
    BY <1>1, <1>9, <2>1, <2>2
  <2> QED
    BY <2>4, <2>5
<1>11. BusyPlaced'
  <2> SUFFICES ASSUME NEW k \in 1 .. Len(busy), NEW j \in 1 .. Len(busy[k]), busy[k][j].safe
               PROVE  InPlace(busy[k][j], Len(feed) + Begun)'
    BY <1>1 DEF BusyPlaced
  <2>1. PICK y : y = busy[k][j]
    OBVIOUS
  <2>2. PICK a : a = Len(feed) + Begun
    OBVIOUS
  <2>3. InPlace(y, a)
    BY <2>1, <2>2 DEF OutInv, BusyPlaced
  <2>4. InPlace(y, a)'
    BY <1>8, <2>3
  <2>5. y = busy'[k][j] /\ a = Len(feed') + Begun'
    BY <1>1, <1>9, <2>1, <2>2
  <2> QED
    BY <2>4, <2>5
<1>12. ItemsPlaced'
  <2> SUFFICES ASSUME NEW j \in 1 .. Len(items) PROVE InPlace(items[j], 0)'
    BY <1>1 DEF ItemsPlaced
  <2>1. PICK y : y = items[j]
    OBVIOUS
  <2>2. InPlace(y, 0)
    BY <2>1 DEF OutInv, ItemsPlaced
  <2>3. InPlace(y, 0)'
    BY <1>8, <2>2
  <2>4. y = items'[j]
    BY <1>1, <2>1
  <2> QED
    BY <2>3, <2>4
<1> QED
  BY <1>6, <1>7, <1>10, <1>11, <1>12 DEF OutInv

(* ... a frame that is not fed leaves no safe snippet, ...                     *)
LEMMA DropKeeps ==
  ASSUME DeepEnough, OutInv, Out!Fail \/ Out!NotFed
  PROVE  OutInv'
<1>1. /\ at' = "idle" /\ items' = <<>> /\ todo' = {} /\ gone' = {} /\ Out!Taint(Ids)
      /\ frame' = frame /\ rings' = rings /\ pool' = pool /\ bufs' = bufs
  BY DEF Out!Fail, Out!NotFed, Out!mem, OutInv, OutTypes
<1>2. OutTypes /\ Apart
  BY DEF OutInv
<1>3. /\ feed' \in Seq(Seq(Snippet)) /\ busy' \in Seq(Seq(Snippet))
      /\ Len(feed') = Len(feed) /\ Len(busy') = Len(busy)
      /\ \A k \in 1 .. Len(feed) : Len(feed'[k]) = Len(feed[k]) /\ \A j \in 1 .. Len(feed[k]) :
           feed'[k][j].safe => feed'[k][j] = feed[k][j] /\ feed[k][j].id \notin Ids
      /\ \A k \in 1 .. Len(busy) : Len(busy'[k]) = Len(busy[k]) /\ \A j \in 1 .. Len(busy[k]) :
           busy'[k][j].safe => busy'[k][j] = busy[k][j] /\ busy[k][j].id \notin Ids
  BY <1>1, <1>2, TaintIs
<1>4. /\ \A k \in 1 .. Len(feed) : \A j \in 1 .. Len(feed[k]) : feed[k][j].id \in Ids
      /\ \A k \in 1 .. Len(busy) : \A j \in 1 .. Len(busy[k]) : busy[k][j].id \in Ids
  <2>1. \A y \in Snippet : y.id \in Ids
    BY DEF Snippet
  <2> QED
    BY <1>2, <2>1, SMTT(30) DEF OutTypes
<1>5. OutTypes'
  BY <1>1, <1>2, <1>3 DEF OutTypes, RingOK
<1>6. Apart'
  BY <1>1, <1>2 DEF Apart
<1>7. FeedPlaced'
  <2> SUFFICES ASSUME NEW k \in 1 .. Len(feed'), NEW j \in 1 .. Len(feed'[k]), feed'[k][j].safe PROVE FALSE
    BY DEF FeedPlaced
  <2> QED
    BY <1>3, <1>4, ZenonT(40)
<1>8. BusyPlaced'
  <2> SUFFICES ASSUME NEW k \in 1 .. Len(busy'), NEW j \in 1 .. Len(busy'[k]), busy'[k][j].safe PROVE FALSE
    BY DEF BusyPlaced
  <2> QED
    BY <1>3, <1>4, ZenonT(40)
<1>9. ItemsPlaced'
  BY <1>1 DEF ItemsPlaced
<1> QED
  BY <1>5, <1>6, <1>7, <1>8, <1>9 DEF OutInv

(* A step that leaves rings and buffers alone moves no snippet.                *)
LEMMA PlacesStay ==
  ASSUME NEW x, NEW a, InPlace(x, a), UNCHANGED <<frame, gone, todo, rings, bufs>>
  PROVE  InPlace(x, a)'
  BY DEF InPlace, Since, Slot, Out!Kept

(* ... a message queued is the newest, ...                                   *)
LEMMA FeedKeeps ==
  ASSUME DeepEnough, OutInv, Out!Feed
  PROVE  OutInv'
<1>1. /\ at = "feed" /\ Len(feed) < FeedCap /\ feed' = Append(feed, items) /\ at' = "idle" /\ items' = <<>>
      /\ UNCHANGED <<frame, gone, todo, rings, pool, bufs, busy>>
  BY DEF Out!Feed, Out!mem
<1>2. OutTypes /\ Apart
  BY DEF OutInv
<1>3. /\ feed \in Seq(Seq(Snippet)) /\ items \in Seq(Snippet) /\ Len(feed) \in Nat /\ FeedCap \in Nat
      /\ gone = {} /\ todo = {}
  BY <1>1, <1>2 DEF OutTypes, DeepEnough
<1>4. /\ feed' \in Seq(Seq(Snippet)) /\ Len(feed') = Len(feed) + 1
      /\ (\A k \in 1 .. Len(feed) : feed'[k] = feed[k]) /\ feed'[Len(feed) + 1] = items
  <2> DEFINE T == Seq(Snippet)
  <2>1. feed \in Seq(T) /\ items \in T
    BY <1>3
  <2> HIDE DEF T
  <2>2. /\ Append(feed, items) \in Seq(T) /\ Len(Append(feed, items)) = Len(feed) + 1
        /\ (\A k \in 1 .. Len(feed) : Append(feed, items)[k] = feed[k]) /\ Append(feed, items)[Len(feed) + 1] = items
    BY <2>1, AppendProperties
  <2> QED
    BY <1>1, <2>2 DEF T
<1>5. OutTypes'
  <2>1. Len(feed') <= FeedCap /\ gone' = {} /\ todo' = {}
    BY <1>1, <1>3, <1>4
  <2>2. items' \in Seq(Snippet)
    BY <1>1
  <2> QED
    BY <1>1, <1>2, <1>4, <2>1, <2>2 DEF OutTypes, RingOK
<1>6. Apart'
  BY <1>1, <1>2 DEF Apart
<1>7. Begun = 1 /\ Begun' = 0
  BY <1>1 DEF Begun
<1>8. ASSUME NEW x, NEW a, InPlace(x, a) PROVE InPlace(x, a)'
  BY <1>1, <1>8, PlacesStay
<1>9. FeedPlaced'
  <2> SUFFICES ASSUME NEW k \in 1 .. Len(feed'), NEW j \in 1 .. Len(feed'[k]), feed'[k][j].safe
               PROVE  InPlace(feed[k][j], Len(feed) - k + Begun)'
    BY DEF FeedPlaced
  <2>1. PICK y : y = feed'[k][j]
    OBVIOUS
  <2>2. PICK a : a = Len(feed') - k + Begun'
    OBVIOUS
  <2>3. CASE k \in 1 .. Len(feed)
    <3>1. y = feed[k][j] /\ j \in 1 .. Len(feed[k]) /\ feed[k][j].safe /\ a = Len(feed) - k + Begun
      BY <1>3, <1>4, <1>7, <2>1, <2>2, <2>3
    <3>2. InPlace(y, a)
      BY <2>3, <3>1 DEF OutInv, FeedPlaced
    <3>3. InPlace(y, a)'
      BY <1>8, <3>2
    <3> QED
      BY <2>1, <2>2, <3>3
  <2>4. CASE k = Len(feed) + 1
    <3>1. y = items[j] /\ j \in 1 .. Len(items) /\ a = 0
      BY <1>3, <1>4, <1>7, <2>1, <2>2, <2>4
    <3>2. InPlace(y, a)
      BY <3>1 DEF OutInv, ItemsPlaced
    <3>3. InPlace(y, a)'
      BY <1>8, <3>2
    <3> QED
      BY <2>1, <2>2, <3>3
  <2> QED
    BY <1>3, <1>4, <2>3, <2>4
<1>10. BusyPlaced'
  <2> SUFFICES ASSUME NEW k \in 1 .. Len(busy), NEW j \in 1 .. Len(busy[k]), busy[k][j].safe
               PROVE  InPlace(busy[k][j], Len(feed) + Begun)'
    BY <1>1 DEF BusyPlaced
  <2>1. PICK y : y = busy[k][j]
    OBVIOUS
  <2>2. PICK a : a = Len(feed) + Begun
    OBVIOUS
  <2>3. InPlace(y, a)
    BY <2>1, <2>2 DEF OutInv, BusyPlaced
  <2>4. InPlace(y, a)'
    BY <1>8, <2>3
  <2>5. y = busy'[k][j] /\ a = Len(feed') + Begun'
    BY <1>1, <1>3, <1>4, <1>7, <2>1, <2>2
  <2> QED
    BY <2>4, <2>5
<1>11. ItemsPlaced'
  BY <1>1 DEF ItemsPlaced
<1> QED
  BY <1>5, <1>6, <1>9, <1>10, <1>11 DEF OutInv

(* ... one taken is the oldest, ...                                          *)
LEMMA TakeKeeps ==
  ASSUME DeepEnough, OutInv, Out!Take
  PROVE  OutInv'
<1>1. /\ busy = <<>> /\ feed # <<>> /\ busy' = <<Head(feed)>> /\ feed' = Tail(feed)
      /\ UNCHANGED <<frame, at, gone, todo, rings, pool, bufs, items>>
  BY DEF Out!Take, Out!loop, Out!mem
<1>2. OutTypes /\ Apart
  BY DEF OutInv
<1>3. /\ Head(feed) \in Seq(Snippet) /\ Head(feed) = feed[1] /\ feed' \in Seq(Seq(Snippet))
      /\ Len(feed) \in Nat /\ Len(feed) >= 1 /\ Len(feed') = Len(feed) - 1
      /\ \A k \in 1 .. Len(feed') : feed'[k] = feed[k + 1]
  <2> DEFINE T == Seq(Snippet)
  <2>1. feed \in Seq(T)
    BY <1>2 DEF OutTypes
  <2> HIDE DEF T
  <2>2. /\ Head(feed) \in T /\ Tail(feed) \in Seq(T) /\ Len(Tail(feed)) = Len(feed) - 1
        /\ \A k \in 1 .. Len(Tail(feed)) : Tail(feed)[k] = feed[k + 1]
    BY <1>1, <2>1, HeadTailProperties
  <2>3. Len(feed) \in Nat /\ Len(feed) >= 1 /\ Head(feed) = feed[1]
    BY <1>1, <2>1
  <2> QED
    BY <1>1, <2>2, <2>3 DEF T
<1>4. busy' \in Seq(Seq(Snippet)) /\ Len(busy') = 1 /\ busy'[1] = feed[1]
  BY <1>1, <1>3
<1>5. OutTypes'
  <2>1. Len(feed') <= FeedCap
    BY <1>2, <1>3 DEF OutTypes, DeepEnough
  <2> QED
    BY <1>1, <1>2, <1>3, <1>4, <2>1 DEF OutTypes, RingOK
<1>6. Apart'
  BY <1>1, <1>2 DEF Apart
<1>7. Begun' = Begun /\ Begun \in {0, 1}
  BY <1>1 DEF Begun
<1>8. ASSUME NEW x, NEW a, InPlace(x, a) PROVE InPlace(x, a)'
  BY <1>1, <1>8, PlacesStay
<1>9. FeedPlaced'
  <2> SUFFICES ASSUME NEW k \in 1 .. Len(feed'), NEW j \in 1 .. Len(feed'[k]), feed'[k][j].safe
               PROVE  InPlace(feed[k][j], Len(feed) - k + Begun)'
    BY DEF FeedPlaced
  <2>1. PICK y : y = feed'[k][j]
    OBVIOUS
  <2>2. PICK a : a = Len(feed') - k + Begun'
    OBVIOUS
  <2>3. k + 1 \in 1 .. Len(feed) /\ a = Len(feed) - (k + 1) + Begun
    BY <1>3, <1>7, <2>2
  <2>4. y = feed[k + 1][j] /\ j \in 1 .. Len(feed[k + 1]) /\ feed[k + 1][j].safe
    BY <1>3, <2>1
  <2>5. InPlace(y, a)
    BY <2>3, <2>4 DEF OutInv, FeedPlaced
  <2>6. InPlace(y, a)'
    BY <1>8, <2>5
  <2> QED
    BY <2>1, <2>2, <2>6
<1>10. BusyPlaced'
  <2> SUFFICES ASSUME NEW k \in 1 .. Len(busy'), NEW j \in 1 .. Len(busy'[k]), busy'[k][j].safe
               PROVE  InPlace(busy[k][j], Len(feed) + Begun)'
    BY DEF BusyPlaced
  <2>1. PICK y : y = busy'[k][j]
    OBVIOUS
  <2>2. PICK a : a = Len(feed') + Begun'
    OBVIOUS
  <2>3. k = 1 /\ y = feed[1][j] /\ j \in 1 .. Len(feed[1]) /\ feed[1][j].safe
    BY <1>4, <2>1
  <2>4. 1 \in 1 .. Len(feed) /\ a = Len(feed) - 1 + Begun
    BY <1>3, <1>7, <2>2
  <2>5. InPlace(y, a)
    BY <2>3, <2>4 DEF OutInv, FeedPlaced
  <2>6. InPlace(y, a)'
    BY <1>8, <2>5
  <2> QED
    BY <2>1, <2>2, <2>6
<1>11. ItemsPlaced'
  <2> SUFFICES ASSUME NEW j \in 1 .. Len(items) PROVE InPlace(items[j], 0)'
    BY <1>1 DEF ItemsPlaced
  <2>1. PICK y : y = items[j]
    OBVIOUS
  <2>2. InPlace(y, 0)
    BY <2>1 DEF OutInv, ItemsPlaced
  <2>3. InPlace(y, 0)'
    BY <1>8, <2>2
  <2>4. y = items'[j]
    BY <1>1, <2>1
  <2> QED
    BY <2>3, <2>4
<1> QED
  BY <1>5, <1>6, <1>9, <1>10, <1>11 DEF OutInv

(* ... and one done with is no concern any more.                              *)
LEMMA RestKeeps ==
  ASSUME DeepEnough, OutInv, Out!Done \/ UNCHANGED Out!vars
  PROVE  OutInv'
<1>1. /\ UNCHANGED <<frame, at, gone, todo, rings, pool, bufs, items, feed>>
      /\ busy' = busy \/ busy' = <<>>
  BY DEF Out!Done, Out!vars, Out!loop, Out!mem
<1>2. OutTypes /\ Apart
  BY DEF OutInv
<1>3. busy' \in Seq(Seq(Snippet)) /\ Len(busy') <= 1
  <2>1. CASE busy' = busy
    BY <1>2, <2>1 DEF OutTypes
  <2>2. CASE busy' = <<>>
    BY <2>2
  <2> QED
    BY <1>1, <2>1, <2>2
<1>4. OutTypes'
  BY <1>1, <1>2, <1>3 DEF OutTypes, RingOK
<1>5. Apart'
  BY <1>1, <1>2 DEF Apart
<1>6. Begun' = Begun
  BY <1>1 DEF Begun
<1>7. ASSUME NEW x, NEW a, InPlace(x, a) PROVE InPlace(x, a)'
  BY <1>1, <1>7, PlacesStay
<1>8. FeedPlaced'
  <2> SUFFICES ASSUME NEW k \in 1 .. Len(feed), NEW j \in 1 .. Len(feed[k]), feed[k][j].safe
               PROVE  InPlace(feed[k][j], Len(feed) - k + Begun)'
    BY <1>1 DEF FeedPlaced
  <2>1. PICK y : y = feed[k][j]
    OBVIOUS
  <2>2. PICK a : a = Len(feed) - k + Begun
    OBVIOUS
  <2>3. InPlace(y, a)
    BY <2>1, <2>2 DEF OutInv, FeedPlaced
  <2>4. InPlace(y, a)'
    BY <1>7, <2>3
  <2>5. y = feed'[k][j] /\ a = Len(feed') - k + Begun'
    BY <1>1, <1>6, <2>1, <2>2
  <2> QED
    BY <2>4, <2>5
<1>9. BusyPlaced'
  <2> SUFFICES ASSUME NEW k \in 1 .. Len(busy'), NEW j \in 1 .. Len(busy'[k]), busy'[k][j].safe
               PROVE  InPlace(busy[k][j], Len(feed) + Begun)'
    BY DEF BusyPlaced
  <2>1. busy' = busy
    <3>1. CASE busy' = <<>>
      BY <3>1
    <3> QED
      BY <1>1, <3>1
  <2>2. PICK y : y = busy[k][j]
    OBVIOUS
  <2>3. PICK a : a = Len(feed) + Begun
    OBVIOUS
  <2>4. InPlace(y, a)
    BY <2>1, <2>2, <2>3 DEF OutInv, BusyPlaced
  <2>5. InPlace(y, a)'
    BY <1>7, <2>4
  <2>6. y = busy'[k][j] /\ a = Len(feed') + Begun'
    BY <1>1, <1>6, <2>1, <2>2, <2>3
  <2> QED
    BY <2>5, <2>6
<1>10. ItemsPlaced'
  <2> SUFFICES ASSUME NEW j \in 1 .. Len(items) PROVE InPlace(items[j], 0)'
    BY <1>1 DEF ItemsPlaced
  <2>1. PICK y : y = items[j]
    OBVIOUS
  <2>2. InPlace(y, 0)
    BY <2>1 DEF OutInv, ItemsPlaced
  <2>3. InPlace(y, 0)'
    BY <1>7, <2>2
  <2>4. y = items'[j]
    BY <1>1, <2>1
  <2> QED
    BY <2>3, <2>4
<1> QED
  BY <1>4, <1>5, <1>8, <1>9, <1>10 DEF OutInv

(* With no ring, no buffer and no message nothing can be out of place.          *)
LEMMA OutStart == DeepEnough /\ Out!Init => OutInv
<1> SUFFICES ASSUME DeepEnough, Out!Init PROVE OutInv
  OBVIOUS
<1>1. OutTypes
  BY DEF Out!Init, OutTypes, DeepEnough
<1>2. Apart
  BY DEF Out!Init, Apart, Once, In
<1>3. FeedPlaced /\ BusyPlaced /\ ItemsPlaced
  BY DEF Out!Init, FeedPlaced, BusyPlaced, ItemsPlaced
<1> QED
  BY <1>1, <1>2, <1>3 DEF OutInv

(* Every step of the DSP loop and of the worker keeps the invariant.            *)
LEMMA OutNext == DeepEnough /\ OutInv /\ [Out!Next]_Out!vars => OutInv'
<1> SUFFICES ASSUME DeepEnough, OutInv, [Out!Next]_Out!vars PROVE OutInv'
  OBVIOUS
<1>1. ASSUME NEW active \in SUBSET Ids \ {{}}, Out!Extract(active) PROVE OutInv'
  BY <1>1, ExtractKeeps
<1>2. ASSUME NEW id \in Ids, Out!PruneOutRings(id) PROVE OutInv'
  BY <1>2, PruneKeeps
<1>3. ASSUME NEW id \in Ids, NEW len \in Lengths[id], Out!Output(id, len) PROVE OutInv'
  BY <1>3, OutputKeeps
<1> QED
  BY <1>1, <1>2, <1>3, DropKeeps, FeedKeeps, TakeKeeps, RestKeeps DEF Out!Next

(* With two places more than the channel has (streaming_out_ring.go:3: "Depth    *)
(* must exceed the maximum number of extracted snippets in flight"), what the    *)
(* worker reads of a message is what was extracted for its frame, as long as     *)
(* every frame since went into the channel with the signal in it.              *)
THEOREM SnippetsKept ==
  ASSUME DeepEnough
  PROVE  Out!Spec => []Out!KeptWhileFed
<1>1. OutInv => Out!KeptWhileFed
  <2> SUFFICES ASSUME OutInv, NEW x \in Out!SnippetsOf(busy \o feed), x.safe PROVE Out!Kept(x)
    BY DEF Out!KeptWhileFed
  <2>1. busy \in Seq(Seq(Snippet)) /\ feed \in Seq(Seq(Snippet))
    BY DEF OutInv, OutTypes
  <2> DEFINE T == Seq(Snippet)
             all == busy \o feed
  <2>2. PICK i \in DOMAIN all : \E j \in DOMAIN all[i] : x = all[i][j]
    BY DEF Out!SnippetsOf
  <2>3. busy \in Seq(T) /\ feed \in Seq(T)
    BY <2>1
  <2> HIDE DEF T
  <2>4. /\ all \in Seq(T) /\ Len(all) = Len(busy) + Len(feed) /\ Len(busy) \in Nat /\ Len(feed) \in Nat
        /\ \A k \in 1 .. Len(busy) + Len(feed) : all[k] = IF k <= Len(busy) THEN busy[k] ELSE feed[k - Len(busy)]
    BY <2>3, ConcatProperties
  <2>5. i \in 1 .. Len(busy) + Len(feed)
    BY <2>4
  <2> HIDE DEF all
  <2>6. CASE i <= Len(busy)
    <3>1. i \in 1 .. Len(busy) /\ all[i] = busy[i]
      BY <2>4, <2>5, <2>6
    <3>2. busy[i] \in Seq(Snippet)
      BY <2>1, <3>1
    <3>3. PICK j \in 1 .. Len(busy[i]) : x = busy[i][j]
      BY <2>2, <3>1, <3>2
    <3> QED
      BY <3>1, <3>3 DEF OutInv, BusyPlaced, InPlace
  <2>7. CASE i > Len(busy)
    <3>1. PICK k \in 1 .. Len(feed) : all[i] = feed[k]
      BY <2>4, <2>5, <2>7
    <3>2. feed[k] \in Seq(Snippet)
      BY <2>1, <3>1
    <3>3. PICK j \in 1 .. Len(feed[k]) : x = feed[k][j]
      BY <2>2, <3>1, <3>2
    <3> QED
      BY <3>1, <3>3 DEF OutInv, FeedPlaced, InPlace
  <2> QED
    BY <2>4, <2>5, <2>6, <2>7
<1> QED
  BY <1>1, OutStart, OutNext, PTL DEF Out!Spec
=============================================================================
