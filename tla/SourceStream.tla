---------------------------- MODULE SourceStream ----------------------------
(***************************************************************************)
(* What the SDRplay source promises between the driver's callback and      *)
(* ReadIQ: a bounded queue of samples, in the order in which the driver    *)
(* delivered them, that loses its oldest samples when it is full, all of   *)
(* them at a reset or a flush, and its newest ones when it is made         *)
(* smaller.  A sample is its number in the order of delivery.              *)
(***************************************************************************)
EXTENDS Integers, Sequences

CONSTANTS Caps,       (* capacities the queue may have                       *)
          MaxBatch,   (* bound: samples in one delivery                      *)
          MaxRead,    (* bound: samples asked for by one read                *)
          MaxSample   (* bound: samples delivered                            *)

VARIABLES content,    (* the samples queued                                  *)
          cap,        (* the queue's capacity                                *)
          delivered,  (* number of the newest sample delivered               *)
          dropped,    (* the counter of dropped samples                      *)
          asked,      (* what the reader waits for, 0 when it does not       *)
          got         (* what the last read returned                         *)

vars == <<content, cap, delivered, dropped, asked, got>>

Lesser(a, b) == IF a < b THEN a ELSE b

(* The newest n of s.                                                       *)
Newest(s, n) == SubSeq(s, Len(s) - Lesser(n, Len(s)) + 1, Len(s))

Batch(n) == [i \in 1 .. n |-> delivered + i]

Init ==
  /\ content = <<>> /\ cap \in Caps
  /\ delivered = 0 /\ dropped = 0 /\ asked = 0 /\ got = <<>>

Deliver(n, reset) ==
  /\ delivered + n <= MaxSample
  /\ delivered' = delivered + n
  /\ LET all == (IF reset THEN <<>> ELSE content) \o Batch(n)
     IN  /\ content' = Newest(all, cap)
         /\ dropped' = dropped + Len(all) - Len(content')
  /\ UNCHANGED <<cap, asked, got>>

Ask(n) ==
  /\ asked = 0 /\ asked' = n
  /\ UNCHANGED <<content, cap, delivered, dropped, got>>

Return ==
  /\ asked # 0 /\ asked <= Len(content)
  /\ got' = SubSeq(content, 1, asked)
  /\ content' = SubSeq(content, asked + 1, Len(content))
  /\ asked' = 0
  /\ UNCHANGED <<cap, delivered, dropped>>

Fail ==
  /\ asked # 0 /\ asked > Len(content)
  /\ asked' = 0
  /\ UNCHANGED <<content, cap, delivered, dropped, got>>

Empty ==
  /\ content' = <<>>
  /\ UNCHANGED <<cap, delivered, dropped, asked, got>>

Resize(c) ==
  /\ cap' = c
  /\ content' = SubSeq(content, 1, Lesser(c, Len(content)))
  /\ UNCHANGED <<delivered, dropped, asked, got>>

Next ==
  \/ \E n \in 1 .. MaxBatch, reset \in BOOLEAN : Deliver(n, reset)
  \/ \E n \in 1 .. MaxRead : Ask(n)
  \/ Return \/ Fail \/ Empty
  \/ \E c \in Caps : Resize(c)

Spec == Init /\ [][Next]_vars
=============================================================================
