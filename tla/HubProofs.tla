------------------------------- MODULE HubProofs -------------------------------
(***************************************************************************)
(* That the hub leaves no hole in what a client gets, for any clients, any   *)
(* channels, any frame rates and any number of frames; and that telemetry's   *)
(* histories and files keep the newest, and queries find it (Telemetry), for   *)
(* any bounds.                                                              *)
(***************************************************************************)
EXTENDS Hub, Integers, FiniteSetTheorems, WellFoundedInduction, TLAPS

(* The types that the argument needs.                                       *)
Typed ==
  /\ clients \subseteq Clients /\ left \subseteq Clients
  /\ frame \in Nat
  /\ done \in [Clients -> BOOLEAN]
  /\ send \in [Clients -> Seq(Nat)] /\ wire \in [Clients -> Seq(Nat)] /\ meant \in [Clients -> Seq(Nat)]

(* What a client got and will get.                                          *)
Given(c) == wire[c] \o send[c]

(* A client that is cut off is neither in the hub nor among those that the     *)
(* frame is still to be offered to, unless its handler took it out.  To all    *)
(* others and to all to whom the frame is to be offered nothing was denied.   *)
NothingDenied ==
  \A c \in Clients :
    /\ done[c] => c \notin clients
    /\ ~done[c] \/ c \in left => Given(c) = meant[c]

(* What a client got is the beginning of what was meant for it.               *)
Beginning ==
  \A c \in Clients :
    /\ Len(Given(c)) <= Len(meant[c])
    /\ \A i \in 1 .. Len(Given(c)) : Given(c)[i] = meant[c][i]

(* Only who has connected is in the hub, or was cut off.                      *)
Known ==
  /\ reader \in [Clients -> {"new", "runs", "gone"}]
  /\ \A c \in Clients : c \in clients \/ c \in left \/ done[c] => reader[c] # "new"

HubInv == Typed /\ Known /\ NothingDenied /\ Beginning

(* Taking the head from a channel and writing it changes nothing in what a     *)
(* client got and will get.                                                  *)
LEMMA WrittenStays ==
  ASSUME NEW w \in Seq(Nat), NEW s \in Seq(Nat), s # <<>>
  PROVE  /\ Append(w, Head(s)) \in Seq(Nat) /\ Tail(s) \in Seq(Nat)
         /\ Append(w, Head(s)) \o Tail(s) = w \o s
BY SMTT(30)

(* A frame that is put into the channel comes last.                           *)
LEMMA OfferedIsLast ==
  ASSUME NEW w \in Seq(Nat), NEW s \in Seq(Nat), NEW f \in Nat
  PROVE  /\ Append(s, f) \in Seq(Nat)
         /\ w \o Append(s, f) = Append(w \o s, f)
BY SMTT(30)

(* What begins a sequence still begins it when it grows.                       *)
LEMMA BeginningStays ==
  ASSUME NEW g \in Seq(Nat), NEW m \in Seq(Nat), NEW f \in Nat,
         Len(g) <= Len(m), \A i \in 1 .. Len(g) : g[i] = m[i]
  PROVE  /\ Append(m, f) \in Seq(Nat)
         /\ Len(g) <= Len(Append(m, f))
         /\ \A i \in 1 .. Len(g) : g[i] = Append(m, f)[i]
BY SMTT(30)

(* The beginning of a sequence is what SubSeq gives.                          *)
LEMMA BeginningIsSubSeq ==
  ASSUME NEW g \in Seq(Nat), NEW m \in Seq(Nat),
         Len(g) <= Len(m), \A i \in 1 .. Len(g) : g[i] = m[i]
  PROVE  g = SubSeq(m, 1, Len(g))
BY SMTT(30)

(* BroadcastTo: a frame that is due goes to the end of the channel, or the     *)
(* client goes.                                                            *)
LEMMA BroadcastToStep ==
  ASSUME HubInv, NEW c \in Clients, BroadcastTo(c)
  PROVE  HubInv'
<1>1. /\ c \in left /\ left' = left \ {c} /\ frame' = frame /\ wire' = wire
      /\ wire[c] \in Seq(Nat) /\ send[c] \in Seq(Nat) /\ meant[c] \in Seq(Nat) /\ frame \in Nat
      /\ Given(c) \in Seq(Nat) /\ Given(c) = meant[c]
  BY DEF BroadcastTo, HubInv, Typed, NothingDenied, Given
<1>2. Known'
  BY DEF BroadcastTo, Remove, HubInv, Typed, Known
<1>3. CASE ~Due(c)
  <2>1. meant' = meant /\ send' = send /\ clients' = clients /\ done' = done
    BY <1>3 DEF BroadcastTo
  <2> QED
    BY <1>1, <1>2, <2>1 DEF HubInv, Typed, NothingDenied, Beginning, Given
<1>4. CASE Due(c) /\ Len(send[c]) = Cap
  <2>1. /\ meant' = [meant EXCEPT ![c] = Append(meant[c], frame)] /\ send' = send
        /\ clients' = clients \ {c} /\ done' = [done EXCEPT ![c] = TRUE]
    BY <1>4 DEF BroadcastTo, Remove
  <2>2. /\ Append(meant[c], frame) \in Seq(Nat)
        /\ Len(Given(c)) <= Len(Append(meant[c], frame))
        /\ \A i \in 1 .. Len(Given(c)) : Given(c)[i] = Append(meant[c], frame)[i]
    BY <1>1, BeginningStays DEF HubInv, Beginning
  <2>3. Typed'
    BY <1>1, <2>1, <2>2 DEF HubInv, Typed
  <2>4. NothingDenied'
    BY <1>1, <2>1 DEF HubInv, Typed, NothingDenied, Given
  <2>5. Beginning'
    BY <1>1, <2>1, <2>2 DEF HubInv, Typed, Beginning, Given
  <2> QED
    BY <1>2, <2>3, <2>4, <2>5 DEF HubInv
<1>5. CASE Due(c) /\ Len(send[c]) # Cap
  <2>1. /\ meant' = [meant EXCEPT ![c] = Append(meant[c], frame)]
        /\ send' = [send EXCEPT ![c] = Append(send[c], frame)]
        /\ clients' = clients /\ done' = done
    BY <1>5 DEF BroadcastTo
  <2>2. Append(send[c], frame) \in Seq(Nat) /\ Append(meant[c], frame) \in Seq(Nat)
    BY <1>1
  <2>3. wire[c] \o Append(send[c], frame) = Append(meant[c], frame)
    <3>1. wire[c] \o Append(send[c], frame) = Append(wire[c] \o send[c], frame)
      BY <1>1, OfferedIsLast
    <3>2. wire[c] \o send[c] = meant[c]
      BY <1>1 DEF Given
    <3> QED
      BY <3>1, <3>2
  <2>4. Typed'
    BY <1>1, <2>1, <2>2 DEF HubInv, Typed
  <2>5. \A d \in Clients : IF d = c THEN Given(d)' = meant'[d]
                           ELSE Given(d)' = Given(d) /\ meant'[d] = meant[d]
    BY <1>1, <2>1, <2>3 DEF HubInv, Typed, Given
  <2>6. NothingDenied'
    BY <1>1, <2>1, <2>5 DEF HubInv, NothingDenied
  <2>7. Beginning'
    <3> SUFFICES ASSUME NEW d \in Clients
                 PROVE  /\ Len(Given(d)') <= Len(meant'[d])
                        /\ \A i \in 1 .. Len(Given(d)') : Given(d)'[i] = meant'[d][i]
      BY DEF Beginning
    <3>1. CASE d = c
      <4>1. Given(d)' = meant'[d] /\ Len(meant'[d]) \in Nat
        BY <2>4, <2>5, <3>1 DEF Typed
      <4> QED
        BY <4>1
    <3>2. CASE d # c
      BY <2>5, <3>2 DEF HubInv, Beginning
    <3> QED
      BY <3>1, <3>2
  <2> QED
    BY <1>2, <2>4, <2>6, <2>7 DEF HubInv
<1> QED
  BY <1>3, <1>4, <1>5

(* The writer passes on what the channel holds, in its order.                  *)
LEMMA WriteStep ==
  ASSUME HubInv, NEW c \in Clients, Write(c)
  PROVE  HubInv'
<1>1. /\ wire' = [wire EXCEPT ![c] = Append(wire[c], Head(send[c]))]
      /\ send' = [send EXCEPT ![c] = Tail(send[c])]
      /\ clients' = clients /\ frame' = frame /\ left' = left /\ done' = done /\ meant' = meant
      /\ wire[c] \in Seq(Nat) /\ send[c] \in Seq(Nat) /\ send[c] # <<>>
  BY DEF Write, HubInv, Typed
<1>2. /\ Append(wire[c], Head(send[c])) \in Seq(Nat) /\ Tail(send[c]) \in Seq(Nat)
      /\ Append(wire[c], Head(send[c])) \o Tail(send[c]) = wire[c] \o send[c]
  BY <1>1, WrittenStays
<1>3. Typed'
  BY <1>1, <1>2 DEF HubInv, Typed
<1>4. \A d \in Clients : Given(d)' = Given(d)
  BY <1>1, <1>2 DEF HubInv, Typed, Given
<1>5. Known'
  BY <1>1 DEF Write, HubInv, Known
<1> QED
  BY <1>1, <1>3, <1>4, <1>5 DEF HubInv, NothingDenied, Beginning

(* Every step of the hub, its clients and their goroutines keeps the invariant. *)
LEMMA HubNext == HubInv /\ [Next]_vars => HubInv'
<1> SUFFICES ASSUME HubInv, [Next]_vars PROVE HubInv'
  OBVIOUS
<1>1. CASE BroadcastBegins
  <2>1. /\ left' = clients /\ clients' = clients /\ frame' = frame + 1 /\ done' = done
        /\ send' = send /\ wire' = wire /\ meant' = meant /\ reader' = reader
    BY <1>1 DEF BroadcastBegins, client
  <2>2. Typed'
    BY <2>1 DEF HubInv, Typed
  <2>3. Known'
    BY <2>1 DEF HubInv, Typed, Known
  <2>4. NothingDenied'
    BY <2>1 DEF HubInv, Typed, NothingDenied, Given
  <2>5. Beginning'
    BY <2>1 DEF HubInv, Beginning, Given
  <2> QED
    BY <2>2, <2>3, <2>4, <2>5 DEF HubInv
<1>2. ASSUME NEW c \in Clients, BroadcastTo(c) PROVE HubInv'
  BY <1>2, BroadcastToStep
<1>3. ASSUME NEW c \in Clients, Write(c) PROVE HubInv'
  BY <1>3, WriteStep
<1>4. ASSUME NEW c \in Clients, Connect(c) PROVE HubInv'
  <2>1. Typed' /\ Known' /\ ~done[c]
    BY <1>4 DEF Connect, HubInv, Typed, Known
  <2>2. NothingDenied'
    BY <1>4, <2>1 DEF Connect, HubInv, NothingDenied, Given
  <2>3. Beginning'
    BY <1>4 DEF Connect, HubInv, Beginning, Given
  <2> QED
    BY <2>1, <2>2, <2>3 DEF HubInv
<1>5. ASSUME NEW c \in Clients, ReaderEnds(c) PROVE HubInv'
  BY <1>5 DEF ReaderEnds, Remove, HubInv, Typed, Known, NothingDenied, Beginning, Given
<1>6. ASSUME NEW c \in Clients, WriterEnds(c) \/ Reconfigure(c) \/ PeerGoes(c) PROVE HubInv'
  BY <1>6, ZenonT(40) DEF WriterEnds, Reconfigure, PeerGoes, HubInv, Typed, Known, NothingDenied, Beginning, Given
<1>7. CASE UNCHANGED vars
  BY <1>7 DEF vars, client, HubInv, Typed, Known, NothingDenied, Beginning, Given
<1> QED
  BY <1>1, <1>2, <1>3, <1>4, <1>5, <1>6, <1>7 DEF Next

(* A client gets the frames meant for it without a hole, and as long as it was   *)
(* not cut off all of them (broadcast and the writer goroutine).               *)
THEOREM FramesWithoutGaps == Spec => []NoGaps
<1>1. Init => HubInv
  BY DEF Init, HubInv, Typed, Known, NothingDenied, Beginning, Given
<1>2. HubInv => NoGaps
  <2> SUFFICES ASSUME HubInv, NEW c \in Clients
               PROVE  /\ Given(c) = SubSeq(meant[c], 1, Len(wire[c]) + Len(send[c]))
                      /\ ~done[c] => Given(c) = meant[c]
    BY DEF NoGaps, Given
  <2>1. /\ wire[c] \in Seq(Nat) /\ send[c] \in Seq(Nat) /\ meant[c] \in Seq(Nat)
        /\ Given(c) \in Seq(Nat) /\ Len(Given(c)) = Len(wire[c]) + Len(send[c])
    BY DEF HubInv, Typed, Given
  <2>2. Given(c) = SubSeq(meant[c], 1, Len(Given(c)))
    BY <2>1, BeginningIsSubSeq DEF HubInv, Beginning
  <2> QED
    BY <2>1, <2>2 DEF HubInv, NothingDenied
<1> QED
  BY <1>1, <1>2, HubNext, PTL DEF Spec
-----------------------------------------------------------------------------
(* The collector of telemetry, which web clients are served from as well: its  *)
(* histories and files keep the newest.                                      *)

CONSTANTS Recorders, Configs, Limits, Filters, DiskFails, MaxPoint, MaxConfigure, MaxTime
VARIABLES now, rotated, cfg, history, point, current, writers, files, pending, conf

Collector == INSTANCE Telemetry

(* sanitizeConfig leaves no bound at zero.                                   *)
Config == [max : Nat \ {0}, retention : Nat, persist : BOOLEAN, keep : Nat \ {0}, lines : Nat \ {0}]
Sane == Configs \subseteq Config

Points == [n : Nat, kind : Collector!Kinds, t : Nat]
Writers == [name : Nat \X Nat, seq : Nat \ {0}, open : BOOLEAN, size : Nat, keep : Nat \ {0}, lines : Nat \ {0}]

(* A history is in the order its points were recorded in.                    *)
Rising(h) == \A i, j \in 1 .. Len(h) : i < j => h[i].n < h[j].n

(* The histories are in order, and below twice their bound.                   *)
HistoryInv ==
  /\ now \in Nat /\ point \in Nat
  /\ cfg \in Config /\ conf.cfg \in Config
  /\ history \in [Collector!Kinds -> Seq(Points)]
  /\ \A k \in Collector!Kinds :
       /\ Len(history[k]) < 2 * cfg.max
       /\ Rising(history[k])
       /\ \A i \in 1 .. Len(history[k]) : history[k][i].n <= point

(* A set of naturals has a least element.                                    *)
LEMMA Least ==
  ASSUME NEW S \in SUBSET Nat, S # {}
  PROVE  \E m \in S : \A k \in S : m <= k
<1> DEFINE R == {ss \in Nat \X Nat : ss[1] < ss[2]}
<1>1. OpToRel(<, Nat) = R
  BY Zenon DEF OpToRel
<1>2. IsWellFoundedOn(R, Nat)
  BY NatLessThanWellFounded, <1>1, Zenon
<1> HIDE DEF R
<1>3. PICK x \in S : \A y \in S : ~(<<y, x>> \in R)
  BY <1>2, WFMin
<1>4. ASSUME NEW k \in S PROVE x <= k
  <2>1. ~(k < x)
    BY <1>3 DEF R
  <2> QED
    BY <2>1
<1> QED
  BY <1>4

(* The instance's cardinality is the one the theorems about sets know.         *)
LEMMA SameCardinality ==
  ASSUME NEW S
  PROVE  Collector!Cardinality(S) = Cardinality(S)
  BY Zenon DEF Collector!Cardinality, Cardinality

(* Trimming leaves the end of a history: what is before it has expired or is   *)
(* beyond the bound.                                                        *)
LEMMA TrimIsEnd ==
  ASSUME NEW h \in Seq(Points), NEW c \in Config, now \in Nat
  PROVE  \E d \in 0 .. Len(h) :
           /\ Collector!Trim(h, c) = SubSeq(h, d + 1, Len(h))
           /\ Len(h) - d < 2 * c.max
           /\ \A i \in 1 .. d : Collector!Expired(h[i], c) \/ i <= Len(h) - c.max
<1> DEFINE m == c.max
           l == Len(h)
           newest == SubSeq(h, l - m + 1, l)
           fresh == {i \in 1 .. m : ~Collector!Expired(newest[i], c)}
<1>0. m \in Nat \ {0} /\ l \in Nat
  BY DEF Config
<1>1. Collector!Trim(h, c) = IF l < 2 * m THEN h ELSE IF fresh = {} THEN <<>> ELSE SubSeq(newest, Collector!Min(fresh), m)
  BY DEF Collector!Trim
<1>2. CASE l < 2 * m
  <2>1. h = SubSeq(h, 0 + 1, l)
    OBVIOUS
  <2> QED
    BY <1>0, <1>1, <1>2, <2>1
<1>3. ASSUME ~(l < 2 * m)
      PROVE  /\ Len(newest) = m
             /\ newest \in Seq(Points)
             /\ \A i \in 1 .. m : newest[i] = h[l - m + i]
  <2>1. l - m + 1 \in 1 .. l /\ l - m \in Nat
    BY <1>0, <1>3
  <2> HIDE DEF m
  <2> QED
    BY <1>0, <1>3, <2>1
<1>4. CASE ~(l < 2 * m) /\ fresh = {}
  <2>1. \A i \in 1 .. l : Collector!Expired(h[i], c) \/ i <= l - m
    <3> SUFFICES ASSUME NEW i \in 1 .. l, ~(i <= l - m) PROVE Collector!Expired(h[i], c)
      OBVIOUS
    <3> DEFINE x == i - (l - m)
    <3>1. x \in 1 .. m /\ l - m + x = i
      BY <1>0
    <3>2. newest[x] = h[i]
      BY <1>3, <1>4, <3>1
    <3> QED
      BY <1>4, <3>1, <3>2
  <2>2. SubSeq(h, l + 1, l) = <<>>
    BY <1>0
  <2>3. Collector!Trim(h, c) = SubSeq(h, l + 1, l)
    BY <1>1, <1>4, <2>2
  <2>4. l \in 0 .. l /\ l - l < 2 * m
    BY <1>0
  <2> QED
    BY <2>1, <2>3, <2>4
<1>5. CASE ~(l < 2 * m) /\ fresh # {}
  <2> DEFINE f == Collector!Min(fresh)
  <2>1. f \in fresh /\ \A k \in fresh : f <= k
    <3>1. fresh \in SUBSET Nat
      BY <1>0
    <3> HIDE DEF fresh
    <3> QED
      BY <1>5, <3>1, Least DEF Collector!Min
  <2>2. f \in 1 .. m /\ \A i \in 1 .. f - 1 : Collector!Expired(newest[i], c)
    <3> HIDE DEF f, m, newest
    <3>1. f \in 1 .. m
      BY <2>1
    <3>2. ASSUME NEW i \in 1 .. f - 1, ~Collector!Expired(newest[i], c) PROVE FALSE
      <4>1. i \in fresh
        BY <1>0, <3>1, <3>2
      <4> QED
        BY <1>0, <2>1, <3>1, <4>1
    <3> QED
      BY <3>1, <3>2
  <2> HIDE DEF f, fresh
  <2>0. l - m \in Nat /\ l >= 2 * m /\ m \in Nat \ {0} /\ l \in Nat
    BY <1>0, <1>5
  <2> HIDE DEF m, l, newest
  <2> DEFINE d == l - m + f - 1
  <2>3. d \in 0 .. l /\ l - d < 2 * m
    BY <2>0, <2>2
  <2>4. SubSeq(newest, f, m) = SubSeq(h, d + 1, l)
    <3>1. SubSeq(newest, f, m) = [i \in 1 .. m - f + 1 |-> newest[f + i - 1]]
      BY <2>0, <1>3, <1>5, <2>2
    <3>2. SubSeq(h, d + 1, l) = [i \in 1 .. m - f + 1 |-> h[d + i]]
      BY <2>0, <2>2, <2>3 DEF l
    <3>3. \A i \in 1 .. m - f + 1 : newest[f + i - 1] = h[d + i]
      BY <2>0, <1>3, <1>5, <2>2
    <3> QED
      BY <3>1, <3>2, <3>3
  <2>5. \A i \in 1 .. d : Collector!Expired(h[i], c) \/ i <= l - m
    <3> SUFFICES ASSUME NEW i \in 1 .. d, ~(i <= l - m) PROVE Collector!Expired(h[i], c)
      OBVIOUS
    <3> DEFINE x == i - (l - m)
    <3>1. x \in 1 .. f - 1 /\ x \in 1 .. m /\ l - m + x = i
      BY <2>0, <2>2, <2>3
    <3> QED
      BY <1>3, <1>5, <2>2, <3>1
  <2>6. Collector!Trim(h, c) = SubSeq(h, d + 1, l)
    BY <1>1, <1>5, <2>4 DEF f
  <2> QED
    BY <2>3, <2>5, <2>6 DEF m, l
<1> QED
  BY <1>2, <1>4, <1>5

(* A history's points are finitely many, and where so many came after a point  *)
(* as the bound, so many are newer.                                         *)
LEMMA NewerCount ==
  ASSUME NEW h \in Seq(Points), Rising(h), NEW m \in Nat, NEW i \in 1 .. Len(h), i <= Len(h) - m
  PROVE  Collector!Cardinality({q \in Collector!Members(h) : q.n > h[i].n}) >= m
<1> DEFINE l == Len(h)
           all == Collector!Members(h)
           newer == {q \in all : q.n > h[i].n}
           g == [x \in 1 .. l |-> h[x]]
           f == [x \in 1 .. m |-> h[l - m + x]]
<1>0. l \in Nat /\ DOMAIN h = 1 .. l /\ all = {h[x] : x \in 1 .. l}
  BY DEF Collector!Members
<1>1. IsFiniteSet(all)
  <2>1. PICK one \in Int : one = 1
    OBVIOUS
  <2>2. IsFiniteSet(one .. l)
    <3> HIDE DEF l
    <3> QED
      BY <1>0, FS_Interval
  <2>3. g \in Surjection(1 .. l, all)
    BY <1>0 DEF Surjection
  <2> HIDE DEF g, all, l
  <2> QED
    BY <2>1, <2>2, <2>3, FS_Surjection
<1>2. IsFiniteSet(newer)
  BY <1>1, FS_Subset
<1>3. f \in Injection(1 .. m, newer)
  <2>1. \A x \in 1 .. m : l - m + x \in 1 .. l /\ i < l - m + x
    BY <1>0
  <2>2. \A x \in 1 .. m : h[l - m + x] \in newer
    BY <1>0, <2>1 DEF Rising
  <2>3. \A x, y \in 1 .. m : h[l - m + x] = h[l - m + y] => x = y
    <3> SUFFICES ASSUME NEW x \in 1 .. m, NEW y \in 1 .. m, h[l - m + x] = h[l - m + y], x < y PROVE FALSE
      OBVIOUS
    <3>1. l - m + x < l - m + y
      BY <1>0
    <3>2. h[l - m + x].n < h[l - m + y].n
      BY <2>1, <3>1 DEF Rising
    <3>3. h[l - m + x].n \in Nat
      <4>1. h[l - m + x] \in Points
        BY <1>0, <2>1
      <4> QED
        BY <4>1 DEF Points
    <3> QED
      BY <3>2, <3>3
  <2>4. f \in [1 .. m -> newer]
    BY <2>2
  <2>5. \A x, y \in 1 .. m : f[x] = f[y] => x = y
    BY <2>3
  <2> HIDE DEF f
  <2> QED
    BY <2>4, <2>5 DEF Injection, IsInjective
<1>4. Cardinality(1 .. m) <= Cardinality(newer)
  BY <1>2, <1>3, FS_Injection
<1>5. Cardinality(1 .. m) = m
  <2>1. PICK one \in Int : one = 1
    OBVIOUS
  <2>2. Cardinality(one .. m) = IF one > m THEN 0 ELSE m - one + 1
    BY FS_Interval
  <2> QED
    BY <2>1, <2>2
<1> HIDE DEF newer
<1>6. Collector!Cardinality(newer) = Cardinality(newer)
  BY SameCardinality
<1>7. Collector!Cardinality(newer) >= m
  BY <1>4, <1>5, <1>6
<1> QED
  BY <1>7 DEF newer, all

(* The end of a sequence.                                                   *)
LEMMA EndIs ==
  ASSUME NEW S, NEW h \in Seq(S), NEW d \in 0 .. Len(h)
  PROVE  LET t == SubSeq(h, d + 1, Len(h)) IN
         /\ t \in Seq(S) /\ Len(t) = Len(h) - d
         /\ \A i \in 1 .. Len(h) - d : t[i] = h[d + i] /\ d + i \in 1 .. Len(h)
<1>1. PICK l \in Nat : l = Len(h)
  OBVIOUS
<1>2. SubSeq(h, d + 1, l) = [i \in 1 .. l - d |-> h[d + i]]
  BY <1>1
<1>3. \A i \in 1 .. l - d : d + i \in 1 .. l /\ h[d + i] \in S
  BY <1>1
<1>4. l - d \in Nat
  BY <1>1
<1> QED
  BY <1>1, <1>2, <1>3, <1>4

(* What t may be when h is trimmed: what is gone is older than what stays, and  *)
(* has expired or is beyond the bound; what has just happened stays.           *)
TrimmedTo(h, c, t) ==
  /\ t \in Seq(Points) /\ Rising(t) /\ Len(t) < 2 * c.max
  /\ \A i \in 1 .. Len(t) : \E j \in 1 .. Len(h) : t[i] = h[j]
  /\ Collector!Members(t) \subseteq Collector!Members(h)
  /\ \A p \in Collector!Members(h) \ Collector!Members(t) :
       /\ \A q \in Collector!Members(t) : q.n > p.n
       /\ Collector!Expired(p, c) \/ Collector!Cardinality({q \in Collector!Members(h) : q.n > p.n}) >= c.max
  /\ (h # <<>> /\ h[Len(h)].t = now) => h[Len(h)] \in Collector!Members(t)

(* Trimming does that.                                                       *)
LEMMA TrimIsRight ==
  ASSUME NEW h \in Seq(Points), Rising(h), NEW c \in Config, now \in Nat, NEW t, t = Collector!Trim(h, c)
  PROVE  TrimmedTo(h, c, t)
<1> DEFINE l == Len(h)
<1>1. PICK d \in 0 .. l :
        /\ t = SubSeq(h, d + 1, l)
        /\ l - d < 2 * c.max
        /\ \A i \in 1 .. d : Collector!Expired(h[i], c) \/ i <= l - c.max
  BY TrimIsEnd
<1>0. l \in Nat /\ DOMAIN h = 1 .. l /\ c.max \in Nat \ {0} /\ c.retention \in Nat
  BY DEF Config
<1>2. /\ t \in Seq(Points) /\ Len(t) = l - d /\ DOMAIN t = 1 .. l - d
      /\ \A i \in 1 .. l - d : t[i] = h[d + i] /\ d + i \in 1 .. l
  <2> HIDE DEF l
  <2>1. /\ t \in Seq(Points) /\ Len(t) = l - d
        /\ \A i \in 1 .. l - d : t[i] = h[d + i] /\ d + i \in 1 .. l
    BY <1>1, EndIs DEF l
  <2>2. DOMAIN t = 1 .. Len(t)
    BY <2>1
  <2> QED
    BY <2>1, <2>2
<1>3. /\ Collector!Members(h) = {h[x] : x \in 1 .. l}
      /\ Collector!Members(t) = {t[x] : x \in 1 .. l - d}
  BY <1>0, <1>2 DEF Collector!Members
<1>4. Rising(t)
  <2> SUFFICES ASSUME NEW i \in 1 .. l - d, NEW j \in 1 .. l - d, i < j PROVE t[i].n < t[j].n
    BY <1>2 DEF Rising
  <2>1. d + i < d + j
    OBVIOUS
  <2> QED
    BY <1>2, <2>1 DEF Rising
<1>5. \A i \in 1 .. Len(t) : \E j \in 1 .. l : t[i] = h[j]
  BY <1>2
<1>6. Collector!Members(t) \subseteq Collector!Members(h)
  BY <1>2, <1>3
<1>7. ASSUME NEW p \in Collector!Members(h) \ Collector!Members(t)
      PROVE  /\ \A q \in Collector!Members(t) : q.n > p.n
             /\ Collector!Expired(p, c) \/ Collector!Cardinality({q \in Collector!Members(h) : q.n > p.n}) >= c.max
  <2>1. PICK i \in 1 .. l : p = h[i]
    BY <1>3, <1>7
  <2>2. i <= d
    <3> SUFFICES ASSUME i > d PROVE FALSE
      BY <1>0, <1>1
    <3>1. i - d \in 1 .. l - d /\ d + (i - d) = i
      BY <1>0
    <3> QED
      BY <1>2, <1>3, <1>7, <2>1, <3>1
  <2>3. \A q \in Collector!Members(t) : q.n > p.n
    <3> SUFFICES ASSUME NEW x \in 1 .. l - d PROVE t[x].n > p.n
      BY <1>3
    <3>1. d + x \in 1 .. l /\ i < d + x /\ t[x] = h[d + x]
      BY <1>0, <1>2, <2>2
    <3>2. h[i].n < h[d + x].n
      BY <3>1 DEF Rising
    <3>3. h[i].n \in Nat /\ h[d + x].n \in Nat
      <4>1. h[i] \in Points /\ h[d + x] \in Points
        BY <3>1
      <4> QED
        BY <4>1 DEF Points
    <3> QED
      BY <2>1, <3>1, <3>2, <3>3
  <2>4. CASE Collector!Expired(h[i], c)
    BY <2>1, <2>3, <2>4
  <2>5. CASE i <= l - c.max
    BY <1>0, <2>1, <2>3, <2>5, NewerCount
  <2> QED
    BY <1>0, <1>1, <2>2, <2>4, <2>5
<1>8. ASSUME h # <<>>, h[l].t = now PROVE h[l] \in Collector!Members(t)
  <2>1. l \in 1 .. l
    BY <1>0, <1>8
  <2>2. ~Collector!Expired(h[l], c)
    BY <1>0, <1>8 DEF Collector!Expired
  <2>3. d # l
    <3> SUFFICES ASSUME d = l PROVE FALSE
      OBVIOUS
    <3>1. l <= l - c.max
      BY <1>1, <2>1, <2>2
    <3> QED
      BY <1>0, <3>1
  <2>4. l - d \in 1 .. l - d /\ t[l - d] = h[l]
    <3> HIDE DEF l
    <3>1. l - d \in 1 .. l - d /\ d + (l - d) = l
      BY <1>0, <2>3
    <3> QED
      BY <1>2, <3>1
  <2> QED
    BY <1>3, <2>4
<1> QED
  BY <1>0, <1>1, <1>2, <1>4, <1>5, <1>6, <1>7, <1>8 DEF TrimmedTo

(* A point that is appended keeps a history in order.                        *)
LEMMA AppendRises ==
  ASSUME NEW h \in Seq(Points), Rising(h), NEW n \in Nat, NEW p \in Points, p.n = n + 1,
         \A i \in 1 .. Len(h) : h[i].n <= n
  PROVE  LET g == Append(h, p) IN
         /\ g \in Seq(Points) /\ Rising(g) /\ g # <<>> /\ g[Len(g)] = p
         /\ \A i \in 1 .. Len(g) : g[i].n <= n + 1
         /\ Collector!Members(g) = Collector!Members(h) \cup {p}
<1> DEFINE g == Append(h, p)
           l == Len(h)
<1>1. /\ g \in Seq(Points) /\ Len(g) = l + 1 /\ l \in Nat /\ g[l + 1] = p
      /\ \A i \in 1 .. l : g[i] = h[i]
  OBVIOUS
<1>2. \A i \in 1 .. l : h[i].n \in Nat
  <2> SUFFICES ASSUME NEW i \in 1 .. l PROVE h[i].n \in Nat
    OBVIOUS
  <2>1. h[i] \in Points
    OBVIOUS
  <2> QED
    BY <2>1 DEF Points
<1>3. DOMAIN g = 1 .. l + 1 /\ DOMAIN h = 1 .. l
  BY <1>1
<1> HIDE DEF g, l
<1>4. \A i \in 1 .. l + 1 : g[i].n <= n + 1
  <2> SUFFICES ASSUME NEW i \in 1 .. l + 1 PROVE g[i].n <= n + 1
    OBVIOUS
  <2>1. CASE i = l + 1
    BY <1>1, <2>1
  <2>2. CASE i # l + 1
    <3>1. i \in 1 .. l
      BY <1>1, <2>2
    <3> QED
      BY <1>1, <1>2, <3>1 DEF l
  <2> QED
    BY <2>1, <2>2
<1>5. Rising(g)
  <2> SUFFICES ASSUME NEW i \in 1 .. l + 1, NEW j \in 1 .. l + 1, i < j PROVE g[i].n < g[j].n
    BY <1>1 DEF Rising
  <2>1. i \in 1 .. l
    BY <1>1
  <2>2. CASE j = l + 1
    BY <1>1, <1>2, <2>1, <2>2 DEF l
  <2>3. CASE j # l + 1
    <3>1. j \in 1 .. l
      BY <1>1, <2>3
    <3> QED
      BY <1>1, <2>1, <3>1 DEF l, Rising
  <2> QED
    BY <2>2, <2>3
<1>6. Collector!Members(g) = Collector!Members(h) \cup {p}
  <2>1. 1 .. l + 1 = 1 .. l \cup {l + 1}
    BY <1>1
  <2> QED
    BY <1>1, <1>3, <2>1 DEF Collector!Members
<1>7. g # <<>>
  BY <1>1
<1> QED
  BY <1>1, <1>4, <1>5, <1>6, <1>7 DEF g

(* Recording trims rightly.                                                  *)
LEMMA RecordTrims ==
  ASSUME HistoryInv, NEW r \in Recorders, NEW k \in Collector!Kinds, Collector!Record(r, k)
  PROVE  HistoryInv' /\ Collector!TrimsRightly
<1> DEFINE p == [n |-> point + 1, kind |-> k, t |-> now]
           h(l) == IF l = k THEN Append(history[l], p) ELSE history[l]
<1>1. /\ point' = point + 1 /\ now' = now /\ cfg' = cfg /\ conf' = conf
      /\ history' = [l \in Collector!Kinds |-> Collector!Trim(h(l), cfg)]
  BY DEF Collector!Record
<1>2. p \in Points /\ p.n = point + 1 /\ p.t = now
  BY DEF HistoryInv, Points
<1> HIDE DEF p
<1>3. ASSUME NEW l \in Collector!Kinds
      PROVE  /\ history'[l] \in Seq(Points) /\ Rising(history'[l]) /\ Len(history'[l]) < 2 * cfg.max
             /\ \A i \in 1 .. Len(history'[l]) : history'[l][i].n <= point + 1
             /\ LET kept == Collector!Members(history'[l])
                    all  == Collector!Members(history[l]) \cup kept
                IN  \A q \in all \ kept :
                      /\ \A u \in kept : u.n > q.n
                      /\ Collector!Expired(q, cfg) \/ Collector!Cardinality({u \in all : u.n > q.n}) >= cfg.max
  <2>1. /\ history[l] \in Seq(Points) /\ Rising(history[l]) /\ point \in Nat /\ now \in Nat /\ cfg \in Config
        /\ \A i \in 1 .. Len(history[l]) : history[l][i].n <= point
    BY DEF HistoryInv
  <2>2. /\ h(l) \in Seq(Points) /\ Rising(h(l))
        /\ \A i \in 1 .. Len(h(l)) : h(l)[i].n <= point + 1
        /\ l = k => /\ h(l) # <<>> /\ h(l)[Len(h(l))] = p
                    /\ Collector!Members(h(l)) = Collector!Members(history[l]) \cup {p}
        /\ l # k => h(l) = history[l]
    <3>1. CASE l = k
      <4>1. h(l) = Append(history[l], p)
        BY <3>1
      <4> HIDE DEF h
      <4> QED
        BY <1>2, <2>1, <3>1, <4>1, AppendRises
    <3>2. CASE l # k
      <4>1. h(l) = history[l]
        BY <3>2
      <4>2. \A i \in 1 .. Len(history[l]) : history[l][i].n <= point + 1
        <5> SUFFICES ASSUME NEW i \in 1 .. Len(history[l]) PROVE history[l][i].n <= point + 1
          OBVIOUS
        <5>1. history[l][i] \in Points
          BY <2>1
        <5> QED
          BY <2>1, <5>1 DEF Points
      <4> HIDE DEF h
      <4> QED
        BY <2>1, <3>2, <4>1, <4>2
    <3> QED
      BY <3>1, <3>2
  <2>3. history'[l] = Collector!Trim(h(l), cfg)
    BY <1>1
  <2> HIDE DEF h
  <2>4. PICK t : t = history'[l]
    OBVIOUS
  <2>5. PICK g : g = h(l)
    OBVIOUS
  <2>6. TrimmedTo(g, cfg, t)
    BY <2>1, <2>2, <2>3, <2>4, <2>5, TrimIsRight
  <2>7. Collector!Members(g) = Collector!Members(history[l]) \cup Collector!Members(t)
    <3>1. CASE l = k
      BY <1>2, <2>2, <2>5, <2>6, <3>1 DEF TrimmedTo
    <3>2. CASE l # k
      BY <2>2, <2>5, <2>6, <3>2 DEF TrimmedTo
    <3> QED
      BY <3>1, <3>2
  <2>8. \A i \in 1 .. Len(t) : t[i].n <= point + 1
    BY <2>2, <2>5, <2>6 DEF TrimmedTo
  <2> QED
    BY <2>4, <2>6, <2>7, <2>8 DEF TrimmedTo
<1>4. HistoryInv'
  <2>1. history' \in [Collector!Kinds -> Seq(Points)]
    BY <1>1, <1>3
  <2>2. now' \in Nat /\ point' \in Nat /\ cfg' \in Config /\ conf'.cfg \in Config
    BY <1>1 DEF HistoryInv
  <2> QED
    BY <1>1, <1>3, <2>1, <2>2 DEF HistoryInv
<1>5. Collector!TrimsRightly
  BY <1>1, <1>3 DEF Collector!TrimsRightly
<1> QED
  BY <1>4, <1>5

(* So does a reconfiguration.                                                 *)
LEMMA SwapTrims ==
  ASSUME HistoryInv, Collector!ConfigureSwaps
  PROVE  HistoryInv' /\ Collector!TrimsRightly
<1>1. /\ point' = point /\ now' = now /\ cfg' = conf.cfg
      /\ history' = [l \in Collector!Kinds |-> Collector!Trim(history[l], conf.cfg)]
      /\ conf'.cfg = Collector!Idle.cfg
  BY DEF Collector!ConfigureSwaps, Collector!Idle
<1>2. cfg' \in Config /\ conf'.cfg \in Config
  BY <1>1 DEF HistoryInv, Collector!Idle, Config
<1>3. ASSUME NEW l \in Collector!Kinds
      PROVE  /\ history'[l] \in Seq(Points) /\ Rising(history'[l]) /\ Len(history'[l]) < 2 * cfg'.max
             /\ \A i \in 1 .. Len(history'[l]) : history'[l][i].n <= point
             /\ LET kept == Collector!Members(history'[l])
                    all  == Collector!Members(history[l]) \cup kept
                IN  \A q \in all \ kept :
                      /\ \A u \in kept : u.n > q.n
                      /\ Collector!Expired(q, cfg') \/ Collector!Cardinality({u \in all : u.n > q.n}) >= cfg'.max
  <2>1. PICK g, t, c : g = history[l] /\ t = history'[l] /\ c = conf.cfg
    OBVIOUS
  <2>2. /\ g \in Seq(Points) /\ Rising(g) /\ point \in Nat /\ now \in Nat /\ c \in Config
        /\ \A i \in 1 .. Len(g) : g[i].n <= point
    BY <2>1 DEF HistoryInv
  <2>3. t = Collector!Trim(g, c)
    BY <1>1, <2>1
  <2>4. TrimmedTo(g, c, t)
    BY <2>2, <2>3, TrimIsRight
  <2>5. Collector!Members(g) \cup Collector!Members(t) = Collector!Members(g)
    BY <2>4 DEF TrimmedTo
  <2>6. \A i \in 1 .. Len(t) : t[i].n <= point
    BY <2>2, <2>4 DEF TrimmedTo
  <2> QED
    BY <1>1, <2>1, <2>4, <2>5, <2>6 DEF TrimmedTo
<1>4. HistoryInv'
  <2>1. history' \in [Collector!Kinds -> Seq(Points)]
    BY <1>1, <1>3
  <2>2. now' \in Nat /\ point' \in Nat
    BY <1>1 DEF HistoryInv
  <2> QED
    BY <1>1, <1>2, <1>3, <2>1, <2>2 DEF HistoryInv
<1>5. Collector!TrimsRightly
  BY <1>1, <1>3 DEF Collector!TrimsRightly
<1> QED
  BY <1>4, <1>5

(* Whatever else happens leaves the histories as they are.                     *)
LEMMA NoTrim ==
  ASSUME HistoryInv, now' \in Nat, UNCHANGED <<cfg, history, point>>, conf'.cfg \in Config
  PROVE  HistoryInv' /\ Collector!TrimsRightly
<1>1. HistoryInv'
  BY DEF HistoryInv
<1>2. Collector!TrimsRightly
  <2> SUFFICES ASSUME NEW k \in Collector!Kinds
               PROVE  /\ Len(history'[k]) < 2 * cfg'.max
                      /\ (Collector!Members(history[k]) \cup Collector!Members(history'[k])) \ Collector!Members(history'[k]) = {}
    BY Zenon DEF Collector!TrimsRightly
  <2> QED
    BY DEF HistoryInv
<1> QED
  BY <1>1, <1>2

(* So every step trims rightly.                                              *)
LEMMA StepTrims ==
  ASSUME Sane, HistoryInv, Collector!Next
  PROVE  HistoryInv' /\ Collector!TrimsRightly
<1>1. CASE Collector!Tick
  <2>1. now' \in Nat /\ conf'.cfg \in Config /\ UNCHANGED <<cfg, history, point>>
    BY <1>1 DEF Collector!Tick, HistoryInv
  <2> QED
    BY <2>1, NoTrim
<1>2. ASSUME NEW r \in Recorders, NEW k \in Collector!Kinds, Collector!Record(r, k)
      PROVE  HistoryInv' /\ Collector!TrimsRightly
  BY <1>2, RecordTrims
<1>3. ASSUME NEW r \in Recorders, Collector!WriteLine(r)
      PROVE  HistoryInv' /\ Collector!TrimsRightly
  <2>1. now' \in Nat /\ conf'.cfg \in Config /\ UNCHANGED <<cfg, history, point>>
    BY <1>3 DEF Collector!WriteLine, HistoryInv
  <2> QED
    BY <2>1, NoTrim
<1>4. ASSUME NEW c \in Configs, Collector!ConfigureBegins(c)
      PROVE  HistoryInv' /\ Collector!TrimsRightly
  <2>1. now' \in Nat /\ conf'.cfg \in Config /\ UNCHANGED <<cfg, history, point>>
    BY <1>4 DEF Collector!ConfigureBegins, HistoryInv, Sane, Config
  <2> QED
    BY <2>1, NoTrim
<1>5. CASE Collector!ConfigureSwaps
  BY <1>5, SwapTrims
<1>6. CASE Collector!ConfigureCloses
  <2>1. now' \in Nat /\ conf'.cfg \in Config /\ UNCHANGED <<cfg, history, point>>
    BY <1>6 DEF Collector!ConfigureCloses, HistoryInv, Collector!Idle, Config
  <2> QED
    BY <2>1, NoTrim
<1> QED
  BY <1>1, <1>2, <1>3, <1>4, <1>5, <1>6 DEF Collector!Next

(* No line of a directory has this number.                                   *)
Without(dir, m) == \A f \in DOMAIN dir : \A i \in 1 .. Len(dir[f]) : dir[f][i].n # m

(* The lines of a directory have different numbers.                          *)
Apart(dir) ==
  /\ IsFiniteSet(DOMAIN dir) /\ DOMAIN dir \subseteq Nat \X Nat
  /\ \A f \in DOMAIN dir : dir[f] \in Seq(Points)
  /\ \A f, g \in DOMAIN dir : \A i \in 1 .. Len(dir[f]), j \in 1 .. Len(dir[g]) :
       dir[f][i].n = dir[g][j].n => f = g /\ i = j

(* Opening a file adds an empty one and prunes.                               *)
LEMMA OpenedIs ==
  ASSUME Apart(files), NEW name \in Nat \X Nat, NEW keep, NEW dir, dir = Collector!Opened(name, keep)
  PROVE  /\ DOMAIN dir = Collector!Prune(DOMAIN files \cup {name}, keep)
         /\ DOMAIN dir \subseteq DOMAIN files \cup {name}
         /\ Apart(dir)
         /\ \A m : Without(files, m) => Without(dir, m)
<1> DEFINE all == DOMAIN files \cup {name}
           every == [f \in all |-> IF f \in DOMAIN files THEN files[f] ELSE <<>>]
           stay == Collector!Prune(all, keep)
<1>1. Collector!Opened(name, keep) = [f \in stay |-> every[f]]
  <2>1. DOMAIN every = all
    OBVIOUS
  <2>2. Collector!Opened(name, keep) = Collector!Restrict(every, Collector!Prune(DOMAIN every, keep))
    BY DEF Collector!Opened
  <2> HIDE DEF every, all
  <2> QED
    BY <2>1, <2>2 DEF Collector!Restrict
<1>2. stay \subseteq all
  BY DEF Collector!Prune
<1>3. dir = Collector!Opened(name, keep)
  OBVIOUS
<1> HIDE DEF stay
<1>4. DOMAIN dir = stay /\ \A f \in stay : dir[f] = IF f \in DOMAIN files THEN files[f] ELSE <<>>
  BY <1>1, <1>2, <1>3
<1>5. ASSUME NEW f \in stay, NEW i \in 1 .. Len(dir[f]) PROVE f \in DOMAIN files /\ dir[f] = files[f]
  <2> SUFFICES ASSUME f \notin DOMAIN files PROVE FALSE
    BY <1>4
  <2>1. dir[f] = <<>>
    BY <1>4
  <2> QED
    BY <1>5, <2>1
<1>6. Apart(dir)
  <2>1. IsFiniteSet(all)
    BY FS_AddElement DEF Apart
  <2>2. IsFiniteSet(stay) /\ stay \subseteq Nat \X Nat
    BY <1>2, <2>1, FS_Subset DEF Apart
  <2>3. ASSUME NEW f \in stay PROVE dir[f] \in Seq(Points)
    <3>1. <<>> \in Seq(Points)
      OBVIOUS
    <3>2. f \in DOMAIN files => files[f] \in Seq(Points)
      BY DEF Apart
    <3> QED
      BY <1>4, <3>1, <3>2
  <2>4. ASSUME NEW f \in stay, NEW g \in stay, NEW i \in 1 .. Len(dir[f]), NEW j \in 1 .. Len(dir[g]),
               dir[f][i].n = dir[g][j].n
        PROVE  f = g /\ i = j
    <3>1. /\ f \in DOMAIN files /\ g \in DOMAIN files
          /\ dir[f] = files[f] /\ dir[g] = files[g]
      BY <1>5
    <3> QED
      BY <2>4, <3>1 DEF Apart
  <2> QED
    BY <1>4, <2>2, <2>3, <2>4 DEF Apart
<1>7. ASSUME NEW m, Without(files, m) PROVE Without(dir, m)
  BY <1>4, <1>5, <1>7 DEF Without
<1> QED
  BY <1>2, <1>3, <1>4, <1>6, <1>7 DEF stay

(* A line with a number of its own keeps the lines apart.                     *)
LEMMA AppendIs ==
  ASSUME NEW dir, Apart(dir), NEW name, NEW p \in Points, Without(dir, p.n)
  PROVE  LET then == Collector!AppendLine(dir, name, p) IN
         /\ DOMAIN then = DOMAIN dir
         /\ Apart(then)
         /\ \A m : m # p.n /\ Without(dir, m) => Without(then, m)
<1>1. CASE name \notin DOMAIN dir
  BY <1>1 DEF Collector!AppendLine
<1>2. CASE name \in DOMAIN dir
  <2>1. PICK then : then = Collector!AppendLine(dir, name, p)
    OBVIOUS
  <2>2. /\ DOMAIN then = DOMAIN dir
        /\ then[name] = Append(dir[name], p)
        /\ \A f \in DOMAIN dir \ {name} : then[f] = dir[f]
    BY <1>2, <2>1 DEF Collector!AppendLine
  <2>3. dir[name] \in Seq(Points)
    BY <1>2 DEF Apart
  <2>4. PICK l \in Nat : l = Len(dir[name])
    BY <2>3
  <2>5. /\ then[name] \in Seq(Points) /\ Len(then[name]) = l + 1 /\ then[name][l + 1] = p
        /\ \A i \in 1 .. l : then[name][i] = dir[name][i]
    BY <2>2, <2>3, <2>4
  <2>6. ASSUME NEW f \in DOMAIN dir, NEW i \in 1 .. Len(then[f])
        PROVE  \/ i \in 1 .. Len(dir[f]) /\ then[f][i] = dir[f][i]
               \/ f = name /\ i = l + 1 /\ then[f][i] = p
    BY <2>2, <2>4, <2>5, <2>6
  <2>7. ASSUME NEW m, m # p.n, Without(dir, m) PROVE Without(then, m)
    BY <2>2, <2>6, <2>7 DEF Without
  <2>8. ASSUME NEW f \in DOMAIN dir, NEW g \in DOMAIN dir, NEW i \in 1 .. Len(then[f]), NEW j \in 1 .. Len(then[g]),
               then[f][i].n = then[g][j].n
        PROVE  f = g /\ i = j
    <3>1. CASE f = name /\ i = l + 1 /\ then[f][i] = p
      BY <2>6, <2>8, <3>1, SMTT(30) DEF Without
    <3>2. CASE i \in 1 .. Len(dir[f]) /\ then[f][i] = dir[f][i]
      <4>1. CASE g = name /\ j = l + 1 /\ then[g][j] = p
        BY <2>8, <3>2, <4>1, SMTT(30) DEF Without
      <4>2. CASE j \in 1 .. Len(dir[g]) /\ then[g][j] = dir[g][j]
        BY <2>8, <3>2, <4>2, SMTT(30) DEF Apart
      <4> QED
        BY <2>6, <4>1, <4>2
    <3> QED
      BY <2>6, <3>1, <3>2
  <2>9. \A f \in DOMAIN dir : then[f] \in Seq(Points)
    BY <2>2, <2>5 DEF Apart
  <2>10. Apart(then)
    BY <2>2, <2>8, <2>9 DEF Apart
  <2> QED
    BY <2>1, <2>2, <2>7, <2>10
<1> QED
  BY <1>1, <1>2

(* The names that are later than f.                                          *)
Newer(dir, f) == {g \in dir : Collector!Later(g, f)}

(* What pruning removes has as many later names as are kept.                  *)
LEMMA PrunedIsOld ==
  ASSUME NEW old, IsFiniteSet(old), old \subseteq Nat \X Nat, NEW name \in Nat \X Nat, NEW keep \in Nat,
         NEW stay, stay = Collector!Prune(old \cup {name}, keep), NEW f \in old \ stay
  PROVE  Collector!Cardinality(Newer(old \cup stay, f)) >= keep
<1> DEFINE all == old \cup {name}
           after(x) == {g \in all : Collector!Later(g, x)}
           seen == {g \in old \cup stay : Collector!Later(g, f)}
<1>1. IsFiniteSet(all) /\ stay \subseteq all
  BY FS_AddElement DEF Collector!Prune
<1>2. ASSUME NEW x PROVE IsFiniteSet(after(x)) /\ Cardinality(after(x)) \in Nat
  BY <1>1, FS_Subset, FS_CardinalityType
<1>3. IsFiniteSet(seen) /\ Cardinality(seen) \in Nat
  <2>1. seen \subseteq all
    BY <1>1
  <2> HIDE DEF seen, all
  <2> QED
    BY <1>1, <2>1, FS_Subset, FS_CardinalityType
<1>4. ASSUME NEW x \in all, x \notin stay PROVE Cardinality(after(x)) >= keep
  <2>1. ~(Collector!Cardinality(after(x)) < keep)
    BY <1>4 DEF Collector!Prune
  <2> HIDE DEF after
  <2>2. ~(Cardinality(after(x)) < keep)
    BY <2>1, SameCardinality
  <2> QED
    BY <1>2, <2>2
<1>5. \E x \in all : x \notin stay /\ after(x) \subseteq seen
  <2>1. CASE name \in stay
    <3>1. after(f) \subseteq seen
      BY <2>1
    <3> QED
      BY <3>1
  <2>2. CASE name \notin stay /\ ~Collector!Later(name, f)
    <3>1. after(f) \subseteq seen
      BY <2>2
    <3> QED
      BY <3>1
  <2>3. CASE name \notin stay /\ Collector!Later(name, f)
    <3>1. ASSUME NEW g \in after(name) PROVE g \in old /\ Collector!Later(g, f)
      <4>1. f[1] \in Nat /\ f[2] \in Nat /\ name[1] \in Nat /\ name[2] \in Nat /\ g[1] \in Nat /\ g[2] \in Nat
        OBVIOUS
      <4>2. g # name
        BY <3>1, <4>1 DEF Collector!Later
      <4> QED
        BY <2>3, <3>1, <4>1, <4>2 DEF Collector!Later
    <3> QED
      BY <2>3, <3>1
  <2> QED
    BY <2>1, <2>2, <2>3
<1>6. PICK x \in all : x \notin stay /\ after(x) \subseteq seen
  BY <1>5
<1>7. Cardinality(after(x)) >= keep /\ Cardinality(after(x)) \in Nat
  BY <1>2, <1>4, <1>6
<1> HIDE DEF after, seen
<1>8. Cardinality(after(x)) <= Cardinality(seen)
  BY <1>3, <1>6, FS_Subset
<1>9. Collector!Cardinality(seen) >= keep
  BY <1>3, <1>7, <1>8, SameCardinality
<1> QED
  BY <1>9 DEF seen, Newer

(* The newest name stays.                                                   *)
LEMMA NewestStays ==
  ASSUME NEW dir, NEW keep \in Nat \ {0}, NEW f \in dir, \A g \in dir : ~Collector!Later(g, f)
  PROVE  f \in Collector!Prune(dir, keep)
<1>1. {g \in dir : Collector!Later(g, f)} = {}
  OBVIOUS
<1>2. Collector!Cardinality({}) = 0
  BY FS_EmptySet, SameCardinality
<1> QED
  BY <1>1, <1>2 DEF Collector!Prune

(* A writer that opened another file.                                        *)
Rotates(o, name, n) == [o EXCEPT !.seq = @ + 1, !.name = name, !.size = n]

(* It has the next number, and keeps as many files as before.                  *)
NamedNext(o, name, y) == y \in Writers /\ y.name = name /\ y.seq = o.seq + 1 /\ y.keep = o.keep

(* That is what opening another file comes to.                                *)
LEMMA RotatedIs ==
  ASSUME NEW o \in Writers, NEW name \in Nat \X Nat, NEW n \in Nat, NEW y, y = Rotates(o, name, n)
  PROVE  NamedNext(o, name, y)
<1>1. PICK a : a = [o EXCEPT !.seq = @ + 1]
  OBVIOUS
<1>2. a \in Writers /\ a.seq = o.seq + 1 /\ a.keep = o.keep
  BY <1>1 DEF Writers
<1>3. PICK b : b = [a EXCEPT !.name = name]
  OBVIOUS
<1>4. b \in Writers /\ b.name = name /\ b.seq = o.seq + 1 /\ b.keep = o.keep
  BY <1>2, <1>3 DEF Writers
<1>5. PICK d : d = [b EXCEPT !.size = n]
  OBVIOUS
<1>6. d \in Writers /\ d.name = name /\ d.seq = o.seq + 1 /\ d.keep = o.keep
  BY <1>4, <1>5 DEF Writers
<1>7. Rotates(o, name, n) = d
  BY <1>1, <1>3, <1>5 DEF Rotates
<1> QED
  BY <1>6, <1>7 DEF NamedNext

(* One of a sequence of writers is replaced.                                 *)
LEMMA OneReplaced ==
  ASSUME NEW f \in Seq(Writers), NEW v, NEW x \in Writers
  PROVE  LET g == [f EXCEPT ![v] = x] IN
         /\ g \in Seq(Writers) /\ Len(g) = Len(f)
         /\ \A w \in 1 .. Len(f) : w # v => g[w] = f[w]
         /\ v \in 1 .. Len(f) => g[v] = x
<1>1. PICK l \in Nat : l = Len(f)
  OBVIOUS
<1>2. PICK g : g = [f EXCEPT ![v] = x]
  OBVIOUS
<1>3. DOMAIN f = 1 .. l /\ f \in [1 .. l -> Writers]
  BY <1>1
<1>4. /\ g \in [1 .. l -> Writers]
      /\ \A w \in 1 .. l : w # v => g[w] = f[w]
      /\ v \in 1 .. l => g[v] = x
  BY <1>2, <1>3
<1>5. g \in Seq(Writers) /\ Len(g) = l
  BY <1>4
<1> QED
  BY <1>1, <1>2, <1>4, <1>5

(* A writer that was closed, or that wrote a line, or that failed to open a file. *)
LEMMA FieldIs ==
  ASSUME NEW o \in Writers, NEW y,
         \/ y = [o EXCEPT !.open = FALSE]
         \/ y = [o EXCEPT !.size = @ + 1]
         \/ y = [o EXCEPT !.seq = @ + 1]
  PROVE  y \in Writers /\ y.name = o.name /\ y.seq >= o.seq
<1>0. o.seq \in Nat
  BY DEF Writers
<1>1. CASE y = [o EXCEPT !.open = FALSE]
  <2>1. y \in Writers
    BY <1>1 DEF Writers
  <2>2. y.name = o.name /\ y.seq = o.seq
    BY <1>1 DEF Writers
  <2> QED
    BY <1>0, <2>1, <2>2
<1>2. CASE y = [o EXCEPT !.size = @ + 1]
  BY <1>2 DEF Writers
<1>3. CASE y = [o EXCEPT !.seq = @ + 1]
  BY <1>3 DEF Writers
<1> QED
  BY <1>1, <1>2, <1>3

(* One of the writers goes through such a change; it keeps its file.            *)
Touched(f, v, g) ==
  \/ g = [f EXCEPT ![v].open = FALSE]
  \/ g = [f EXCEPT ![v].size = @ + 1]
  \/ g = [f EXCEPT ![v].seq = @ + 1]

(* It does: a writer's file does not change, and its number does not go down.   *)
LEMMA SameFile ==
  ASSUME NEW f \in Seq(Writers), NEW v, NEW g, Touched(f, v, g)
  PROVE  /\ g \in Seq(Writers) /\ Len(g) = Len(f)
         /\ \A w \in 1 .. Len(f) : g[w].name = f[w].name /\ g[w].seq >= f[w].seq
<1>0. PICK l \in Nat : l = Len(f)
  OBVIOUS
<1>2. \A w \in 1 .. l : f[w] \in Writers
  BY <1>0
<1>3. \A w \in 1 .. l : f[w].seq \in Nat
  BY <1>2 DEF Writers
<1>4. CASE v \notin 1 .. l
  <2>1. DOMAIN f = 1 .. l
    BY <1>0
  <2>2. g = f
    BY <1>4, <2>1 DEF Touched
  <2> QED
    BY <1>0, <1>3, <2>2
<1>5. CASE v \in 1 .. l
  <2>1. PICK y : /\ g = [f EXCEPT ![v] = y]
                 /\ \/ y = [f[v] EXCEPT !.open = FALSE]
                    \/ y = [f[v] EXCEPT !.size = @ + 1]
                    \/ y = [f[v] EXCEPT !.seq = @ + 1]
    <3>1. CASE g = [f EXCEPT ![v].open = FALSE]
      <4>1. g = [f EXCEPT ![v] = [f[v] EXCEPT !.open = FALSE]]
        BY <3>1
      <4> QED
        BY <4>1
    <3>2. CASE g = [f EXCEPT ![v].size = @ + 1]
      <4>1. g = [f EXCEPT ![v] = [f[v] EXCEPT !.size = @ + 1]]
        BY <3>2
      <4> QED
        BY <4>1
    <3>3. CASE g = [f EXCEPT ![v].seq = @ + 1]
      <4>1. g = [f EXCEPT ![v] = [f[v] EXCEPT !.seq = @ + 1]]
        BY <3>3
      <4> QED
        BY <4>1
    <3> QED
      BY <3>1, <3>2, <3>3 DEF Touched
  <2>2. y \in Writers /\ y.name = f[v].name /\ y.seq >= f[v].seq
    BY <1>2, <1>5, <2>1, FieldIs
  <2>3. /\ g \in Seq(Writers) /\ Len(g) = Len(f)
        /\ \A w \in 1 .. l : w # v => g[w] = f[w]
        /\ g[v] = y
    BY <1>0, <1>5, <2>1, <2>2, OneReplaced
  <2>4. \A w \in 1 .. l : g[w].name = f[w].name /\ g[w].seq >= f[w].seq
    <3> SUFFICES ASSUME NEW w \in 1 .. l PROVE g[w].name = f[w].name /\ g[w].seq >= f[w].seq
      OBVIOUS
    <3>1. CASE w = v
      BY <2>2, <2>3, <3>1
    <3>2. CASE w # v
      BY <1>3, <2>3, <3>2
    <3> QED
      BY <3>1, <3>2
  <2> QED
    BY <1>0, <2>3, <2>4
<1> QED
  BY <1>4, <1>5

(* A recorder has a line to write, and its number.                            *)
Waiting(r) == pending[r] # <<>>
Number(r) == pending[r][1].p.n

(* A file's number is none that its writer is still to give; the collector and *)
(* Configure know only writers that there are.                               *)
WritersSound ==
  /\ writers \in Seq(Writers)
  /\ \A w \in 1 .. Len(writers) : writers[w].name[2] <= writers[w].seq
  /\ current \in 0 .. Len(writers) /\ conf.w \in 0 .. Len(writers)

(* No file is from the future, and before a rotation all of this second are     *)
(* the first of their writers.                                              *)
NamesSound ==
  /\ now \in Nat /\ rotated \in BOOLEAN
  /\ \A f \in DOMAIN files : f[1] <= now /\ (rotated \/ (f[1] = now => f[2] = 1))

(* Every line has a number of its own that has been given.                     *)
LinesSound ==
  /\ point \in Nat
  /\ Apart(files)
  /\ \A m \in Nat : m > point => Without(files, m)

(* So has every line that is still to be written.                             *)
PendingSound ==
  /\ DOMAIN pending = Recorders
  /\ \A r \in Recorders : Waiting(r) =>
       /\ pending[r][1].w \in 1 .. Len(writers) /\ pending[r][1].p \in Points
       /\ Number(r) <= point /\ Without(files, Number(r))
  /\ \A r, s \in Recorders : Waiting(r) /\ Waiting(s) /\ Number(r) = Number(s) => r = s

FilesInv == WritersSound /\ NamesSound /\ LinesSound /\ PendingSound

(* A new point has a number of its own.                                      *)
LEMMA RecordFiles ==
  ASSUME FilesInv, NEW r \in Recorders, NEW k \in Collector!Kinds, Collector!Record(r, k)
  PROVE  FilesInv' /\ Collector!OthersPrune
<1> DEFINE p == [n |-> point + 1, kind |-> k, t |-> now]
<1>1. /\ point' = point + 1 /\ UNCHANGED <<now, rotated, cfg, current, writers, files, conf>>
      /\ pending' = [pending EXCEPT ![r] = IF current = 0 THEN <<>> ELSE <<[w |-> current, p |-> p]>>]
  BY DEF Collector!Record, Collector!None
<1>2. p \in Points /\ p.n = point + 1
  BY DEF FilesInv, LinesSound, NamesSound, Points
<1> HIDE DEF p
<1>3. /\ DOMAIN pending' = Recorders
      /\ \A s \in Recorders \ {r} : pending'[s] = pending[s]
      /\ Waiting(r)' => current # 0 /\ pending'[r] = <<[w |-> current, p |-> p]>>
  BY <1>1 DEF FilesInv, PendingSound, Waiting
<1>4. \A s \in Recorders \ {r} : Waiting(s)' = Waiting(s) /\ Number(s)' = Number(s)
  BY <1>3 DEF Waiting, Number
<1>5. Waiting(r)' => Number(r)' = point + 1 /\ pending'[r][1].w = current /\ pending'[r][1].p = p /\ current # 0
  BY <1>2, <1>3 DEF Number
<1>6. \A m : Without(files, m)' = Without(files, m)
  BY <1>1 DEF Without
<1>7. point \in Nat /\ Without(files, point + 1)
  BY DEF FilesInv, LinesSound
<1>8. ASSUME NEW s \in Recorders, Waiting(s)'
      PROVE  /\ pending'[s][1].w \in 1 .. Len(writers') /\ pending'[s][1].p \in Points
             /\ Number(s)' <= point' /\ Without(files, Number(s)')
  <2>1. CASE s = r
    BY <1>1, <1>2, <1>5, <1>7, <1>8, <2>1 DEF FilesInv, WritersSound
  <2>2. CASE s # r
    <3>1. /\ Waiting(s) /\ Number(s)' = Number(s) /\ pending'[s] = pending[s]
      BY <1>3, <1>4, <1>8, <2>2
    <3>2. /\ pending[s][1].w \in 1 .. Len(writers) /\ pending[s][1].p \in Points
          /\ Number(s) <= point /\ Without(files, Number(s))
      BY <3>1 DEF FilesInv, PendingSound
    <3>3. Number(s) \in Nat
      BY <3>2 DEF Number, Points
    <3> QED
      BY <1>1, <1>7, <3>1, <3>2, <3>3
  <2> QED
    BY <2>1, <2>2
<1>9. ASSUME NEW s \in Recorders, NEW u \in Recorders, Waiting(s)', Waiting(u)', Number(s)' = Number(u)'
      PROVE  s = u
  <2>1. ASSUME NEW x \in Recorders \ {r}, Waiting(x)' PROVE Number(x)' <= point /\ Number(x)' \in Nat /\ Waiting(x)
    <3>1. Waiting(x) /\ Number(x)' = Number(x)
      BY <1>4, <2>1
    <3>2. pending[x][1].p \in Points /\ Number(x) <= point
      BY <3>1 DEF FilesInv, PendingSound
    <3> QED
      BY <3>1, <3>2 DEF Number, Points
  <2>2. CASE s = r \/ u = r
    BY <1>5, <1>7, <1>9, <2>1, <2>2
  <2>3. CASE s # r /\ u # r
    BY <1>4, <1>9, <2>3 DEF FilesInv, PendingSound
  <2> QED
    BY <2>2, <2>3
<1>10. PendingSound'
  BY <1>1, <1>3, <1>6, <1>8, <1>9 DEF PendingSound
<1>11. WritersSound' /\ NamesSound'
  BY <1>1 DEF FilesInv, WritersSound, NamesSound
<1>12. LinesSound'
  BY <1>1, <1>6, <1>7 DEF FilesInv, LinesSound, Apart
<1>13. Collector!OthersPrune
  BY <1>1 DEF Collector!OthersPrune
<1> QED
  BY <1>10, <1>11, <1>12, <1>13 DEF FilesInv

(* Steps that leave the files alone.                                         *)
LEMMA QuietFiles ==
  ASSUME FilesInv, Collector!Tick \/ Collector!ConfigureSwaps \/ Collector!ConfigureCloses
  PROVE  FilesInv' /\ Collector!OthersPrune
<1>1. /\ UNCHANGED <<files, pending, point>> /\ now' \in Nat
      /\ (now' = now /\ rotated' = rotated) \/ (now' = now + 1 /\ rotated' = FALSE)
  BY DEF FilesInv, NamesSound, Collector!Tick, Collector!ConfigureSwaps, Collector!ConfigureCloses
<1>2. PICK f, g : f = writers /\ g = writers'
  OBVIOUS
<1>3. f \in Seq(Writers)
  BY <1>2 DEF FilesInv, WritersSound
<1>4. /\ g \in Seq(Writers) /\ Len(g) = Len(f)
      /\ \A w \in 1 .. Len(f) : g[w].name = f[w].name /\ g[w].seq >= f[w].seq
  <2>1. CASE g = f
    <3>1. \A w \in 1 .. Len(f) : f[w] \in Writers
      BY <1>3
    <3>2. \A w \in 1 .. Len(f) : f[w].seq \in Nat
      BY <3>1 DEF Writers
    <3> QED
      BY <1>3, <2>1, <3>2
  <2>2. CASE Collector!ConfigureCloses
    <3>1. PICK v : v = conf.w
      OBVIOUS
    <3>2. g = [f EXCEPT ![v].open = FALSE]
      BY <1>2, <2>2, <3>1 DEF Collector!ConfigureCloses
    <3>3. Touched(f, v, g)
      BY <3>2 DEF Touched
    <3> QED
      BY <1>3, <3>3, SameFile
  <2> QED
    BY <1>2, <2>1, <2>2 DEF Collector!Tick, Collector!ConfigureSwaps
<1>5. current' \in 0 .. Len(f) /\ conf'.w \in 0 .. Len(f)
  <2>0. current \in 0 .. Len(f) /\ conf.w \in 0 .. Len(f)
    BY <1>2 DEF FilesInv, WritersSound
  <2>1. CASE UNCHANGED <<current, conf>>
    BY <2>0, <2>1
  <2>2. CASE Collector!ConfigureSwaps
    BY <2>0, <2>2 DEF Collector!ConfigureSwaps, Collector!Idle
  <2>3. CASE Collector!ConfigureCloses
    BY <1>3, <2>0, <2>3 DEF Collector!ConfigureCloses, Collector!Idle, Collector!None
  <2> QED
    BY <2>1, <2>2, <2>3 DEF Collector!Tick
<1>6. WritersSound'
  <2>1. \A w \in 1 .. Len(f) : f[w].name[2] <= f[w].seq
    BY <1>2 DEF FilesInv, WritersSound
  <2>2. ASSUME NEW w \in 1 .. Len(f) PROVE g[w].name[2] <= g[w].seq
    <3>1. f[w] \in Writers /\ g[w] \in Writers
      BY <1>3, <1>4
    <3>2. f[w].name[2] \in Nat /\ f[w].seq \in Nat /\ g[w].seq \in Nat
      BY <3>1 DEF Writers
    <3> QED
      BY <1>4, <2>1, <3>2
  <2> QED
    BY <1>2, <1>4, <1>5, <2>2 DEF WritersSound
<1>7. NamesSound'
  <2>1. \A x \in DOMAIN files : x[1] \in Nat /\ x[1] <= now
    BY DEF FilesInv, NamesSound, LinesSound, Apart
  <2>2. CASE now' = now /\ rotated' = rotated
    BY <1>1, <2>2 DEF FilesInv, NamesSound
  <2>3. CASE now' = now + 1 /\ rotated' = FALSE
    <3>1. PICK n : n = now
      OBVIOUS
    <3>2. n \in Nat /\ now' = n + 1 /\ rotated' = FALSE
      BY <2>3, <3>1 DEF FilesInv, NamesSound
    <3>3. \A x \in DOMAIN files : x[1] \in Nat /\ x[1] <= n
      BY <2>1, <3>1
    <3>4. \A x \in DOMAIN files : x[1] <= n + 1 /\ x[1] # n + 1
      BY <3>2, <3>3
    <3> QED
      BY <1>1, <3>2, <3>4 DEF NamesSound
  <2> QED
    BY <1>1, <2>2, <2>3
<1>8. LinesSound'
  BY <1>1 DEF FilesInv, LinesSound, Apart, Without
<1>9. PendingSound'
  BY <1>1, <1>2, <1>4 DEF FilesInv, PendingSound, Waiting, Number, Without
<1>10. Collector!OthersPrune
  <2>1. DOMAIN writers = 1 .. Len(f)
    BY <1>2, <1>3
  <2>2. \A w \in DOMAIN writers : writers'[w].name = writers[w].name
    BY <1>2, <1>4, <2>1
  <2> QED
    BY <1>1, <2>2 DEF Collector!OthersPrune
<1> QED
  BY <1>6, <1>7, <1>8, <1>9, <1>10 DEF FilesInv

(* What the directory has to be after a step that may have added a line.        *)
Grown(n) ==
  /\ Apart(files')
  /\ \A m : m # n /\ Without(files, m) => Without(files', m)
  /\ \A x \in DOMAIN files' : x[1] <= now /\ (rotated' \/ (x[1] = now => x[2] = 1))
  /\ rotated' \in BOOLEAN

(* A line is written once, and what a rotation prunes is its due.               *)
LEMMA WriteFiles ==
  ASSUME FilesInv, NEW r \in Recorders, Collector!WriteLine(r)
  PROVE  FilesInv' /\ Collector!OthersPrune
<1>1. PICK w, p : w = pending[r][1].w /\ p = pending[r][1].p
  OBVIOUS
<1>2. PICK f, g : f = writers /\ g = writers'
  OBVIOUS
<1>3. PICK o, name : o = f[w] /\ name = <<now, f[w].seq + 1>>
  OBVIOUS
<1>4. /\ Waiting(r) /\ pending' = [pending EXCEPT ![r] = <<>>]
      /\ UNCHANGED <<now, point, current, conf>>
  BY DEF Collector!WriteLine, Waiting
<1>5. \/ g = f /\ UNCHANGED <<files, rotated>>
      \/ /\ g = [f EXCEPT ![w].size = @ + 1]
         /\ files' = Collector!AppendLine(files, o.name, p) /\ UNCHANGED rotated
      \/ /\ ~rotated /\ rotated' = TRUE
         /\ files' = Collector!AppendLine(Collector!Opened(name, o.keep), name, p)
         /\ g = [f EXCEPT ![w] = Rotates(o, name, Collector!SizeOf(name, Collector!Opened(name, o.keep)) + 1)]
      \/ g = [f EXCEPT ![w].seq = @ + 1] /\ UNCHANGED <<files, rotated>>
  BY <1>1, <1>2, <1>3 DEF Collector!WriteLine, Rotates
<1>6. /\ f \in Seq(Writers) /\ w \in 1 .. Len(f) /\ p \in Points /\ p.n <= point
      /\ Without(files, p.n) /\ Apart(files) /\ now \in Nat /\ point \in Nat /\ p.n \in Nat
      /\ \A v \in 1 .. Len(f) : f[v].name[2] <= f[v].seq
  <2>1. pending[r][1].w \in 1 .. Len(writers) /\ pending[r][1].p \in Points /\ Number(r) <= point /\ Without(files, Number(r))
    BY <1>4 DEF FilesInv, PendingSound
  <2>2. p.n \in Nat
    BY <1>1, <2>1 DEF Points
  <2> QED
    BY <1>1, <1>2, <2>1, <2>2 DEF FilesInv, WritersSound, LinesSound, NamesSound, Number
<1>7. /\ o \in Writers /\ name \in Nat \X Nat /\ o.keep \in Nat \ {0} /\ o.seq \in Nat \ {0}
      /\ o.name \in Nat \X Nat /\ o.name[2] <= o.seq /\ name = <<now, o.seq + 1>>
  <2>1. o \in Writers
    BY <1>3, <1>6
  <2>2. /\ o.name \in Nat \X Nat /\ o.seq \in Nat \ {0} /\ o.keep \in Nat \ {0}
    BY <2>1, SMTT(30) DEF Writers
  <2>3. name = <<now, o.seq + 1>> /\ o.name[2] <= o.seq
    BY <1>3, <1>6
  <2> HIDE DEF Writers
  <2>4. name \in Nat \X Nat
    BY <1>6, <2>2, <2>3
  <2> QED
    BY <2>1, <2>2, <2>3, <2>4
<1>8. rotated \in BOOLEAN /\ \A x \in DOMAIN files : x[1] \in Nat /\ x[1] <= now /\ (rotated \/ (x[1] = now => x[2] = 1))
  BY DEF FilesInv, NamesSound, LinesSound, Apart
<1>9. ASSUME Touched(f, w, g) \/ g = f
      PROVE  /\ g \in Seq(Writers) /\ Len(g) = Len(f)
             /\ \A v \in 1 .. Len(f) : g[v].name = f[v].name /\ g[v].name[2] <= g[v].seq
  <2>1. /\ g \in Seq(Writers) /\ Len(g) = Len(f)
        /\ \A v \in 1 .. Len(f) : g[v].name = f[v].name /\ g[v].seq >= f[v].seq
    <3>1. CASE Touched(f, w, g)
      BY <1>6, <3>1, SameFile
    <3>2. CASE g = f
      <4>1. \A v \in 1 .. Len(f) : f[v] \in Writers
        BY <1>6
      <4>2. \A v \in 1 .. Len(f) : f[v].seq \in Nat
        BY <4>1 DEF Writers
      <4> QED
        BY <1>6, <3>2, <4>2
    <3> QED
      BY <1>9, <3>1, <3>2
  <2>2. ASSUME NEW v \in 1 .. Len(f) PROVE g[v].name[2] <= g[v].seq
    <3>1. f[v] \in Writers /\ g[v] \in Writers
      BY <1>6, <2>1
    <3>2. f[v].name[2] \in Nat /\ f[v].seq \in Nat /\ g[v].seq \in Nat
      BY <3>1 DEF Writers
    <3> QED
      BY <1>6, <2>1, <3>2
  <2> QED
    BY <2>1, <2>2
<1>10. ASSUME Touched(f, w, g) \/ g = f, DOMAIN files' = DOMAIN files PROVE Collector!OthersPrune
  <2>1. DOMAIN writers = 1 .. Len(f)
    BY <1>2, <1>6
  <2>2. \A v \in DOMAIN writers : writers'[v].name = writers[v].name
    BY <1>2, <1>9, <1>10, <2>1
  <2> QED
    BY <1>10, <2>2 DEF Collector!OthersPrune
(* The writer is closed, or fails to open a file.                              *)
<1>11. ASSUME Touched(f, w, g) \/ g = f, UNCHANGED <<files, rotated>>
       PROVE  Grown(p.n) /\ Collector!OthersPrune
  <2>1. files' = files /\ rotated' = rotated
    BY <1>11
  <2>2. Grown(p.n)
    BY <1>6, <1>8, <2>1 DEF Grown
  <2> QED
    BY <1>10, <1>11, <2>1, <2>2
(* The line fits into the file.                                              *)
<1>12. ASSUME Touched(f, w, g), files' = Collector!AppendLine(files, o.name, p), UNCHANGED rotated
       PROVE  Grown(p.n) /\ Collector!OthersPrune
  <2>1. /\ DOMAIN files' = DOMAIN files /\ Apart(files')
        /\ \A m : m # p.n /\ Without(files, m) => Without(files', m)
    BY <1>6, <1>12, AppendIs
  <2>2. Grown(p.n)
    BY <1>8, <1>12, <2>1 DEF Grown
  <2> QED
    BY <1>10, <1>12, <2>1, <2>2
(* The writer opens another file: its name is the newest, so that it stays.    *)
<1>13. ASSUME ~rotated, rotated' = TRUE,
              files' = Collector!AppendLine(Collector!Opened(name, o.keep), name, p),
              g = [f EXCEPT ![w] = Rotates(o, name, Collector!SizeOf(name, Collector!Opened(name, o.keep)) + 1)]
       PROVE  /\ Grown(p.n) /\ Collector!OthersPrune
              /\ g \in Seq(Writers) /\ Len(g) = Len(f)
              /\ \A v \in 1 .. Len(f) : g[v].name[2] <= g[v].seq
  <2>0. PICK keep : keep = o.keep
    OBVIOUS
  <2>15. name \in Nat \X Nat /\ o \in Writers /\ keep \in Nat
    BY <1>7, <2>0
  <2>1. PICK dir, all : dir = Collector!Opened(name, keep) /\ all = DOMAIN files \cup {name}
    OBVIOUS
  <2>2. /\ DOMAIN dir = Collector!Prune(all, keep) /\ DOMAIN dir \subseteq all
        /\ Apart(dir)
        /\ \A m : Without(files, m) => Without(dir, m)
    <3>1. Apart(files)
      BY <1>6
    <3>2. dir = Collector!Opened(name, keep)
      BY <2>1
    <3>3. /\ DOMAIN dir = Collector!Prune(DOMAIN files \cup {name}, keep)
          /\ DOMAIN dir \subseteq DOMAIN files \cup {name}
          /\ Apart(dir)
          /\ \A m : Without(files, m) => Without(dir, m)
      BY <2>15, <3>1, <3>2, OpenedIs
    <3> QED
      BY <2>1, <3>3
  <2>3. /\ DOMAIN files' = DOMAIN dir /\ Apart(files')
        /\ \A m : m # p.n /\ Without(dir, m) => Without(files', m)
    BY <1>6, <1>13, <2>0, <2>1, <2>2, AppendIs
  <2>4. Grown(p.n)
    <3>1. \A x \in DOMAIN files' : x[1] <= now
      <4> SUFFICES ASSUME NEW x \in all PROVE x[1] <= now
        BY <2>2, <2>3
      <4>1. CASE x = name
        BY <1>6, <1>7, <4>1
      <4>2. CASE x \in DOMAIN files
        BY <1>8, <4>2
      <4> QED
        BY <2>1, <4>1, <4>2
    <3> QED
      BY <1>13, <2>2, <2>3, <3>1 DEF Grown
  <2>5. PICK n : n = Collector!SizeOf(name, dir) + 1
    OBVIOUS
  <2>6. n \in Nat
    <3>1. name \in DOMAIN dir => dir[name] \in Seq(Points)
      BY <2>2 DEF Apart
    <3>2. name \in DOMAIN dir => Len(dir[name]) \in Nat
      BY <3>1
    <3> QED
      BY <2>5, <3>2 DEF Collector!SizeOf
  <2>7. PICK y : y = Rotates(o, name, n)
    OBVIOUS
  <2>8. y \in Writers /\ y.name = name /\ y.seq = o.seq + 1 /\ y.keep = o.keep
    <3>1. o \in Writers
      BY <2>15
    <3>2. name \in Nat \X Nat
      BY <2>15
    <3>3. n \in Nat
      BY <2>6
    <3>4. y = Rotates(o, name, n)
      BY <2>7
    <3>5. NamedNext(o, name, y)
      BY <3>1, <3>2, <3>3, <3>4, RotatedIs
    <3> QED
      BY <3>5 DEF NamedNext
  <2>9. g = [f EXCEPT ![w] = y]
    BY <1>13, <2>0, <2>1, <2>5, <2>7
  <2>10. /\ g \in Seq(Writers) /\ Len(g) = Len(f) /\ g[w] = y
         /\ \A v \in 1 .. Len(f) : v # w => g[v] = f[v]
    BY <1>6, <2>8, <2>9, OneReplaced
  <2>11. name[2] = o.seq + 1 /\ name[1] = now
    BY <1>7
  <2>12. \A v \in 1 .. Len(f) : g[v].name[2] <= g[v].seq
    BY <1>6, <1>7, <2>8, <2>10, <2>11
  <2>13. name \in DOMAIN files'
    <3>1. \A x \in all : ~Collector!Later(x, name)
      <4> SUFFICES ASSUME NEW x \in all, Collector!Later(x, name) PROVE FALSE
        OBVIOUS
      <4>1. CASE x = name
        BY <1>6, <1>7, <2>11, <4>1 DEF Collector!Later
      <4>2. CASE x \in DOMAIN files
        BY <1>6, <1>7, <1>8, <1>13, <2>11, <4>2 DEF Collector!Later
      <4> QED
        BY <2>1, <4>1, <4>2
    <3>2. name \in Collector!Prune(all, keep)
      BY <1>7, <2>0, <2>1, <3>1, NewestStays
    <3> QED
      BY <2>2, <2>3, <3>2
  <2>14. Collector!OthersPrune
    <3> SUFFICES ASSUME NEW v \in 1 .. Len(f), f[v].name \in DOMAIN files, g[v].name \notin DOMAIN files'
                 PROVE  \E u \in (1 .. Len(g)) \ {v} :
                          /\ u \in 1 .. Len(f) => g[u].name # f[u].name
                          /\ Collector!Cardinality({x \in DOMAIN files \cup DOMAIN files' : Collector!Later(x, f[v].name)}) >= g[u].keep
      <4>1. DOMAIN writers = 1 .. Len(f) /\ DOMAIN writers' = 1 .. Len(g)
        BY <1>2, <1>6, <2>10
      <4> QED
        BY <1>2, <4>1 DEF Collector!OthersPrune
    <3>1. v # w
      BY <2>8, <2>10, <2>13
    <3>2. g[v] = f[v] /\ f[v].name \in DOMAIN files \ DOMAIN files'
      BY <2>10, <3>1
    <3>3. IsFiniteSet(DOMAIN files) /\ DOMAIN files \subseteq Nat \X Nat
      BY <1>6 DEF Apart
    <3>4. PICK old, new, x : old = DOMAIN files /\ new = DOMAIN files' /\ x = f[v].name
      OBVIOUS
    <3>5. /\ IsFiniteSet(old) /\ old \subseteq Nat \X Nat /\ x \in old \ new /\ keep \in Nat
          /\ new = Collector!Prune(old \cup {name}, keep)
      BY <1>7, <2>0, <2>1, <2>2, <2>3, <3>2, <3>3, <3>4
    <3>6. Collector!Cardinality(Newer(old \cup new, x)) >= keep
      BY <2>15, <3>5, PrunedIsOld
    <3>7. g[w].keep = o.keep /\ g[w].name # f[w].name
      BY <1>3, <1>7, <2>8, <2>10, <2>11
    <3> QED
      BY <1>6, <2>0, <2>10, <3>1, <3>4, <3>6, <3>7 DEF Newer
  <2> QED
    BY <2>4, <2>10, <2>12, <2>14
<1>14. /\ Grown(p.n) /\ Collector!OthersPrune
       /\ g \in Seq(Writers) /\ Len(g) = Len(f)
       /\ \A v \in 1 .. Len(f) : g[v].name[2] <= g[v].seq
  <2>1. CASE g = f /\ UNCHANGED <<files, rotated>>
    BY <1>9, <1>11, <2>1
  <2>2. CASE g = [f EXCEPT ![w].size = @ + 1] /\ files' = Collector!AppendLine(files, o.name, p) /\ UNCHANGED rotated
    <3>1. Touched(f, w, g)
      BY <2>2 DEF Touched
    <3> QED
      BY <1>9, <1>12, <2>2, <3>1
  <2>3. CASE g = [f EXCEPT ![w].seq = @ + 1] /\ UNCHANGED <<files, rotated>>
    <3>1. Touched(f, w, g)
      BY <2>3 DEF Touched
    <3> QED
      BY <1>9, <1>11, <2>3, <3>1
  <2>4. CASE /\ ~rotated /\ rotated' = TRUE
             /\ files' = Collector!AppendLine(Collector!Opened(name, o.keep), name, p)
             /\ g = [f EXCEPT ![w] = Rotates(o, name, Collector!SizeOf(name, Collector!Opened(name, o.keep)) + 1)]
    BY <1>13, <2>4
  <2> QED
    BY <1>5, <2>1, <2>2, <2>3, <2>4
<1>15. WritersSound'
  BY <1>2, <1>4, <1>14 DEF FilesInv, WritersSound
<1>16. NamesSound'
  BY <1>4, <1>6, <1>14 DEF NamesSound, Grown
<1>17. LinesSound'
  <2> SUFFICES ASSUME NEW m \in Nat, m > point PROVE Without(files', m)
    BY <1>4, <1>6, <1>14 DEF LinesSound, Grown, Without
  <2>1. m # p.n /\ Without(files, m)
    BY <1>6 DEF FilesInv, LinesSound
  <2> QED
    BY <1>14, <2>1 DEF Grown
<1>18. PendingSound'
  <2>1. DOMAIN pending' = Recorders /\ ~Waiting(r)' /\ \A s \in Recorders \ {r} : pending'[s] = pending[s]
    BY <1>4 DEF FilesInv, PendingSound, Waiting
  <2>2. ASSUME NEW s \in Recorders, Waiting(s)' PROVE s # r /\ Waiting(s) /\ Number(s)' = Number(s) /\ pending'[s] = pending[s]
    BY <2>1, <2>2 DEF Waiting, Number
  <2>3. ASSUME NEW s \in Recorders, Waiting(s)' PROVE Without(files', Number(s))
    <3>1. Number(s) # p.n
      BY <1>1, <1>4, <2>2, <2>3 DEF FilesInv, PendingSound, Number
    <3>2. Without(files, Number(s))
      BY <2>2, <2>3 DEF FilesInv, PendingSound
    <3> QED
      BY <1>14, <3>1, <3>2 DEF Grown
  <2>4. ASSUME NEW s \in Recorders, Waiting(s)'
        PROVE  /\ pending'[s][1].w \in 1 .. Len(writers') /\ pending'[s][1].p \in Points
               /\ Number(s)' <= point' /\ Without(files', Number(s)')
    <3>1. /\ pending[s][1].w \in 1 .. Len(writers) /\ pending[s][1].p \in Points /\ Number(s) <= point
      BY <2>2, <2>4 DEF FilesInv, PendingSound
    <3> QED
      BY <1>2, <1>4, <1>14, <2>2, <2>3, <2>4, <3>1
  <2>5. ASSUME NEW s \in Recorders, NEW u \in Recorders, Waiting(s)', Waiting(u)', Number(s)' = Number(u)'
        PROVE  s = u
    BY <2>2, <2>5 DEF FilesInv, PendingSound
  <2>6. \A m : Without(files, m)' = Without(files', m)
    BY DEF Without
  <2> QED
    BY <2>1, <2>4, <2>5, <2>6 DEF PendingSound
<1> QED
  BY <1>14, <1>15, <1>16, <1>17, <1>18 DEF FilesInv

(* A new writer opens the first file of this second.                          *)
LEMMA BeginFiles ==
  ASSUME Sane, FilesInv, NEW c \in Configs, Collector!ConfigureBegins(c)
  PROVE  FilesInv' /\ Collector!OthersPrune
<1>1. PICK f, g : f = writers /\ g = writers'
  OBVIOUS
<1>2. PICK l : l = Len(f)
  OBVIOUS
<1>3. PICK name : name = <<now, 1>>
  OBVIOUS
<1>4. /\ f \in Seq(Writers) /\ l \in Nat /\ DOMAIN f = 1 .. l /\ now \in Nat /\ rotated \in BOOLEAN
      /\ Apart(files)
      /\ \A v \in 1 .. l : f[v].name[2] <= f[v].seq
      /\ current \in 0 .. l /\ conf.w \in 0 .. l
      /\ \A x \in DOMAIN files : x[1] <= now /\ (rotated \/ (x[1] = now => x[2] = 1))
  BY <1>1, <1>2 DEF FilesInv, WritersSound, NamesSound, LinesSound
<1>5. c.keep \in Nat \ {0} /\ c.lines \in Nat \ {0} /\ c.persist \in BOOLEAN
  BY DEF Sane, Config
<1>6. UNCHANGED <<now, rotated, point, current, pending>>
  BY DEF Collector!ConfigureBegins
<1>7. CASE ~c.persist
  <2>1. UNCHANGED <<writers, files>> /\ conf'.w = 0
    BY <1>7 DEF Collector!ConfigureBegins, Collector!None
  <2>2. WritersSound'
    BY <1>1, <1>2, <1>4, <1>6, <2>1 DEF FilesInv, WritersSound
  <2>3. NamesSound' /\ LinesSound' /\ PendingSound'
    BY <1>6, <2>1 DEF FilesInv, NamesSound, LinesSound, PendingSound, Apart, Without, Waiting, Number
  <2>4. Collector!OthersPrune
    BY <2>1 DEF Collector!OthersPrune
  <2> QED
    BY <2>2, <2>3, <2>4 DEF FilesInv
<1>8. CASE c.persist
  <2>1. PICK dir, keep : dir = Collector!Opened(name, keep) /\ keep = c.keep
    OBVIOUS
  <2>2. PICK y : y = [name |-> name, seq |-> 1, open |-> TRUE, size |-> Collector!SizeOf(name, dir), keep |-> keep, lines |-> c.lines]
    OBVIOUS
  <2>3. files' = dir /\ g = Append(f, y) /\ conf'.w = l + 1
    BY <1>1, <1>2, <1>3, <1>8, <2>1, <2>2 DEF Collector!ConfigureBegins
  <2>4. name \in Nat \X Nat
    BY <1>3, <1>4
  <2>5. /\ DOMAIN dir = Collector!Prune(DOMAIN files \cup {name}, keep)
        /\ DOMAIN dir \subseteq DOMAIN files \cup {name}
        /\ Apart(dir)
        /\ \A m : Without(files, m) => Without(dir, m)
    <3>1. dir = Collector!Opened(name, keep)
      BY <2>1
    <3> QED
      BY <1>4, <2>4, <3>1, OpenedIs
  <2>6. Collector!SizeOf(name, dir) \in Nat
    <3>1. name \in DOMAIN dir => dir[name] \in Seq(Points)
      BY <2>5 DEF Apart
    <3>2. name \in DOMAIN dir => Len(dir[name]) \in Nat
      BY <3>1
    <3> QED
      BY <3>2 DEF Collector!SizeOf
  <2>7. y \in Writers /\ y.name = name /\ y.seq = 1 /\ y.keep = keep
    <3>1. PICK n \in Nat : n = Collector!SizeOf(name, dir)
      BY <2>6
    <3> QED
      BY <1>5, <2>1, <2>2, <2>4, <3>1 DEF Writers
  <2>8. /\ g \in Seq(Writers) /\ Len(g) = l + 1 /\ DOMAIN g = 1 .. l + 1 /\ g[l + 1] = y
        /\ \A v \in 1 .. l : g[v] = f[v]
    BY <1>2, <1>4, <2>3, <2>7
  <2>9. WritersSound'
    <3>1. \A v \in 1 .. l + 1 : g[v].name[2] <= g[v].seq
      <4> SUFFICES ASSUME NEW v \in 1 .. l + 1 PROVE g[v].name[2] <= g[v].seq
        OBVIOUS
      <4>1. CASE v = l + 1
        BY <1>3, <2>7, <2>8, <4>1
      <4>2. CASE v # l + 1
        <5>1. v \in 1 .. l
          BY <1>4, <4>2
        <5> QED
          BY <1>4, <2>8, <5>1
      <4> QED
        BY <4>1, <4>2
    <3>2. current' \in 0 .. l + 1 /\ conf'.w \in 0 .. l + 1
      BY <1>4, <1>6, <2>3
    <3> QED
      BY <1>1, <2>8, <3>1, <3>2 DEF WritersSound
  <2>10. NamesSound'
    <3>1. \A x \in DOMAIN dir : x[1] <= now /\ (rotated \/ (x[1] = now => x[2] = 1))
      <4> SUFFICES ASSUME NEW x \in DOMAIN dir PROVE x[1] <= now /\ (rotated \/ (x[1] = now => x[2] = 1))
        OBVIOUS
      <4>1. CASE x = name
        BY <1>3, <1>4, <4>1
      <4>2. CASE x \in DOMAIN files
        BY <1>4, <4>2
      <4> QED
        BY <2>5, <4>1, <4>2
    <3> QED
      BY <1>4, <1>6, <2>3, <3>1 DEF NamesSound
  <2>11. LinesSound'
    <3>1. point \in Nat /\ \A m \in Nat : m > point => Without(dir, m)
      BY <2>5 DEF FilesInv, LinesSound
    <3>2. files' = dir
      BY <2>3
    <3>3. Apart(files') /\ \A m \in Nat : m > point => Without(files', m)
      BY <2>5, <3>1, <3>2
    <3> QED
      BY <1>6, <3>1, <3>3 DEF LinesSound
  <2>12. PendingSound'
    <3>1. \A s \in Recorders : Waiting(s)' = Waiting(s) /\ Number(s)' = Number(s)
      BY <1>6 DEF Waiting, Number
    <3>2. \A m : Without(files, m)' = Without(dir, m)
      BY <2>3 DEF Without
    <3>3. \A s \in Recorders : Waiting(s) =>
            /\ pending[s][1].w \in 1 .. l + 1 /\ pending[s][1].p \in Points
            /\ Number(s) <= point /\ Without(dir, Number(s))
      BY <1>1, <1>2, <1>4, <2>5 DEF FilesInv, PendingSound
    <3> QED
      BY <1>1, <1>6, <2>8, <3>1, <3>2, <3>3 DEF FilesInv, PendingSound
  <2>13. Collector!OthersPrune
    <3> SUFFICES ASSUME NEW v \in 1 .. l, f[v].name \in DOMAIN files, g[v].name \notin DOMAIN files'
                 PROVE  \E u \in (1 .. l + 1) \ {v} :
                          /\ u \in 1 .. l => g[u].name # f[u].name
                          /\ Collector!Cardinality({x \in DOMAIN files \cup DOMAIN files' : Collector!Later(x, f[v].name)}) >= g[u].keep
      BY <1>1, <1>4, <2>8, SMTT(40) DEF Collector!OthersPrune
    <3>1. PICK old, new, x : old = DOMAIN files /\ new = DOMAIN files' /\ x = f[v].name
      OBVIOUS
    <3>2. /\ IsFiniteSet(old) /\ old \subseteq Nat \X Nat /\ x \in old \ new /\ keep \in Nat
          /\ new = Collector!Prune(old \cup {name}, keep)
      BY <1>4, <1>5, <2>1, <2>3, <2>5, <2>8, <3>1 DEF Apart
    <3>3. Collector!Cardinality(Newer(old \cup new, x)) >= keep
      BY <2>4, <3>2, PrunedIsOld
    <3>4. l + 1 \in (1 .. l + 1) \ {v} /\ l + 1 \notin 1 .. l /\ g[l + 1].keep = keep
      BY <1>4, <2>7, <2>8
    <3> QED
      BY <3>1, <3>3, <3>4 DEF Newer
  <2> QED
    BY <2>9, <2>10, <2>11, <2>12, <2>13 DEF FilesInv
<1> QED
  BY <1>5, <1>7, <1>8

(* The lines of the files are there once.                                    *)
LEMMA OnceThere ==
  ASSUME FilesInv
  PROVE  Collector!LinesOnce
<1>1. \A f \in DOMAIN files : files[f] \in Seq(Points)
  BY DEF FilesInv, LinesSound, Apart
<1>2. \A f \in DOMAIN files : DOMAIN files[f] = 1 .. Len(files[f])
  BY <1>1
<1>3. ASSUME NEW f \in DOMAIN files, NEW g \in DOMAIN files,
             NEW i \in 1 .. Len(files[f]), NEW j \in 1 .. Len(files[g]), files[f][i] = files[g][j]
      PROVE  f = g /\ i = j
  BY <1>3 DEF FilesInv, LinesSound, Apart
<1> SUFFICES ASSUME NEW f \in DOMAIN files, NEW g \in DOMAIN files,
                    NEW i \in DOMAIN files[f], NEW j \in DOMAIN files[g], files[f][i] = files[g][j]
             PROVE  f = g /\ i = j
  BY Zenon DEF Collector!LinesOnce
<1> QED
  BY <1>2, <1>3

(* At first there are neither points nor files.                               *)
LEMMA NewestAtFirst ==
  ASSUME Sane, Collector!Init
  PROVE  HistoryInv /\ FilesInv
<1>1. /\ now = 0 /\ rotated = FALSE /\ point = 0 /\ current = 0 /\ writers = <<>> /\ files = <<>>
      /\ cfg \in Config /\ conf.w = 0 /\ conf.cfg \in Config
      /\ history = [k \in Collector!Kinds |-> <<>>] /\ pending = [r \in Recorders |-> <<>>]
  BY DEF Collector!Init, Collector!Idle, Collector!None, Sane, Config
<1>2. HistoryInv
  <2>1. cfg.max \in Nat \ {0}
    BY <1>1 DEF Config
  <2>2. \A k \in Collector!Kinds : history[k] = <<>>
    BY <1>1
  <2> QED
    BY <1>1, <2>1, <2>2 DEF HistoryInv, Rising
<1>3. DOMAIN files = {}
  BY <1>1
<1>4. Apart(files) /\ \A m : Without(files, m)
  BY <1>3, FS_EmptySet DEF Apart, Without
<1>5. WritersSound
  BY <1>1 DEF WritersSound
<1>6. NamesSound /\ LinesSound
  BY <1>1, <1>3, <1>4 DEF NamesSound, LinesSound
<1>7. PendingSound
  BY <1>1 DEF PendingSound, Waiting
<1> QED
  BY <1>2, <1>5, <1>6, <1>7 DEF FilesInv

(* What holds of the histories and the files goes on to hold.                  *)
LEMMA NewestStep ==
  ASSUME Sane, HistoryInv, FilesInv, Collector!Next
  PROVE  /\ HistoryInv' /\ FilesInv'
         /\ Collector!TrimsRightly /\ Collector!OthersPrune
<1>1. FilesInv' /\ Collector!OthersPrune
  BY QuietFiles, RecordFiles, WriteFiles, BeginFiles DEF Collector!Next
<1> QED
  BY <1>1, StepTrims

(* Also where nothing changes.                                               *)
LEMMA NewestQuiet ==
  ASSUME HistoryInv, FilesInv, UNCHANGED Collector!vars
  PROVE  (HistoryInv /\ FilesInv)'
BY DEF Collector!vars, HistoryInv, FilesInv, WritersSound, NamesSound, LinesSound, PendingSound, Apart, Without, Waiting, Number

(* The histories and the files keep the newest, whatever their bounds and       *)
(* whoever records: what trimming throws away is older than what stays and has *)
(* expired or is beyond the bound, rotation removes no file that is being       *)
(* written to but those that a newer writer may remove, and no line is written  *)
(* twice.                                                                    *)
THEOREM NewestKept ==
  ASSUME Sane
  PROVE  Collector!Spec => Collector!KeepsNewest
<1>1. Collector!Init => HistoryInv /\ FilesInv
  BY NewestAtFirst
<1>2. HistoryInv /\ FilesInv /\ Collector!Next => Collector!TrimsRightly /\ Collector!OthersPrune
  BY NewestStep
<1>3. HistoryInv /\ FilesInv /\ [Collector!Next]_Collector!vars => (HistoryInv /\ FilesInv)'
  BY NewestStep, NewestQuiet
<1>4. FilesInv' => Collector!LinesOnce'
  BY OnceThere, PTL
<1> QED
  BY <1>1, <1>2, <1>3, <1>4, PTL DEF Collector!Spec, Collector!KeepsNewest
-----------------------------------------------------------------------------
(* Where points of a set are in a sequence, and how many there are.            *)
Where(s, W) == {i \in DOMAIN s : s[i] \in W}
Count(s, W) == Cardinality(Where(s, W))

(* The last c of n places.                                                    *)
Upper(n, c) == n - c + 1 .. n

(* The points of a sequence are of that kind.                                 *)
OfOne(s, k) == s \in Seq(Points) /\ \A i \in 1 .. Len(s) : s[i].kind = k

(* The first n numbers are n.                                                *)
LEMMA FirstAre ==
  ASSUME NEW n \in Nat
  PROVE  IsFiniteSet(1 .. n) /\ Cardinality(1 .. n) = n
<1>1. Cardinality(1 .. n) = IF 1 > n THEN 0 ELSE n - 1 + 1
  BY FS_Interval
<1> QED
  BY <1>1, FS_Interval

(* It is a number.                                                           *)
LEMMA CountIs ==
  ASSUME NEW s \in Seq(Points), NEW W
  PROVE  IsFiniteSet(Where(s, W)) /\ Count(s, W) \in Nat /\ Where(s, W) \subseteq 1 .. Len(s)
<1>1. PICK n \in Nat : n = Len(s) /\ DOMAIN s = 1 .. n
  OBVIOUS
<1>2. Where(s, W) \subseteq 1 .. n
  BY <1>1 DEF Where
<1>3. IsFiniteSet(1 .. n)
  BY FirstAre
<1>4. IsFiniteSet(Where(s, W))
  BY <1>2, <1>3, FS_Subset
<1>5. Cardinality(Where(s, W)) \in Nat
  BY <1>4, FS_CardinalityType
<1> QED
  BY <1>1, <1>2, <1>4, <1>5 DEF Count

(* A number of last places.                                                   *)
LEMMA UpperIs ==
  ASSUME NEW n \in Nat, NEW c \in 0 .. n
  PROVE  IsFiniteSet(Upper(n, c)) /\ Cardinality(Upper(n, c)) = c
<1>1. PICK a \in Int : a = n - c + 1
  OBVIOUS
<1>2. IsFiniteSet(a .. n) /\ Cardinality(a .. n) = IF a > n THEN 0 ELSE n - a + 1
  BY FS_Interval
<1>3. (IF a > n THEN 0 ELSE n - a + 1) = c
  BY <1>1
<1> QED
  BY <1>1, <1>2, <1>3 DEF Upper

(* The points of a set are those of a sequence since a time.                   *)
AreSince(s, W, t) == \A i \in 1 .. Len(s) : s[i] \in W <=> s[i].t >= t

(* Those of a set are the last.                                              *)
AtEnd(s, W, n, c) == c \in 0 .. n /\ Count(s, W) = c /\ Where(s, W) = Upper(n, c)

(* In the order of time those since a time are at the end.                    *)
LEMMA SinceEnd ==
  ASSUME NEW s \in Seq(Points), Collector!InTimeOrder(s), NEW t \in Nat, NEW n \in Nat, n = Len(s),
         NEW W, AreSince(s, W, t)
  PROVE  \E c : AtEnd(s, W, n, c)
<1>1. DOMAIN s = 1 .. n
  OBVIOUS
<1>2. PICK S : S = Where(s, W)
  OBVIOUS
<1>3. S = {i \in 1 .. n : s[i].t >= t}
  BY <1>1, <1>2 DEF Where, AreSince
<1>4. \A i \in 1 .. n : s[i].t \in Nat
  <2>1. \A i \in 1 .. n : s[i] \in Points
    BY <1>1
  <2> QED
    BY <2>1 DEF Points
<1>5. CASE S = {}
  <2>1. Upper(n, 0) = {}
    BY DEF Upper
  <2>2. Cardinality({}) = 0
    BY FS_EmptySet
  <2>3. 0 \in 0 .. n
    OBVIOUS
  <2> QED
    BY <1>2, <1>5, <2>1, <2>2, <2>3 DEF Count, AtEnd

<1>6. CASE S # {}
  <2>1. S \in SUBSET Nat
    BY <1>3
  <2>2. PICK m \in S : \A i \in S : m <= i
    BY <1>6, <2>1, Least
  <2>3. m \in 1 .. n /\ s[m].t >= t
    BY <1>3, <2>2
  <2>4. PICK c \in 0 .. n : c = n - m + 1 /\ n - c + 1 = m
    <3>1. n - m + 1 \in 0 .. n /\ n - (n - m + 1) + 1 = m
      BY <2>3
    <3> QED
      BY <3>1
  <2>5. ASSUME NEW i \in m .. n PROVE i \in S
    <3>1. i \in 1 .. n /\ m <= i
      BY <2>3
    <3>2. CASE i = m
      BY <2>2, <3>2
    <3>3. CASE m < i
      <4>1. s[m].t <= s[i].t
        BY <1>1, <2>3, <3>1, <3>3 DEF Collector!InTimeOrder
      <4>2. s[i].t >= t
        BY <1>4, <2>3, <3>1, <4>1
      <4> QED
        BY <1>3, <3>1, <4>2
    <3> QED
      BY <2>3, <3>1, <3>2, <3>3
  <2>6. ASSUME NEW i \in S PROVE i \in m .. n
    <3>1. i \in 1 .. n /\ m <= i
      BY <1>3, <2>2
    <3> QED
      BY <2>3, <3>1
  <2>7. S = Upper(n, c)
    BY <2>4, <2>5, <2>6 DEF Upper
  <2>8. Cardinality(S) = c
    BY <2>7, UpperIs
  <2> QED
    BY <1>2, <2>7, <2>8 DEF Count, AtEnd
<1> QED
  BY <1>5, <1>6

(* The newest of them are since any time as many as there are, or all.          *)
NewestOf(z, s, m) ==
  /\ z \in Seq(Points) /\ Collector!InTimeOrder(z)
  /\ \A t \in Nat : \A W : AreSince(s, W, t) => Count(z, W) = Collector!AtMost(Count(s, W), m)
  /\ Collector!Members(z) \subseteq Collector!Members(s)

(* So they are where they are cut off a sequence in the order of time.         *)
LEMMA NewestCount ==
  ASSUME NEW s \in Seq(Points), Collector!InTimeOrder(s), NEW m \in Nat \ {0}, NEW z, z = Collector!Newest(s, m)
  PROVE  NewestOf(z, s, m)
<1>1. PICK n \in Nat : n = Len(s) /\ DOMAIN s = 1 .. n
  OBVIOUS
<1>2. CASE n <= m
  <2>1. z = s
    BY <1>1, <1>2 DEF Collector!Newest
  <2>2. ASSUME NEW t \in Nat, NEW W, AreSince(s, W, t) PROVE Count(s, W) = Collector!AtMost(Count(s, W), m)
    <3>1. PICK c : AtEnd(s, W, n, c)
      BY <1>1, <2>2, SinceEnd
    <3>2. c \in 0 .. n /\ Count(s, W) = c
      BY <3>1 DEF AtEnd
    <3> QED
      BY <1>2, <3>2 DEF Collector!AtMost
  <2> QED
    BY <2>1, <2>2 DEF NewestOf
<1>3. CASE ~(n <= m)
  <2>1. PICK d \in 0 .. n : d = n - m /\ n - d = m
    <3>1. n - m \in 0 .. n /\ n - (n - m) = m
      BY <1>3
    <3> QED
      BY <3>1
  <2>2. z = SubSeq(s, d + 1, n)
    BY <1>1, <1>3, <2>1 DEF Collector!Newest
  <2>3. z \in Seq(Points) /\ Len(z) = m /\ \A i \in 1 .. m : z[i] = s[d + i] /\ d + i \in 1 .. n
    BY <1>1, <2>1, <2>2, EndIs
  <2>4. ASSUME NEW i \in 1 .. m, NEW j \in 1 .. m, i < j PROVE z[i].t <= z[j].t
    <3>1. d + i < d + j /\ d + i \in 1 .. n /\ d + j \in 1 .. n
      BY <2>1, <2>3, <2>4
    <3>2. s[d + i].t <= s[d + j].t
      BY <1>1, <3>1 DEF Collector!InTimeOrder
    <3> QED
      BY <2>3, <3>2
  <2>5. Collector!InTimeOrder(z)
    BY <2>3, <2>4 DEF Collector!InTimeOrder
  <2>6. ASSUME NEW t \in Nat, NEW W, AreSince(s, W, t) PROVE Count(z, W) = Collector!AtMost(Count(s, W), m)
    <3>0. PICK c : AtEnd(s, W, n, c)
      BY <1>1, <2>6, SinceEnd
    <3>1. c \in 0 .. n /\ Count(s, W) = c /\ Where(s, W) = Upper(n, c)
      BY <3>0 DEF AtEnd
    <3>2. PICK b \in 0 .. m : b = Collector!AtMost(c, m)
      BY <3>1 DEF Collector!AtMost
    <3>3. ASSUME NEW i \in 1 .. m PROVE i \in Where(z, W) <=> i \in Upper(m, b)
      <4>1. PICK j \in 1 .. n : j = d + i /\ z[i] = s[j]
        BY <2>3
      <4>2. i \in Where(z, W) <=> j \in Where(s, W)
        BY <1>1, <2>3, <4>1 DEF Where
      <4>3. j \in Upper(n, c) <=> i \in Upper(m, b)
        <5>1. j >= n - c + 1 <=> i >= m - b + 1
          <6>1. CASE c < m
            <7>1. b = c
              BY <3>2, <6>1 DEF Collector!AtMost
            <7> QED
              BY ONLY <2>1, <4>1, <7>1, c \in 0 .. n, n \in Nat, m \in Nat, i \in 1 .. m
          <6>2. CASE ~(c < m)
            <7>1. b = m
              BY <3>2, <6>2 DEF Collector!AtMost
            <7> QED
              BY ONLY <2>1, <3>1, <4>1, <6>2, <7>1, c \in 0 .. n, n \in Nat, m \in Nat, i \in 1 .. m
          <6> QED
            BY <6>1, <6>2
        <5>2. j <= n /\ i <= m /\ j \in Int /\ i \in Int /\ n - c + 1 \in Int /\ m - b + 1 \in Int
          BY <3>1, <3>2, <4>1
        <5> QED
          BY <5>1, <5>2 DEF Upper
      <4> QED
        BY <3>1, <4>2, <4>3
    <3>4. Where(z, W) \subseteq 1 .. m
      BY <2>3, CountIs
    <3>5. Upper(m, b) \subseteq 1 .. m
      BY <3>2 DEF Upper
    <3>6. Where(z, W) = Upper(m, b)
      BY <3>3, <3>4, <3>5
    <3> QED
      BY <3>1, <3>2, <3>6, UpperIs DEF Count
  <2>7. Collector!Members(z) \subseteq Collector!Members(s)
    BY <1>1, <2>3 DEF Collector!Members
  <2> QED
    BY <2>3, <2>5, <2>6, <2>7 DEF NewestOf
<1> QED
  BY <1>2, <1>3

(* One number is the sum of two.                                              *)
IsSum(x, a, b) == x = a + b

(* One sequence after another has as many as both.                            *)
LEMMA ConcatCount ==
  ASSUME NEW a \in Seq(Points), NEW b \in Seq(Points), NEW W, NEW z, z = a \o b
  PROVE  z \in Seq(Points) /\ IsSum(Count(z, W), Count(a, W), Count(b, W))
<1>1. PICK n \in Nat, m \in Nat : n = Len(a) /\ m = Len(b) /\ DOMAIN a = 1 .. n /\ DOMAIN b = 1 .. m
  OBVIOUS
<1>2. /\ z \in Seq(Points) /\ DOMAIN z = 1 .. n + m
      /\ \A i \in 1 .. n + m : z[i] = IF i <= n THEN a[i] ELSE b[i - n]
  BY <1>1
<1>3. PICK A, B : A = Where(a, W) /\ B = Where(b, W)
  OBVIOUS
<1>4. IsFiniteSet(A) /\ A \subseteq 1 .. n /\ IsFiniteSet(B) /\ B \subseteq 1 .. m
  BY <1>1, <1>3, CountIs
<1> DEFINE g == [j \in B |-> n + j]
           C == {n + j : j \in B}
<1>5. IsFiniteSet(C) /\ Cardinality(C) = Cardinality(B)
  <2>1. g \in Surjection(B, C)
    BY DEF Surjection
  <2>2. \A x, y \in B : n + x = n + y => x = y
    BY <1>1, <1>4
  <2>3. g \in Injection(B, C)
    BY <2>2 DEF Injection, IsInjective
  <2> HIDE DEF g, C
  <2> QED
    BY <1>4, <2>1, <2>3, FS_Surjection
<1>6. ASSUME NEW i \in 1 .. n + m PROVE i \in Where(z, W) <=> i \in A \cup C
  <2>1. CASE i <= n
    <3>1. i \in 1 .. n /\ z[i] = a[i]
      BY <1>1, <1>2, <2>1
    <3>2. i \notin C
      BY <1>1, <1>4, <2>1
    <3> QED
      BY <1>1, <1>2, <1>3, <3>1, <3>2 DEF Where
  <2>2. CASE ~(i <= n)
    <3>1. PICK j \in 1 .. m : i = n + j
      <4>1. i - n \in 1 .. m /\ i = n + (i - n)
        BY <1>1, <2>2
      <4> QED
        BY <4>1
    <3>2. z[i] = b[j]
      <4>1. i - n = j
        BY <1>1, <3>1
      <4> QED
        BY <1>2, <2>2, <4>1
    <3>3. i \notin A
      BY <1>1, <1>4, <2>2
    <3>4. i \in C <=> j \in B
      <4>1. \A x \in B : n + x = i => x = j
        BY <1>1, <1>4, <3>1
      <4> QED
        BY <3>1, <4>1
    <3>5. i \in Where(z, W) <=> j \in B
      BY <1>1, <1>2, <1>3, <3>2 DEF Where
    <3> QED
      BY <3>3, <3>4, <3>5
  <2> QED
    BY <2>1, <2>2
<1>7. Where(z, W) \subseteq 1 .. n + m
  BY <1>2 DEF Where
<1>8. A \cup C \subseteq 1 .. n + m
  <2>1. \A j \in 1 .. m : n + j \in 1 .. n + m
    BY <1>1
  <2>2. 1 .. n \subseteq 1 .. n + m
    BY <1>1
  <2> QED
    BY <1>4, <2>1, <2>2
<1>9. Where(z, W) = A \cup C
  <2> HIDE DEF C
  <2> QED
    BY <1>6, <1>7, <1>8
<1>10. A \cap C = {}
  <2>1. \A i \in A : i <= n
    BY <1>1, <1>4
  <2>2. \A i \in C : ~(i <= n)
    BY <1>1, <1>4
  <2> HIDE DEF C
  <2> QED
    BY <2>1, <2>2
<1> HIDE DEF C
<1>11. Cardinality(A \cup C) = Cardinality(A) + Cardinality(C) - Cardinality({})
  <2>1. Cardinality(A \cup C) = Cardinality(A) + Cardinality(C) - Cardinality(A \cap C)
    BY <1>4, <1>5, FS_Union
  <2> QED
    BY <1>10, <2>1
<1>12. Cardinality(A) \in Nat /\ Cardinality(C) \in Nat /\ Cardinality({}) = 0
  BY <1>4, <1>5, FS_CardinalityType, FS_EmptySet
<1> QED
  BY <1>2, <1>3, <1>5, <1>9, <1>11, <1>12 DEF Count, IsSum

-----------------------------------------------------------------------------
(* A strict order: who is before whom.                                        *)
Ordered(S, before) ==
  /\ before \in [S -> SUBSET S]
  /\ \A x \in S : x \notin before[x] /\ \A y \in before[x] : before[y] \subseteq before[x]
  /\ \A x, y \in S : x = y \/ x \in before[y] \/ y \in before[x]

(* All of them in that order.                                                *)
InOrder(S, before, n, order) ==
  /\ order \in [1 .. n -> S]
  /\ \A x \in S : \E i \in 1 .. n : order[i] = x
  /\ \A i, j \in 1 .. n : order[i] = order[j] => i = j
  /\ \A i, j \in 1 .. n : i < j => order[i] \in before[order[j]]

(* There is one at each place, which is the number of those before him.        *)
Ranks(S, before, n) ==
  /\ \A i \in 1 .. n : \E x \in S : Cardinality(before[x]) = i - 1
  /\ \A x \in S : \E i \in 1 .. n : Cardinality(before[x]) = i - 1
  /\ \A x, y \in S : Cardinality(before[x]) = Cardinality(before[y]) => x = y
  /\ \A x, y \in S : Cardinality(before[x]) < Cardinality(before[y]) => x \in before[y]

(* So it is in a strict order.                                                *)
LEMMA RanksExist ==
  ASSUME NEW S, IsFiniteSet(S), NEW before, Ordered(S, before), NEW n \in Nat, n = Cardinality(S)
  PROVE  Ranks(S, before, n)
<1> DEFINE r(x) == Cardinality(before[x])
           f == [x \in S |-> r(x) + 1]
<1>1. ASSUME NEW x \in S PROVE IsFiniteSet(before[x]) /\ r(x) \in Nat /\ r(x) < n
  <2>1. before[x] \in SUBSET S /\ x \notin before[x]
    BY DEF Ordered
  <2>2. IsFiniteSet(before[x]) /\ Cardinality(before[x]) <= Cardinality(S)
        /\ (Cardinality(S) = Cardinality(before[x]) => S = before[x])
    BY <2>1, FS_Subset
  <2>3. r(x) \in Nat
    BY <2>2, FS_CardinalityType
  <2> QED
    BY <2>1, <2>2, <2>3
<1>2. ASSUME NEW x \in S, NEW y \in before[x] PROVE y \in S /\ r(y) < r(x)
  <2>1. y \in S /\ before[y] \subseteq before[x] /\ y \notin before[y]
    BY DEF Ordered
  <2>2. Cardinality(before[y]) <= Cardinality(before[x])
        /\ (Cardinality(before[x]) = Cardinality(before[y]) => before[x] = before[y])
    BY <1>1, <2>1, FS_Subset
  <2>3. r(y) \in Nat /\ r(x) \in Nat
    BY <1>1, <2>1
  <2> QED
    BY <2>1, <2>2, <2>3
<1> HIDE DEF r
<1>3. ASSUME NEW x \in S, NEW y \in S, r(x) = r(y) PROVE x = y
  BY <1>1, <1>2, <1>3 DEF Ordered
<1>4. ASSUME NEW x \in S, NEW y \in S, r(x) < r(y) PROVE x \in before[y]
  <2>1. x = y \/ x \in before[y] \/ y \in before[x]
    BY DEF Ordered
  <2>2. r(x) \in Nat /\ r(y) \in Nat
    BY <1>1
  <2> QED
    BY <1>2, <1>4, <2>1, <2>2
<1>5. IsFiniteSet(1 .. n) /\ Cardinality(1 .. n) = n
  BY FirstAre
<1>6. f \in Surjection(S, 1 .. n)
  <2>1. f \in [S -> 1 .. n]
    BY <1>1
  <2>2. \A x, y \in S : f[x] = f[y] => x = y
    BY <1>1, <1>3
  <2>3. f \in Injection(S, 1 .. n)
    <3> HIDE DEF f
    <3> QED
      BY <2>1, <2>2 DEF Injection, IsInjective
  <2> HIDE DEF f
  <2> QED
    BY <1>5, <2>3, FS_Injection
<1>7. ASSUME NEW i \in 1 .. n PROVE \E x \in S : r(x) = i - 1
  <2>1. PICK x \in S : f[x] = i
    <3> HIDE DEF f
    <3> QED
      BY <1>6, Zenon DEF Surjection
  <2>2. r(x) = i - 1
    <3>1. f[x] = r(x) + 1
      OBVIOUS
    <3>2. r(x) \in Nat
      BY <1>1
    <3> QED
      BY ONLY <2>1, <3>1, <3>2, i \in 1 .. n, n \in Nat
  <2> QED
    BY <2>2
<1>8. ASSUME NEW x \in S PROVE \E i \in 1 .. n : r(x) = i - 1
  <2>1. PICK i \in 1 .. n : i = r(x) + 1
    BY <1>1
  <2>2. r(x) = i - 1
    BY <1>1, <2>1
  <2> QED
    BY <2>2
<1> QED
  BY <1>3, <1>4, <1>7, <1>8 DEF r, Ranks

(* Putting everyone at the place that those before him leave him makes the order. *)
LEMMA RanksOrder ==
  ASSUME NEW S, IsFiniteSet(S), NEW before, Ordered(S, before), NEW n \in Nat, n = Cardinality(S),
         NEW order \in [1 .. n -> S], \A i \in 1 .. n : Cardinality(before[order[i]]) = i - 1
  PROVE  InOrder(S, before, n, order)
<1> DEFINE r(x) == Cardinality(before[x])
<1>0. /\ \A x \in S : \E i \in 1 .. n : r(x) = i - 1
      /\ \A x, y \in S : r(x) = r(y) => x = y
      /\ \A x, y \in S : r(x) < r(y) => x \in before[y]
      /\ \A i \in 1 .. n : r(order[i]) = i - 1
  <2>1. Ranks(S, before, n)
    BY RanksExist
  <2> QED
    BY <2>1 DEF Ranks
<1> HIDE DEF r
<1>1. ASSUME NEW x \in S PROVE \E i \in 1 .. n : order[i] = x
  <2>1. PICK i \in 1 .. n : r(x) = i - 1
    BY <1>0
  <2>2. r(order[i]) = r(x) /\ order[i] \in S
    BY <1>0, <2>1
  <2> QED
    BY <1>0, <2>2
<1>2. ASSUME NEW i \in 1 .. n, NEW j \in 1 .. n PROVE (order[i] = order[j] => i = j) /\ (i < j => order[i] \in before[order[j]])
  <2>1. order[i] \in S /\ order[j] \in S /\ r(order[i]) = i - 1 /\ r(order[j]) = j - 1
    BY <1>0
  <2>2. i < j => r(order[i]) < r(order[j])
    BY <2>1
  <2>3. order[i] = order[j] => i = j
    <3> SUFFICES ASSUME order[i] = order[j] PROVE i = j
      OBVIOUS
    <3>1. i - 1 = j - 1
      BY <2>1
    <3> QED
      BY <3>1
  <2> QED
    BY <1>0, <2>1, <2>2, <2>3
<1> QED
  BY <1>1, <1>2 DEF InOrder

(* The instance's ranking is such an order.                                   *)
LEMMA RankedFiles ==
  ASSUME IsFiniteSet(DOMAIN files), DOMAIN files \subseteq Nat \X Nat, NEW n \in Nat, n = Cardinality(DOMAIN files)
  PROVE  /\ DOMAIN Collector!Listed = 1 .. n
         /\ \E before : InOrder(DOMAIN files, before, n, Collector!Listed)
<1> DEFINE S == DOMAIN files
           before == [f \in S |-> {g \in S : Collector!Later(f, g)}]
           Z(i) == CHOOSE x \in S : Cardinality(before[x]) = i - 1
<1>1. Ordered(S, before)
  <2>1. \A f \in S : f[1] \in Nat /\ f[2] \in Nat /\ f = <<f[1], f[2]>>
    OBVIOUS
  <2>2. \A f \in S : before[f] = {g \in S : Collector!Later(f, g)}
    OBVIOUS
  <2>3. \A f \in S : f \notin before[f]
    BY <2>1, <2>2 DEF Collector!Later
  <2>4. \A f \in S : \A g \in before[f] : before[g] \subseteq before[f]
    <3> SUFFICES ASSUME NEW f \in S, NEW g \in before[f], NEW h \in before[g] PROVE h \in before[f]
      OBVIOUS
    <3>1. g \in S /\ h \in S /\ Collector!Later(f, g) /\ Collector!Later(g, h)
      BY <2>2
    <3>2. Collector!Later(f, h)
      BY <2>1, <3>1 DEF Collector!Later
    <3> QED
      BY <2>2, <3>1, <3>2
  <2>5. \A f, g \in S : f = g \/ f \in before[g] \/ g \in before[f]
    <3> SUFFICES ASSUME NEW f \in S, NEW g \in S PROVE f = g \/ f \in before[g] \/ g \in before[f]
      OBVIOUS
    <3>1. f = g \/ Collector!Later(f, g) \/ Collector!Later(g, f)
      BY <2>1 DEF Collector!Later
    <3> QED
      BY <2>2, <3>1
  <2>6. before \in [S -> SUBSET S]
    OBVIOUS
  <2> HIDE DEF before
  <2> QED
    BY <2>3, <2>4, <2>5, <2>6 DEF Ordered
<1>2. Collector!Listed = [i \in 1 .. n |-> CHOOSE x \in S : Collector!Cardinality({y \in S : Collector!Later(x, y)}) = i - 1]
  <2>1. Collector!Cardinality(S) = n
    BY SameCardinality
  <2> QED
    BY <2>1 DEF Collector!Listed, Collector!Ranked
<1>3. ASSUME NEW i \in 1 .. n PROVE Collector!Listed[i] \in S /\ Cardinality(before[Collector!Listed[i]]) = i - 1
  <2>1. PICK x \in S : Cardinality(before[x]) = i - 1
    <3> HIDE DEF before
    <3> QED
      BY <1>1, RanksExist DEF Ranks
  <2>2. \A y \in S : Cardinality(before[y]) = Collector!Cardinality({z \in S : Collector!Later(y, z)})
    BY SameCardinality
  <2>3. \E y \in S : Collector!Cardinality({z \in S : Collector!Later(y, z)}) = i - 1
    BY <2>1, <2>2
  <2>4. Collector!Listed[i] = CHOOSE y \in S : Collector!Cardinality({z \in S : Collector!Later(y, z)}) = i - 1
    BY <1>2
  <2>5. /\ Collector!Listed[i] \in S
        /\ Collector!Cardinality({z \in S : Collector!Later(Collector!Listed[i], z)}) = i - 1
    BY <2>3, <2>4, Zenon
  <2> QED
    BY <2>2, <2>5
<1>4. Collector!Listed \in [1 .. n -> S] /\ DOMAIN Collector!Listed = 1 .. n
  BY <1>2, <1>3
<1> HIDE DEF before
<1>5. InOrder(S, before, n, Collector!Listed)
  BY <1>1, <1>3, <1>4, RanksOrder
<1> QED
  BY <1>4, <1>5

(* What is at some places of a sequence, in the order of time.                 *)
Sorted(z, s, P) ==
  /\ z \in Seq(Points) /\ Collector!InTimeOrder(z)
  /\ \A i \in 1 .. Len(z) : \E j \in P : z[i] = s[j]
  /\ \A W : Count(z, W) = Cardinality(Where(s, W) \cap P)

(* That is what sorting by time makes.                                        *)
LEMMA ByTimeIs ==
  ASSUME NEW s \in Seq(Points), NEW P \in SUBSET DOMAIN s, NEW z, z = Collector!ByTime(s, P)
  PROVE  Sorted(z, s, P)
<1>0. PICK l \in Nat : l = Len(s) /\ DOMAIN s = 1 .. l
  OBVIOUS
<1>1. IsFiniteSet(P)
  <2>1. IsFiniteSet(1 .. l)
    BY FirstAre
  <2> QED
    BY <1>0, <2>1, FS_Subset
<1>4. PICK n \in Nat : n = Cardinality(P)
  BY <1>1, FS_CardinalityType
<1> DEFINE Sooner(i, j) == s[i].t < s[j].t \/ (s[i].t = s[j].t /\ i < j)
           before == [j \in P |-> {i \in P : Sooner(i, j)}]
           order == Collector!Ranked(P, Sooner)
<1>2. \A i \in P : s[i] \in Points /\ s[i].t \in Nat /\ i \in Nat
  <2>1. \A i \in P : s[i] \in Points
    BY <1>0
  <2> QED
    BY <1>0, <2>1 DEF Points
<1>3. Ordered(P, before)
  <2>1. \A j \in P : before[j] = {i \in P : Sooner(i, j)}
    OBVIOUS
  <2>2. before \in [P -> SUBSET P]
    OBVIOUS
  <2>3. \A f \in P : f \notin before[f]
    BY <1>2
  <2>4. \A f \in P : \A g \in before[f] : before[g] \subseteq before[f]
    <3> SUFFICES ASSUME NEW f \in P, NEW g \in P, NEW h \in P, Sooner(g, f), Sooner(h, g) PROVE Sooner(h, f)
      BY <2>1
    <3> QED
      BY <1>2
  <2>5. \A f, g \in P : f = g \/ f \in before[g] \/ g \in before[f]
    <3> SUFFICES ASSUME NEW f \in P, NEW g \in P PROVE f = g \/ Sooner(f, g) \/ Sooner(g, f)
      BY <2>1
    <3> QED
      BY <1>2
  <2> HIDE DEF before
  <2> QED
    BY <2>2, <2>3, <2>4, <2>5 DEF Ordered
<1>5. order = [i \in 1 .. n |-> CHOOSE x \in P : Collector!Cardinality({y \in P : Sooner(y, x)}) = i - 1]
  <2>1. Collector!Cardinality(P) = n
    BY <1>4, SameCardinality
  <2> HIDE DEF Sooner
  <2> QED
    BY <2>1 DEF Collector!Ranked
<1>6. DOMAIN order = 1 .. n /\ z = [i \in 1 .. n |-> s[order[i]]]
  <2>1. z = [i \in DOMAIN order |-> s[order[i]]]
    BY DEF Collector!ByTime
  <2>2. DOMAIN order = 1 .. n
    BY <1>5
  <2> HIDE DEF order
  <2> QED
    BY <2>1, <2>2
<1>7. \A x \in P : before[x] = {y \in P : Sooner(y, x)}
  OBVIOUS
<1> HIDE DEF before, order, Sooner
<1>8. ASSUME NEW i \in 1 .. n PROVE order[i] \in P /\ Cardinality(before[order[i]]) = i - 1
  <2>1. PICK x \in P : Cardinality(before[x]) = i - 1
    <3>1. Ranks(P, before, n)
      BY <1>1, <1>3, <1>4, RanksExist
    <3> QED
      BY <3>1 DEF Ranks
  <2>2. \A y \in P : Cardinality(before[y]) = Collector!Cardinality({w \in P : Sooner(w, y)})
    BY <1>7, SameCardinality
  <2>3. \E y \in P : Collector!Cardinality({w \in P : Sooner(w, y)}) = i - 1
    BY <2>1, <2>2
  <2>4. order[i] = CHOOSE y \in P : Collector!Cardinality({w \in P : Sooner(w, y)}) = i - 1
    BY <1>5
  <2>5. order[i] \in P /\ Collector!Cardinality({w \in P : Sooner(w, order[i])}) = i - 1
    BY <2>3, <2>4, Zenon
  <2> QED
    BY <2>2, <2>5
<1>9. order \in [1 .. n -> P]
  BY <1>5, <1>8
<1>10. InOrder(P, before, n, order)
  BY <1>1, <1>3, <1>4, <1>8, <1>9, RanksOrder
<1>11. z \in Seq(Points) /\ Len(z) = n /\ DOMAIN z = 1 .. n /\ \A i \in 1 .. n : z[i] = s[order[i]] /\ order[i] \in P
  <2>1. \A i \in 1 .. n : s[order[i]] \in Points
    BY <1>2, <1>8
  <2> QED
    BY <1>6, <1>8, <2>1
<1>12. Collector!InTimeOrder(z)
  <2> SUFFICES ASSUME NEW i \in 1 .. n, NEW j \in 1 .. n, i < j PROVE z[i].t <= z[j].t
    BY <1>11 DEF Collector!InTimeOrder
  <2>1. order[i] \in before[order[j]] /\ order[i] \in P /\ order[j] \in P
    BY <1>10 DEF InOrder
  <2>2. Sooner(order[i], order[j])
    BY <1>7, <2>1
  <2>3. s[order[i]].t <= s[order[j]].t
    BY <1>2, <2>1, <2>2 DEF Sooner
  <2> QED
    BY <1>11, <2>3
<1>13. ASSUME NEW W PROVE Count(z, W) = Cardinality(Where(s, W) \cap P)
  <2>1. PICK A, B : A = Where(z, W) /\ B = Where(s, W) \cap P
    OBVIOUS
  <2>2. A = {i \in 1 .. n : s[order[i]] \in W} /\ B = {i \in P : s[i] \in W}
    BY <1>11, <2>1 DEF Where
  <2>3. IsFiniteSet(A)
    BY <1>11, <2>1, CountIs
  <2> DEFINE g == [i \in A |-> order[i]]
  <2>4. g \in [A -> B]
    BY <1>11, <2>2
  <2>5. \A j \in B : \E i \in A : g[i] = j
    <3> SUFFICES ASSUME NEW j \in B PROVE \E i \in A : order[i] = j
      OBVIOUS
    <3>1. j \in P
      BY <2>2
    <3>2. PICK i \in 1 .. n : order[i] = j
      BY <1>10, <3>1 DEF InOrder
    <3> QED
      BY <2>2, <3>2
  <2>6. \A i, j \in A : g[i] = g[j] => i = j
    BY <1>10, <2>2 DEF InOrder
  <2> HIDE DEF g
  <2>7. g \in Surjection(A, B) /\ g \in Injection(A, B)
    BY <2>4, <2>5, <2>6, Zenon DEF Surjection, Injection, IsInjective
  <2>8. Cardinality(A) = Cardinality(B)
    BY <2>3, <2>7, FS_Surjection
  <2> QED
    BY <2>1, <2>8 DEF Count
<1> QED
  BY <1>11, <1>12, <1>13 DEF Sorted

-----------------------------------------------------------------------------
(* Induction up to n, over a set instead of a predicate.                     *)
LEMMA Induction ==
  ASSUME NEW n \in Nat, NEW S, 0 \in S,
         \A k \in Nat : k < n /\ k \in S => k + 1 \in S
  PROVE  \A k \in 0 .. n : k \in S
<1> DEFINE bad == {k \in 0 .. n : k \notin S}
<1> SUFFICES ASSUME bad # {} PROVE FALSE
  OBVIOUS
<1>0. bad \in SUBSET Nat
  OBVIOUS
<1> HIDE DEF bad
<1>1. PICK m \in bad : \A k \in bad : m <= k
  BY <1>0, Least
<1> USE DEF bad
<1>2. m \in Nat /\ m <= n /\ m # 0 /\ m \notin S
  OBVIOUS
<1>3. m - 1 \in Nat /\ m - 1 < n /\ m - 1 \notin bad
  BY <1>1, <1>2
<1>4. m - 1 \in S /\ (m - 1) + 1 = m
  BY <1>2, <1>3
<1> QED
  BY <1>2, <1>3, <1>4

-----------------------------------------------------------------------------
(* The folds: a line is scanned, a file is read.                              *)
Step(kind, c, s, x) ==
  IF kind = "scan" THEN Collector!Scanned(s, x, c.limit) ELSE s \o Collector!Parsed(files[x], c.limit)[c.kind]

(* The element that goes last.                                               *)
Top(s) == CHOOSE x \in s : \A y \in s : x >= y

(* The greatest of finitely many numbers.                                    *)
LEMMA MaxIs ==
  ASSUME NEW n \in Nat, NEW s \in SUBSET (1 .. n), s # {}
  PROVE  Top(s) \in s /\ \A y \in s : y <= Top(s)
<1> DEFINE U == {m \in Nat : \A y \in s : y <= m}
<1>1. n \in U
  OBVIOUS
<1>2. PICK m \in U : \A k \in U : m <= k
  BY <1>1, Least
<1>3. m \in s
  <2> SUFFICES ASSUME m \notin s PROVE FALSE
    OBVIOUS
  <2>0. m \in Nat /\ \A y \in s : y \in Nat /\ y >= 1 /\ y <= m /\ y # m
    BY <1>2
  <2>1. PICK y \in s : TRUE
    OBVIOUS
  <2>2. m - 1 \in Nat
    <3>1. y \in Nat /\ y >= 1 /\ y <= m
      BY <2>0
    <3> QED
      BY <2>0, <3>1
  <2>3. \A z \in s : z <= m - 1
    BY <2>0
  <2> QED
    BY <1>2, <2>2, <2>3
<1>4. \E x \in s : \A y \in s : y <= x
  BY <1>2, <1>3
<1> QED
  BY <1>4 DEF Top

(* The function that FoldLeft applies to the domain of a sequence.           *)
Iterates(kind, c, base, order, iter) ==
  iter = [s \in SUBSET DOMAIN order |->
            IF s = {} THEN base
            ELSE Step(kind, c, iter[s \ {Top(s)}], order[Top(s)])]

(* There is such a function: on the sets of the first m places it is defined *)
(* by that of the first m - 1.                                               *)
LEMMA IterExists ==
  ASSUME NEW kind, NEW c, NEW base, NEW n \in Nat, NEW order, DOMAIN order = 1 .. n
  PROVE  \E iter : Iterates(kind, c, base, order, iter)
<1> DEFINE result(g, s) == IF s = {} THEN base
                         ELSE Step(kind, c, g[s \ {Top(s)}], order[Top(s)])
           Is(g, m) == g = [s \in SUBSET (1 .. m) |-> result(g, s)]
           good == {m \in Nat : \E g : Is(g, m)}
<1>1. 0 \in good
  <2> DEFINE none == [s \in SUBSET (1 .. 0) |-> base]
  <2>1. \A s \in SUBSET (1 .. 0) : result(none, s) = base
    BY 1 .. 0 = {}
  <2> HIDE DEF result
  <2>2. Is(none, 0)
    BY <2>1
  <2> HIDE DEF Is, none
  <2> QED
    BY <2>2
<1>2. ASSUME NEW k \in Nat, k < n, k \in good PROVE k + 1 \in good
  <2> DEFINE m == k + 1
  <2>1. m \in Nat /\ m - 1 = k /\ m \in 1 .. n
    BY <1>2
  <2> HIDE DEF m
  <2>2. PICK g : Is(g, k)
    BY <1>2
  <2> DEFINE more == [s \in SUBSET (1 .. m) |-> result(g, s)]
  <2>3. \A s \in SUBSET (1 .. k) : more[s] = g[s]
    <3>1. SUBSET (1 .. k) \subseteq SUBSET (1 .. m)
      BY <2>1
    <3> HIDE DEF result
    <3>2. \A s \in SUBSET (1 .. k) : g[s] = result(g, s)
      BY <2>2
    <3> QED
      BY <3>1, <3>2
  <2>4. ASSUME NEW s \in SUBSET (1 .. m), s # {} PROVE s \ {Top(s)} \in SUBSET (1 .. k)
    <3>1. Top(s) \in s /\ \A y \in s : y <= Top(s)
      BY <2>1, <2>4, MaxIs
    <3>2. ASSUME NEW y \in s, y # Top(s) PROVE y \in 1 .. k
      <4>1. y \in 1 .. m /\ Top(s) \in 1 .. m /\ y <= Top(s)
        BY <3>1
      <4> QED
        BY <4>1, <3>2, <2>1
    <3> QED
      BY <3>2
  <2>5. \A s \in SUBSET (1 .. m) : result(g, s) = result(more, s)
    <3> SUFFICES ASSUME NEW s \in SUBSET (1 .. m) PROVE result(g, s) = result(more, s)
      OBVIOUS
    <3>1. CASE s = {}
      BY <3>1
    <3>2. CASE s # {}
      <4>1. more[s \ {Top(s)}] = g[s \ {Top(s)}]
        BY <2>3, <2>4, <3>2
      <4> HIDE DEF more
      <4> QED
        BY <4>1, <3>2
    <3> QED
      BY <3>1, <3>2
  <2>6. Is(more, m)
    <3> HIDE DEF result
    <3> QED
      BY <2>5
  <2>7. m \in good
    <3> HIDE DEF Is, more
    <3> QED
      BY <2>1, <2>6
  <2> QED
    BY <2>7 DEF m
<1>3. n \in good
  <2> HIDE DEF good
  <2>1. \A k \in Nat : k < n /\ k \in good => k + 1 \in good
    BY <1>2
  <2>2. \A k \in 0 .. n : k \in good
    BY <1>1, <2>1, Induction
  <2> QED
    BY <2>2
<1>4. PICK g : Is(g, n)
  BY <1>3
<1> QED
  BY <1>4 DEF Iterates

(* What taking the elements one after the other goes through: f[k] is what the *)
(* first k of them have led to.                                              *)
GoesThrough(kind, c, base, order, n, f) ==
  f[0] = base /\ \A k \in 1 .. n : f[k] = Step(kind, c, f[k - 1], order[k])

(* A fold goes through such steps to its result.                             *)
LEMMA FoldSteps ==
  ASSUME NEW kind, NEW c, NEW base, NEW n \in Nat, NEW order, DOMAIN order = 1 .. n,
         NEW iter, Iterates(kind, c, base, order, iter)
  PROVE  \E f : GoesThrough(kind, c, base, order, n, f) /\ iter[DOMAIN order] = f[n]
<1> DEFINE f == [k \in 0 .. n |-> iter[1 .. k]]
<1>1. f[0] = base
  <2>1. 1 .. 0 = {} /\ {} \in SUBSET DOMAIN order
    OBVIOUS
  <2>2. iter[{}] = base
    BY <2>1 DEF Iterates
  <2> QED
    BY <2>1, <2>2
<1>2. ASSUME NEW k \in 1 .. n PROVE f[k] = Step(kind, c, f[k - 1], order[k])
  <2>1. 1 .. k # {} /\ 1 .. k \in SUBSET DOMAIN order
    <3>1. k \in 1 .. k /\ \A i \in 1 .. k : i \in 1 .. n
      OBVIOUS
    <3> QED
      BY <3>1
  <2>2. Top(1 .. k) = k
    <3>1. Top(1 .. k) \in 1 .. k /\ \A y \in 1 .. k : y <= Top(1 .. k)
      BY <2>1, MaxIs
    <3> QED
      BY <3>1
  <2>3. (1 .. k) \ {k} = 1 .. k - 1
    OBVIOUS
  <2>4. iter[1 .. k] = Step(kind, c, iter[(1 .. k) \ {Top(1 .. k)}], order[Top(1 .. k)])
    BY <2>1 DEF Iterates
  <2>5. iter[1 .. k] = Step(kind, c, iter[1 .. k - 1], order[k])
    BY <2>2, <2>3, <2>4
  <2>6. f[k] = iter[1 .. k] /\ f[k - 1] = iter[1 .. k - 1]
    <3>1. k \in 0 .. n /\ k - 1 \in 0 .. n
      OBVIOUS
    <3> QED
      BY <3>1
  <2> HIDE DEF f
  <2> QED
    BY <2>5, <2>6
<1>3. iter[DOMAIN order] = f[n]
  OBVIOUS
<1> HIDE DEF f
<1> QED
  BY <1>1, <1>2, <1>3 DEF GoesThrough

(* What scanning lines goes through.                                          *)
Scans(lines, n, c, f) ==
  /\ GoesThrough("scan", c, [l \in Collector!Kinds |-> <<>>], lines, n, f)
  /\ Collector!Parsed(lines, c.limit) = f[n]

(* Parsing goes through the lines.                                           *)
LEMMA ScanSteps ==
  ASSUME NEW lines, NEW n \in Nat, DOMAIN lines = 1 .. n, NEW c
  PROVE  \E f : Scans(lines, n, c, f)
<1> DEFINE base == [l \in Collector!Kinds |-> <<>>]
           iter == CHOOSE g : Iterates("scan", c, base, lines, g)
<1>1. Collector!Parsed(lines, c.limit) = iter[DOMAIN lines]
  BY DEF Collector!Parsed, Collector!FoldLeft, Collector!MapThenFoldSet, Collector!Max, Iterates, Step, Top
<1>2. Iterates("scan", c, base, lines, iter)
  <2>1. \E g : Iterates("scan", c, base, lines, g)
    BY IterExists, Zenon
  <2> QED
    BY <2>1, Zenon
<1> HIDE DEF iter, base
<1>3. PICK f : GoesThrough("scan", c, base, lines, n, f) /\ iter[DOMAIN lines] = f[n]
  BY <1>2, FoldSteps
<1> QED
  BY <1>1, <1>3 DEF base, Scans

(* What a query reads.                                                        *)
ReadAll(c, base, order) ==
  Collector!FoldLeft(LAMBDA out, f : out \o Collector!Parsed(files[f], c.limit)[c.kind], base, order)

(* Reading goes through the files.                                            *)
LEMMA ReadSteps ==
  ASSUME NEW order, NEW n \in Nat, DOMAIN order = 1 .. n, NEW c, NEW base, NEW res, res = ReadAll(c, base, order)
  PROVE  \E f : GoesThrough("read", c, base, order, n, f) /\ res = f[n]
<1> DEFINE iter == CHOOSE g : Iterates("read", c, base, order, g)
<1>1. res = iter[DOMAIN order]
  BY DEF ReadAll, Collector!FoldLeft, Collector!MapThenFoldSet, Collector!Max, Iterates, Step, Top
<1>2. Iterates("read", c, base, order, iter)
  <2>1. \E g : Iterates("read", c, base, order, g)
    BY IterExists, Zenon
  <2> QED
    BY <2>1, Zenon
<1> HIDE DEF iter
<1>3. PICK f : GoesThrough("read", c, base, order, n, f) /\ iter[DOMAIN order] = f[n]
  BY ONLY <1>2, n \in Nat, DOMAIN order = 1 .. n, FoldSteps
<1> QED
  BY <1>3, <1>1, Zenon

(* What is kept of the lines s of a kind is their end, at the places e; what is  *)
(* not kept is before as many of them as can be asked for.                     *)
Keeps(e, a, s, l, m) ==
  /\ OfOne(a, l) /\ e \in [1 .. Len(a) -> 1 .. Len(s)]
  /\ \A i \in 1 .. Len(a) : a[i] = s[e[i]]
  /\ \A i, j \in 1 .. Len(a) : i < j => e[i] < e[j]
  /\ \A j \in 1 .. Len(s) :
       s[j].kind = l => (\E i \in 1 .. Len(a) : e[i] = j) \/ (Len(a) >= m /\ \A i \in 1 .. Len(a) : j < e[i])

(* There are such places.                                                    *)
Kept(a, s, l, m) == \E e : Keeps(e, a, s, l, m)

(* It is so of each kind.                                                    *)
KeptOf(kept, first, m) ==
  DOMAIN kept = Collector!Kinds /\ \A l \in Collector!Kinds : Kept(kept[l], first, l, m)

(* A line is put to those of its kind.                                        *)
Added(kept, p) == [kept EXCEPT ![p.kind] = Append(@, p)]

(* A line of the kind more is kept at the end.                                *)
LEMMA KeptMore ==
  ASSUME NEW m \in Nat, NEW s \in Seq(Points), NEW p \in Points, NEW more, more = Append(s, p),
         NEW l, NEW a, Kept(a, s, l, m), NEW b, b = IF l = p.kind THEN Append(a, p) ELSE a
  PROVE  Kept(b, more, l, m)
<1>1. PICK n \in Nat : n = Len(s)
  OBVIOUS
<1>2. more \in Seq(Points) /\ Len(more) = n + 1 /\ more[n + 1] = p /\ \A j \in 1 .. n : more[j] = s[j]
  BY <1>1
<1>3. PICK e : Keeps(e, a, s, l, m)
  BY DEF Kept
<1>4. PICK x \in Nat : x = Len(a) /\ a \in Seq(Points) /\ \A i \in 1 .. x : a[i].kind = l
  BY <1>3 DEF Keeps, OfOne
<1>5. /\ e \in [1 .. x -> 1 .. n]
      /\ \A i \in 1 .. x : a[i] = s[e[i]]
      /\ \A i, j \in 1 .. x : i < j => e[i] < e[j]
      /\ \A j \in 1 .. n : s[j].kind = l => (\E i \in 1 .. x : e[i] = j) \/ (x >= m /\ \A i \in 1 .. x : j < e[i])
  BY <1>1, <1>3, <1>4 DEF Keeps
<1>6. \A i \in 1 .. x : e[i] \in 1 .. n /\ e[i] \in 1 .. n + 1 /\ e[i] < n + 1 /\ e[i] # n + 1
  <2>1. \A i \in 1 .. x : e[i] \in 1 .. n
    BY <1>5
  <2> QED
    BY <1>1, <2>1
<1>7. \A j \in 1 .. n + 1 : j \in 1 .. n \/ j = n + 1
  BY <1>1
<1>8. CASE l = p.kind
  <2>1. b \in Seq(Points) /\ Len(b) = x + 1 /\ b[x + 1] = p /\ \A i \in 1 .. x : b[i] = a[i]
    BY <1>4, <1>8
  <2>2. \A i \in 1 .. x + 1 : i \in 1 .. x \/ i = x + 1
    BY <1>4
  <2>3. OfOne(b, l)
    BY <1>4, <1>8, <2>1, <2>2 DEF OfOne
  <2> DEFINE d == [i \in 1 .. x + 1 |-> IF i = x + 1 THEN n + 1 ELSE e[i]]
  <2>4. d[x + 1] = n + 1 /\ (\A i \in 1 .. x : d[i] = e[i]) /\ d \in [1 .. x + 1 -> 1 .. n + 1] /\ x + 1 \in 1 .. x + 1
    <3>1. \A i \in 1 .. x : i \in 1 .. x + 1 /\ i # x + 1
      BY <1>4
    <3>2. x + 1 \in 1 .. x + 1 /\ n + 1 \in 1 .. n + 1
      BY <1>1, <1>4
    <3> QED
      BY <1>6, <2>2, <3>1, <3>2
  <2> HIDE DEF d
  <2>5. ASSUME NEW i \in 1 .. x + 1 PROVE b[i] = more[d[i]]
    <3>1. CASE i = x + 1
      BY <1>2, <2>1, <2>4, <3>1
    <3>2. CASE i \in 1 .. x
      BY <1>2, <1>5, <1>6, <2>1, <2>4, <3>2
    <3> QED
      BY <2>2, <3>1, <3>2
  <2>6. ASSUME NEW i \in 1 .. x + 1, NEW j \in 1 .. x + 1, i < j PROVE d[i] < d[j]
    <3>1. i \in 1 .. x
      BY <1>4, <2>6
    <3>2. CASE j = x + 1
      BY <1>6, <2>4, <3>1, <3>2
    <3>3. CASE j \in 1 .. x
      BY <1>5, <2>4, <2>6, <3>1, <3>3
    <3> QED
      BY <2>2, <3>2, <3>3
  <2>7. ASSUME NEW j \in 1 .. n + 1, more[j].kind = l
        PROVE  (\E i \in 1 .. x + 1 : d[i] = j) \/ (x + 1 >= m /\ \A i \in 1 .. x + 1 : j < d[i])
    <3>1. CASE j = n + 1
      BY <2>4, <3>1
    <3>2. CASE j \in 1 .. n
      <4>1. s[j].kind = l
        BY <1>2, <2>7, <3>2
      <4>2. CASE \E i \in 1 .. x : e[i] = j
        <5>1. PICK i \in 1 .. x : e[i] = j
          BY <4>2
        <5>2. i \in 1 .. x + 1 /\ d[i] = j
          BY <1>4, <2>4, <5>1
        <5> QED
          BY <5>2
      <4>3. CASE x >= m /\ \A i \in 1 .. x : j < e[i]
        <5>1. x + 1 >= m /\ j < n + 1
          BY <1>1, <1>4, <3>2, <4>3
        <5>2. \A i \in 1 .. x + 1 : j < d[i]
          BY <2>2, <2>4, <4>3, <5>1
        <5> QED
          BY <5>1, <5>2
      <4> QED
        BY <1>5, <3>2, <4>1, <4>2, <4>3
    <3> QED
      BY <1>7, <3>1, <3>2
  <2>8. Keeps(d, b, more, l, m)
    BY <1>2, <2>1, <2>3, <2>4, <2>5, <2>6, <2>7 DEF Keeps
  <2> QED
    BY <2>8 DEF Kept
<1>9. CASE l # p.kind
  <2>1. b = a /\ OfOne(b, l) /\ Len(b) = x
    BY <1>3, <1>4, <1>9 DEF Keeps
  <2>2. e \in [1 .. x -> 1 .. n + 1] /\ \A i \in 1 .. x : b[i] = more[e[i]]
    BY <1>2, <1>5, <1>6, <2>1
  <2>3. \A j \in 1 .. n + 1 : more[j].kind = l => j \in 1 .. n /\ s[j].kind = l
    BY <1>2, <1>7, <1>9
  <2>4. \A j \in 1 .. n + 1 : more[j].kind = l => (\E i \in 1 .. x : e[i] = j) \/ (x >= m /\ \A i \in 1 .. x : j < e[i])
    BY <1>5, <2>3
  <2>5. Keeps(e, b, more, l, m)
    BY <1>2, <1>5, <2>1, <2>2, <2>4 DEF Keeps
  <2> QED
    BY <2>5 DEF Kept
<1> QED
  BY <1>8, <1>9

(* Cutting it down to the newest that can be asked for leaves as many.          *)
LEMMA KeptCut ==
  ASSUME NEW m \in Nat \ {0}, NEW s \in Seq(Points), NEW l, NEW a, Kept(a, s, l, m), NEW z, z = Collector!Newest(a, m)
  PROVE  Kept(z, s, l, m)
<1>1. PICK n \in Nat : n = Len(s)
  OBVIOUS
<1>2. PICK e : Keeps(e, a, s, l, m)
  BY DEF Kept
<1>3. PICK x \in Nat : x = Len(a) /\ a \in Seq(Points) /\ \A i \in 1 .. x : a[i].kind = l
  BY <1>2 DEF Keeps, OfOne
<1>4. /\ e \in [1 .. x -> 1 .. n]
      /\ \A i \in 1 .. x : a[i] = s[e[i]]
      /\ \A i, j \in 1 .. x : i < j => e[i] < e[j]
      /\ \A j \in 1 .. n : s[j].kind = l => (\E i \in 1 .. x : e[i] = j) \/ (x >= m /\ \A i \in 1 .. x : j < e[i])
  BY <1>1, <1>2, <1>3 DEF Keeps
<1>5. CASE x <= m
  <2>1. z = a
    BY <1>3, <1>5 DEF Collector!Newest
  <2> QED
    BY <2>1
<1>6. CASE ~(x <= m)
  <2>1. PICK d \in 0 .. x : d = x - m /\ x - d = m
    <3>1. x - m \in 0 .. x /\ x - (x - m) = m
      BY <1>3, <1>6
    <3> QED
      BY <3>1
  <2>2. z = SubSeq(a, d + 1, x)
    BY <1>3, <1>6, <2>1 DEF Collector!Newest
  <2>3. z \in Seq(Points) /\ Len(z) = m /\ \A i \in 1 .. m : z[i] = a[d + i] /\ d + i \in 1 .. x
    BY <1>3, <2>1, <2>2, EndIs
  <2>4. OfOne(z, l)
    BY <1>3, <2>3 DEF OfOne
  <2> DEFINE u == [i \in 1 .. m |-> e[d + i]]
  <2>5. u \in [1 .. m -> 1 .. n] /\ \A i \in 1 .. m : u[i] = e[d + i]
    BY <1>4, <2>3
  <2> HIDE DEF u
  <2>6. ASSUME NEW i \in 1 .. m PROVE z[i] = s[u[i]]
    <3>1. d + i \in 1 .. x /\ z[i] = a[d + i] /\ u[i] = e[d + i]
      BY <2>3, <2>5
    <3>2. a[d + i] = s[e[d + i]]
      BY <1>4, <3>1
    <3> QED
      BY <3>1, <3>2
  <2>7. ASSUME NEW i \in 1 .. m, NEW j \in 1 .. m, i < j PROVE u[i] < u[j]
    <3>1. d + i < d + j /\ d + i \in 1 .. x /\ d + j \in 1 .. x
      BY <2>1, <2>3, <2>7
    <3> QED
      BY <1>4, <2>5, <3>1
  <2>8. ASSUME NEW j \in 1 .. n, s[j].kind = l
        PROVE  (\E i \in 1 .. m : u[i] = j) \/ (m >= m /\ \A i \in 1 .. m : j < u[i])
    <3>1. CASE \A i \in 1 .. x : j < e[i]
      <4>1. ASSUME NEW i \in 1 .. m PROVE j < u[i]
        <5>1. d + i \in 1 .. x /\ u[i] = e[d + i]
          BY <2>3, <2>5
        <5> QED
          BY <3>1, <5>1
      <4> QED
        BY <4>1
    <3>2. CASE \E i \in 1 .. x : e[i] = j
      <4>1. PICK i \in 1 .. x : e[i] = j
        BY <3>2
      <4>2. CASE i <= d
        <5>1. \A y \in 1 .. m : i < d + y /\ d + y \in 1 .. x
          BY <2>1, <2>3, <4>2
        <5>2. \A y \in 1 .. m : j < u[y]
          BY <1>4, <2>5, <4>1, <5>1
        <5> QED
          BY <5>2
      <4>3. CASE ~(i <= d)
        <5>1. PICK y \in 1 .. m : i = d + y
          <6>1. i - d \in 1 .. m /\ i = d + (i - d)
            BY <2>1, <4>3
          <6> QED
            BY <6>1
        <5> QED
          BY <2>5, <4>1, <5>1
      <4> QED
        BY <4>2, <4>3
    <3> QED
      BY <1>4, <2>8, <3>1, <3>2
  <2>9. Keeps(u, z, s, l, m)
    BY <1>1, <2>3, <2>4, <2>5, <2>6, <2>7, <2>8 DEF Keeps
  <2> QED
    BY <2>9 DEF Kept
<1> QED
  BY <1>5, <1>6

(* A line more keeps of each kind what can be asked for.                       *)
LEMMA OneMore ==
  ASSUME NEW m \in Nat, NEW first \in Seq(Points), NEW p \in Points, NEW more, more = Append(first, p),
         NEW kept, KeptOf(kept, first, m), NEW all, all = Added(kept, p)
  PROVE  KeptOf(all, more, m)
<1>1. p.kind \in Collector!Kinds
  BY DEF Points
<1>2. DOMAIN all = Collector!Kinds /\ \A l \in Collector!Kinds : all[l] = IF l = p.kind THEN Append(kept[l], p) ELSE kept[l]
  BY <1>1 DEF KeptOf, Added
<1>3. ASSUME NEW l \in Collector!Kinds PROVE Kept(all[l], more, l, m)
  <2>1. PICK a, b : a = kept[l] /\ b = all[l]
    OBVIOUS
  <2>2. Kept(a, first, l, m) /\ b = IF l = p.kind THEN Append(a, p) ELSE a
    BY <1>2, <2>1 DEF KeptOf
  <2>3. Kept(b, more, l, m)
    BY <2>2, KeptMore
  <2> QED
    BY <2>1, <2>3
<1> QED
  BY <1>2, <1>3 DEF KeptOf

(* And so does cutting the kinds down.                                        *)
LEMMA CutKeeps ==
  ASSUME NEW m \in Nat \ {0}, NEW first \in Seq(Points), NEW all, KeptOf(all, first, m),
         NEW z, z = [l \in Collector!Kinds |-> Collector!Newest(all[l], m)]
  PROVE  KeptOf(z, first, m)
<1>1. ASSUME NEW l \in Collector!Kinds PROVE Kept(z[l], first, l, m)
  <2>1. PICK a, b : a = all[l] /\ b = z[l]
    OBVIOUS
  <2>2. Kept(a, first, l, m) /\ b = Collector!Newest(a, m)
    BY <2>1 DEF KeptOf
  <2>3. Kept(b, first, l, m)
    BY <2>2, KeptCut
  <2> QED
    BY <2>1, <2>3
<1> QED
  BY <1>1 DEF KeptOf

(* The first j are the first of them and one more.                            *)
LEMMA FirstMore ==
  ASSUME NEW S, NEW s \in Seq(S), NEW j \in 1 .. Len(s)
  PROVE  SubSeq(s, 1, j) = Append(SubSeq(s, 1, j - 1), s[j])
<1>1. PICK n \in Nat, i \in Nat : n = Len(s) /\ i = j - 1 /\ j = i + 1 /\ i < n
  <2>1. j - 1 \in Nat /\ j = (j - 1) + 1 /\ j - 1 < Len(s) /\ Len(s) \in Nat
    OBVIOUS
  <2> QED
    BY <2>1
<1>2. PICK a, b : a = SubSeq(s, 1, i) /\ b = SubSeq(s, 1, j)
  OBVIOUS
<1>3. a \in Seq(S) /\ Len(a) = i /\ \A x \in 1 .. i : a[x] = s[x]
  BY <1>1, <1>2
<1>4. b \in Seq(S) /\ Len(b) = i + 1 /\ \A x \in 1 .. i + 1 : b[x] = s[x]
  BY <1>1, <1>2
<1>5. PICK d : d = Append(a, s[j])
  OBVIOUS
<1>6. d \in Seq(S) /\ Len(d) = i + 1 /\ d[i + 1] = s[j] /\ \A x \in 1 .. i : d[x] = a[x]
  BY <1>1, <1>3, <1>5
<1>7. b = d
  <2>1. \A x \in 1 .. i + 1 : x \in 1 .. i \/ x = i + 1
    BY <1>1
  <2>2. \A x \in 1 .. i + 1 : b[x] = d[x]
    BY <1>1, <1>3, <1>4, <1>6, <2>1
  <2> QED
    BY <1>4, <1>6, <2>2
<1> QED
  BY <1>1, <1>2, <1>5, <1>7

(* Scanning keeps of a file's lines of each kind the last, all that can be       *)
(* asked for.                                                                *)
LEMMA ParsedIs ==
  ASSUME NEW lines \in Seq(Points), NEW m \in Nat \ {0}, NEW c, c.limit = m
  PROVE  KeptOf(Collector!Parsed(lines, m), lines, m)
<1>1. PICK n \in Nat : n = Len(lines) /\ DOMAIN lines = 1 .. n
  OBVIOUS
<1>2. PICK f : Scans(lines, n, c, f)
  BY <1>1, ScanSteps
<1>3. Collector!Parsed(lines, m) = f[n] /\ f[0] = [l \in Collector!Kinds |-> <<>>] /\ \A i \in 1 .. n : f[i] = Collector!Scanned(f[i - 1], lines[i], m)
  BY <1>2 DEF Scans, GoesThrough, Step
<1> DEFINE first(i) == SubSeq(lines, 1, i)
           good == {i \in 0 .. n : KeptOf(f[i], first(i), m)}
<1>4. ASSUME NEW i \in 0 .. n
      PROVE  first(i) \in Seq(Points) /\ Len(first(i)) = i
  BY <1>1
<1>5. 0 \in good
  <2>1. first(0) \in Seq(Points) /\ Len(first(0)) = 0
    <3>1. 0 \in 0 .. n
      BY <1>1
    <3> QED
      BY <1>4, <3>1
  <2> HIDE DEF first
  <2>2. PICK u : u = first(0) /\ u \in Seq(Points) /\ Len(u) = 0
    BY <2>1
  <2>3. ASSUME NEW l PROVE Kept(<<>>, u, l, m)
    <3>1. <<>> \in Seq(Points) /\ Len(<<>>) = 0 /\ 1 .. 0 = {}
      OBVIOUS
    <3>2. OfOne(<<>>, l)
      BY <3>1 DEF OfOne
    <3>3. <<>> \in [1 .. Len(<<>>) -> 1 .. Len(u)]
      OBVIOUS
    <3>4. Keeps(<<>>, <<>>, u, l, m)
      BY <2>2, <3>1, <3>2, <3>3 DEF Keeps
    <3> QED
      BY <3>4 DEF Kept
  <2>4. KeptOf(f[0], first(0), m)
    <3>1. DOMAIN f[0] = Collector!Kinds /\ \A l \in Collector!Kinds : f[0][l] = <<>>
      BY <1>3
    <3> QED
      BY <2>2, <2>3, <3>1 DEF KeptOf
  <2> QED
    BY <1>1, <2>4
<1>6. ASSUME NEW i \in Nat, i < n, i \in good PROVE i + 1 \in good
  <2>1. PICK j \in 1 .. n : j = i + 1 /\ i = j - 1 /\ i \in 0 .. n
    <3>1. i + 1 \in 1 .. n /\ i = (i + 1) - 1 /\ i \in 0 .. n
      BY <1>1, <1>6
    <3> QED
      BY <3>1
  <2>2. KeptOf(f[i], first(i), m)
    BY <1>6
  <2>3. lines[j] \in Points
    BY <1>1
  <2>4. first(j) = Append(first(i), lines[j])
    BY <1>1, <2>1, FirstMore
  <2>5. first(j) \in Seq(Points) /\ first(i) \in Seq(Points)
    <3>1. j \in 0 .. n
      OBVIOUS
    <3> QED
      BY <1>4, <2>1, <3>1
  <2>6. f[j] = Collector!Scanned(f[i], lines[j], m)
    BY <1>3, <2>1
  <2> HIDE DEF first
  <2>7. PICK all : all = Added(f[i], lines[j])
    OBVIOUS
  <2>8. KeptOf(all, first(j), m)
    <3>1. PICK a, b, p, u : a = first(i) /\ b = first(j) /\ p = lines[j] /\ u = f[i]
      OBVIOUS
    <3>2. a \in Seq(Points) /\ p \in Points /\ b = Append(a, p)
          /\ KeptOf(u, a, m) /\ all = Added(u, p)
      BY <2>2, <2>3, <2>4, <2>5, <2>7, <3>1
    <3>3. KeptOf(all, b, m)
      BY <3>2, OneMore
    <3> QED
      BY <3>1, <3>3
  <2>9. f[j] = all \/ f[j] = [l \in Collector!Kinds |-> Collector!Newest(all[l], m)]
    BY <2>6, <2>7 DEF Collector!Scanned, Added
  <2>10. KeptOf(f[j], first(j), m)
    BY <2>5, <2>8, <2>9, CutKeeps
  <2> QED
    BY <2>1, <2>10
<1>7. n \in good
  <2> HIDE DEF good
  <2>1. \A k \in Nat : k < n /\ k \in good => k + 1 \in good
    BY <1>6
  <2>2. \A k \in 0 .. n : k \in good
    BY <1>5, <2>1, Induction
  <2> QED
    BY <1>1, <2>2
<1>8. first(n) = lines
  BY <1>1
<1> HIDE DEF first
<1> QED
  BY <1>3, <1>7, <1>8

(* Points of that kind.                                                      *)
OfKind(W, k) == \A p \in W : p.kind = k

(* No less than one number, no more than another.                             *)
Between(x, low, high) == x >= low /\ x <= high

(* A part of finitely many is no more.                                        *)
LEMMA PartIsLess ==
  ASSUME NEW S, IsFiniteSet(S), NEW T, T \subseteq S
  PROVE  IsFiniteSet(T) /\ Cardinality(T) \in Nat /\ Cardinality(S) \in Nat /\ Cardinality(T) <= Cardinality(S)
<1>1. IsFiniteSet(T) /\ Cardinality(T) <= Cardinality(S)
  BY FS_Subset
<1> QED
  BY <1>1, FS_CardinalityType

(* Of any points as many are kept as there are among the last of the kind, or   *)
(* more, and no more than there are.                                         *)
LEMMA KeptCounts ==
  ASSUME NEW m \in Nat \ {0}, NEW s \in Seq(Points), NEW l, NEW a, Kept(a, s, l, m), NEW W, OfKind(W, l),
         NEW all, all = Where(s, W), NEW last, last = all \cap Collector!Recent(s, l, m)
  PROVE  /\ IsFiniteSet(all) /\ IsFiniteSet(last)
         /\ Between(Count(a, W), Cardinality(last), Cardinality(all))
<1>1. PICK n \in Nat : n = Len(s) /\ DOMAIN s = 1 .. n
  OBVIOUS
<1>2. PICK e : Keeps(e, a, s, l, m)
  BY DEF Kept
<1>3. PICK x \in Nat : x = Len(a) /\ a \in Seq(Points) /\ DOMAIN a = 1 .. x
  BY <1>2 DEF Keeps, OfOne
<1>4. /\ e \in [1 .. x -> 1 .. n]
      /\ \A i \in 1 .. x : a[i] = s[e[i]] /\ s[e[i]].kind = l
      /\ \A i, j \in 1 .. x : i < j => e[i] < e[j]
      /\ \A j \in 1 .. n : s[j].kind = l => (\E i \in 1 .. x : e[i] = j) \/ (x >= m /\ \A i \in 1 .. x : j < e[i])
  BY <1>1, <1>2, <1>3 DEF Keeps, OfOne
<1>5. \A i, j \in 1 .. x : e[i] = e[j] => i = j
  <2> SUFFICES ASSUME NEW i \in 1 .. x, NEW j \in 1 .. x, e[i] = e[j], i # j PROVE FALSE
    OBVIOUS
  <2>1. e[i] \in Int /\ e[j] \in Int
    BY <1>4
  <2>2. i < j \/ j < i
    OBVIOUS
  <2> QED
    BY <1>4, <2>1, <2>2
<1>6. IsFiniteSet(all)
  BY CountIs
<1> DEFINE B == {j \in all : \E i \in 1 .. x : e[i] = j}
           A == Where(a, W)
           g == [i \in A |-> e[i]]
<1>7. IsFiniteSet(A) /\ A = {i \in 1 .. x : a[i] \in W} /\ all = {j \in 1 .. n : s[j] \in W}
  BY <1>1, <1>3, CountIs DEF Where
<1>8. g \in Surjection(A, B) /\ g \in Injection(A, B)
  <2>1. \A i \in A : i \in 1 .. x /\ e[i] \in B
    BY <1>4, <1>7
  <2>2. g \in [A -> B]
    BY <2>1
  <2>3. \A j \in B : \E i \in A : g[i] = j
    BY <1>4, <1>7
  <2>4. \A i, j \in A : g[i] = g[j] => i = j
    BY <1>5, <2>1
  <2> HIDE DEF g, A, B
  <2> QED
    BY <2>2, <2>3, <2>4, Zenon DEF Surjection, Injection, IsInjective
<1>9. Count(a, W) = Cardinality(B)
  <2> HIDE DEF g, B
  <2>1. Cardinality(A) = Cardinality(B)
    <3> HIDE DEF A
    <3> QED
      BY <1>7, <1>8, FS_Surjection
  <2> QED
    BY <2>1 DEF Count
<1>10. last \subseteq B
  <2> SUFFICES ASSUME NEW j \in last, ~(\E i \in 1 .. x : e[i] = j) PROVE FALSE
    OBVIOUS
  <2>1. j \in 1 .. n /\ s[j].kind = l
    BY <1>7 DEF OfKind
  <2>2. x >= m /\ \A i \in 1 .. x : j < e[i]
    BY <1>4, <2>1
  <2>3. PICK after : after = {i \in 1 .. n : i > j /\ s[i].kind = l}
    OBVIOUS
  <2>4. Cardinality(after) < m
    <3>1. Collector!Cardinality({i \in DOMAIN s : i > j /\ s[i].kind = l}) < m
      BY DEF Collector!Recent
    <3> QED
      BY <1>1, <2>3, <3>1, SameCardinality
  <2>5. \A i \in 1 .. x : e[i] \in after
    BY <1>4, <2>2, <2>3
  <2> DEFINE E == {e[i] : i \in 1 .. x}
  <2>6. IsFiniteSet(1 .. x) /\ Cardinality(1 .. x) = x
    BY FirstAre
  <2>7. e \in Surjection(1 .. x, E) /\ e \in Injection(1 .. x, E)
    <3>1. e \in [1 .. x -> E] /\ \A y \in E : \E i \in 1 .. x : e[i] = y
      BY <1>4
    <3> HIDE DEF E
    <3> QED
      BY <1>5, <3>1, Zenon DEF Surjection, Injection, IsInjective
  <2>8. Cardinality(E) = x
    <3> HIDE DEF E
    <3>1. Cardinality(1 .. x) = Cardinality(E)
      BY <2>6, <2>7, FS_Surjection
    <3> QED
      BY <2>6, <3>1
  <2>9. E \subseteq after
    BY <2>5
  <2> HIDE DEF E
  <2>10. IsFiniteSet(after)
    <3>1. IsFiniteSet(1 .. n)
      BY FirstAre
    <3> QED
      BY <2>3, <3>1, FS_Subset
  <2>11. Cardinality(E) <= Cardinality(after) /\ Cardinality(after) \in Nat
    BY <2>9, <2>10, PartIsLess
  <2> QED
    BY <2>2, <2>4, <2>8, <2>11
<1>11. B \subseteq all
  OBVIOUS
<1> HIDE DEF A, B, g
<1>12. IsFiniteSet(B) /\ Cardinality(B) <= Cardinality(all)
  BY <1>6, <1>11, PartIsLess
<1>13. IsFiniteSet(last) /\ Cardinality(last) <= Cardinality(B)
  BY <1>10, <1>12, PartIsLess
<1> QED
  BY <1>6, <1>9, <1>12, <1>13 DEF Between

(* Places in the files F.                                                    *)
Places(F, P) == UNION {{<<f, i>> : i \in P[f]} : f \in F}

(* Where some points are in each file, and where they are among its last.        *)
Lines(W)      == [f \in DOMAIN files |-> Where(files[f], W)]
Last(W, k, m) == [f \in DOMAIN files |-> Where(files[f], W) \cap Collector!Recent(files[f], k, m)]

(* One file more adds its own.                                               *)
LEMMA PlacesAdd ==
  ASSUME NEW F, NEW g, g \notin F, NEW P, IsFiniteSet(P[g]), IsFiniteSet(Places(F, P)), NEW G, G = F \cup {g}
  PROVE  /\ IsFiniteSet(Places(G, P))
         /\ IsSum(Cardinality(Places(G, P)), Cardinality(Places(F, P)), Cardinality(P[g]))
<1>1. PICK A, B : A = Places(F, P) /\ B = P[g]
  OBVIOUS
<1> DEFINE C == {<<g, i>> : i \in B}
           h == [i \in B |-> <<g, i>>]
<1>2. IsFiniteSet(A) /\ IsFiniteSet(B)
  BY <1>1
<1>3. IsFiniteSet(C) /\ Cardinality(C) = Cardinality(B)
  <2>1. h \in Surjection(B, C)
    BY DEF Surjection
  <2>2. h \in Injection(B, C)
    BY DEF Injection, IsInjective
  <2> HIDE DEF h, C
  <2> QED
    BY <1>2, <2>1, <2>2, FS_Surjection
<1>4. Places(G, P) = A \cup C
  <2>1. \A x : x \in Places(F, P) <=> \E f \in F : x \in {<<f, i>> : i \in P[f]}
    BY DEF Places
  <2>2. \A x : x \in Places(G, P) <=> \E f \in G : x \in {<<f, i>> : i \in P[f]}
    BY DEF Places
  <2>3. C = {<<g, i>> : i \in P[g]}
    BY <1>1
  <2> HIDE DEF C
  <2>4. \A x : x \in Places(G, P) <=> x \in Places(F, P) \/ x \in C
    BY <2>1, <2>2, <2>3
  <2> QED
    BY <1>1, <2>4
<1>5. A \cap C = {}
  <2>1. \A x \in A : \E f \in F : \E i : x = <<f, i>>
    BY <1>1 DEF Places
  <2>2. \A x \in C : \E i : x = <<g, i>>
    OBVIOUS
  <2> HIDE DEF C
  <2> QED
    BY <2>1, <2>2
<1> HIDE DEF C
<1>6. IsFiniteSet(A \cup C) /\ Cardinality(A \cup C) = Cardinality(A) + Cardinality(C) - Cardinality({})
  BY <1>2, <1>3, <1>5, FS_Union
<1>7. PICK a \in Nat, c \in Nat : a = Cardinality(A) /\ c = Cardinality(C)
  BY <1>2, <1>3, FS_CardinalityType
<1>8. Cardinality(A \cup C) = a + c
  <2>1. Cardinality({}) = 0
    BY FS_EmptySet
  <2> QED
    BY <1>6, <1>7, <2>1
<1> QED
  BY <1>1, <1>3, <1>4, <1>6, <1>7, <1>8 DEF IsSum

(* Of some points, what of a history and of files a query may find and must.    *)
Finds(out, h, F, k, m, W) ==
  /\ IsFiniteSet(Places(F, Last(W, k, m))) /\ IsFiniteSet(Places(F, Lines(W)))
  /\ Between(Count(out, W), Count(h, W) + Cardinality(Places(F, Last(W, k, m))),
             Count(h, W) + Cardinality(Places(F, Lines(W))))

(* Of all points of a kind.                                                   *)
Gathered(out, h, F, k, m) == OfOne(out, k) /\ \A W : OfKind(W, k) => Finds(out, h, F, k, m, W)

(* Sums stay between sums.                                                    *)
LEMMA BetweenAdds ==
  ASSUME NEW r \in Nat, NEW c \in Nat, NEW d \in Nat, NEW e \in Nat, Between(r, c + d, c + e),
         NEW b \in Nat, NEW u \in Nat, NEW v \in Nat, Between(b, u, v)
  PROVE  Between(r + b, c + (d + u), c + (e + v))
  BY DEF Between

(* One sequence of a kind after another is one.                               *)
LEMMA ConcatOne ==
  ASSUME NEW k, NEW a, OfOne(a, k), NEW b, OfOne(b, k)
  PROVE  OfOne(a \o b, k)
<1>0. PICK z : z = a \o b
  OBVIOUS
<1>1. PICK x \in Nat, y \in Nat : z = a \o b /\ x = Len(a) /\ y = Len(b) /\ a \in Seq(Points) /\ b \in Seq(Points)
  BY <1>0 DEF OfOne
<1>2. /\ z \in Seq(Points) /\ Len(z) = x + y
      /\ \A i \in 1 .. x + y : z[i] = IF i <= x THEN a[i] ELSE b[i - x]
  BY <1>1
<1>3. ASSUME NEW i \in 1 .. x + y PROVE z[i].kind = k
  <2>1. CASE i <= x
    <3>1. i \in 1 .. x
      BY <1>1, <2>1
    <3> QED
      BY <1>1, <1>2, <2>1, <3>1 DEF OfOne
  <2>2. CASE ~(i <= x)
    <3>1. i - x \in 1 .. y
      BY <1>1, <2>2
    <3> QED
      BY <1>1, <1>2, <2>2, <3>1 DEF OfOne
  <2> QED
    BY <2>1, <2>2
<1> QED
  BY <1>1, <1>2, <1>3 DEF OfOne

(* Reading a file more gathers what it has.                                   *)
LEMMA OneFileMore ==
  ASSUME NEW h \in Seq(Points), NEW F, NEW k \in Collector!Kinds, NEW m \in Nat \ {0}, NEW out, Gathered(out, h, F, k, m),
         NEW g \in DOMAIN files, g \notin F, files[g] \in Seq(Points), NEW p, KeptOf(p, files[g], m),
         NEW z, z = out \o p[k], NEW G, G = F \cup {g}
  PROVE  Gathered(z, h, G, k, m)
<1>1. PICK a, s : a = p[k] /\ s = files[g]
  OBVIOUS
<1>2. Kept(a, s, k, m) /\ OfOne(out, k)
  BY <1>1 DEF KeptOf, Gathered
<1>3. OfOne(a, k)
  BY <1>2 DEF Kept, Keeps
<1>4. a \in Seq(Points) /\ out \in Seq(Points) /\ z = out \o a /\ s \in Seq(Points)
  BY <1>1, <1>2, <1>3 DEF OfOne
<1>5. OfOne(z, k)
  BY <1>2, <1>3, <1>4, ConcatOne
<1>6. ASSUME NEW W, OfKind(W, k) PROVE Finds(z, h, G, k, m, W)
  <2>1. PICK L, M : L = Last(W, k, m) /\ M = Lines(W)
    OBVIOUS
  <2>2. PICK S, T : T = Where(s, W) /\ S = T \cap Collector!Recent(s, k, m)
    OBVIOUS
  <2>3. L[g] = S /\ M[g] = T
    BY <1>1, <2>1, <2>2 DEF Last, Lines
  <2>4. IsFiniteSet(T) /\ IsFiniteSet(S) /\ Between(Count(a, W), Cardinality(S), Cardinality(T))
    BY <1>2, <1>4, <1>6, <2>2, KeptCounts
  <2>5. /\ IsFiniteSet(Places(F, L)) /\ IsFiniteSet(Places(F, M))
        /\ Between(Count(out, W), Count(h, W) + Cardinality(Places(F, L)), Count(h, W) + Cardinality(Places(F, M)))
    BY <1>6, <2>1, Zenon DEF Gathered, Finds
  <2>6. IsFiniteSet(Places(G, L)) /\ IsSum(Cardinality(Places(G, L)), Cardinality(Places(F, L)), Cardinality(S))
    BY <2>3, <2>4, <2>5, PlacesAdd
  <2>7. IsFiniteSet(Places(G, M)) /\ IsSum(Cardinality(Places(G, M)), Cardinality(Places(F, M)), Cardinality(T))
    BY <2>3, <2>4, <2>5, PlacesAdd
  <2>8. PICK r \in Nat, c \in Nat, b \in Nat : r = Count(out, W) /\ c = Count(h, W) /\ b = Count(a, W)
    BY <1>4, CountIs
  <2>9. PICK d \in Nat, e \in Nat, u \in Nat, v \in Nat :
          d = Cardinality(Places(F, L)) /\ e = Cardinality(Places(F, M)) /\ u = Cardinality(S) /\ v = Cardinality(T)
    BY <2>4, <2>5, FS_CardinalityType
  <2>10. Between(r + b, c + (d + u), c + (e + v))
    <3>1. Between(r, c + d, c + e) /\ Between(b, u, v)
      BY <2>4, <2>5, <2>8, <2>9
    <3> QED
      BY <3>1, BetweenAdds
  <2>11. IsSum(Count(z, W), r, b)
    BY <1>4, <2>8, ConcatCount
  <2>12. Between(Count(z, W), Count(h, W) + Cardinality(Places(G, L)), Count(h, W) + Cardinality(Places(G, M)))
    BY <2>6, <2>7, <2>8, <2>9, <2>10, <2>11 DEF IsSum
  <2> QED
    BY <2>1, <2>6, <2>7, <2>12 DEF Finds
<1> QED
  BY <1>5, <1>6 DEF Gathered

(* Before any file is read only the history is.                               *)
LEMMA NothingRead ==
  ASSUME NEW k, NEW m, NEW h, OfOne(h, k)
  PROVE  Gathered(h, h, {}, k, m)
<1>1. ASSUME NEW W PROVE Finds(h, h, {}, k, m, W)
  <2>1. \A P : Places({}, P) = {}
    BY DEF Places
  <2>2. IsFiniteSet({}) /\ Cardinality({}) = 0
    BY FS_EmptySet
  <2>3. PICK x \in Nat : x = Count(h, W)
    BY CountIs DEF OfOne
  <2>4. Between(x, x + 0, x + 0)
    BY DEF Between
  <2> QED
    BY <2>1, <2>2, <2>3, <2>4 DEF Finds
<1> QED
  BY <1>1 DEF Gathered

(* Reading all of them, in any order, gathers what they have.                 *)
LEMMA ReadIs ==
  ASSUME NEW k \in Collector!Kinds, NEW m \in Nat \ {0}, NEW c, c.limit = m, c.kind = k,
         NEW h, OfOne(h, k), NEW n \in Nat, NEW order, NEW before, InOrder(DOMAIN files, before, n, order),
         \A g \in DOMAIN files : files[g] \in Seq(Points),
         NEW f, GoesThrough("read", c, h, order, n, f)
  PROVE  Gathered(f[n], h, DOMAIN files, k, m)
<1> DEFINE F(i) == {order[j] : j \in 1 .. i}
           good == {i \in 0 .. n : Gathered(f[i], h, F(i), k, m)}
<1>0. f[0] = h /\ \A i \in 1 .. n : f[i] = f[i - 1] \o Collector!Parsed(files[order[i]], m)[k]
  BY DEF GoesThrough, Step
<1>1. h \in Seq(Points)
  BY DEF OfOne
<1>2. 0 \in good
  <2>1. F(0) = {}
    OBVIOUS
  <2>2. Gathered(h, h, {}, k, m)
    BY NothingRead
  <2>3. Gathered(f[0], h, F(0), k, m)
    <3> HIDE DEF F
    <3> QED
      BY <1>0, <2>1, <2>2
  <2>4. 0 \in 0 .. n
    OBVIOUS
  <2> HIDE DEF F
  <2> QED
    BY <2>3, <2>4
<1>3. ASSUME NEW i \in Nat, i < n, i \in good PROVE i + 1 \in good
  <2>1. PICK j \in 1 .. n : j = i + 1 /\ i = j - 1 /\ j \in 0 .. n
    <3>1. i + 1 \in 1 .. n /\ i = (i + 1) - 1 /\ i + 1 \in 0 .. n
      BY <1>3
    <3> QED
      BY <3>1
  <2>2. F(j) = F(i) \cup {order[j]}
    <3>1. \A x \in 1 .. j : x \in 1 .. i \/ x = j
      BY <2>1
    <3>2. 1 .. i \subseteq 1 .. j /\ j \in 1 .. j
      BY <2>1
    <3> QED
      BY <3>1, <3>2
  <2>3. order[j] \notin F(i)
    <3>1. \A x \in 1 .. i : x \in 1 .. n /\ x # j
      BY <2>1
    <3> QED
      BY <3>1 DEF InOrder
  <2>4. order[j] \in DOMAIN files
    BY DEF InOrder
  <2>5. Gathered(f[i], h, F(i), k, m)
    BY <1>3
  <2> HIDE DEF F
  <2>6. PICK g, p, A, B : g = order[j] /\ p = Collector!Parsed(files[g], m) /\ A = F(i) /\ B = F(j)
    OBVIOUS
  <2>7. KeptOf(p, files[g], m)
    BY <2>4, <2>6, ParsedIs
  <2>8. f[j] = f[i] \o p[k]
    BY <1>0, <2>1, <2>6
  <2>9. Gathered(f[j], h, B, k, m)
    <3>1. g \in DOMAIN files /\ files[g] \in Seq(Points) /\ B = A \cup {g} /\ g \notin A /\ Gathered(f[i], h, A, k, m)
      BY <2>2, <2>3, <2>4, <2>5, <2>6
    <3> QED
      BY <1>1, <2>7, <2>8, <3>1, OneFileMore
  <2> QED
    BY <2>1, <2>6, <2>9
<1>4. n \in good
  <2> HIDE DEF good
  <2>1. \A i \in Nat : i < n /\ i \in good => i + 1 \in good
    BY <1>3
  <2>2. \A i \in 0 .. n : i \in good
    BY <1>2, <2>1, Induction
  <2> QED
    BY <2>2
<1>5. F(n) = DOMAIN files
  <2>1. \A i \in 1 .. n : order[i] \in DOMAIN files
    BY DEF InOrder
  <2>2. \A g \in DOMAIN files : \E i \in 1 .. n : g = order[i]
    BY DEF InOrder
  <2> QED
    BY <2>1, <2>2, Zenon
<1> HIDE DEF F
<1> QED
  BY <1>4, <1>5

-----------------------------------------------------------------------------
(* In a history are the points of its kind.                                   *)
KindsRight == \A k \in Collector!Kinds : OfOne(history[k], k)

(* That stays so.                                                            *)
LEMMA KindsStay ==
  ASSUME Sane, HistoryInv, KindsRight, Collector!Next
  PROVE  KindsRight'
<1>1. ASSUME NEW k \in Collector!Kinds, NEW h, NEW c \in Config, h \in Seq(Points), Rising(h), OfOne(h, k),
             history'[k] = Collector!Trim(h, c)
      PROVE  OfOne(history'[k], k)
  <2>1. PICK t : t = Collector!Trim(h, c)
    OBVIOUS
  <2>2. TrimmedTo(h, c, t)
    BY <1>1, <2>1, TrimIsRight DEF HistoryInv
  <2>3. t \in Seq(Points) /\ \A i \in 1 .. Len(t) : \E j \in 1 .. Len(h) : t[i] = h[j]
    BY <2>2 DEF TrimmedTo
  <2>4. OfOne(t, k)
    BY <1>1, <2>3 DEF OfOne
  <2> QED
    BY <1>1, <2>1, <2>4
<1>2. ASSUME NEW r \in Recorders, NEW k \in Collector!Kinds, Collector!Record(r, k) PROVE KindsRight'
  <2>1. PICK p : p = [n |-> point + 1, kind |-> k, t |-> now]
    OBVIOUS
  <2>2. p \in Points /\ p.kind = k /\ p.n = point + 1
    BY <2>1 DEF HistoryInv, Points
  <2>3. \A l \in Collector!Kinds : history'[l] = Collector!Trim(IF l = k THEN Append(history[l], p) ELSE history[l], cfg)
    BY <1>2, <2>1 DEF Collector!Record
  <2>4. ASSUME NEW l \in Collector!Kinds PROVE OfOne(history'[l], l)
    <3>1. PICK g : g = history[l]
      OBVIOUS
    <3>2. /\ g \in Seq(Points) /\ Rising(g) /\ OfOne(g, l) /\ cfg \in Config /\ point \in Nat
          /\ \A i \in 1 .. Len(g) : g[i].n <= point
      BY <3>1 DEF HistoryInv, KindsRight
    <3>3. CASE l = k
      <4>1. PICK h : h = Append(g, p)
        OBVIOUS
      <4>2. h \in Seq(Points) /\ Rising(h)
        BY <2>2, <3>2, <4>1, AppendRises
      <4>3. OfOne(h, l)
        BY <2>2, <3>2, <3>3, <4>1, <4>2 DEF OfOne
      <4>4. history'[l] = Collector!Trim(h, cfg)
        BY <2>3, <3>1, <3>3, <4>1
      <4> QED
        BY <1>1, <3>2, <4>2, <4>3, <4>4
    <3>4. CASE l # k
      <4>1. history'[l] = Collector!Trim(g, cfg)
        BY <2>3, <3>1, <3>4
      <4> QED
        BY <1>1, <3>2, <4>1
    <3> QED
      BY <3>3, <3>4
  <2> QED
    BY <2>4 DEF KindsRight
<1>3. CASE Collector!ConfigureSwaps
  <2>1. \A l \in Collector!Kinds : history'[l] = Collector!Trim(history[l], conf.cfg)
    BY <1>3 DEF Collector!ConfigureSwaps
  <2>2. ASSUME NEW l \in Collector!Kinds PROVE OfOne(history'[l], l)
    <3>1. history[l] \in Seq(Points) /\ Rising(history[l]) /\ OfOne(history[l], l) /\ conf.cfg \in Config
      BY DEF HistoryInv, KindsRight
    <3> QED
      BY <1>1, <2>1, <3>1
  <2> QED
    BY <2>2 DEF KindsRight
<1>4. ASSUME UNCHANGED history PROVE KindsRight'
  BY <1>4 DEF KindsRight
<1>5. (\E r \in Recorders : Collector!WriteLine(r)) \/ (\E c \in Configs : Collector!ConfigureBegins(c))
        \/ Collector!Tick \/ Collector!ConfigureCloses => UNCHANGED history
  BY DEF Collector!WriteLine, Collector!ConfigureBegins, Collector!Tick, Collector!ConfigureCloses
<1> QED
  BY <1>2, <1>3, <1>4, <1>5 DEF Collector!Next

(* The points of a kind that match, since a time.                             *)
Wanted(k, t, M) == {p \in Points : p.kind = k /\ p.t >= t /\ p.n \in M}

(* Where they are in a sequence.                                             *)
LEMMA WantedAre ==
  ASSUME NEW s \in Seq(Points), NEW k, NEW t, NEW M
  PROVE  Collector!Since(s, k, t, M) = Where(s, Wanted(k, t, M))
<1>1. \A i \in DOMAIN s : s[i] \in Points
  OBVIOUS
<1> QED
  BY <1>1 DEF Collector!Since, Collector!Matching, Where, Wanted

(* An answer: of the points that match, since any time, as many as can be asked  *)
(* for, of those there are in memory and among the last lines of files, and no  *)
(* more than there are.                                                     *)
Answers(out, k, m, M) ==
  /\ out \in Seq(Points) /\ Collector!InTimeOrder(out)
  /\ \A i \in 1 .. Len(out) : out[i].kind = k /\ out[i].n \in M
  /\ \A t \in Nat :
       LET W    == Wanted(k, t, M)
           held == Count(history[k], W)
           F    == Collector!Stored
       IN  Between(Count(out, W), Collector!AtMost(held + Cardinality(Places(F, Last(W, k, m))), m),
                   Collector!AtMost(held + Cardinality(Places(F, Lines(W))), m))

(* What bounds a number bounds as much of it as can be asked for.              *)
LEMMA CutBetween ==
  ASSUME NEW r \in Nat, NEW low \in Nat, NEW high \in Nat, Between(r, low, high), NEW m \in Nat
  PROVE  Between(Collector!AtMost(r, m), Collector!AtMost(low, m), Collector!AtMost(high, m))
  BY DEF Between, Collector!AtMost

(* A query reads the history and the files.                                   *)
LEMMA AllGathered ==
  ASSUME HistoryInv, KindsRight, FilesInv, NEW c, NEW k \in Collector!Kinds, NEW m \in Nat \ {0}, c.kind = k, c.limit = m,
         NEW all, all = IF cfg.persist THEN ReadAll(c, history[k], Collector!Listed) ELSE history[k]
  PROVE  Gathered(all, history[k], Collector!Stored, k, m)
<1>1. PICK h : h = history[k]
  OBVIOUS
<1>2. OfOne(h, k) /\ h \in Seq(Points)
  BY <1>1 DEF KindsRight, HistoryInv
<1>3. CASE cfg.persist
  <2>1. IsFiniteSet(DOMAIN files) /\ DOMAIN files \subseteq Nat \X Nat /\ \A g \in DOMAIN files : files[g] \in Seq(Points)
    BY DEF FilesInv, LinesSound, Apart
  <2>2. PICK n \in Nat : n = Cardinality(DOMAIN files)
    BY <2>1, FS_CardinalityType
  <2>3. PICK before : DOMAIN Collector!Listed = 1 .. n /\ InOrder(DOMAIN files, before, n, Collector!Listed)
    BY <2>1, <2>2, RankedFiles
  <2>4. all = ReadAll(c, h, Collector!Listed)
    BY <1>1, <1>3
  <2>5. PICK f : GoesThrough("read", c, h, Collector!Listed, n, f) /\ all = f[n]
    BY ONLY <2>3, <2>4, n \in Nat, ReadSteps
  <2>6. Gathered(all, h, DOMAIN files, k, m)
    BY <1>2, <2>1, <2>3, <2>5, ReadIs
  <2> QED
    BY <1>1, <1>3, <2>6 DEF Collector!Stored
<1>4. CASE ~cfg.persist
  <2>1. all = h /\ Collector!Stored = {}
    BY <1>1, <1>4 DEF Collector!Stored
  <2> QED
    BY <1>1, <1>2, <2>1, NothingRead
<1> QED
  BY <1>3, <1>4

(* So is a query's.                                                          *)
LEMMA AnswerIs ==
  ASSUME HistoryInv, KindsRight, FilesInv, NEW k \in Collector!Kinds, NEW m \in Nat \ {0}, NEW M,
         NEW out, out = Collector!Answer(k, m, M)
  PROVE  Answers(out, k, m, M)
<1>1. PICK c : c.kind = k /\ c.limit = m
  <2>1. [kind |-> k, limit |-> m].kind = k /\ [kind |-> k, limit |-> m].limit = m
    OBVIOUS
  <2> QED
    BY <2>1
<1>2. PICK a : a = IF cfg.persist THEN ReadAll(c, history[k], Collector!Listed) ELSE history[k]
  OBVIOUS
<1>3. PICK P, b : P = Collector!Matching(a, M) /\ b = Collector!ByTime(a, P)
  OBVIOUS
<1>4. out = Collector!Newest(b, m)
  <2>1. PICK r : r = IF cfg.persist THEN ReadAll(c, history[c.kind], Collector!Listed) ELSE history[c.kind]
    OBVIOUS
  <2>2. Collector!Answer(c.kind, c.limit, M) = Collector!Newest(Collector!ByTime(r, Collector!Matching(r, M)), c.limit)
    BY <2>1 DEF Collector!Answer, ReadAll
  <2>3. r = a
    BY <1>1, <1>2, <2>1
  <2> QED
    BY <1>1, <1>3, <2>2, <2>3
<1>5. PICK h, F : h = history[k] /\ F = Collector!Stored
  OBVIOUS
<1>6. Gathered(a, h, F, k, m)
  BY <1>1, <1>2, <1>5, AllGathered
<1>7. OfOne(a, k) /\ a \in Seq(Points) /\ h \in Seq(Points)
  BY <1>5, <1>6 DEF Gathered, OfOne, HistoryInv
<1>8. P = {i \in DOMAIN a : a[i].n \in M} /\ P \in SUBSET DOMAIN a
  BY <1>3 DEF Collector!Matching
<1>9. Sorted(b, a, P)
  BY <1>3, <1>7, <1>8, ByTimeIs
<1>10. b \in Seq(Points) /\ Collector!InTimeOrder(b)
  BY <1>9 DEF Sorted
<1>11. \A i \in 1 .. Len(b) : b[i] \in Points /\ b[i].kind = k /\ b[i].n \in M
  <2>1. \A i \in 1 .. Len(b) : \E j \in P : b[i] = a[j]
    BY <1>9 DEF Sorted
  <2>2. \A j \in P : a[j] \in Points /\ a[j].kind = k /\ a[j].n \in M
    <3>1. DOMAIN a = 1 .. Len(a)
      BY <1>7
    <3> QED
      BY <1>7, <1>8, <3>1 DEF OfOne
  <2> QED
    BY <2>1, <2>2
<1>12. NewestOf(out, b, m)
  BY <1>4, <1>10, NewestCount
<1>13. ASSUME NEW t \in Nat, NEW W, W = Wanted(k, t, M), NEW held, held = Count(h, W),
              NEW low, low = Cardinality(Places(F, Last(W, k, m))), NEW high, high = Cardinality(Places(F, Lines(W)))
       PROVE  Between(Count(out, W), Collector!AtMost(held + low, m), Collector!AtMost(held + high, m))
  <2>1. OfKind(W, k)
    BY <1>13 DEF OfKind, Wanted
  <2>2. Finds(a, h, F, k, m, W)
    BY <1>6, <2>1 DEF Gathered
  <2>3. Between(Count(a, W), held + low, held + high) /\ low \in Nat /\ high \in Nat
    BY <1>13, <2>2, FS_CardinalityType DEF Finds
  <2>4. held \in Nat /\ Count(a, W) \in Nat
    BY <1>7, <1>13, CountIs
  <2>5. Where(a, W) \cap P = Where(a, W)
    <3>1. \A p \in W : p.n \in M
      BY <1>13 DEF Wanted
    <3> QED
      BY <1>8, <3>1 DEF Where
  <2>6. Count(b, W) = Count(a, W)
    BY <1>9, <2>5 DEF Sorted, Count
  <2>7. AreSince(b, W, t)
    BY <1>11, <1>13 DEF AreSince, Wanted
  <2>8. Count(out, W) = Collector!AtMost(Count(a, W), m)
    BY <1>12, <2>6, <2>7 DEF NewestOf
  <2>9. held + low \in Nat /\ held + high \in Nat
    BY <2>3, <2>4
  <2> QED
    BY <2>3, <2>4, <2>8, <2>9, CutBetween
<1>14. out \in Seq(Points) /\ Collector!InTimeOrder(out) /\ Collector!Members(out) \subseteq Collector!Members(b)
  BY <1>12 DEF NewestOf
<1>15. \A i \in 1 .. Len(out) : out[i].kind = k /\ out[i].n \in M
  <2>1. DOMAIN out = 1 .. Len(out) /\ DOMAIN b = 1 .. Len(b)
    BY <1>10, <1>14
  <2>2. \A i \in 1 .. Len(out) : \E j \in 1 .. Len(b) : out[i] = b[j]
    BY <1>14, <2>1 DEF Collector!Members
  <2> QED
    BY <1>11, <2>2
<1>16. \A t \in Nat : Between(Count(out, Wanted(k, t, M)),
                              Collector!AtMost(Count(h, Wanted(k, t, M)) + Cardinality(Places(F, Last(Wanted(k, t, M), k, m))), m),
                              Collector!AtMost(Count(h, Wanted(k, t, M)) + Cardinality(Places(F, Lines(Wanted(k, t, M)))), m))
  BY <1>13
<1> QED
  BY <1>5, <1>14, <1>15, <1>16 DEF Answers

(* What QueryNewest says of an answer.                                        *)
FoundSince(out, k, limit, M, t) ==
  LET found == Collector!Cardinality(Collector!Since(out, k, t, M))
      held  == Collector!Cardinality(Collector!Since(history[k], k, t, M))
      last  == UNION {{<<f, i>> : i \in Collector!Since(files[f], k, t, M) \cap Collector!Recent(files[f], k, limit)} : f \in Collector!Stored}
      lines == UNION {{<<f, i>> : i \in Collector!Since(files[f], k, t, M)} : f \in Collector!Stored}
  IN  /\ found >= Collector!AtMost(held + Collector!Cardinality(last), limit)
      /\ found <= Collector!AtMost(held + Collector!Cardinality(lines), limit)

(* And in all.                                                              *)
FoundRight(out, k, limit, M) ==
  /\ Collector!InTimeOrder(out) /\ Collector!Since(out, k, 0, M) = DOMAIN out
  /\ \A t \in 0 .. now : FoundSince(out, k, limit, M, t)

(* The places it speaks of are those of the wanted points.                     *)
LEMMA SamePlaces ==
  ASSUME \A f \in DOMAIN files : files[f] \in Seq(Points), NEW k, NEW t, NEW M, NEW m, NEW W, W = Wanted(k, t, M)
  PROVE  /\ Places(Collector!Stored, Last(W, k, m))
              = UNION {{<<f, i>> : i \in Collector!Since(files[f], k, t, M) \cap Collector!Recent(files[f], k, m)} : f \in Collector!Stored}
         /\ Places(Collector!Stored, Lines(W))
              = UNION {{<<f, i>> : i \in Collector!Since(files[f], k, t, M)} : f \in Collector!Stored}
<1>1. Collector!Stored \subseteq DOMAIN files
  BY DEF Collector!Stored
<1>2. ASSUME NEW f \in Collector!Stored
      PROVE  /\ Last(W, k, m)[f] = Collector!Since(files[f], k, t, M) \cap Collector!Recent(files[f], k, m)
             /\ Lines(W)[f] = Collector!Since(files[f], k, t, M)
  <2>1. f \in DOMAIN files /\ Collector!Since(files[f], k, t, M) = Where(files[f], W)
    BY <1>1, WantedAre
  <2> QED
    BY <2>1 DEF Last, Lines
<1>3. PICK L, N : L = Last(W, k, m) /\ N = Lines(W)
  OBVIOUS
<1>4. \A f \in Collector!Stored :
        /\ L[f] = Collector!Since(files[f], k, t, M) \cap Collector!Recent(files[f], k, m)
        /\ N[f] = Collector!Since(files[f], k, t, M)
  BY <1>2, <1>3
<1>5. /\ Places(Collector!Stored, L)
           = UNION {{<<f, i>> : i \in Collector!Since(files[f], k, t, M) \cap Collector!Recent(files[f], k, m)} : f \in Collector!Stored}
      /\ Places(Collector!Stored, N)
           = UNION {{<<f, i>> : i \in Collector!Since(files[f], k, t, M)} : f \in Collector!Stored}
  BY <1>4 DEF Places
<1> QED
  BY <1>3, <1>5

(* So every query finds what it says.                                         *)
LEMMA NewestFoundHere ==
  ASSUME HistoryInv, KindsRight, FilesInv, Limits \subseteq Nat \ {0}
  PROVE  Collector!QueryNewest
<1>1. ASSUME NEW k \in Collector!Kinds, NEW limit \in Limits, NEW M, NEW out, out = Collector!Answer(k, limit, M)
      PROVE  FoundRight(out, k, limit, M)
  <2>1. Answers(out, k, limit, M)
    BY <1>1, AnswerIs
  <2>2. out \in Seq(Points) /\ Collector!InTimeOrder(out) /\ \A i \in 1 .. Len(out) : out[i].kind = k /\ out[i].n \in M
    BY <2>1 DEF Answers
  <2>3. Collector!Since(out, k, 0, M) = DOMAIN out
    <3>1. DOMAIN out = 1 .. Len(out) /\ \A i \in 1 .. Len(out) : out[i] \in Points
      BY <2>2
    <3>2. \A i \in 1 .. Len(out) : out[i].t >= 0
      BY <3>1 DEF Points
    <3> QED
      BY <2>2, <3>1, <3>2 DEF Collector!Since, Collector!Matching
  <2>4. ASSUME NEW t \in 0 .. now PROVE FoundSince(out, k, limit, M, t)
    <3>1. PICK W, held, F : W = Wanted(k, t, M) /\ held = Count(history[k], W) /\ F = Collector!Stored
      OBVIOUS
    <3>2. t \in Nat
      BY DEF HistoryInv
    <3>3. Between(Count(out, W), Collector!AtMost(held + Cardinality(Places(F, Last(W, k, limit))), limit),
                  Collector!AtMost(held + Cardinality(Places(F, Lines(W))), limit))
      BY <2>1, <3>1, <3>2 DEF Answers
    <3>4. \A f \in DOMAIN files : files[f] \in Seq(Points)
      BY DEF FilesInv, LinesSound, Apart
    <3>5. PICK last, lines :
            /\ last = UNION {{<<f, i>> : i \in Collector!Since(files[f], k, t, M) \cap Collector!Recent(files[f], k, limit)} : f \in F}
            /\ lines = UNION {{<<f, i>> : i \in Collector!Since(files[f], k, t, M)} : f \in F}
      OBVIOUS
    <3>6. Places(F, Last(W, k, limit)) = last /\ Places(F, Lines(W)) = lines
      BY <3>1, <3>4, <3>5, SamePlaces
    <3>7. /\ Collector!Cardinality(Collector!Since(out, k, t, M)) = Count(out, W)
          /\ Collector!Cardinality(Collector!Since(history[k], k, t, M)) = held
      <4>1. history[k] \in Seq(Points)
        BY DEF HistoryInv
      <4>2. Collector!Since(out, k, t, M) = Where(out, W) /\ Collector!Since(history[k], k, t, M) = Where(history[k], W)
        BY <2>2, <3>1, <4>1, WantedAre
      <4> QED
        BY <3>1, <4>2, SameCardinality DEF Count
    <3>8. Collector!Cardinality(last) = Cardinality(last) /\ Collector!Cardinality(lines) = Cardinality(lines)
      BY SameCardinality
    <3>9. /\ Count(out, W) >= Collector!AtMost(held + Cardinality(last), limit)
          /\ Count(out, W) <= Collector!AtMost(held + Cardinality(lines), limit)
      BY <3>3, <3>6 DEF Between
    <3> QED
      BY <3>1, <3>5, <3>7, <3>8, <3>9 DEF FoundSince
  <2> QED
    BY <2>2, <2>3, <2>4 DEF FoundRight
<1>2. \A k \in Collector!Kinds, limit \in Limits, M \in Filters : FoundRight(Collector!Answer(k, limit, M), k, limit, M)
  BY <1>1
<1> QED
  BY <1>2, Zenon DEF Collector!QueryNewest, FoundRight, FoundSince

(* Every query finds the newest there is, whatever it asks for, whoever has      *)
(* recorded, in whatever order late writers have left the lines and however the  *)
(* files are split: of the points that match, since any time, no more than there *)
(* are in memory and in the files, and no fewer than there are in memory and     *)
(* among the last lines of the kind in each file, as many as the limit.         *)
THEOREM NewestFound ==
  ASSUME Sane, Limits \subseteq Nat \ {0}
  PROVE  Collector!Spec => []Collector!QueryNewest
<1>1. Collector!Init => HistoryInv /\ FilesInv /\ KindsRight
  <2> SUFFICES ASSUME Collector!Init PROVE HistoryInv /\ FilesInv /\ KindsRight
    OBVIOUS
  <2>1. HistoryInv /\ FilesInv
    BY NewestAtFirst
  <2>2. KindsRight
    BY DEF Collector!Init, KindsRight, OfOne
  <2> QED
    BY <2>1, <2>2
<1>2. HistoryInv /\ FilesInv /\ KindsRight /\ [Collector!Next]_Collector!vars => (HistoryInv /\ FilesInv /\ KindsRight)'
  <2>1. ASSUME HistoryInv, FilesInv, KindsRight, Collector!Next PROVE (HistoryInv /\ FilesInv /\ KindsRight)'
    BY <2>1, NewestStep, KindsStay
  <2>2. ASSUME KindsRight, UNCHANGED Collector!vars PROVE KindsRight'
    BY <2>2 DEF Collector!vars, KindsRight, OfOne
  <2> QED
    BY <2>1, <2>2, NewestQuiet
<1> QED
  BY <1>1, <1>2, NewestFoundHere, PTL DEF Collector!Spec
=============================================================================
