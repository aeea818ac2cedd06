------------------------------- MODULE Tracker -------------------------------
(***************************************************************************)
(* How internal/detector follows signals from frame to frame: matchSignals *)
(* pairs the events it keeps with the signals found in a new spectrum,     *)
(* moves the matched events, opens an event for each signal left over, and *)
(* ends the events that were not seen for too long.  What ends is reported *)
(* (the recorder cuts a recording for it) if it was stable and long enough, *)
(* and is forgotten silently otherwise.                                    *)
(*                                                                         *)
(* One step is one frame, and a frame is the unit of time.  Frequencies    *)
(* are points of a small line.  Signals and events are narrower than the   *)
(* least matching window, so the window is a constant, and the centre is   *)
(* stationary (centerBeta = 0, the default).  Levels, bandwidths, bins and *)
(* the class an event carries are left out.                                *)
(***************************************************************************)
EXTENDS Integers, FiniteSets, Sequences, SequencesExt

CONSTANTS Freqs,           (* centre frequencies                              *)
          Window,          (* the matching window, 20 kHz in the code         *)
          GapTolerance,    (* frames a new event may be away                  *)
          Maturity,        (* by stableHits, hundredths: 1 + ln(1 + hits/10)  *)
          MinDuration,     (* in frames                                       *)
          MinStableFrames,
          MaxID,           (* bound: events opened                            *)
          MaxHits          (* bound: stableHits and durations counted         *)

ASSUME TrackerAssumption ==
  /\ Freqs \subseteq Int /\ IsFiniteSet(Freqs)
  /\ {Window, MinDuration, MaxID, MaxHits} \subseteq Nat
  /\ GapTolerance \in Nat \ {0}   (* 0 is replaced by the hold time           *)
  /\ MinStableFrames \in Nat \ {0} /\ MinStableFrames <= MaxHits /\ MinDuration <= MaxHits
  /\ Maturity \in [1..MaxHits -> Nat \ {0}]
  /\ \A h \in 1..MaxHits - 1 : Maturity[h] <= Maturity[h + 1]

VARIABLES active,   (* the events kept, by id                                 *)
          nextID,
          tagged,   (* the signals of the last frame, with the ids they got   *)
          finished  (* ids reported, and how often                            *)

vars == <<active, nextID, tagged, finished>>

IDs == 1..MaxID

(* away is the number of frames since lastSeen, long that from start to it.  *)
Event == [center : Freqs, hits : 1..MaxHits, away : Nat, long : 0..MaxHits]

Init ==
  /\ active = <<>> /\ nextID = 1
  /\ tagged = <<>> /\ finished = [i \in IDs |-> 0]
-----------------------------------------------------------------------------
Dist(a, b) == IF a < b THEN b - a ELSE a - b

Capped(n) == IF n < MaxHits THEN n ELSE MaxHits

(* Mutant: the young events choose first.                                    *)
OrdersYoungFirst ==
  {s \in SetToSeqs(DOMAIN active) :
     \A m, n \in 1..Len(s) : m < n => active[s[m]].hits <= active[s[n]].hits}

(* The events in the order in which they choose a signal: mature ones first, *)
(* equals in any order (they come out of a map).                            *)
Orders ==
  {s \in SetToSeqs(DOMAIN active) :
     \A m, n \in 1..Len(s) : m < n => active[s[m]].hits >= active[s[n]].hits}

(* The event i chooses the nearest signal in its window that is still free,  *)
(* of two equally near the one that comes first in the spectrum.            *)
Choose(signals, match, i) ==
  LET free == signals \ {match[j] : j \in DOMAIN match}
      near == {s \in free : Dist(s, active[i].center) < Window}
      best == {s \in near : \A t \in near :
                 Dist(s, active[i].center) <= Dist(t, active[i].center)}
  IN  IF near = {} THEN match
      ELSE [j \in DOMAIN match \cup {i} |->
              IF j = i THEN CHOOSE s \in best : \A t \in best : s <= t ELSE match[j]]

(* Who gets which signal when the events choose in this order.               *)
Matching(signals, order) ==
  LET Step(match, i) == Choose(signals, match, i)
  IN  FoldLeft(Step, <<>>, order)

Matchings(signals) == {Matching(signals, order) : order \in Orders}

(* A matched event: its centre moves some of the way to the signal's.        *)
Moved(e, s, c) ==
  [center |-> c, hits |-> Capped(e.hits + 1), away |-> 0,
   long |-> Capped(e.long + e.away + 1)]

(* Where the matched events may move to.                                    *)
Centers(match) ==
  {c \in [DOMAIN match -> Freqs] :
     \A i \in DOMAIN match :
       \/ active[i].center <= c[i] /\ c[i] <= match[i]
       \/ match[i] <= c[i] /\ c[i] <= active[i].center}

Opened(s) == [center |-> s, hits |-> 1, away |-> 0, long |-> 0]

Missed(e) == [e EXCEPT !.away = @ + 1]

(* Not seen for as long as its maturity allows.                             *)
Overdue(e) == 100 * e.away >= GapTolerance * Maturity[e.hits]

(* Worth reporting when it ends.                                            *)
Notable(e) == e.long >= MinDuration /\ e.hits >= MinStableFrames

(* The ids of new events, in the order of the spectrum.                     *)
IdOf(free, s) == nextID + Cardinality({t \in free : t < s})

(* What becomes of the events, given the signals and their matching.          *)
Follow(signals, match) ==
  LET matched == DOMAIN match
      free    == signals \ {match[i] : i \in matched}
      new     == {IdOf(free, s) : s \in free}
      missed  == [i \in DOMAIN active \ matched |-> Missed(active[i])]
      kept    == {i \in DOMAIN missed : ~Overdue(missed[i])}
      ended   == {i \in DOMAIN missed : Overdue(missed[i]) /\ Notable(missed[i])}
  IN
  /\ nextID + Cardinality(free) <= MaxID + 1
  /\ nextID' = nextID + Cardinality(free)
  /\ tagged' = [s \in signals |-> IF s \in free THEN IdOf(free, s)
                                   ELSE CHOOSE i \in matched : match[i] = s]
  /\ finished' = [i \in IDs |-> IF i \in ended THEN finished[i] + 1 ELSE finished[i]]
  /\ \E c \in Centers(match) :
       active' = [i \in matched \cup new \cup kept |->
                    IF i \in matched THEN Moved(active[i], match[i], c[i])
                    ELSE IF i \in new
                    THEN Opened(CHOOSE s \in free : IdOf(free, s) = i)
                    ELSE missed[i]]

(* matchSignals.                                                            *)
Frame == \E signals \in SUBSET Freqs : \E match \in Matchings(signals) : Follow(signals, match)

Next == Frame

Spec == Init /\ [][Next]_vars
-----------------------------------------------------------------------------
(* The shape of the state.                                                  *)
TypeOK ==
  /\ DOMAIN active \subseteq IDs /\ \A i \in DOMAIN active : active[i] \in Event
  /\ nextID \in 1..MaxID + 1 /\ \A i \in DOMAIN active : i < nextID
  /\ DOMAIN tagged \subseteq Freqs

(* No signal is stolen from a more mature event: if a signal in the window   *)
(* of an event carries another id, that one was at least as mature, or the   *)
(* event took a signal that was at least as near.                           *)
NotStolen ==
  \A i \in DOMAIN active, s \in DOMAIN tagged' :
    LET j == tagged'[s]
        d == Dist(s, active[i].center) IN
    (d < Window /\ j # i) =>
      \/ j \in DOMAIN active /\ active[j].hits >= active[i].hits
      \/ \E t \in DOMAIN tagged' : tagged'[t] = i /\ Dist(t, active[i].center) <= d

MatureFirst == [][NotStolen]_vars

(* An id stands for one event: the signals of a frame and the events it saw  *)
(* belong together one to one, an id is reported at most once, never comes    *)
(* back once it is gone, and a new event gets an id nobody had.  The rest of  *)
(* the pipeline tells signals apart by these ids.                            *)
OneIdEach ==
  /\ \A s, t \in DOMAIN tagged' : tagged'[s] = tagged'[t] => s = t
  /\ {tagged'[s] : s \in DOMAIN tagged'} = {i \in DOMAIN active' : active'[i].away = 0}
  /\ \A i \in DOMAIN active' \ DOMAIN active : i >= nextID
  /\ \A i \in IDs : finished'[i] <= 1 /\ (finished'[i] > 0 => i \notin DOMAIN active')

IdsAreUnique == [][OneIdEach]_vars

(* A stable event that goes away has been away longer than GapTolerance, the *)
(* longer the more mature it was, and is reported if it lasted.             *)
EndedRightly ==
  \A i \in DOMAIN active \ DOMAIN active' :
    /\ active[i].hits >= MinStableFrames =>
         100 * (active[i].away + 1) >= GapTolerance * Maturity[MinStableFrames]
    /\ finished'[i] > 0 <=>
         active[i].hits >= MinStableFrames /\ active[i].long >= MinDuration

StableEndIsReported == [][EndedRightly]_vars

(* The same signal stays the same event, and an event's end is an end.        *)
TracksSignals == MatureFirst /\ IdsAreUnique /\ StableEndIsReported
=============================================================================
