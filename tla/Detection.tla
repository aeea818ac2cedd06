-------------------------------- MODULE Detection --------------------------------
(***************************************************************************)
(* How the detector finds signals in a smoothed spectrum: bins above a       *)
(* threshold with hysteresis, whose edges are expanded and which are merged  *)
(* (detectSignals), contiguous occupied bands (detectOccupancy), or runs of  *)
(* several integration scales over a baseline (detectMultiScale).            *)
(*                                                                         *)
(* Bins are numbered from 1 and hold small integers: steps of EdgeMarginDb   *)
(* where the code works on decibels, powers where it works on those.  Noise  *)
(* estimates that set the thresholds of the scales are inputs.  The centroid *)
(* and the smoothing are left out.                                          *)
(***************************************************************************)
EXTENDS Integers, Sequences, FiniteSets, SequencesExt, FiniteSetsExt

CONSTANTS Bins,      (* length of a spectrum, odd                            *)
          Values,    (* of a bin                                             *)
          Thresholds, Hysteresis, GapBins,      (* detectSignals             *)
          Far, Near,                            (* probes of expandSignalEdges *)
          OccThresh, OccMinPeak, OccMinBws, OccGaps, OccDrops, OccWidths,  (* detectOccupancy *)
          Opening, Scales, ThresholdAt(_), Cut, MinGap, MinBw, MinSNR      (* detectMultiScale;
                        the SNR a ratio, in hundredths                      *)

VARIABLES smooth, how,   (* the input: the spectrum, the detector's options   *)
          signals        (* none yet, or what was found                      *)

vars == <<smooth, how, signals>>

Options ==
  [by : {"threshold"}, on : Thresholds, gap : GapBins]
  \cup [by : {"occupancy"}, gap : OccGaps, drop : OccDrops, width : OccWidths, least : OccMinBws]
  \cup [by : {"scales"}, h : Opening]

Init == smooth \in [1 .. Bins -> Values] /\ how \in Options /\ signals = {}

Bin == 1 .. Bins
InOrder(S) == SetToSortSeq(S, LAMBDA a, b : a < b)
Median(s)  == SortSeq([i \in Bin |-> s[i]], LAMBDA a, b : a < b)[(Bins + 1) \div 2]
PeakOf(s, a, b) == CHOOSE p \in a .. b : \A q \in a .. b : s[q] < s[p] \/ (s[q] = s[p] /\ p <= q)
-----------------------------------------------------------------------------
(* detectSignals with its hysteresis.                                       *)
Crossings(s, on) ==
  LET Step(st, i) ==
        CASE s[i] >= on /\ ~st.in ->
               [st EXCEPT !.in = TRUE, !.start = i, !.peak = i]
          [] s[i] >= on /\ st.in ->
               [st EXCEPT !.peak = IF s[i] > s[st.peak] THEN i ELSE @]
          [] s[i] < on - Hysteresis /\ st.in ->
               [st EXCEPT !.in = FALSE, !.found = Append(@, [first |-> st.start, last |-> i - 1, peak |-> s[st.peak]])]
          [] OTHER -> st
      end == FoldLeft(Step, [in |-> FALSE, start |-> 1, peak |-> 1, found |-> <<>>], [i \in Bin |-> i])
  IN  IF end.in THEN Append(end.found, [first |-> end.start, last |-> Bins, peak |-> s[end.peak]]) ELSE end.found

MinInRange(s, a, b) == Min({s[i] : i \in {j \in Bin : a <= j /\ j <= b}})

(* The noise beside a signal, or everywhere if the probes leave the spectrum.*)
LocalNoise(s, g) ==
  IF g.first - Far >= 1 /\ g.last + Far <= Bins
  THEN Min({MinInRange(s, g.first - Far, g.first - Near), MinInRange(s, g.last + Near, g.last + Far)})
  ELSE Median(s)

(* An edge goes outwards while the bin there is more than the margin above    *)
(* the noise and no rise far below the peak, where a neighbour begins.        *)
MayExpand(s, g, from, to) ==
  /\ s[to] > LocalNoise(s, g) + 1
  /\ ~(s[to] > s[from] /\ s[to] < g.peak - 2)

Expanded(s, g) ==
  LET firsts == {a \in 1 .. g.first : \A i \in a .. g.first - 1 : MayExpand(s, g, i + 1, i)}
      lasts  == {b \in g.last .. Bins : \A i \in g.last + 1 .. b : MayExpand(s, g, i - 1, i)}
  IN  [g EXCEPT !.first = Min(firsts), !.last = Max(lasts)]

(* mergeOverlapping: signals no more than gap bins apart become one.         *)
MergeOverlapping(gs, gap) ==
  LET sorted == SortSeq(gs, LAMBDA a, b : a.first < b.first)
      Merge(ms, g) ==
        IF ms # <<>> /\ g.first - Last(ms).last - 1 <= gap
        THEN [ms EXCEPT ![Len(ms)] =
                [first |-> @.first, last |-> Max({@.last, g.last}), peak |-> Max({@.peak, g.peak})]]
        ELSE Append(ms, g)
  IN  FoldLeft(Merge, <<>>, sorted)

ByThreshold(s, o) ==
  LET found == Crossings(s, o.on)
  IN  MergeOverlapping([i \in DOMAIN found |-> Expanded(s, found[i])], o.gap)
-----------------------------------------------------------------------------
(* detectOccupancy: runs above the floor, short gaps bridged, ...            *)
Runs(s, thr, gap) ==
  LET Step(rs, i) ==
        IF s[i] < thr THEN rs
        ELSE IF rs # <<>> /\ i - Last(rs).last - 1 <= gap
        THEN [rs EXCEPT ![Len(rs)] = [first |-> @.first, last |-> i]]
        ELSE Append(rs, [first |-> i, last |-> i])
  IN  FoldLeft(Step, <<>>, [i \in Bin |-> i])

(* ... trimmed to what is near the peak, ...                                 *)
Trimmed(s, r, drop) ==
  LET peak == PeakOf(s, r.first, r.last)
      near == {i \in r.first .. r.last : i = peak \/ s[i] >= s[peak] - drop}
  IN  IF drop = 0 THEN r ELSE [first |-> Min(near), last |-> Max(near)]

(* ... and cut to a width about the middle.  The middle is that of bins       *)
(* counted from 0.                                                          *)
Capped(r, width) ==
  LET mid == (r.first + r.last - 2) \div 2 + 1
      half == width \div 2
  IN  IF width = 0 \/ r.last - r.first + 1 <= width THEN r
      ELSE [first |-> Max({1, mid - half}), last |-> Min({Bins, mid + half})]

ByOccupancy(s, o) ==
  LET floor == Median(s)
      Found(r) == Capped(Trimmed(s, r, o.drop), o.width) @@ [peak |-> s[PeakOf(s, r.first, r.last)]]
      runs  == Runs(s, floor + OccThresh, o.gap)
  IN  SelectSeq([i \in DOMAIN runs |-> Found(runs[i])],
                    LAMBDA g : g.peak >= floor + OccMinPeak /\ g.last - g.first + 1 >= o.least)
-----------------------------------------------------------------------------
(* detectMultiScale.                                                        *)
Extreme(S, least) == IF least THEN Min(S) ELSE Max(S)

(* slidingExtremeInto: of every window of half-width h, with a queue of the   *)
(* bins that may still be the extreme one.                                  *)
SlidingExtreme(a, h, least) ==
  LET Beats(x, y) == IF least THEN x < y ELSE x > y
      Step(st, i) ==
        LET stay == {k \in DOMAIN st.q : Beats(a[st.q[k]], a[i])}
            q1   == IF i > Bins THEN st.q ELSE Append(SubSeq(st.q, 1, Max(stay \cup {0})), i)
            c    == i - h
            q2   == SelectSeq(q1, LAMBDA b : b >= c - h)
        IN  IF c < 1 THEN [st EXCEPT !.q = q1] ELSE [q |-> q2, out |-> Append(st.out, a[q2[1]])]
  IN  FoldLeft(Step, [q |-> <<>>, out |-> <<>>], [i \in 1 .. Bins + h |-> i]).out

(* boxavgInto: the sum and the width of every window, its sum carried along.  *)
BoxSums(a, h) ==
  LET Step(st, i) ==
        LET lo  == Max({1, i - h}) hi == Min({Bins, i + h})
            in  == FoldLeft(LAMBDA n, k : n + a[k], 0, [k \in 1 .. hi - st.hi |-> st.hi + k])
            out == FoldLeft(LAMBDA n, k : n + a[k], 0, [k \in 1 .. lo - st.lo |-> st.lo + k - 1])
            sum == st.sum + in - out
        IN  [lo |-> lo, hi |-> hi, sum |-> sum, all |-> Append(st.all, [sum |-> sum, n |-> hi - lo + 1])]
  IN  FoldLeft(Step, [lo |-> 1, hi |-> 0, sum |-> 0, all |-> <<>>], [i \in Bin |-> i]).all

(* The baseline, the opening of half-width h, and what is left over it.       *)
Baseline(s, h) == SlidingExtreme(SlidingExtreme(s, h, TRUE), h, FALSE)

Residual(s, base) == [i \in Bin |-> IF s[i] < base[i] THEN 0 ELSE s[i] - base[i]]

HasNoiseGap(res, a, b) ==
  \E i \in a .. b : i + MinGap - 1 <= b /\ \A k \in i .. i + MinGap - 1 : res[k] * 100 <= Cut

Meet(r, q) == r.first <= q.last /\ r.last >= q.first

(* The runs of one scale above its threshold are taken up one by one: one     *)
(* that meets none is new, one that meets some and is filled replaces them.   *)
Exceeding(box, h) == {i \in Bin : box[i].sum * 100 > ThresholdAt(h) * box[i].n}

RunOf(over, i) == [first |-> i, last |-> Max({j \in i .. Bins : i .. j \subseteq over})]

RunsOf(over) ==
  LET firsts == InOrder({i \in over : i - 1 \notin over})
  IN  [k \in DOMAIN firsts |-> RunOf(over, firsts[k])]

ScaleRuns(res, h) == RunsOf(Exceeding(BoxSums(res, h), h))

(* Mutant: a coarser run takes the place of those it meets, gap or not.      *)
TakeUpAlways(res, final, r) == Append(SelectSeq(final, LAMBDA f : ~Meet(f, r)), r)

TakeUp(res, final, r) ==
  IF ~\E i \in DOMAIN final : Meet(final[i], r) THEN Append(final, r)
  ELSE IF HasNoiseGap(res, r.first, r.last) THEN final
  ELSE Append(SelectSeq(final, LAMBDA f : ~Meet(f, r)), r)

Fused(res) ==
  FoldLeft(LAMBDA final, h : FoldLeft(LAMBDA f, r : TakeUp(res, f, r), final, ScaleRuns(res, h)), <<>>, Scales)

(* Wide enough, and far enough above the baseline at its peak.               *)
Stands(s, base, r) ==
  LET p == PeakOf(s, r.first, r.last)
  IN  r.last - r.first + 1 >= MinBw /\ s[p] * 100 >= base[p] * MinSNR

WithPeaks(s, rs) == [i \in DOMAIN rs |-> rs[i] @@ [peak |-> s[PeakOf(s, rs[i].first, rs[i].last)]]]

Standing(s, base) == SelectSeq(Fused(Residual(s, base)), LAMBDA r : Stands(s, base, r))

ByScales(s, o) == WithPeaks(s, Standing(s, Baseline(s, o.h)))
-----------------------------------------------------------------------------
Detected ==
  CASE how.by = "threshold" -> ByThreshold(smooth, how)
    [] how.by = "occupancy" -> ByOccupancy(smooth, how)
    [] how.by = "scales"    -> ByScales(smooth, how)

Detect ==
  /\ signals = {}
  /\ signals' = ToSet(Detected) /\ signals' # {}
  /\ UNCHANGED <<smooth, how>>

Next == Detect

Spec == Init /\ [][Next]_vars
-----------------------------------------------------------------------------
(* The runs of the finest scale; those of them that stand out; and whether a   *)
(* band reaches over a gap of noise from one of them to the next.             *)
Finest(res) == ToSet(ScaleRuns(res, Head(Scales)))

StandingFinest(s, base) == {r \in Finest(Residual(s, base)) : Stands(s, base, r)}

BridgesGap(g, res) ==
  \E r, q \in {f \in Finest(res) : Meet(g, f)} : HasNoiseGap(res, r.last + 1, q.first - 1)

(* Whatever the detector, the tracker gets bands that lie in the spectrum and *)
(* apart from each other (by more than the merge gap where there is one), and *)
(* two emissions with a gap of noise between them, each found by the finest   *)
(* scale, are never one band of the multi-scale detector.                    *)
SignalsApart ==
  /\ \A g \in signals : 1 <= g.first /\ g.first <= g.last /\ g.last <= Bins
  /\ \A g, f \in signals : g # f =>
       IF how.by = "threshold"
       THEN g.first - f.last - 1 > how.gap \/ f.first - g.last - 1 > how.gap
       ELSE ~Meet(g, f)
  /\ how.by = "scales" =>
       \A g \in signals : ~BridgesGap(g, Residual(smooth, Baseline(smooth, how.h)))

(* No emission is lost on the way: a bin that crosses the threshold, the peak *)
(* of an occupied run that is strong enough, or a bin of a run of the finest  *)
(* scale that stands out, lies in a band that is found, and the band's peak   *)
(* is at least as strong.  Only the cap on an occupied band's width may leave *)
(* the peak out, when it is off the middle, and only a least width may drop   *)
(* it.                                                                      *)
EmissionsKept ==
  LET Covered(i) == \E g \in signals : g.first <= i /\ i <= g.last /\ g.peak >= smooth[i] IN
  signals # {} =>
    CASE how.by = "threshold" -> \A i \in Bin : smooth[i] >= how.on => Covered(i)
      [] how.by = "occupancy" /\ how.width = 0 /\ how.least <= 1 ->
           LET floor == Median(smooth) runs == Runs(smooth, floor + OccThresh, how.gap) IN
           \A k \in DOMAIN runs :
             LET p == PeakOf(smooth, runs[k].first, runs[k].last)
             IN  smooth[p] >= floor + OccMinPeak => Covered(p)
      [] how.by = "scales" ->
           \A r \in StandingFinest(smooth, Baseline(smooth, how.h)) :
             \A i \in r.first .. r.last : Covered(i)
      [] OTHER -> TRUE

(* The baseline's queue and the carried sums give what their windows define:  *)
(* the least or greatest value in reach of each bin and the sum of those, at  *)
(* the edges too; and the baseline is nowhere above the spectrum, so that no  *)
(* residual is clamped.                                                     *)
WindowsExact ==
  how.by = "scales" =>
    LET Near_(i) == {j \in Bin : i - how.h <= j /\ j <= i + how.h}
        box == BoxSums(smooth, how.h)
        low == SlidingExtreme(smooth, how.h, TRUE)
        base == SlidingExtreme(low, how.h, FALSE)
    IN  \A i \in Bin :
          /\ low[i] = Min({smooth[j] : j \in Near_(i)})
          /\ base[i] = Max({low[j] : j \in Near_(i)})
          /\ base[i] <= smooth[i]
          /\ box[i].n = Cardinality(Near_(i))
          /\ box[i].sum = FoldLeft(LAMBDA n, j : n + smooth[j], 0, SetToSeq(Near_(i)))

(* Every emission is found, and found apart from the others.                 *)
EmissionsFound == SignalsApart /\ EmissionsKept
=============================================================================
