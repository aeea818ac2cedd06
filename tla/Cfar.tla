----------------------------------- MODULE Cfar -----------------------------------
(***************************************************************************)
(* The adaptive thresholds of internal/cfar.  For every bin the noise is     *)
(* estimated from train cells on either side of it, guard cells left out:    *)
(* their mean (CA), the lower or the higher of the sides' means (CASO,       *)
(* GOSCA), or the rank-th of all of them (OS).  The windows slide from bin   *)
(* to bin: what leaves is taken off, what enters is added.                   *)
(*                                                                         *)
(* Powers are small integers on a linear scale; since dividing by the number *)
(* of cells, the logarithm and the offset scaleDb are monotone, sums stand   *)
(* for thresholds.  Rounding of floating-point sums is left out.             *)
(***************************************************************************)
EXTENDS Integers, Sequences, FiniteSets, SequencesExt, FiniteSetsExt

CONSTANTS Cells,   (* length of a spectrum                                   *)
          Powers,  (* values of a bin                                        *)
          Trains, Guards, Ranks

VARIABLES spectrum, shape,   (* the input: [train, guard, rank, wrap]         *)
          thresholds         (* none yet, or of each mode                     *)

vars == <<spectrum, shape, thresholds>>

Shapes == [train : Trains, guard : Guards, rank : Ranks, wrap : BOOLEAN]

Init ==
  /\ spectrum \in [1 .. Cells -> Powers] /\ shape \in Shapes /\ thresholds = <<>>

ClampInt(v, lo, hi) == IF v < lo THEN lo ELSE IF v > hi THEN hi ELSE v

(* Bin i counted from 0, beyond the ends around them or the last one again.  *)
At(s, f, i) ==
  s[1 + IF f.wrap THEN ((i % Cells) + Cells) % Cells ELSE ClampInt(i, 0, Cells - 1)]

SumOf(s) == FoldLeft(LAMBDA a, b : a + b, 0, s)

Left(s, f)  == SumOf([k \in 1 .. f.train |-> At(s, f, 0 - f.guard - k)])
Right(s, f) == SumOf([k \in 1 .. f.train |-> At(s, f, 0 + f.guard + k)])

(* Mutant: the cell that leaves on the right is the bin before its guard.    *)
SlideAcross(s, f, w, i) ==
  [left  |-> w.left  - At(s, f, i - 1 - f.guard - f.train) + At(s, f, i - f.guard - 1),
   right |-> w.right - At(s, f, i - 1 + f.guard) + At(s, f, i + f.guard + f.train)]

(* The windows of bin i - 1 become those of bin i.                           *)
Slide(s, f, w, i) ==
  [left  |-> w.left  - At(s, f, i - 1 - f.guard - f.train) + At(s, f, i - f.guard - 1),
   right |-> w.right - At(s, f, i - 1 + f.guard + 1) + At(s, f, i + f.guard + f.train)]

Windows(s, f) ==
  FoldLeft(LAMBDA ws, i : Append(ws, Slide(s, f, Last(ws), i)),
           <<[left |-> Left(s, f), right |-> Right(s, f)]>>, [i \in 1 .. Cells - 1 |-> i])

CA(w)    == w.left + w.right
CASO(w)  == IF w.right < w.left THEN w.right ELSE w.left
GOSCA(w) == IF w.right > w.left THEN w.right ELSE w.left

(* insertSorted, removeFromSorted.                                          *)
InsertSorted(s, v) == LET n == Cardinality({i \in DOMAIN s : s[i] < v}) IN InsertAt(s, n + 1, v)
RemoveSorted(s, v) ==
  LET at == {i \in DOMAIN s : s[i] = v} IN IF at = {} THEN s ELSE RemoveAt(s, Min(at))

(* The cells of a bin sorted, one after the other put in its place.           *)
SortedCells(s, f, i) ==
  FoldLeft(InsertSorted, <<>>,
           [k \in 1 .. 2 * f.train |->
              IF k <= f.train THEN At(s, f, i - f.guard - k) ELSE At(s, f, i + f.guard + k - f.train)])

SlideSorted(s, f, win, i) ==
  LET less == RemoveSorted(RemoveSorted(win, At(s, f, i - 1 - f.guard - f.train)),
                           At(s, f, i - 1 + f.guard + 1))
      all  == InsertSorted(InsertSorted(less, At(s, f, i - f.guard - 1)), At(s, f, i + f.guard + f.train))
  IN  IF Len(all) # 2 * f.train THEN SortedCells(s, f, i) ELSE all

OSWindows(s, f) ==
  FoldLeft(LAMBDA ws, i : Append(ws, SlideSorted(s, f, Last(ws), i)),
           <<SortedCells(s, f, 0)>>, [i \in 1 .. Cells - 1 |-> i])

(* newOS: the rank is counted from 1 and lies within the window.             *)
Rank(f) == ClampInt(f.rank - 1, 0, 2 * f.train - 1)

(* Thresholds, of every mode.                                               *)
Thresholds ==
  /\ thresholds = <<>>
  /\ LET ws == Windows(spectrum, shape) os == OSWindows(spectrum, shape) IN
     thresholds' = [i \in 1 .. Cells |->
        [ca |-> CA(ws[i]), caso |-> CASO(ws[i]), gosca |-> GOSCA(ws[i]), os |-> os[i][Rank(shape) + 1]]]
  /\ UNCHANGED <<spectrum, shape>>

Next == Thresholds

Spec == Init /\ [][Next]_vars
-----------------------------------------------------------------------------
(* The cells a threshold is made of by its definition, for a bin and a side.  *)
Side(i, sign) == [k \in 1 .. shape.train |-> At(spectrum, shape, i + sign * (shape.guard + k))]

(* Sliding the windows gives at every bin, at the edges of the spectrum and  *)
(* across them, what the definition gives there: each mode's threshold is    *)
(* that of its own training cells, no cell being left behind or counted      *)
(* twice.                                                                   *)
SlidingIsDirect ==
  thresholds # <<>> =>
    \A i \in 1 .. Cells :
      LET l == Side(i - 1, -1) r == Side(i - 1, 1) all == l \o r t == thresholds[i] IN
      /\ t.ca = SumOf(l) + SumOf(r)
      /\ t.caso = Min({SumOf(l), SumOf(r)}) /\ t.gosca = Max({SumOf(l), SumOf(r)})
      /\ t.os \in Range(all)
      /\ Cardinality({k \in DOMAIN all : all[k] < t.os}) <= Rank(shape)
      /\ Cardinality({k \in DOMAIN all : all[k] <= t.os}) > Rank(shape)
=============================================================================
