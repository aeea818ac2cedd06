--------------------------------- MODULE Fusion ---------------------------------
(***************************************************************************)
(* How what several detectors found in one frame becomes one list of         *)
(* candidates: FuseCandidates adds the observations of coarser levels to the  *)
(* primary's candidates, FuseScaleAware uses a finer pass to split what the   *)
(* primary bridged.  Before either, what lies outside the configured bands is *)
(* dropped.                                                                 *)
(*                                                                         *)
(* A candidate has a centre, an even width and a level of the SNR; positions  *)
(* are even, so that edges and midpoints are integers.                       *)
(***************************************************************************)
EXTENDS Integers, Sequences, FiniteSets, SequencesExt, FiniteSetsExt

CONSTANTS Primaries,   (* what the primary detector may find: sequences of bands *)
          Seconds,     (* what the derived or the sharp detectors may find    *)
          Bands,       (* the bands of interest that may be configured        *)
          BinOf,       (* width of a bin of each level, even                  *)
          MinSplitSNR, MinSplitSeparation

VARIABLES found, other,  (* the two inputs, other of a level each             *)
          bands, how,
          candidates     (* none yet, or what refinement gets                 *)

vars == <<found, other, bands, how, candidates>>

(* A detected band becomes a candidate with the evidence of its level; the    *)
(* ids of the second detectors are in blocks of their own.                   *)
CandidatesFromSignals(s) ==
  [i \in DOMAIN s |-> [level |-> s[i].level, at |-> s[i].at, bw |-> s[i].bw, snr |-> s[i].snr,
                       id |-> <<s[i].level, i>>, evidence |-> {s[i].level}]]

(* GateSignalsToBands: without bands everything passes, else what lies in one. *)
Gate(out, g) == IF \E b \in bands : b[1] <= g.at /\ g.at <= b[2] THEN Append(out, g) ELSE out

GateSignalsToBands(s) == IF bands = {} THEN s ELSE FoldLeft(Gate, <<>>, s)

Init ==
  /\ found \in Primaries /\ other \in Seconds
  /\ bands \in Bands /\ how \in {"levels", "scales"}
  /\ how = "scales" => \A i \in DOMAIN other : other[i].level = "sharp"
  /\ how = "levels" => \A i \in DOMAIN other : other[i].level # "sharp"
  /\ candidates = <<>>
-----------------------------------------------------------------------------
Left(c)  == c.at - c.bw \div 2
Right(c) == c.at + c.bw \div 2

(* Two candidates overlap up to half a bin of the coarser level.             *)
Overlap(a, b) ==
  LET guard == Max({BinOf[a.level], BinOf[b.level]}) \div 2
  IN  Left(a) - guard <= Right(b) + guard /\ Left(b) - guard <= Right(a) + guard

(* FuseCandidates: the primaries in turn take what overlaps them and has not  *)
(* been taken; what is left follows as candidates of their own.              *)
Take(ps, ds, st, i) ==
  LET mine == {j \in DOMAIN ds : j \notin st.used /\ Overlap(ps[i], ds[j])}
  IN  [used |-> st.used \cup mine,
       out  |-> Append(st.out, [ps[i] EXCEPT !.evidence = @ \cup UNION {ds[j].evidence : j \in mine}])]

Taken(ps, ds) ==
  FoldLeft(LAMBDA st, i : Take(ps, ds, st, i), [used |-> {}, out |-> <<>>], [i \in DOMAIN ps |-> i])

Leave(ds, used, out, j) == IF j \in used THEN out ELSE Append(out, ds[j])

FuseCandidates(ps, ds) ==
  LET taken == Taken(ps, ds)
  IN  FoldLeft(LAMBDA out, j : Leave(ds, taken.used, out, j), taken.out, [j \in DOMAIN ds |-> j])

(* CandidateEvidenceStateFor: what the evidence says of a candidate.  The      *)
(* sharp pass has the primary's level.                                      *)
EvidenceState(c) ==
  LET levels == {IF l = "sharp" THEN "primary" ELSE l : l \in c.evidence}
  IN  [detection |-> Cardinality(levels),
       derivedOnly |-> "primary" \notin levels,
       confirmed |-> Cardinality(levels) >= 2]
-----------------------------------------------------------------------------
(* FuseScaleAware.  Of the fine candidates only the significant count.        *)
Significant(fine) ==
  SortSeq(SelectSeq(fine, LAMBDA f : f.snr >= MinSplitSNR), LAMBDA a, b : a.at < b.at)

(* Mutant: of two too close to each other the first one stays.                *)
DropUnseparatedFirst(fs) ==
  LET Keep(kept, f) ==
        IF kept # <<>> /\ f.at - Last(kept).at < MinSplitSeparation THEN kept ELSE Append(kept, f)
  IN  FoldLeft(Keep, <<>>, fs)

(* Of two closer than the separation the stronger one stays.                  *)
DropUnseparated(fs) ==
  LET Keep(kept, f) ==
        IF kept # <<>> /\ f.at - Last(kept).at < MinSplitSeparation
        THEN IF f.snr > Last(kept).snr THEN Append(Front(kept), f) ELSE kept
        ELSE Append(kept, f)
  IN  FoldLeft(Keep, <<>>, fs)

(* The parts of a coarse candidate, cut halfway between its fine centres.     *)
Children(c, fs) ==
  LET Lo(n) == IF n = 1 THEN Left(c) ELSE (fs[n-1].at + fs[n].at) \div 2
      Hi(n) == IF n = Len(fs) THEN Right(c) ELSE (fs[n].at + fs[n+1].at) \div 2
  IN  [n \in DOMAIN fs |-> [fs[n] EXCEPT !.bw = Hi(n) - Lo(n), !.evidence = @ \cup c.evidence]]

Split(c, fs) ==
  CASE fs = <<>>    -> <<c>>
    [] Len(fs) = 1 -> <<[c EXCEPT !.at = fs[1].at]>>
    [] OTHER       -> Children(c, fs)

FuseScaleAware(coarse, fine) ==
  LET sig == Significant(fine)
      Inside(c, left) == SelectSeq(left, LAMBDA f : Left(c) <= f.at /\ f.at <= Right(c))
      Step(st, c) ==
        [left |-> SelectSeq(st.left, LAMBDA f : f.at < Left(c) \/ Right(c) < f.at),
         out  |-> st.out \o Split(c, DropUnseparated(Inside(c, st.left)))]
      end == FoldLeft(Step, [left |-> sig, out |-> <<>>], coarse)
  IN  IF coarse = <<>> THEN fine ELSE SortSeq(end.out \o end.left, LAMBDA a, b : a.at < b.at)
-----------------------------------------------------------------------------
Fuse ==
  /\ candidates = <<>>
  /\ LET first == CandidatesFromSignals(GateSignalsToBands(found))
         second == CandidatesFromSignals(other)
         all == IF how = "levels" THEN FuseCandidates(first, second)
                ELSE FuseScaleAware(first, CandidatesFromSignals(GateSignalsToBands(other)))
     IN  all # <<>> /\ candidates' = all
  /\ UNCHANGED <<found, other, bands, how>>

Next == Fuse

Spec == Init /\ [][Next]_vars
-----------------------------------------------------------------------------
(* An observation counts once.  No candidate is confirmed by more levels than *)
(* observed something where it lies, and no observation confirms two: the     *)
(* candidates that a level confirms, and those of its own, are as many as its *)
(* observations at most.  No observation is lost either: each is among the    *)
(* evidence of a candidate it overlaps.                                      *)
ObservedOnce ==
  (how = "levels" /\ candidates # <<>>) =>
    LET all == CandidatesFromSignals(other)
        of(l) == {j \in DOMAIN other : other[j].level = l}
    IN  /\ \A l \in DOMAIN BinOf \ {"primary"} :
             Cardinality({i \in DOMAIN candidates : l \in candidates[i].evidence}) <= Cardinality(of(l))
        /\ \A j \in DOMAIN all : \E i \in DOMAIN candidates :
             all[j].level \in candidates[i].evidence /\ Overlap(candidates[i], all[j])
        /\ \A i \in DOMAIN candidates :
             EvidenceState(candidates[i]).confirmed =>
               \E j \in DOMAIN all : all[j].id # candidates[i].id /\ Overlap(candidates[i], all[j])

(* The two passes agree on how many emissions there are and how wide.  Every  *)
(* significant fine emission is a candidate's centre, unless a neighbour      *)
(* closer than the separation, at least as strong, is why it was given up;    *)
(* the centres within one coarse band keep that separation, the widths there  *)
(* add up to the band's, and no two candidates have one id.                   *)
SplitRightly ==
  (how = "scales" /\ candidates # <<>>) =>
    LET coarse == CandidatesFromSignals(GateSignalsToBands(found))
        sig    == Significant(CandidatesFromSignals(GateSignalsToBands(other)))
        at(c)  == {i \in DOMAIN candidates :
                     candidates[i].id = c.id
                       \/ (c.evidence \subseteq candidates[i].evidence
                             /\ Left(c) <= candidates[i].at /\ candidates[i].at <= Right(c))}
    IN  coarse # <<>> =>
        /\ \A k \in DOMAIN sig :
             \/ \E i \in DOMAIN candidates : candidates[i].at = sig[k].at
             \/ \E n \in DOMAIN sig : /\ n # k /\ sig[n].snr >= sig[k].snr
                                      /\ sig[n].at - sig[k].at < MinSplitSeparation
                                      /\ sig[k].at - sig[n].at < MinSplitSeparation
        /\ \A k \in DOMAIN coarse :
             /\ \A i, j \in at(coarse[k]) :
                  i < j => candidates[j].at - candidates[i].at >= MinSplitSeparation
             /\ FoldSet(LAMBDA i, n : n + candidates[i].bw, 0, at(coarse[k])) = coarse[k].bw
        /\ \A i, j \in DOMAIN candidates : i # j => candidates[i].id # candidates[j].id

(* What several passes saw becomes one list, without a loss and without       *)
(* anything twice.                                                          *)
FusedRightly == ObservedOnce /\ SplitRightly
=============================================================================
