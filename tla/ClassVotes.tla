------------------------------- MODULE ClassVotes -------------------------------
(***************************************************************************)
(* How an event of the detector keeps its class (updateClass): every         *)
(* classification of a signal that overlaps the event is a vote; the class   *)
(* changes when another one has enough of the last votes, and the station's  *)
(* name that RDS found is held while votes without a name come in.           *)
(*                                                                         *)
(* The votes stand in the order in which they were cast, where the code      *)
(* keeps a ring and the index of the next one.  Confidence, features and     *)
(* scores go with the class and are left out.                               *)
(***************************************************************************)
EXTENDS Integers, Sequences, FiniteSets, SequencesExt

CONSTANTS Classes,      (* what the classifier may say                        *)
          Unknown,      (* of Classes: the empty one, not counted              *)
          Names,        (* of stations                                        *)
          HistorySize,
          SwitchRatio   (* hundredths                                         *)

VARIABLES history,   (* the last votes                                        *)
          class      (* none yet, or [mod, pll]                               *)

vars == <<history, class>>

(* A PLL result is there or not, with a station's name or not.               *)
NoPLL == "no PLL"
NoName == "no name"
PLLs == {NoPLL, NoName} \cup Names

Init == history = <<>> /\ class = <<>>

Cast(mod) == IF Len(history) < HistorySize THEN Append(history, mod) ELSE Append(Tail(history), mod)
Count(votes, c) == Cardinality({i \in DOMAIN votes : votes[i] = c})

(* The share of the votes a class needs, rounded up; at least one.           *)
Threshold(votes) == (Len(votes) * SwitchRatio + 99) \div 100

(* One of the classes with the most votes, in the order of a Go map.         *)
Majorities(votes) ==
  {c \in Classes \ {Unknown} : Count(votes, c) > 0 /\ \A d \in Classes \ {Unknown} : Count(votes, d) <= Count(votes, c)}

(* Mutant: the frame's result replaces the one before, name and all.          *)
HeldPLLReplaced(old, switched, new) == IF new # NoPLL THEN new ELSE IF switched THEN NoPLL ELSE old

(* A fresh result without a name keeps the name of the one before; a switch   *)
(* on a vote without a result has none.                                      *)
HeldPLL(old, switched, new) ==
  IF new = NoPLL THEN IF switched THEN NoPLL ELSE old
  ELSE IF new = NoName /\ old \in Names THEN old ELSE new

(* updateClass.                                                             *)
UpdateClass(mod, pll) ==
  LET votes == Cast(mod) IN
  /\ history' = votes
  /\ IF class = <<>> THEN class' = <<[mod |-> mod, pll |-> pll]>>
     ELSE \E majority \in Majorities(votes) \cup {Unknown} :
       /\ majority = Unknown => Majorities(votes) = {}
       /\ LET switched == Count(votes, majority) >= Threshold(votes) /\ majority \notin {class[1].mod, Unknown}
          IN  class' = <<[mod |-> IF switched THEN majority ELSE class[1].mod,
                          pll |-> HeldPLL(class[1].pll, switched, pll)]>>

Next == \E mod \in Classes, pll \in PLLs : UpdateClass(mod, pll)

Spec == Init /\ [][Next]_vars
-----------------------------------------------------------------------------
(* The class is not swayed by a few votes, nor deaf to many: it changes only  *)
(* to one that has its share of the last votes, and whenever one has them, it *)
(* is the class.  A name that was found stays until there is another one, or  *)
(* the class changes on a vote that knows nothing of a station.              *)
VotesDecide ==
  [][class' # <<>> =>
     /\ \A c \in Classes \ {Unknown} :
          100 * Count(history', c) >= SwitchRatio * Len(history') => class'[1].mod = c
     /\ (class # <<>> /\ class'[1].mod # class[1].mod) =>
          100 * Count(history', class'[1].mod) >= SwitchRatio * Len(history')
     /\ (class # <<>> /\ class[1].pll \in Names) =>
          \/ class'[1].pll \in Names
          \/ class'[1].mod # class[1].mod /\ class'[1].pll = NoPLL]_vars
=============================================================================
