---------------------------- MODULE SourceManager ----------------------------
(***************************************************************************)
(* The source manager of cmd/sdrd/source_manager.go and the SDRplay source *)
(* it manages, as the driver sees them: a source that has been stopped     *)
(* never comes back, because its Start does nothing, so all depends on the *)
(* new source.  ApplyConfig and Restart hold the manager's write lock from  *)
(* beginning to end and are one step each; ReadIQ holds its read lock and  *)
(* is the matter of module SourceRing.                                     *)
(*                                                                         *)
(* A setting stands for sample rate, center, gain, AGC and bandwidth.       *)
(* Every call of the driver that can fail may fail, MaxFaults times.  The   *)
(* mock source never fails, the replay of a file cannot be set.             *)
(***************************************************************************)
EXTENDS Naturals

CONSTANTS Settings,   (* what a source can be set to                         *)
          WithoutAGC, (* set to something, but the driver refused the AGC    *)
          MaxFaults   (* bound: calls of the driver that fail                *)

VARIABLES src,     (* m.src: its fields, what the driver does, not stopped   *)
          failures (* calls that failed                                      *)

Running(s, h) == [set |-> s, hw |-> h, alive |-> TRUE]

Failing(n) == failures + n <= MaxFaults /\ failures' = failures + n

(* newSource: New sets up the driver, without AGC; the UpdateConfig that     *)
(* follows sets the AGC, and its error is ignored.                          *)
NewSource(s, n) ==
  \/ src' = Running(s, s) /\ Failing(n)
  \/ src' = Running(s, WithoutAGC) /\ Failing(n + 1)

(* Stop, newSource fails, Start: the old source stays, and stays stopped.    *)
OldStays(n) == src' = [src EXCEPT !.alive = FALSE] /\ Failing(n + 1)

(* UpdateConfig.  It tells the driver about the fields that change only, so  *)
(* an AGC refused earlier is not repeated unless it changes too.             *)
UpdateConfig(s) ==
  /\ src.alive
  /\ \/ s = src.set /\ UNCHANGED src
     \/ s # src.set /\ src' = Running(s, s)
     \/ s # src.set /\ src.hw = WithoutAGC /\ src' = Running(s, WithoutAGC)
  /\ UNCHANGED failures

(* It fails because the source was stopped, or because the driver fails.     *)
UpdateFailures(s) ==
  (IF src.alive THEN {} ELSE {0}) \cup (IF src.alive /\ s # src.set THEN {1} ELSE {})

(* ApplyConfig returns nil.                                                 *)
ApplyConfig(s) ==
  \/ UpdateConfig(s)
  \/ \E n \in UpdateFailures(s) : NewSource(s, n)

ApplyConfigFails(s) == \E n \in UpdateFailures(s) : OldStays(n)

(* Mutant: Restart leaves a source that is stopped already alone.            *)
RestartLiving(s) == src.alive /\ (NewSource(s, 1) \/ OldStays(1))

(* A read timed out: always from a stopped source, from a living one if the  *)
(* driver has stopped calling back, which is a failure of its own.          *)
Restart(s) ==
  LET n == IF src.alive THEN 1 ELSE 0 IN NewSource(s, n) \/ OldStays(n)

SourceOK ==
  /\ src \in [set : Settings, hw : Settings \cup {WithoutAGC}, alive : BOOLEAN]
  /\ failures \in 0 .. MaxFaults
=============================================================================
