------------------------------ MODULE RDSWorkers ------------------------------
(***************************************************************************)
(* The RDS and stereo decoders of cmd/sdrd/pipeline_runtime.go.  For each   *)
(* broadcast signal the DSP loop keeps a state in rt.rdsMap, with a buffer *)
(* of many megabytes and a decoder that puts the station's name together   *)
(* over several decodes.  Every few seconds a goroutine decodes the last    *)
(* seconds of IQ; a busy flag, not a lock, keeps it alone with its state.   *)
(*                                                                         *)
(* A state lives in a slot; one that maintenance has thrown out of the map  *)
(* lives on until its goroutine ends.  Time is counted in frames.           *)
(***************************************************************************)
EXTENDS Naturals, FiniteSets

CONSTANTS Ids,       (* tracked signals                                      *)
          Slots,     (* bound: states that exist at the same time            *)
          Every,     (* frames between two decodes (4 s in the code)         *)
          Forget,    (* frames after which an unseen state goes (30 s)       *)
          Pieces     (* decodes it takes to get a name                       *)

ASSUME RDSWorkersAssumption == Ids # {}

VARIABLES rdsMap,         (* the slots in the map, one for each of some ids   *)
          of,             (* each slot: the signal its state is for          *)
          lastSeen, lastDecode, (* frames since                              *)
          busy, workers,  (* the flag; goroutines at work on the state       *)
          heard,          (* decodes so far                                  *)
          name,           (* st.result.PS is set                             *)
          running,        (* a frame is in work                              *)
          todo, display,  (* the frame: signals to refine still; on display  *)
          steady,         (* refined and on display in this frame            *)
          shown           (* the signals that carried their name last        *)

states == <<of, lastSeen, lastDecode, busy, workers, heard, name>>
frame  == <<running, todo, display, steady>>
vars   == <<rdsMap, states, frame, shown>>

Init ==
  /\ rdsMap = {} /\ of \in [Slots -> {CHOOSE i \in Ids : TRUE}]
  /\ lastSeen = [s \in Slots |-> 0] /\ lastDecode = [s \in Slots |-> 0]
  /\ busy = [s \in Slots |-> FALSE] /\ workers = [s \in Slots |-> 0]
  /\ heard = [s \in Slots |-> 0] /\ name = [s \in Slots |-> FALSE]
  /\ running = FALSE /\ todo = {} /\ display = {} /\ steady = {} /\ shown = {}

Aged(f, max) == [s \in Slots |-> IF f[s] < max THEN f[s] + 1 ELSE max]

(* A frame: some signals are refined as wide FM, some are on display; either *)
(* may lack the other (not admitted, not stable, out of the bands), and there *)
(* may be none.                                                             *)
BeginFrame ==
  /\ ~running /\ running' = TRUE
  /\ \E t \in SUBSET Ids, d \in SUBSET Ids :
       todo' = t /\ display' = d /\ steady' = t \cap d
  /\ lastSeen' = Aged(lastSeen, Forget + 1)
  /\ lastDecode' = Aged(lastDecode, Every)
  /\ UNCHANGED <<rdsMap, of, busy, workers, heard, name, shown>>
-----------------------------------------------------------------------------
(* updateRDS for one signal.                                                *)

SlotFor(i) ==
  LET mine == {s \in rdsMap : of[s] = i}
      free == {s \in Slots \ rdsMap : workers[s] = 0}
  IN  IF mine # {} THEN mine
      ELSE IF free # {} THEN {CHOOSE s \in free : TRUE} ELSE {}

Stale(s) == lastSeen[s] > Forget /\ ~busy[s]

(* Mutant: the busy flag is not asked.                                       *)
MayDecodeAnyway(s, new) == new \/ lastDecode[s] >= Every

MayDecode(s, new) == new \/ (lastDecode[s] >= Every /\ ~busy[s])

UpdateRDS(i) ==
  /\ i \in todo /\ todo' = todo \ {i}
  /\ \E s \in SlotFor(i) :
       LET new    == s \notin rdsMap
           starts == MayDecode(s, new)
       IN  /\ of' = [of EXCEPT ![s] = i]
           /\ lastSeen' = [lastSeen EXCEPT ![s] = 0]
           /\ rdsMap' = {r \in rdsMap : r = s \/ ~Stale(r)} \cup {s}
           /\ lastDecode' = IF starts THEN [lastDecode EXCEPT ![s] = 0] ELSE lastDecode
           /\ busy' = IF starts THEN [busy EXCEPT ![s] = TRUE] ELSE busy
           /\ workers' = IF starts THEN [workers EXCEPT ![s] = @ + 1] ELSE workers
           /\ heard' = IF new THEN [heard EXCEPT ![s] = 0] ELSE heard
           /\ name' = IF new THEN [name EXCEPT ![s] = FALSE] ELSE name
           /\ shown' = IF name'[s] THEN shown \cup {i} ELSE shown \ {i}
  /\ UNCHANGED <<running, display, steady>>

(* Mutant: the map is pruned by something that is never the signal's id.     *)
MaintenanceWrongKey ==
  /\ running /\ todo = {} /\ running' = FALSE
  /\ rdsMap' = {} /\ display' = {}
  /\ UNCHANGED <<states, todo, steady, shown>>

(* maintenance: the states of signals that are not on display go, busy or   *)
(* not; all of them where nothing is.                                        *)
Maintenance ==
  /\ running /\ todo = {} /\ running' = FALSE
  /\ rdsMap' = {s \in rdsMap : of[s] \in display}
  /\ display' = {}
  /\ UNCHANGED <<states, todo, steady, shown>>
-----------------------------------------------------------------------------
(* The goroutine: it decodes, and what it hears is kept in the state...      *)
Decode(s) ==
  /\ workers[s] > 0
  /\ workers' = [workers EXCEPT ![s] = @ - 1]
  /\ busy' = [busy EXCEPT ![s] = FALSE]
  /\ heard' = [heard EXCEPT ![s] = IF @ < Pieces THEN @ + 1 ELSE @]
  /\ name' = [name EXCEPT ![s] = @ \/ heard'[s] = Pieces]
  /\ UNCHANGED <<rdsMap, of, lastSeen, lastDecode, frame, shown>>

(* ... or there is not enough IQ, or no RDS in it.                           *)
GiveUp(s) ==
  /\ workers[s] > 0
  /\ workers' = [workers EXCEPT ![s] = @ - 1]
  /\ busy' = [busy EXCEPT ![s] = FALSE]
  /\ UNCHANGED <<rdsMap, of, lastSeen, lastDecode, heard, name, frame, shown>>

DSP == BeginFrame \/ (\E i \in Ids : UpdateRDS(i)) \/ Maintenance

Next == DSP \/ \E s \in Slots : Decode(s) \/ GiveUp(s)

Spec == Init /\ [][Next]_vars

(* The DSP loop runs; a goroutine ends; the ring fills, so that decoding     *)
(* again and again cannot always fail.                                      *)
FairSpec ==
  /\ Spec /\ WF_vars(DSP)
  /\ \A s \in Slots : SF_vars(Decode(s)) /\ WF_vars(Decode(s) \/ GiveUp(s))
-----------------------------------------------------------------------------
(* A state, with its buffer, scratch space and decoder, is used by one       *)
(* goroutine at a time, whatever is pruned and taken up again, and a signal *)
(* has one state in the map.                                                *)
OneWorker ==
  /\ \A s \in Slots : workers[s] <= 1 /\ (workers[s] = 1 <=> busy[s])
  /\ \A r, s \in rdsMap : of[r] = of[s] => r = s

(* A signal that from some time on is refined and displayed in every frame  *)
(* gets its name in the end and keeps it: pruning never throws away what    *)
(* its decoder has heard so far.                                            *)
NamesArrive == \A i \in Ids : <>[](i \in steady) => <>[](i \in shown)
=============================================================================
