------------------------------ MODULE MCServices ------------------------------
(* Bounds for what web clients are served from, Hub (extended here, under fair *)
(* scheduling) and Telemetry.  They share no state: a behaviour follows one of *)
(* them, named by part.                                                     *)
EXTENDS Hub, Integers

CONSTANTS r1, r2

VARIABLES part
VARIABLES now, rotated, cfg, history, point, current, writers, files, pending, conf

telemetry == <<now, rotated, cfg, history, point, current, writers, files, pending, conf>>
all       == <<part, vars, telemetry>>

Keeping(max, persist, keep, lines) ==
  [max |-> max, retention |-> 1, persist |-> persist, keep |-> keep, lines |-> lines]

Off == Keeping(1, FALSE, 2, 2)

(* What queries let through: everything, what is older, what has a name.       *)
Filters == {1 .. 4, 1 .. 2, {1, 3}}

(* Two goroutines that record, reconfigurations to and from files: short ones *)
(* of which one is kept, or longer ones of which two are.                     *)
Short == INSTANCE Telemetry WITH
           Recorders <- {r1, r2}, Configs <- {Off, Keeping(1, TRUE, 1, 1)}, Limits <- {1, 2}, Filters <- Filters,
           DiskFails <- TRUE, MaxPoint <- 4, MaxConfigure <- 2, MaxTime <- 1

Long == INSTANCE Telemetry WITH
          Recorders <- {r1, r2}, Configs <- {Off, Keeping(2, TRUE, 2, 3)}, Limits <- {1, 2}, Filters <- Filters,
          DiskFails <- FALSE, MaxPoint <- 4, MaxConfigure <- 1, MaxTime <- 2

(* What is not followed starts in a single state, and stays there.            *)
PartInit ==
  /\ part \in {"hub", "short", "long"}
  /\ Init /\ Short!Init

Serves(A) == part = "hub" /\ A /\ UNCHANGED <<part, telemetry>>

PartNext ==
  \/ Serves(Next)
  \/ part = "short" /\ Short!Next /\ UNCHANGED <<part, vars>>
  \/ part = "long" /\ Long!Next /\ UNCHANGED <<part, vars>>

(* The fairness of Hub.                                                     *)
PartSpec ==
  /\ PartInit /\ [][PartNext]_all
  /\ WF_all(Serves(\E c \in Clients : BroadcastTo(c)))
  /\ \A c \in Clients :
       WF_all(Serves(Write(c) \/ WriterEnds(c))) /\ WF_all(Serves(ReaderEnds(c)))

-----------------------------------------------------------------------------
(* Telemetry's files and histories lose the oldest points only.               *)
KeepsNewest == Short!KeepsNewest

(* A telemetry query answers with the newest of its kind that match, as far as *)
(* they are in memory or among the last lines of a file.                      *)
QueryNewest == Short!QueryNewest

(* What the documentation says: it answers with the most recent that match.    *)
MatchingRetained == Short!MatchingRetained
=============================================================================
