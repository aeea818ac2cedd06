--------------------------------- MODULE Hub ---------------------------------
(***************************************************************************)
(* The spectrum hub of cmd/sdrd/hub.go and the two goroutines the /ws      *)
(* handler of ws_handlers.go runs for each client: a writer that empties   *)
(* the client's channel and pings, and a reader that changes the client's  *)
(* settings and notices, by its read deadline, that no pong comes any more. *)
(* The DSP loop broadcasts frames; it must never wait for a client.        *)
(*                                                                         *)
(* A frame is its number.  Its encoding (JSON or binary) is left out, and  *)
(* with it the client's choice between them.  frameSkip is 15 / fps.       *)
(***************************************************************************)
EXTENDS Naturals, Sequences, FiniteSets

CONSTANTS Clients,
          Cap,        (* capacity of c.send (64 in the code)                 *)
          Skips,      (* values of frameSkip                                 *)
          MaxFrame    (* bound: frames broadcast                             *)

VARIABLES clients,         (* h.clients                                      *)
          frame, left,     (* the frame being broadcast, to whom still       *)
          send, done,      (* each client: its channel, c.done closed        *)
          skip, frameN,    (* its frame rate                                 *)
          reader, writer,  (* its goroutines: "new", "runs" or "gone"        *)
          answers,         (* its other end answers pings and reads          *)
          meant, wire      (* frames chosen for it; written to it            *)

client == <<send, done, skip, frameN, reader, writer, answers, meant, wire>>
vars   == <<clients, frame, left, client>>

Init ==
  /\ clients = {} /\ frame = 0 /\ left = {}
  /\ send = [c \in Clients |-> <<>>] /\ done = [c \in Clients |-> FALSE]
  /\ skip = [c \in Clients |-> 1] /\ frameN = [c \in Clients |-> 0]
  /\ reader = [c \in Clients |-> "new"] /\ writer = [c \in Clients |-> "new"]
  /\ answers = [c \in Clients |-> TRUE]
  /\ meant = [c \in Clients |-> <<>>] /\ wire = [c \in Clients |-> <<>>]
-----------------------------------------------------------------------------
(* A connection, with the frame rate its URL asks for.                       *)
Connect(c) ==
  /\ reader[c] = "new"
  /\ \E n \in Skips : skip' = [skip EXCEPT ![c] = n]
  /\ clients' = clients \cup {c}
  /\ reader' = [reader EXCEPT ![c] = "runs"]
  /\ writer' = [writer EXCEPT ![c] = "runs"]
  /\ UNCHANGED <<frame, left, send, done, frameN, answers, meant, wire>>

(* remove may be called by broadcast and by the handler, in any order.      *)
Remove(c) ==
  /\ done' = [done EXCEPT ![c] = TRUE]
  /\ clients' = clients \ {c}

(* broadcast: the clients are copied under the lock...                       *)
BroadcastBegins ==
  /\ left = {} /\ frame < MaxFrame /\ clients # {}
  /\ frame' = frame + 1
  /\ left' = clients
  /\ UNCHANGED <<clients, client>>

(* Rate limiting: with a frameSkip of n every n-th frame is due.             *)
Due(c) == skip[c] = 1 \/ (frameN[c] + 1) % skip[c] = 0

(* Mutant: a full channel costs the client a frame, not its place.           *)
BroadcastToLossy(c) ==
  /\ c \in left
  /\ left' = left \ {c}
  /\ frameN' = [frameN EXCEPT ![c] = IF skip[c] > 1 THEN @ + 1 ELSE @]
  /\ meant' = IF Due(c) THEN [meant EXCEPT ![c] = Append(@, frame)] ELSE meant
  /\ send' = IF Due(c) /\ Len(send[c]) < Cap THEN [send EXCEPT ![c] = Append(@, frame)] ELSE send
  /\ UNCHANGED <<clients, frame, done, skip, reader, writer, answers, wire>>

(* ... and each of them is offered the frame; whose channel is full must go. *)
BroadcastTo(c) ==
  /\ c \in left
  /\ left' = left \ {c}
  /\ frameN' = [frameN EXCEPT ![c] = IF skip[c] > 1 THEN @ + 1 ELSE @]
  /\ meant' = IF Due(c) THEN [meant EXCEPT ![c] = Append(@, frame)] ELSE meant
  /\ IF Due(c) /\ Len(send[c]) = Cap
     THEN Remove(c) /\ UNCHANGED send
     ELSE /\ send' = IF Due(c) THEN [send EXCEPT ![c] = Append(@, frame)] ELSE send
          /\ UNCHANGED <<clients, done>>
  /\ UNCHANGED <<frame, skip, reader, writer, answers, wire>>
-----------------------------------------------------------------------------
(* The writer.  When a frame waits and c.done is closed the select may take  *)
(* either.                                                                  *)
Write(c) ==
  /\ writer[c] = "runs" /\ send[c] # <<>> /\ reader[c] = "runs"
  /\ wire' = [wire EXCEPT ![c] = Append(@, Head(send[c]))]
  /\ send' = [send EXCEPT ![c] = Tail(@)]
  /\ UNCHANGED <<clients, frame, left, done, skip, frameN, reader, writer, answers, meant>>

(* A write of a frame or a ping fails, by its deadline or because the        *)
(* handler has closed the connection; or c.done is closed.                  *)
WriterEnds(c) ==
  /\ writer[c] = "runs"
  /\ done[c] \/ reader[c] = "gone" \/ ~answers[c]
  /\ writer' = [writer EXCEPT ![c] = "gone"]
  /\ UNCHANGED <<clients, frame, left, send, done, skip, frameN, reader, answers, meant, wire>>

(* The reader gets a message with another frame rate...                      *)
Reconfigure(c) ==
  /\ reader[c] = "runs" /\ answers[c]
  /\ \E n \in Skips \ {skip[c]} : skip' = [skip EXCEPT ![c] = n]
  /\ UNCHANGED <<clients, frame, left, send, done, frameN, reader, writer, answers, meant, wire>>

(* Mutant: the handler leaves without taking the client out of the hub.      *)
ReaderEndsSilently(c) ==
  /\ reader[c] = "runs" /\ (~answers[c] \/ writer[c] = "gone")
  /\ reader' = [reader EXCEPT ![c] = "gone"]
  /\ UNCHANGED <<clients, frame, left, send, done, skip, frameN, writer, answers, meant, wire>>

(* ... or its connection is gone, or no pong has come for sixty seconds,     *)
(* because nobody answers or because the writer, which pings, is gone.      *)
ReaderEnds(c) ==
  /\ reader[c] = "runs" /\ (~answers[c] \/ writer[c] = "gone")
  /\ reader' = [reader EXCEPT ![c] = "gone"]
  /\ Remove(c)
  /\ UNCHANGED <<frame, left, send, skip, frameN, writer, answers, meant, wire>>

(* The other end disappears, or does not read any more.                      *)
PeerGoes(c) ==
  /\ reader[c] = "runs" /\ answers[c]
  /\ answers' = [answers EXCEPT ![c] = FALSE]
  /\ UNCHANGED <<clients, frame, left, send, done, skip, frameN, reader, writer, meant, wire>>

Next ==
  \/ BroadcastBegins
  \/ \E c \in Clients :
       \/ Connect(c) \/ BroadcastTo(c) \/ Write(c) \/ WriterEnds(c)
       \/ Reconfigure(c) \/ ReaderEnds(c) \/ PeerGoes(c)

Spec == Init /\ [][Next]_vars

(* The goroutines run, deadlines expire; nobody has to connect or to leave.  *)
FairSpec ==
  /\ Spec /\ WF_vars(\E c \in Clients : BroadcastTo(c))
  /\ \A c \in Clients : WF_vars(Write(c) \/ WriterEnds(c)) /\ WF_vars(ReaderEnds(c))
-----------------------------------------------------------------------------
(* No gaps: a client gets the frames meant for it in order and without a     *)
(* hole; one that was too slow is cut off instead, and as long as it was    *)
(* not, what it has not got yet waits in its channel.                       *)
NoGaps ==
  \A c \in Clients :
    /\ wire[c] \o send[c] = SubSeq(meant[c], 1, Len(wire[c]) + Len(send[c]))
    /\ ~done[c] => wire[c] \o send[c] = meant[c]

(* No ghosts: a client that was cut off, whose writer gave up or whose other *)
(* end has gone, leaves the hub, its reader ends and so does its writer.    *)
NoGhosts ==
  \A c \in Clients :
    (done[c] \/ writer[c] = "gone" \/ ~answers[c]) ~>
      (c \notin clients /\ reader[c] = "gone" /\ writer[c] = "gone")
=============================================================================
