---------------------------------- MODULE Quota ----------------------------------
(***************************************************************************)
(* The directory of recordings and its quota (recorder/quota.go).  The       *)
(* streamer opens a directory and an audio file for a session, and writes    *)
(* meta.json when the session closes, whereupon enforceQuota runs; the       *)
(* worker of events makes a directory, writes the samples and then           *)
(* meta.json, beside the streamer.  A directory without meta.json counts as  *)
(* started at 0.                                                            *)
(*                                                                         *)
(* Recordings are numbered in the order of their starts.  A size is in units *)
(* of the quota's.                                                          *)
(***************************************************************************)
EXTENDS Integers, Sequences, FiniteSets, SequencesExt, FiniteSetsExt, Functions

CONSTANTS MaxDiskMB,   (* the quota; 0: none                                  *)
          Sizes,       (* sizes of what an event's recording writes           *)
          MaxDir, MaxSize   (* bounds: recordings, size of a streamed one     *)

VARIABLES dirs,        (* recording to [start, size]: start is 0 without meta *)
          writing,     (* recording to what writes it: "stream", "event"      *)
          next,        (* number of the next recording                        *)
          locks        (* open files cannot be removed (Windows)              *)

vars == <<dirs, writing, next, locks>>

Init == dirs = <<>> /\ writing = <<>> /\ next = 1 /\ locks \in BOOLEAN

Put(f, k, v)   == [x \in DOMAIN f \cup {k} |-> IF x = k THEN v ELSE f[x]]
Without(f, ks) == Restrict(f, DOMAIN f \ ks)

TotalSize(d) == FoldFunction(LAMBDA i, n : i.size + n, 0, d)

(* openRecordingSession, or recordEvent up to its MkdirAll.                  *)
Begin(by) ==
  /\ next <= MaxDir /\ next' = next + 1
  /\ dirs' = Put(dirs, next, [start |-> 0, size |-> 0])
  /\ writing' = Put(writing, next, by)
  /\ UNCHANGED locks

(* The session's file grows; one whose directory is gone has no name.        *)
Grow(r) ==
  /\ r \in DOMAIN writing /\ writing[r] = "stream"
  /\ r \in DOMAIN dirs /\ dirs[r].size < MaxSize
  /\ dirs' = [dirs EXCEPT ![r].size = @ + 1]
  /\ UNCHANGED <<writing, next, locks>>

(* The removal of what RemoveAll can remove; its error is not looked at.     *)
Removed(d, r) ==
  IF locks /\ r \in DOMAIN writing' /\ writing'[r] = "stream" THEN d ELSE Without(d, {r})

(* Mutant: the newest go first.                                             *)
EnforceQuotaBackwards(d, order) ==
  LET Drop(s, r) ==
        IF s.total <= MaxDiskMB THEN s
        ELSE [dirs |-> Removed(s.dirs, r), total |-> s.total - d[r].size]
  IN  IF MaxDiskMB = 0 THEN d
      ELSE FoldLeft(Drop, [dirs |-> d, total |-> TotalSize(d)], Reverse(order)).dirs

(* enforceQuota: the oldest go until what is left fits, or was counted so.   *)
EnforceQuota(d, order) ==
  LET Drop(s, r) ==
        IF s.total <= MaxDiskMB THEN s
        ELSE [dirs |-> Removed(s.dirs, r), total |-> s.total - d[r].size]
  IN  IF MaxDiskMB = 0 THEN d
      ELSE FoldLeft(Drop, [dirs |-> d, total |-> TotalSize(d)], order).dirs

(* The orders sort.Slice may leave the directories in.                       *)
Orders(d) ==
  {s \in SetToSeqs(DOMAIN d) : \A i \in 1 .. Len(s) - 1 : d[s[i]].start <= d[s[i + 1]].start}

(* closeSession: meta.json, if the directory is still there, and the quota.  *)
CloseSession(r) ==
  /\ r \in DOMAIN writing /\ writing[r] = "stream"
  /\ writing' = Without(writing, {r})
  /\ LET d == IF r \in DOMAIN dirs THEN [dirs EXCEPT ![r].start = r] ELSE dirs
     IN  \E order \in Orders(d) : dirs' = EnforceQuota(d, order)
  /\ UNCHANGED <<next, locks>>

(* recordEvent: the samples; an error if the directory has gone.             *)
EventWrites(r, n) ==
  /\ r \in DOMAIN writing /\ writing[r] = "event"
  /\ IF r \in DOMAIN dirs
     THEN /\ dirs' = [dirs EXCEPT ![r].size = n]
          /\ writing' = [writing EXCEPT ![r] = "meta"]
     ELSE writing' = Without(writing, {r}) /\ UNCHANGED dirs
  /\ UNCHANGED <<next, locks>>

(* recordEvent: writeMeta.                                                  *)
EventMeta(r) ==
  /\ r \in DOMAIN writing /\ writing[r] = "meta"
  /\ writing' = Without(writing, {r})
  /\ dirs' = IF r \in DOMAIN dirs THEN [dirs EXCEPT ![r].start = r] ELSE dirs
  /\ UNCHANGED <<next, locks>>

Next ==
  \/ \E by \in {"stream", "event"} : Begin(by)
  \/ \E r \in 1 .. MaxDir :
       Grow(r) \/ CloseSession(r) \/ (\E n \in Sizes : EventWrites(r, n)) \/ EventMeta(r)

Spec == Init /\ [][Next]_vars
-----------------------------------------------------------------------------
Complete(d) == {r \in DOMAIN d : d[r].start > 0}

(* What a removal costs.  Among complete recordings, the one just closed      *)
(* among them, the newer one stays, and one goes only if it and all newer    *)
(* ones exceed the quota: an unfinished recording, which counts as the       *)
(* oldest, never has a complete one thrown away that would fit without it.   *)
RemovesOldest ==
  LET done == Complete(dirs) \cup (DOMAIN writing \ DOMAIN writing')
      gone == (DOMAIN dirs \ DOMAIN dirs') \cap done
      kept == DOMAIN dirs' \cap done
  IN  /\ \A r \in gone, k \in kept : r < k
      /\ \A r \in gone :
           TotalSize(Restrict(dirs, {k \in done \cap DOMAIN dirs : k >= r})) > MaxDiskMB

RemovesOnlyOldest == [][RemovesOldest]_vars
=============================================================================
