------------------------------- MODULE Telemetry -------------------------------
(***************************************************************************)
(* The collector of internal/telemetry: a history of metrics and one of     *)
(* events, trimmed lazily under the collector's lock, and a writer of JSON  *)
(* lines that rotates its files and prunes the directory.  A goroutine that *)
(* records appends under the lock, takes the writer along and writes the    *)
(* line after the unlock; Configure may put another writer in its place     *)
(* meanwhile.                                                              *)
(*                                                                         *)
(* A point is a record of its number, kind and time; values, tags, sampling *)
(* of metrics, counters, gauges and distributions are left out.  A file's   *)
(* name is the second it was opened in and the writer's sequence number.    *)
(***************************************************************************)
EXTENDS Integers, Sequences, FiniteSets, SequencesExt, FiniteSetsExt

CONSTANTS Recorders,  (* goroutines that record                              *)
          Configs,    (* configurations after sanitizeConfig; lines is what  *)
                      (* fits into a file, keep the number of files          *)
          Limits,     (* limits a query may come with                        *)
          Filters,    (* sets of numbers: the points that the name, prefix,  *)
                      (* tags and times of a query let through               *)
          DiskFails,  (* files may fail to open                              *)
          MaxPoint, MaxConfigure, MaxTime  (* bounds                         *)

Kinds == {"metric", "event"}
None  == 0

VARIABLES now, rotated,    (* the second; a file was opened in it by rotation *)
          cfg, history,    (* the collector's configuration and histories    *)
          point,           (* number of the last point                       *)
          current, writers,(* c.writer; every writer made                    *)
          files,           (* the directory: name to lines                   *)
          pending,         (* each recorder: the line it is about to write   *)
          conf             (* Configure: where it is, what it brings         *)

vars == <<now, rotated, cfg, history, point, current, writers, files, pending, conf>>

Idle == [at |-> "idle", cfg |-> [max |-> 1, retention |-> 1, persist |-> FALSE, keep |-> 1, lines |-> 1], w |-> None]

Init ==
  /\ now = 0 /\ rotated = FALSE
  /\ cfg \in {c \in Configs : ~c.persist}
  /\ history = [k \in Kinds |-> <<>>] /\ point = 0
  /\ current = None /\ writers = <<>> /\ files = <<>>
  /\ pending = [r \in Recorders |-> <<>>] /\ conf = Idle

Tick ==
  /\ now < MaxTime /\ now' = now + 1 /\ rotated' = FALSE
  /\ UNCHANGED <<cfg, history, point, current, writers, files, pending, conf>>
-----------------------------------------------------------------------------
(* The histories.                                                          *)

Expired(p, c) == p.t < now - c.retention

(* trimLocked: nothing happens until the history is twice as long as it may  *)
(* be; then the newest stay, but for those that have expired at their head. *)
Trim(h, c) ==
  IF Len(h) < 2 * c.max THEN h
  ELSE LET newest == SubSeq(h, Len(h) - c.max + 1, Len(h))
           fresh  == {i \in 1 .. c.max : ~Expired(newest[i], c)}
       IN  IF fresh = {} THEN <<>> ELSE SubSeq(newest, Min(fresh), c.max)

(* recordMetric and Event, up to the unlock.                                *)
Record(r, k) ==
  /\ pending[r] = <<>> /\ point < MaxPoint
  /\ point' = point + 1
  /\ LET p == [n |-> point', kind |-> k, t |-> now] IN
     /\ history' = [l \in Kinds |->
          Trim(IF l = k THEN Append(history[l], p) ELSE history[l], cfg)]
     /\ pending' = [pending EXCEPT ![r] = IF current = None THEN <<>> ELSE <<[w |-> current, p |-> p]>>]
  /\ UNCHANGED <<now, rotated, cfg, current, writers, files, conf>>
-----------------------------------------------------------------------------
(* The files.                                                              *)

Later(a, b) == a[1] > b[1] \/ (a[1] = b[1] /\ a[2] > b[2])

(* Mutant: the newest files are pruned.                                      *)
PruneNewest(dir, keep) ==
  {f \in dir : Cardinality({g \in dir : Later(f, g)}) < keep}

(* pruneFiles: the last keep names stay.                                     *)
Prune(dir, keep) == {f \in dir : Cardinality({g \in dir : Later(g, f)}) < keep}

(* rotateLocked with its pruneFiles; the file may be there already.          *)
Opened(name, keep) ==
  LET all == [f \in DOMAIN files \cup {name} |-> IF f \in DOMAIN files THEN files[f] ELSE <<>>]
  IN  Restrict(all, Prune(DOMAIN all, keep))

SizeOf(name, dir) == IF name \in DOMAIN dir THEN Len(dir[name]) ELSE 0

AppendLine(dir, name, p) ==
  IF name \in DOMAIN dir THEN [dir EXCEPT ![name] = Append(@, p)] ELSE dir

(* The line is written, into a new file if it does not fit; it is lost if    *)
(* the writer was closed meanwhile.                                         *)
WriteLine(r) ==
  /\ pending[r] # <<>> /\ pending' = [pending EXCEPT ![r] = <<>>]
  /\ LET w == pending[r][1].w
         p == pending[r][1].p
         o == writers[w]
         name == <<now, o.seq + 1>>
     IN  \/ ~o.open /\ UNCHANGED <<writers, files, rotated>>
         \/ /\ o.open /\ o.size < o.lines
            /\ writers' = [writers EXCEPT ![w].size = @ + 1]
            /\ files' = AppendLine(files, o.name, p)
            /\ UNCHANGED rotated
         \/ /\ o.open /\ o.size >= o.lines /\ ~rotated
            /\ LET dir == Opened(name, o.keep) IN
               /\ files' = AppendLine(dir, name, p)
               /\ writers' = [writers EXCEPT ![w] =
                    [o EXCEPT !.seq = @ + 1, !.name = name, !.size = SizeOf(name, dir) + 1]]
            /\ rotated' = TRUE
         \/ /\ DiskFails /\ o.open /\ o.size >= o.lines
            /\ writers' = [writers EXCEPT ![w].seq = @ + 1]
            /\ UNCHANGED <<files, rotated>>
  /\ UNCHANGED <<now, cfg, history, point, current, conf>>
-----------------------------------------------------------------------------
(* Configure, in three steps: the new writer opens its file...              *)
ConfigureBegins(c) ==
  /\ conf.at = "idle" /\ Len(writers) < MaxConfigure
  /\ conf' = [at |-> "swap", cfg |-> c, w |-> IF c.persist THEN Len(writers) + 1 ELSE None]
  /\ LET name == <<now, 1>>
         dir  == Opened(name, c.keep)
     IN  IF ~c.persist THEN UNCHANGED <<writers, files>>
         ELSE /\ files' = dir
              /\ writers' = Append(writers, [name |-> name, seq |-> 1, open |-> TRUE,
                                             size |-> SizeOf(name, dir), keep |-> c.keep, lines |-> c.lines])
  /\ UNCHANGED <<now, rotated, cfg, history, point, current, pending>>

(* ... it takes the old one's place under the lock...                        *)
ConfigureSwaps ==
  /\ conf.at = "swap"
  /\ cfg' = conf.cfg /\ current' = conf.w
  /\ history' = [k \in Kinds |-> Trim(history[k], conf.cfg)]
  /\ conf' = [Idle EXCEPT !.at = IF current = None THEN "idle" ELSE "close", !.w = current]
  /\ UNCHANGED <<now, rotated, point, writers, files, pending>>

(* ... and the old one is closed.                                           *)
ConfigureCloses ==
  /\ conf.at = "close"
  /\ writers' = [writers EXCEPT ![conf.w].open = FALSE]
  /\ conf' = Idle
  /\ UNCHANGED <<now, rotated, cfg, history, point, current, files, pending>>

Next ==
  \/ Tick
  \/ \E r \in Recorders : (\E k \in Kinds : Record(r, k)) \/ WriteLine(r)
  \/ \E c \in Configs : ConfigureBegins(c)
  \/ ConfigureSwaps \/ ConfigureCloses

Spec == Init /\ [][Next]_vars
-----------------------------------------------------------------------------
(* QueryMetrics and QueryEvents.                                            *)

Newest(s, n) == IF Len(s) <= n THEN s ELSE SubSeq(s, Len(s) - n + 1, Len(s))

(* A finite set in an order: each at the place that those before it leave it. *)
Ranked(S, Before(_, _)) ==
  [n \in 1 .. Cardinality(S) |-> CHOOSE x \in S : Cardinality({y \in S : Before(y, x)}) = n - 1]

(* Mutant: while scanning, a kind is cut down to what the other one leaves of  *)
(* the limit.                                                                *)
ScannedTogether(kept, p, limit) ==
  LET all      == [kept EXCEPT ![p.kind] = Append(@, p)]
      Other(l) == CHOOSE o \in Kinds : o # l
  IN  IF Len(all["metric"]) + Len(all["event"]) <= limit THEN all
      ELSE [l \in Kinds |-> Newest(all[l], limit - Len(all[Other(l)]))]

(* A line of parsePersistedFile: when more than twice the limit have been read, *)
(* each kind is cut down to its newest.                                      *)
Scanned(kept, p, limit) ==
  LET all == [kept EXCEPT ![p.kind] = Append(@, p)] IN
  IF Len(all["metric"]) + Len(all["event"]) <= 2 * limit THEN all
  ELSE [l \in Kinds |-> Newest(all[l], limit)]

Parsed(lines, limit) ==
  FoldLeft(LAMBDA kept, p : Scanned(kept, p, limit), [l \in Kinds |-> <<>>], lines)

(* listPersistedFiles.                                                      *)
Listed == Ranked(DOMAIN files, LAMBDA f, g : Later(g, f))

(* metricMatch and eventMatch: where the points are that a query lets through. *)
Matching(s, M) == {i \in DOMAIN s : s[i].n \in M}

(* sort.Slice of what is at these places; it leaves the order of equal times   *)
(* open.                                                                    *)
ByTime(s, P) ==
  LET order == Ranked(P, LAMBDA i, j : s[i].t < s[j].t \/ (s[i].t = s[j].t /\ i < j))
  IN  [n \in DOMAIN order |-> s[order[n]]]

(* The points a query returns: what matches in memory and, if there are files,  *)
(* in what parsing them has left, sorted by time, the last of them up to the    *)
(* limit.  A point that is in both is there twice.  (A query that leaves the    *)
(* files out is one without files.)                                          *)
Answer(k, limit, M) ==
  LET Read(out, f) == out \o Parsed(files[f], limit)[k]
      all == IF cfg.persist THEN FoldLeft(Read, history[k], Listed) ELSE history[k]
  IN  Newest(ByTime(all, Matching(all, M)), limit)

Members(s) == {s[i] : i \in DOMAIN s}

(* The trimming is lazy, but neither lazier nor keener than it says: no      *)
(* history ever has twice its bound, and what a step throws away is older    *)
(* than all that stays, and either expired or beyond the bound.             *)
TrimsRightly ==
  \A k \in Kinds :
    LET kept == Members(history'[k])
        all  == Members(history[k]) \cup kept
    IN  /\ Len(history'[k]) < 2 * cfg'.max
        /\ \A p \in all \ kept :
             /\ \A q \in kept : q.n > p.n
             /\ Expired(p, cfg') \/ Cardinality({q \in all : q.n > p.n}) >= cfg'.max

(* Rotation removes no file that is being written to, save that another       *)
(* writer's may remove it, which has been put in its place or is about to be,  *)
(* and then only where that one was to keep no more than there are newer files. *)
OthersPrune ==
  \A w \in DOMAIN writers :
    (writers[w].open /\ writers[w].name \in DOMAIN files /\ writers'[w].name \notin DOMAIN files') =>
      \E v \in DOMAIN writers' \ {w} :
        /\ v \in DOMAIN writers => writers'[v].name # writers[v].name
        /\ Cardinality({f \in DOMAIN files \cup DOMAIN files' : Later(f, writers[w].name)}) >= writers'[v].keep

(* No line is there twice, though two writers may append to the same file.    *)
LinesOnce ==
  \A f, g \in DOMAIN files : \A i \in DOMAIN files[f], j \in DOMAIN files[g] :
    files[f][i] = files[g][j] => f = g /\ i = j

InTimeOrder(s) == \A i, j \in 1 .. Len(s) : i < j => s[i].t <= s[j].t

(* Where in a sequence the matching points of a kind since a time are.         *)
Since(s, k, t, M) == {i \in Matching(s, M) : s[i].kind = k /\ s[i].t >= t}

(* Where fewer of a kind follow than the limit.                              *)
Recent(s, k, limit) ==
  {i \in DOMAIN s : Cardinality({j \in DOMAIN s : j > i /\ s[j].kind = k}) < limit}

(* The files a query reads.                                                  *)
Stored == IF cfg.persist THEN DOMAIN files ELSE {}

AtMost(n, limit) == IF n < limit THEN n ELSE limit

(* What a query finds: points of the kind that match, in the order of time; and *)
(* of those since any time no more than there are in memory and in the files,   *)
(* and no fewer than there are in memory and among the last lines of the kind   *)
(* in each file, as many as the limit: the one cut while a file is scanned, in  *)
(* which the kinds are mixed and late writers leave the times out of order, and *)
(* the other one at the end cost none of these.                              *)
QueryNewest ==
  \A k \in Kinds, limit \in Limits, M \in Filters :
    LET out == Answer(k, limit, M)
    IN  /\ InTimeOrder(out) /\ Since(out, k, 0, M) = DOMAIN out
        /\ \A t \in 0 .. now :
             LET found == Cardinality(Since(out, k, t, M))
                 held  == Cardinality(Since(history[k], k, t, M))
                 last  == UNION {{<<f, i>> : i \in Since(files[f], k, t, M) \cap Recent(files[f], k, limit)} : f \in Stored}
                 lines == UNION {{<<f, i>> : i \in Since(files[f], k, t, M)} : f \in Stored}
             IN  /\ found >= AtMost(held + Cardinality(last), limit)
                 /\ found <= AtMost(held + Cardinality(lines), limit)

(* docs/telemetry-api.md: "If `limit` is hit, the most recent matching items    *)
(* are retained."  Since any time as many as there are in memory and in the     *)
(* files match, or as many as the limit.  (Only where the lines of each file    *)
(* are in the order of time: the most recent are then the last.)             *)
MatchingRetained ==
  (\A f \in Stored : InTimeOrder(files[f])) =>
    \A k \in Kinds, limit \in Limits, M \in Filters : \A t \in 0 .. now :
      LET held  == Cardinality(Since(history[k], k, t, M))
          lines == UNION {{<<f, i>> : i \in Since(files[f], k, t, M)} : f \in Stored}
      IN  Cardinality(Since(Answer(k, limit, M), k, t, M)) = AtMost(held + Cardinality(lines), limit)

(* Of the histories and of the files every step keeps the newest.  (At first  *)
(* there are none.)                                                         *)
KeepsNewest == [][TrimsRightly /\ OthersPrune /\ LinesOnce']_vars
=============================================================================
