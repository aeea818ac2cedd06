---------------------------------- MODULE RDS ----------------------------------
(***************************************************************************)
(* The RDS decoder behind the symbol recovery (internal/rds/rds.go): blocks of *)
(* 26 bits with the correction of one, the search for groups of four blocks    *)
(* with its flywheel, and what a group changes in the decoder.               *)
(*                                                                         *)
(* A word is the set of the places of its ones, 0 the last bit sent.  In the   *)
(* search a group is GroupBits long and a stream says where decodeGroupAt      *)
(* succeeds: the set of the places and the group found at each.              *)
(***************************************************************************)
EXTENDS Integers, FiniteSets, Sequences, SequencesExt

CONSTANTS Data,               (* data words sent, at places 10 to 25          *)
          Faults,             (* sets of places received wrongly              *)
          GroupBits, Jitter,  (* 104 and 3 in the code                        *)
          Streams,            (* [len, dir, inv]: bits of a call, and place ->  *)
                              (* group in them and in their complement        *)
          Addrs               (* pieces of a name, four in the code            *)

VARIABLES block,       (* received: the block sent, the faults, what is wanted  *)
          got,         (* and what it is taken for                            *)
          stream,      (* the bits of a call of Decode                        *)
          found,       (* where groups were found, in the order they were      *)
          lastPI, ps   (* the decoder's PI and the pieces of the name, 0 unknown *)

vars == <<block, got, stream, found, lastPI, ps>>

Nothing == [data |-> {}, offset |-> "A", faults |-> {}, wanted |-> {}]
Silence == [len |-> 0, dir |-> <<>>, inv |-> <<>>]

Init ==
  /\ block = Nothing /\ got = {}
  /\ stream = Silence /\ found = <<>>
  /\ lastPI = 0 /\ ps = [a \in Addrs |-> 0]
-----------------------------------------------------------------------------

(* The bits of the constants of the code.                                    *)
Poly   == {8, 7, 5, 4, 3, 0}                                      \* 0x1B9
Offset == [A  |-> {7, 6, 5, 4, 3, 2}, B |-> {8, 7, 4, 3},           \* 0x0FC, 0x198
           C  |-> {8, 6, 5, 3}, Cp |-> {9, 8, 6, 4},               \* 0x168, 0x350
           D  |-> {8, 7, 5, 4, 2}]                                \* 0x1B4
Wanted == {{"A"}, {"B"}, {"C", "Cp"}, {"D"}}                        \* decodeGroupAt

(* crcSyndrome: what is left of a word divided by the polynomial, from bit 25  *)
(* down to bit 10.                                                          *)
Syndrome(w) ==
  FoldLeft(LAMBDA reg, i : IF i \in reg THEN SymDiff(reg, {i - 10 + b : b \in Poly}) ELSE reg,
           w, [k \in 1 .. 16 |-> 26 - k]) \cap 0 .. 9

(* decodeRawBlock: a word whose remainder is an offset, as a set of one block. *)
Raw(w, wanted) == {[data |-> {b \in w : b >= 10}, offset |-> o] :
                     o \in {x \in wanted : Offset[x] = Syndrome(w)}}

(* decodeBlockExpected: the block in a word, or none; a wrong bit is corrected *)
(* when a single correction makes a block that is wanted.                    *)
DecodeBlock(w, wanted) ==
  LET fixed == UNION {Raw(SymDiff(w, {i}), wanted) : i \in 0 .. 25}
  IN  IF Raw(w, wanted) # {} THEN Raw(w, wanted) ELSE IF Cardinality(fixed) = 1 THEN fixed ELSE {}

(* The word sent for a block: its data, and the check word with the offset.    *)
Encode(data, offset) == data \cup SymDiff(Syndrome(data), Offset[offset])

ReceiveBlock(data, offset, faults, wanted) ==
  /\ block = Nothing /\ stream = Silence
  /\ block' = [data |-> data, offset |-> offset, faults |-> faults, wanted |-> wanted]
  /\ got' = DecodeBlock(SymDiff(Encode(data, offset), faults), wanted)
  /\ UNCHANGED <<stream, found, lastPI, ps>>
-----------------------------------------------------------------------------
(* Where the flywheel looks for the group after one that ended at e.           *)
Places(e) == <<e>> \o FlattenSeq([d \in 1 .. Jitter |-> <<e - d, e + d>>])

(* Mutant: the scan resumes after the group that was expected and did not come. *)
ResumeLate(i, e) == e + GroupBits

(* Where the scan resumes when the flywheel has lost the groups.              *)
Resume(i, e) == IF e - Jitter <= i THEN i + 1 ELSE e - Jitter

(* tryDecode over the places where decodeGroupAt succeeds.                    *)
TryDecode(len, at) ==
  LET fits(p) == p + GroupBits <= len
      next(e) == SelectSeq(Places(e), LAMBDA p : p \in DOMAIN at)
      fly[e \in 0 .. len + Jitter] ==
        LET s == Head(next(e))
            rest == fly[s + GroupBits]
        IN  IF ~fits(e) \/ next(e) = <<>> THEN [starts |-> <<>>, e |-> e]
            ELSE [starts |-> <<s>> \o rest.starts, e |-> rest.e]
      scan[i \in 0 .. len + Jitter + GroupBits] ==
        LET locked == fly[i + GroupBits]
        IN  CASE ~fits(i)            -> <<>>
              [] i \notin DOMAIN at  -> scan[i + 1]
              [] OTHER -> <<i>> \o locked.starts \o scan[Resume(i, locked.e)]
  IN  scan[0]

(* The polarity whose groups count: the complement when the bits have none.    *)
Polarity(s) == IF TryDecode(s.len, s.dir) # <<>> THEN s.dir ELSE s.inv

(* applyGroup, for groups that carry a piece of the name.                     *)
Apply(d, g) == [pi |-> IF g.pi # 0 THEN g.pi ELSE d.pi, ps |-> [d.ps EXCEPT ![g.addr] = g.text]]

(* Decode, from the bits on.  Nothing of them is kept for the next call, so    *)
(* one call is followed, and likewise one block.                             *)
Decode(s) ==
  LET at == Polarity(s)
      starts == TryDecode(s.len, at)
      after == FoldLeft(LAMBDA d, p : Apply(d, at[p]), [pi |-> lastPI, ps |-> ps], starts)
  IN  /\ block = Nothing /\ stream = Silence
      /\ stream' = s /\ found' = starts
      /\ lastPI' = after.pi /\ ps' = after.ps
      /\ UNCHANGED <<block, got>>

Next ==
  \/ \E d \in Data, o \in DOMAIN Offset, f \in Faults, w \in Wanted : ReceiveBlock(d, o, f, w)
  \/ \E s \in Streams : Decode(s)

Spec == Init /\ [][Next]_vars
-----------------------------------------------------------------------------
(* A block that is wanted survives one wrong bit; an A or B that came without  *)
(* one is never taken for something else; and where the block sent is the only  *)
(* one wanted, two wrong bits next to each other never make a wrong one.     *)
BlocksRight ==
  LET sent == [data |-> block.data, offset |-> block.offset]
      faults == Cardinality(block.faults)
  IN  block.wanted # {} =>
        /\ block.offset \in block.wanted /\ faults <= 1 => got = {sent}
        /\ block.offset \in {"A", "B"} /\ faults = 0 => got \subseteq {sent}
        /\ block.wanted = {block.offset} => got \subseteq {sent}

(* Of the groups in a call none is used twice, all are used in their order,    *)
(* and a group is only passed over for one that shares bits with it; the name  *)
(* and the PI are those of the last groups.                                  *)
GroupsTaken ==
  [][ stream' # stream =>
        LET at == IF \E i \in DOMAIN found' : found'[i] \notin DOMAIN stream'.dir THEN stream'.inv ELSE stream'.dir
            last(P(_)) == {i \in DOMAIN found' : P(at[found'[i]]) /\ \A j \in DOMAIN found' : j > i => ~P(at[found'[j]])}
        IN  /\ \A i \in DOMAIN found' : found'[i] \in DOMAIN at
            /\ \A i \in 2 .. Len(found') : found'[i] - found'[i - 1] >= GroupBits - Jitter
            /\ \A p \in DOMAIN at : \E i \in DOMAIN found' : found'[i] - p \in 1 - GroupBits .. GroupBits - 1
            /\ \A a \in Addrs : \A i \in last(LAMBDA g : g.addr = a) : ps'[a] = at[found'[i]].text
            /\ \A i \in last(LAMBDA g : g.pi # 0) : lastPI' = at[found'[i]].pi ]_vars

(* Blocks are what was sent, and groups what the blocks make up.              *)
GroupsRight == []BlocksRight /\ GroupsTaken
=============================================================================
