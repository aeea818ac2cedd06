----------------------------- MODULE MCStreamer -----------------------------
(* Instances of Streamer for TLC.                                           *)
EXTENDS Streamer, TLC

NFM == "NFM"

oneFreq == {0}

Sig(i, f, m, k) == [id |-> i, freq |-> f, mode |-> m, ok |-> k]

(* One signal that stays, strong enough to be recorded or not.              *)
strongOrWeak == {<<Sig(1, 0, NFM, k)>> : k \in BOOLEAN}

onOff == {[enabled |-> TRUE, record |-> TRUE], [enabled |-> FALSE, record |-> TRUE]}

listeners == Permutations(Subs)
=============================================================================
