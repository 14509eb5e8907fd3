------------------------------ MODULE MCFlowcore ------------------------------
(* Small instances of Flowcore for TLC. *)
EXTENDS Flowcore, TLC

CONSTANTS k1, k2, w1, w2

OneWorker == [k \in Keys |-> w1]
TwoWorkers == (k1 :> w1) @@ (k2 :> w2)

\* The entries of the keys: one for all, or one each.
OneEntry == [k \in Keys \cup {NoKey} |-> 0]
OneEntryEach ==
    CHOOSE b \in [Keys \cup {NoKey} -> 0 .. Cardinality(Keys)] :
        /\ b[NoKey] = Cardinality(Keys)
        /\ \A k, l \in Keys : b[k] = b[l] => k = l

\* Renaming the two flows together with their workers keeps HashWorker.
PairSymmetry ==
    Permutations(Words) \cup {(k1 :> k2) @@ (k2 :> k1) @@ (w1 :> w2) @@ (w2 :> w1)}
KeySymmetry == Permutations(Keys)
SlotSymmetry == Permutations(Slots)
=============================================================================
