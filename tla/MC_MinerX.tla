------------------------------- MODULE MC_MinerX -------------------------------
(***************************************************************************)
(* Model-checking instance of MinerX: the constants the .cfg files bind.  *)
(***************************************************************************)
EXTENDS MinerX

CONSTANTS n1, n2, n3, f1, o1, msA, msB

\* Miner names generateName can draw, plus the pre-existing Miners.
MCNames == {n1, n2, n3, f1, o1}
MCNames2 == {n1, n2, f1, o1}
MCSets  == {msA}
\* Two MinerSets whose selectors both match every Miner.
MCSets2 == {msA, msB}
MCNames3 == {n1, n2, o1}
\* Two generated names and the Chain-owned Miner: enough for a scale-up to
\* two replicas when nothing is ever deleted.
MCNamesUp == {n1, n2, f1}
MCNoForeign == {}
MCForeign == {f1}
MCOrphans == {o1}
MCNoOrphans == {}
\* Pre-existing Miners whose spec.podDeletionTimeout is 0s.
MCNoZero == {}
MCZero == {f1}

\* Generated names are only compared for equality: interchangeable.
MCSymmetry == Permutations({n1, n2, n3})
=============================================================================
