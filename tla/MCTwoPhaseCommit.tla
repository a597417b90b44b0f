-------------------------- MODULE MCTwoPhaseCommit --------------------------
(* Values of the constants for the runs of TwoPhaseCommit; keys, values and ids
   are only compared, so permutations of them are symmetries. *)
EXTENDS TwoPhaseCommit, TLC

CONSTANTS k1, k2, v1, v2, i1, i2, i3

OneKey == {k1}
TwoKeys == {k1, k2}
OneValue == {v1}
TwoValues == {v1, v2}
OneId == {i1}
TwoIds == {i1, i2}
ThreeIds == {i1, i2, i3}

Symmetry == Permutations(Keys) \cup Permutations(Values) \cup Permutations(Ids)
=============================================================================
