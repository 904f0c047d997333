---------------------------- MODULE MCPublication ----------------------------
(* Small constants for Publication.                                        *)
EXTENDS Publication, TLC

MCOneEvent == [d \in Drafts |-> CHOOSE e \in Events : TRUE]
MCEpochs == {1}
MCTwoEpochs == {1, 2}
MCNoEpochs == {}
MCSymmetry == Permutations(Drafts)
=============================================================================
