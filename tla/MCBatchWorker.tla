---------------------------- MODULE MCBatchWorker ----------------------------
(* Small constants for BatchWorker.                                        *)
EXTENDS BatchWorker, TLC

MCLimits == {[daily |-> 9, monthly |-> 9, perJob |-> 9]}

(* Two of the workers lease under one name; or all do. *)
MCOneOwner == [w \in Workers |-> "a"]
MCTwoOwners ==
    CHOOSE f \in [Workers -> {"a", "b"}] : Cardinality({w \in Workers : f[w] = "a"}) = 2

MCSymmetry == UNION {Permutations(S) : S \in {Jobs, Intents, Workers, Batches}}
=============================================================================
