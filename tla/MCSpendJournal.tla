--------------------------- MODULE MCSpendJournal ---------------------------
(* Small constants for SpendJournal.                                       *)
EXTENDS SpendJournal, TLC

(* One reservation of the larger amount exhausts a job, two exhaust a month. *)
MCLimits == {[daily |-> 3, monthly |-> 4, perJob |-> 2],
             [daily |-> 2, monthly |-> 2, perJob |-> 2]}

MCSymmetry == Permutations(Intents) \cup Permutations(Jobs)
=============================================================================
