-------------------------- MODULE MCCandidateChecks --------------------------
(* Small constants for CandidateChecks.                                    *)
EXTENDS CandidateChecks, TLC

CONSTANTS e1, e2, o1, o2, f1, f2, f3, m1, m2, v1, v2

MCExecutors == {e1, e2}
MCOwners == {o1, o2}

(* Both processes lease under one name; a collector leases under another. *)
MCOwnerOf == (e1 :> o1) @@ (e2 :> o1)

(* Two complete files disagree; the third says nothing usable. *)
MCFiles == {f1, f2, f3}
MCMeaningOf == (f1 :> m1) @@ (f2 :> m2) @@ (f3 :> None)

MCViews == {v1, v2}
MCFitting == {v1}

(* The executors are alike, and so are the two usable files, each with what *)
(* it says.                                                                *)
MCSymmetry ==
    {p \in Permutations(MCExecutors \cup {f1, f2, m1, m2}) :
        \A f \in {f1, f2} : p[f] \in {f1, f2} /\ p[MCMeaningOf[f]] = MCMeaningOf[p[f]]}
=============================================================================
