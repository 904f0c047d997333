----------------------------- MODULE MCStaging -----------------------------
(* Small constants for Staging.                                            *)
EXTENDS Staging

MCSerial == <<"s">>
MCConcurrent == <<"a", "b">>

MCSeen == << [key |-> "k1", day |-> 0], [key |-> "k2", day |-> 1] >>

Log(s, n) == [kind |-> "error", row |-> <<s, n>>]
See(k, d) == [kind |-> "observe", key |-> k, day |-> d]
Count(f) == [kind |-> "bump", field |-> f]
Queue(s) == [kind |-> "enqueue", row |-> <<s>>]
Defer(s) == [kind |-> "defer", row |-> <<s>>]

(* The concurrent sources log errors up to the cap, see the same events    *)
(* and count in one field; what they queue and defer is told apart.        *)
MCScriptsOf(s, since, until) ==
    IF s = "s" THEN {<<Count("f"), Log(s, 1), See("k3", until), Queue(s)>>}
    ELSE {<<Count("f"), Log(s, 1), Queue(s)>>}
         \cup {<<Log(s, 1), Log(s, 2), Defer(s)>>
                  \o (IF s = "a" THEN <<See("k1", d), See("k2", until)>> ELSE <<See("k2", d), Queue(s)>>) :
               d \in since..until}
=============================================================================
