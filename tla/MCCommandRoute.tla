--------------------------- MODULE MCCommandRoute ---------------------------
(* Small constants for CommandRoute.                                       *)
EXTENDS CommandRoute

MCDrafts == {"d1", "d2"}

MCAsk(kind, targets) == [kind |-> kind, targets |-> targets]

(* A decision on one draft and one on both; a decision and a feedback note; *)
(* a decision whose route is rolled back and activated again.               *)
MCScripts ==
    {<<MCAsk("draft", {"d1"}), MCAsk("draft", {"d1", "d2"})>>,
     <<MCAsk("draft", {"d1"}), MCAsk("feedback", {})>>,
     <<MCAsk("draft", {"d1"}), MCAsk("deactivate", {}), MCAsk("activate", {})>>}
=============================================================================
