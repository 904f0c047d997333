------------------------- MODULE MCCommandAuthority -------------------------
(* Small constants for CommandAuthority.                                   *)
EXTENDS CommandAuthority, TLC

(* A first draft that a model reviewed; a second one that nobody did, or    *)
(* whose publication is unresolved.                                         *)
MCInitialText == CHOOSE t \in Texts : TRUE

MCPending(review, outcome) ==
    [AbsentDraft EXCEPT !.status = "pending", !.rev = 1, !.text = MCInitialText, !.outcome = outcome,
                        !.review = IF review = "none" THEN NoReview
                                   ELSE [kind |-> review, rev |-> 1, text |-> MCInitialText]]

MCFirst == CHOOSE d \in Drafts : TRUE

MCInitial ==
    {[d \in Drafts |-> IF d = MCFirst THEN MCPending("model", "none") ELSE MCPending("none", outcome)] :
        outcome \in {"none", "unknown"}}

(* Everything about the first draft, rejected together with the second.     *)
MCChoices ==
    LET Ask(action, targets, text, epoch) ==
            [action |-> action, targets |-> targets, text |-> text, epoch |-> epoch]
    IN {Ask(action, {MCFirst}, NoText, 0) : action \in
            {"record_review", "approve_revision", "cancel_approval"}}
       \cup {Ask("edit_revision", {MCFirst}, text, 0) : text \in Texts \ {MCInitialText}}
       \cup {Ask("schedule_revision", {MCFirst}, NoText, epoch) : epoch \in Epochs}
       \cup {Ask("bulk_reject", Drafts, NoText, 0)}
=============================================================================
