--------------------------- MODULE DraftRevisions ---------------------------
(***************************************************************************)
(* A draft's content revisions, decisions and publication marks            *)
(* (src/editorial/revisions.py, mirrored by dashboard/lib/draft-revisions  *)
(* .js) and the reconciliation of two copies of it (src/state.py).         *)
(*                                                                         *)
(* Left out: source evidence and media beyond the text (an identity is a   *)
(* revision and a text), the editorial policy a review was made under,     *)
(* and revision_history.                                                   *)
(***************************************************************************)
EXTENDS PublishLedger

CONSTANTS Texts     \* draft texts

NoText == "no text"

NoReview   == [kind |-> "none", rev |-> 0, text |-> NoText]
NoApproval == [mode |-> "none", rev |-> 0, text |-> NoText, dec |-> 0, intent |-> 0, epoch |-> 0]

Statuses == {"absent", "pending", "approved", "rejected", "posted"}
Outcomes == {"none", "submitted", "unknown", "not_sent", "confirmed"}

Review   == [kind : {"none", "human", "model"}, rev : Nat, text : Texts \cup {NoText}]
Approval == [mode : {"none", "manual", "auto"}, rev : Nat, text : Texts \cup {NoText},
             dec : Nat, intent : Nat, epoch : Nat]

Draft == [status    : Statuses,
          rev       : Nat,                       \* content_revision
          text      : Texts \cup {NoText},
          dec       : Nat,                       \* decision_revision
          review    : Review,                    \* review_binding
          approval  : Approval,                  \* approval_binding
          intent    : Nat,                       \* publish_intent_id, 0 without
          auto      : BOOLEAN,                   \* approval_mode is auto or policy_auto
          armed     : BOOLEAN,                   \* auto_approve_at is set
          outcome   : Outcomes,                  \* publish_outcome
          attemptAt : Nat,                       \* last_publish_attempt_at
          attempted : BOOLEAN,                   \* autoship_attempted
          tweet     : Nat,                       \* tweet_id
          conflict  : BOOLEAN,                   \* revision_conflicts
          stamp     : Nat]                       \* updated_at

AbsentDraft ==
    [status |-> "absent", rev |-> 0, text |-> NoText, dec |-> 0, review |-> NoReview,
     approval |-> NoApproval, intent |-> 0, auto |-> FALSE, armed |-> FALSE,
     outcome |-> "none", attemptAt |-> 0, attempted |-> FALSE, tweet |-> NoTweet,
     conflict |-> FALSE, stamp |-> 0]

-----------------------------------------------------------------------------
(* Decisions on one copy.                                                  *)

Identity(d) == <<d.rev, d.text>>

RevokeApproval(d) ==
    [d EXCEPT !.dec = @ + 1, !.approval = NoApproval, !.auto = FALSE, !.armed = FALSE,
              !.intent = 0]

RecordReview(d, kind) ==
    [RevokeApproval(d) EXCEPT !.review = [kind |-> kind, rev |-> d.rev, text |-> d.text]]

BindReviewedRevision(d, mode, intent, epoch) ==
    [d EXCEPT !.dec = @ + 1,
              !.approval = [mode |-> mode, rev |-> d.rev, text |-> d.text, dec |-> d.dec + 1,
                            intent |-> intent, epoch |-> epoch],
              !.intent = IF intent # 0 THEN intent ELSE @]

InvalidateText(d, text) ==
    IF text = d.text /\ ~d.conflict
    THEN d
    ELSE [RevokeApproval(d) EXCEPT !.rev = @ + 1, !.text = text, !.status = "pending",
                                   !.review = NoReview, !.conflict = FALSE]

ReviewIsCurrent(d) ==
    /\ ~d.conflict
    /\ d.review.kind # "none"
    /\ BindingMatches(d, d.review)

ApprovalIsCurrent(d, mode) ==
    /\ ReviewIsCurrent(d)
    /\ d.approval.mode = mode
    /\ BindingMatches(d, d.approval)
    /\ d.approval.dec = d.dec
    /\ d.approval.intent = d.intent
    /\ mode = "auto" => d.review.kind = "model"

(* has_unresolved_publish, entry being the attempts of the draft's event. *)
HasUnresolvedPublish(d, entry) ==
    \/ \E a \in entry : UnresolvedAttempt(a, d)
    \/ d.outcome \in {"submitted", "unknown"}
    \/ /\ d.status # "posted"
       /\ d.outcome = "none"
       /\ d.attempted \/ d.attemptAt # 0

-----------------------------------------------------------------------------
(* Reconciling two copies.                                                 *)

(* _draft_attempt_protected: the copy may stand for an unresolved attempt. *)
AttemptProtected(d) ==
    \/ d.intent # 0
    \/ d.conflict
    \/ d.outcome \in {"submitted", "unknown"}
    \/ (d.attempted \/ d.attemptAt # 0) /\ d.outcome = "none"

(* The copy stands for a platform call, whatever its approval says. *)
AttemptEvidence(d) ==
    d.attempted \/ d.attemptAt # 0 \/ d.outcome \in {"submitted", "unknown"}

StatusRank(d) ==
    CASE d.status = "posted"   -> 4
      [] d.status = "approved" -> 3
      [] d.status = "rejected" -> 2
      [] OTHER                 -> 1

(* Mutant of IncomingWins: the copy touched last wins, whatever was decided. *)
MutantLastTouchWins(cur, inc) == inc.stamp >= cur.stamp

(* The newer copy: by content revision, decision revision, update time and  *)
(* status; the incoming one on a tie.                                      *)
IncomingWins(cur, inc) ==
    \/ inc.rev > cur.rev
    \/ /\ inc.rev = cur.rev
       /\ \/ inc.dec > cur.dec
          \/ /\ inc.dec = cur.dec
             /\ \/ inc.stamp > cur.stamp
                \/ inc.stamp = cur.stamp /\ StatusRank(inc) >= StatusRank(cur)

(* Different texts of one revision, or different approvals of one decision. *)
CopiesConflict(cur, inc) ==
    \/ cur.rev = inc.rev /\ cur.text # inc.text
    \/ Identity(cur) = Identity(inc) /\ cur.dec = inc.dec /\ cur.approval # inc.approval

CarryUnknown(out, loser) ==
    [out EXCEPT !.attempted = TRUE, !.outcome = "unknown",
                !.attemptAt = IF loser.attemptAt # 0 THEN loser.attemptAt ELSE @]

(* The losing copy's platform evidence must survive in the winner. *)
KeepEvidence(out, loser) ==
    LET same == Identity(out) = Identity(loser)
        sameAttempt == out.attemptAt = loser.attemptAt
    IN  IF same /\ loser.tweet # NoTweet
        THEN [out EXCEPT !.tweet = loser.tweet, !.status = "posted", !.outcome = "confirmed",
                         !.attemptAt = IF loser.attemptAt # 0 THEN loser.attemptAt ELSE @]
        ELSE IF \/ ~same /\ loser.tweet # NoTweet
                \/ /\ AttemptProtected(loser) /\ AttemptEvidence(loser)
                   /\ ~(same /\ sameAttempt /\ out.outcome \in {"not_sent", "confirmed"})
        THEN CarryUnknown(out, loser)
        ELSE out

MergeDraftPair(cur, inc) ==
    LET winner == IF IncomingWins(cur, inc) THEN inc ELSE cur
        loser  == IF IncomingWins(cur, inc) THEN cur ELSE inc
        conflict == \/ CopiesConflict(cur, inc)
                    \/ \E d \in {cur, inc} : d.rev = winner.rev /\ d.conflict
        out == IF conflict
               THEN [winner EXCEPT !.conflict = TRUE, !.approval = NoApproval, !.armed = FALSE]
               ELSE winner
    IN  KeepEvidence(out, loser)

(* _merge_drafts for one id: a copy known to one side only is kept. *)
MergeDraft(cur, inc) ==
    IF cur.status = "absent" THEN inc
    ELSE IF inc.status = "absent" THEN cur
    ELSE MergeDraftPair(cur, inc)
=============================================================================
