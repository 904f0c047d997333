------------------------- MODULE OperatorDecisions -------------------------
(***************************************************************************)
(* What operators are promised about their requests, whatever carries      *)
(* them: a request takes effect at most once, whole, and only on exactly   *)
(* the copies its operator saw; one that was closed without effect         *)
(* (refused, found to change nothing, or given up) never takes effect.  A  *)
(* decision moves every copy it touches on, so of the requests made from   *)
(* one view at most one takes effect.                                      *)
(***************************************************************************)
EXTENDS Integers

CONSTANTS Drafts

VARIABLES
    copy,       \* each draft's copy: its rev and dec identify it
    applied,    \* the requests that took effect; r.views are the copies its operator saw
    closed      \* those that never will

decisionVars == <<copy, applied, closed>>

Versioned(c) == c.rev \in Nat /\ c.dec \in Nat

(* Every decision advances the copy's decision revision. *)
MovesOn(before, after) == Versioned(after) /\ after.dec > before.dec /\ after.rev >= before.rev

DecisionInit ==
    /\ \A d \in Drafts : Versioned(copy[d])
    /\ applied = {} /\ closed = {}

(* A request that takes effect now, and was still waiting to. *)
TakesEffect(r) ==
    /\ r \notin applied \cup closed
    /\ DOMAIN r.views \subseteq Drafts
    /\ \A d \in DOMAIN r.views : copy[d] = r.views[d] /\ MovesOn(copy[d], copy'[d])

(* Any number of requests, if no two are about the same draft, and any       *)
(* number of closures; no copy changes without a request about it.           *)
DecisionNext ==
    /\ applied \subseteq applied' /\ closed \subseteq closed'
    /\ \A r \in applied' \ applied : TakesEffect(r)
    /\ \A r, s \in applied' \ applied : r # s => DOMAIN r.views \cap DOMAIN s.views = {}
    /\ \A d \in Drafts : copy'[d] # copy[d] => \E r \in applied' \ applied : d \in DOMAIN r.views
    /\ (closed' \ closed) \cap applied' = {}

DecisionSpec == DecisionInit /\ [][DecisionNext]_decisionVars

(* Of the requests made from one view of a draft at most one took effect. *)
OneWinnerPerView ==
    \A r, s \in applied : r # s =>
        \A d \in DOMAIN r.views \cap DOMAIN s.views : r.views[d] # s.views[d]

(* No request both took effect and was reported closed. *)
ClosedStaysClosed == applied \cap closed = {}
=============================================================================
