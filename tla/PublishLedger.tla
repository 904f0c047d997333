---------------------------- MODULE PublishLedger ----------------------------
(***************************************************************************)
(* One event's entry in the publish ledger (src/state.py and               *)
(* src/editorial/revisions.py).  The code stores a primary attempt and     *)
(* hangs every other known attempt below it as attempt_conflicts; merging  *)
(* flattens the entry and elects a primary again, so an entry is modelled  *)
(* as the SET of its attempts, the primary being a function of the set.    *)
(*                                                                         *)
(* An attempt is a record                                                  *)
(*   intent, at, draft, rev, text : what was submitted, when, under which  *)
(*                                  publish intent (0: the draft's own id) *)
(*   phase                        : "submitted", "unknown", "not_sent" or  *)
(*                                  "confirmed"                            *)
(*   tweet                        : the X post id, NoTweet without receipt *)
(*   cancelled                    : operator_cancellation is recorded      *)
(* Opaque (malformed) evidence and the passive observations are left out.  *)
(***************************************************************************)
EXTENDS Integers, FiniteSets

NoTweet == 0

Phases == {"submitted", "unknown", "not_sent", "confirmed"}

(* Two rows report the same platform call: _merge_publish_ledger's key.    *)
AttemptKey(a) == <<a.intent, a.at, a.rev, a.text>>

SameAttempt(a, b) == AttemptKey(a) = AttemptKey(b)

(* A post id and the phase "confirmed" are always recorded together        *)
(* (post_approved, decide of delivery_reconciliation).                     *)
ReceiptIsConfirmed(a) == a.tweet # NoTweet <=> a.phase = "confirmed"

(* _attempt_rank: how final a row is about its platform call.              *)
AttemptRank(a) ==
    IF a.tweet # NoTweet \/ a.phase = "confirmed" THEN 4
    ELSE CASE a.phase = "not_sent" -> 3
           [] a.phase = "unknown"  -> 2
           [] OTHER                -> 1

Outranked(a, S) == \E b \in S : SameAttempt(a, b) /\ AttemptRank(b) > AttemptRank(a)

(***************************************************************************)
(* _merge_publish_ledger for one event: of the rows about one call the     *)
(* most final one stays (two different receipts both stay), a recorded     *)
(* cancellation survives on it, and different calls are all kept.          *)
(***************************************************************************)
KeepCancellation(a, S) ==
    [a EXCEPT !.cancelled = \E b \in S : SameAttempt(a, b) /\ b.cancelled]

(* Mutant of MergeAttempts: an event keeps the incoming entry only. *)
MutantOverlay(A, B) == IF B = {} THEN A ELSE B

MergeAttempts(A, B) ==
    LET S == A \cup B
    IN  {KeepCancellation(a, S) : a \in {x \in S : ~Outranked(x, S)}}

HasReceipt(S) == \E a \in S : a.tweet # NoTweet

(* The primary row: a receipt before none, then the latest, then the most final. *)
PrimaryOver(a, b) ==
    \/ a.tweet # NoTweet /\ b.tweet = NoTweet
    \/ /\ (a.tweet # NoTweet) = (b.tweet # NoTweet)
       /\ \/ a.at > b.at
          \/ a.at = b.at /\ AttemptRank(a) >= AttemptRank(b)

Primary(S) == CHOOSE a \in S : \A b \in S : PrimaryOver(a, b)

(* binding_matches: the row or binding names this draft's current identity. *)
BindingMatches(d, b) == b.rev = d.rev /\ b.text = d.text

(* Mutant of UnresolvedAttempt: an attempt stops blocking once it is unknown. *)
MutantUnknownExpires(a, d) ==
    IF a.tweet # NoTweet THEN ~BindingMatches(d, a) ELSE a.phase = "submitted"

(* has_unresolved_publish's judgement of one attempt, for draft d. *)
UnresolvedAttempt(a, d) ==
    IF a.tweet # NoTweet THEN ~BindingMatches(d, a) ELSE a.phase # "not_sent"

(* An attempt that may have reached the platform and has no receipt. *)
Open(a) == a.tweet = NoTweet /\ a.phase # "not_sent"
=============================================================================
