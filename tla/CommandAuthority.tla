-------------------------- MODULE CommandAuthority --------------------------
(***************************************************************************)
(* The transactional command authority (src/commands/sqlite_authority.py   *)
(* and, with submission recovery, postgres_authority.py) over the reducer  *)
(* of draft commands (reducer.py).  Operators send requests about the      *)
(* copies they see; a request may arrive late, repeatedly or never.        *)
(* accept journals it once; consume takes the oldest journaled one without *)
(* a result and commits the new drafts together with its result;           *)
(* abandon_submission closes a request that was never journaled.  Each is  *)
(* one transaction: an error, a crash or an unavailable resolver leaves    *)
(* everything as it was, and is no step here.                              *)
(*                                                                         *)
(* Left out: the other authorities' actions (media, sources, candidates,   *)
(* generation), roles beyond a revocation, and the read-only hold on       *)
(* imported drafts.                                                        *)
(***************************************************************************)
EXTENDS DraftRevisions, Sequences

CONSTANTS
    Drafts,
    Actors,
    Ids,            \* command identifiers: positive, and the publish intent they derive
    Initial,        \* the states the authority may be initialized with
    Choices,        \* what operators may ask: an action, its targets and its argument
    Epochs,         \* publication epochs the execution policy may enable
    Lifetime,       \* ticks from requested_at to expires_at
    MaxSent, MaxTime, MaxRev    \* bounds: requests, clock, content revisions

ASSUME AuthorityAssumption ==
    /\ Ids \subseteq Nat \ {0} /\ Epochs \subseteq Nat \ {0}
    /\ Lifetime \in Nat /\ MaxSent \in Nat /\ MaxTime \in Nat /\ MaxRev \in Nat
    /\ NoText \notin Texts
    /\ Initial \subseteq [Drafts -> Draft]

VARIABLES
    drafts,     \* authority_state
    intents,    \* command_intents, in sequence order
    results,    \* command_results' status, by command id
    sent,       \* requests that may reach accept or abandon_submission
    abandoned,  \* requests whose operator was told that they were abandoned
    revoked,    \* operators the resolver no longer knows
    now

authorityVars == <<drafts, intents, results, sent, abandoned, revoked, now>>

Actions == {"edit_revision", "record_review", "approve_revision", "schedule_revision",
            "cancel_approval", "reject_revision", "bulk_reject"}

(* DraftTarget: the exact copy of a draft that an operator saw. *)
View == [rev : Nat, text : Texts \cup {NoText}, dec : Nat]

ViewOf(draft) == [rev |-> draft.rev, text |-> draft.text, dec |-> draft.dec]

Choice == [action : Actions, targets : (SUBSET Drafts) \ {{}},
           text : Texts \cup {NoText}, epoch : Epochs \cup {0}]

IsRequest(r) ==
    /\ r.id \in Ids /\ r.actor \in Actors /\ r.action \in Actions /\ r.expires \in Nat
    /\ DOMAIN r.views \subseteq Drafts
    /\ r.action # "bulk_reject" => \E d \in Drafts : DOMAIN r.views = {d}
    /\ \A d \in DOMAIN r.views : r.views[d] \in View
    /\ r.text \in Texts \cup {NoText} /\ r.epoch \in Epochs \cup {0}

ASSUME ChoiceAssumption ==
    \A c \in Choices : c \in Choice /\ (c.action # "bulk_reject" => \E d \in Drafts : c.targets = {d})

(* A closure is an intent of its own, under the id of the request it closes. *)
Intent == [closure : BOOLEAN, request : sent]

Results == {"none", "applied", "unchanged", "rejected", "abandoned"}

AuthorityInit ==
    /\ drafts \in Initial
    /\ intents = <<>>
    /\ results = [i \in Ids |-> "none"]
    /\ sent = {} /\ abandoned = {} /\ revoked = {}
    /\ now = 0

-----------------------------------------------------------------------------
(* reduce_command.                                                         *)

(* Mutants of TargetAccepts: decisions, or the whole copy, are not compared. *)
MutantSameContent(r, d) ==
    /\ drafts[d].rev = r.views[d].rev /\ drafts[d].text = r.views[d].text
    /\ drafts[d].status = "pending"

MutantAnyCopy(r, d) == drafts[d].status = "pending"

(* _target_drafts *)
TargetAccepts(r, d) ==
    /\ ViewOf(drafts[d]) = r.views[d]
    /\ drafts[d].status \in {"pending", "approved"}
    /\ ~HasUnresolvedPublish(drafts[d], {})
    /\ r.action \in {"record_review", "approve_revision", "schedule_revision", "bulk_reject"}
          => drafts[d].status = "pending"

Permitted(r, draft, epoch) ==
    CASE r.action = "approve_revision"  -> ReviewIsCurrent(draft)
      [] r.action = "schedule_revision" -> /\ ReviewIsCurrent(draft) /\ draft.review.kind = "model"
                                           /\ epoch # 0 /\ r.epoch = epoch
      [] OTHER -> TRUE

Approved(draft, id) ==
    [BindReviewedRevision(RevokeApproval(draft), "manual", id, 0) EXCEPT !.status = "approved"]

Scheduled(draft, epoch) ==
    [BindReviewedRevision(RevokeApproval(draft), "auto", 0, epoch) EXCEPT !.auto = TRUE, !.armed = TRUE]

Decided(r, draft) ==
    CASE r.action = "edit_revision"     -> InvalidateText(draft, r.text)
      [] r.action = "record_review"     -> RecordReview(draft, "human")
      [] r.action = "approve_revision"  -> Approved(draft, r.id)
      [] r.action = "schedule_revision" -> Scheduled(draft, r.epoch)
      [] r.action = "cancel_approval"   -> [RevokeApproval(draft) EXCEPT !.status = "pending"]
      [] OTHER                          -> [RevokeApproval(draft) EXCEPT !.status = "rejected"]

(* Every target is validated before any is changed. *)
Acceptable(r, epoch) ==
    /\ now < r.expires
    /\ r.actor \notin revoked
    /\ \A d \in DOMAIN r.views : TargetAccepts(r, d) /\ Permitted(r, drafts[d], epoch)

Reduction(r) ==
    [d \in Drafts |-> IF d \in DOMAIN r.views THEN Decided(r, drafts[d]) ELSE drafts[d]]

-----------------------------------------------------------------------------
(* Operators.                                                              *)

(* A new request, from what its operator sees now, under a new id or, by a *)
(* client's mistake, one used before.  (Ids are interchangeable: new ones   *)
(* are taken in order.)                                                     *)
Send(id, a, c) ==
    /\ Cardinality(sent) < MaxSent
    /\ id <= Cardinality({r.id : r \in sent}) + 1
    /\ a \notin revoked
    /\ c.action = "edit_revision" => \A d \in c.targets : drafts[d].rev < MaxRev
    /\ sent' = sent \cup {[id |-> id, actor |-> a, action |-> c.action,
                           views |-> [d \in c.targets |-> ViewOf(drafts[d])],
                           text |-> c.text, epoch |-> c.epoch, expires |-> now + Lifetime]}
    /\ UNCHANGED <<drafts, intents, results, abandoned, revoked, now>>

Revoke(a) ==
    /\ a \notin revoked
    /\ revoked' = revoked \cup {a}
    /\ UNCHANGED <<drafts, intents, results, sent, abandoned, now>>

Tick ==
    /\ now < MaxTime
    /\ now' = now + 1
    /\ UNCHANGED <<drafts, intents, results, sent, abandoned, revoked>>

-----------------------------------------------------------------------------
(* The authority's transactions.                                           *)

Known(id) == \E k \in DOMAIN intents : intents[k].request.id = id

(* A repeated request gets its first receipt again, and a different one    *)
(* under its id is refused (command_id_reused): neither changes anything.  *)
Accept(r) ==
    /\ r \in sent
    /\ r.actor \notin revoked
    /\ ~Known(r.id)
    /\ now < r.expires
    /\ intents' = Append(intents, [closure |-> FALSE, request |-> r])
    /\ UNCHANGED <<drafts, results, sent, abandoned, revoked, now>>

(* Mutant of Oldest: any pending request may be consumed. *)
MutantAnyPending(k) == k \in DOMAIN intents /\ results[intents[k].request.id] = "none"

Oldest(k) ==
    /\ k \in DOMAIN intents
    /\ results[intents[k].request.id] = "none"
    /\ \A j \in 1..(k - 1) : results[intents[j].request.id] # "none"

Consume(k, epoch) ==
    LET r == intents[k].request
        reduced == IF Acceptable(r, epoch) THEN Reduction(r) ELSE drafts
        status == IF ~Acceptable(r, epoch) THEN "rejected"
                  ELSE IF reduced = drafts THEN "unchanged" ELSE "applied"
    IN /\ Oldest(k)
       /\ drafts' = reduced
       /\ results' = [results EXCEPT ![r.id] = status]
       /\ UNCHANGED <<intents, sent, abandoned, revoked, now>>

(* Mutant of Abandon: the closure is journaled without its result. *)
MutantAbandonWithoutResult(r) ==
    /\ r \in sent
    /\ r.actor \notin revoked
    /\ ~Known(r.id)
    /\ intents' = Append(intents, [closure |-> TRUE, request |-> r])
    /\ abandoned' = abandoned \cup {r}
    /\ UNCHANGED <<drafts, results, sent, revoked, now>>

(* A known request is answered with its result, or that it is pending. *)
Abandon(r) ==
    /\ r \in sent
    /\ r.actor \notin revoked
    /\ ~Known(r.id)
    /\ intents' = Append(intents, [closure |-> TRUE, request |-> r])
    /\ results' = [results EXCEPT ![r.id] = "abandoned"]
    /\ abandoned' = abandoned \cup {r}
    /\ UNCHANGED <<drafts, sent, revoked, now>>

ConsumeOldest == \E k \in DOMAIN intents, epoch \in Epochs \cup {0} : Consume(k, epoch)

AuthorityNext ==
    \/ \E a \in Actors : Revoke(a)
    \/ Tick
    \/ \E r \in sent : Accept(r) \/ Abandon(r)
    \/ ConsumeOldest
    \/ \E id \in Ids, a \in Actors, c \in Choices : Send(id, a, c)

AuthoritySpec == AuthorityInit /\ [][AuthorityNext]_authorityVars

-----------------------------------------------------------------------------
AuthorityTypeOK ==
    /\ drafts \in [Drafts -> Draft]
    /\ \A k \in DOMAIN intents :
          intents[k] \in Intent /\ (intents[k].closure <=> results[intents[k].request.id] = "abandoned")
    /\ results \in [Ids -> Results]
    /\ (\A r \in sent : IsRequest(r)) /\ abandoned \subseteq sent /\ revoked \subseteq Actors
    /\ now \in 0..MaxTime

(* What operators are promised: a journaled request takes effect at most    *)
(* once, whole, on exactly the copies its operator saw, and never after it  *)
(* was refused or its operator was told that it is abandoned.               *)
Taken == {r \in sent : \E k \in DOMAIN intents :
             intents[k] = [closure |-> FALSE, request |-> r] /\ results[r.id] = "applied"}

Ended == abandoned \cup
    {r \in sent : \E k \in DOMAIN intents :
        intents[k] = [closure |-> FALSE, request |-> r] /\ results[r.id] \in {"unchanged", "rejected"}}

Copies == [d \in Drafts |-> ViewOf(drafts[d])]

Decisions == INSTANCE OperatorDecisions
                 WITH copy <- Copies, applied <- Taken, closed <- Ended

ImplementsDecisions == Decisions!DecisionSpec

(* An approval that stands was taken by an operator who saw exactly the     *)
(* text the draft has, under the intent that its own command derives.       *)
ApprovedAsSeen ==
    \A d \in Drafts : drafts[d].approval.mode = "manual" =>
        \E r \in Taken :
            /\ r.action = "approve_revision" /\ d \in DOMAIN r.views
            /\ r.id = drafts[d].approval.intent
            /\ r.views[d].rev = drafts[d].rev /\ r.views[d].text = drafts[d].text

(* Results follow the order of acceptance, whatever ids consumers name.     *)
ResultsInOrder ==
    \A j, k \in DOMAIN intents :
        j < k /\ ~intents[k].closure /\ results[intents[k].request.id] # "none"
            => results[intents[j].request.id] # "none"
=============================================================================
