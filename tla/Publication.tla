----------------------------- MODULE Publication -----------------------------
(***************************************************************************)
(* Publishing drafts over one shared document (the state Gist).  Three     *)
(* actors meet on it: bot runs (one at a time, the workflow's concurrency  *)
(* group), the dashboard, and X.  A bot run reads the document once, works *)
(* on its copy, and writes by GET, merge, PATCH (src/state.py write_state);*)
(* the dashboard checks one draft and its event's attempts and PATCHes the *)
(* whole document (dashboard/lib/state-store.js), or, when the serialized  *)
(* route is effective, submits the same operation to a consumer that runs  *)
(* in the bot's own concurrency group (Serialized).                        *)
(***************************************************************************)
EXTENDS DraftRevisions, FiniteSetsExt

CONSTANTS
    Drafts, Events,
    EventOf,        \* the event of each draft
    Epochs,         \* publication epochs, natural numbers
    Serialized,     \* the dashboard writes through the serialized route
    MaxRev,         \* bound: content revisions an edit may reach
    MaxDec,         \* bound: decision revision up to which the dashboard acts
    MaxIntents,     \* bound: publish intents minted
    MaxAttempts,    \* bound: platform attempts claimed
    MaxFaults       \* bound: failed reads and writes, and crashes

ASSUME PublicationAssumption ==
    /\ EventOf \in [Drafts -> Events]
    /\ Epochs \subseteq Nat \ {0}
    /\ Serialized \in BOOLEAN
    /\ MaxAttempts \in Nat

VARIABLES
    gist,       \* the shared document
    run,        \* the bot run: its progress and its environment
    mem,        \* the run's copy of the document
    patch,      \* a bot PATCH under way: what its GET saw, what it will write
    dash,       \* a dashboard PATCH under way, likewise
    requested,  \* manual publications asked for: pairs of a draft and an intent
    posts,      \* what X published: pairs of an event and an attempt
    intents, attempts, faults,    \* counters
    lost,       \* ghost: a PATCH replaced a document it had not read
    erased      \* ghost: the events whose attempts one of them replaced unread

pubVars == <<gist, run, mem, patch, dash, requested, posts, intents, attempts, faults, lost, erased>>

NoEpoch == 0
Releases == {[on |-> FALSE, epoch |-> NoEpoch]} \cup [on : BOOLEAN, epoch : Epochs]

Attempt == {a \in [intent : Nat \cup Drafts, at : Nat, rev : Nat, text : Texts, phase : Phases,
                   tweet : Nat, cancelled : BOOLEAN] : ReceiptIsConfirmed(a)}

Document == [drafts  : [Drafts -> Draft],
             ledger  : [Events -> SUBSET Attempt],    \* publish_ledger
             posted  : SUBSET Events,                 \* posted_events
             retired : SUBSET Epochs,                 \* publication_control
             epoch   : Epochs \cup {NoEpoch},
             enabled : BOOLEAN]

EmptyDocument ==
    [drafts |-> [d \in Drafts |-> AbsentDraft], ledger |-> [e \in Events |-> {}],
     posted |-> {}, retired |-> {}, epoch |-> NoEpoch, enabled |-> FALSE]

NoWrite == [on |-> FALSE]
NoDraft == "no draft"

(* The idle value also clears what the last run left behind in its process. *)
IdleRun == [pc |-> "idle"]

-----------------------------------------------------------------------------
(* Merging documents (_merge_state), on the keys modelled.                 *)

(* Mutant of MergeRetired: the epoch last observed counts as current again. *)
MutantForgetRetired(cur, inc) == (cur.retired \cup inc.retired) \ {inc.epoch}

(* merge_publication_control: no stale writer forgets a retired epoch.     *)
MergeRetired(cur, inc) == cur.retired \cup inc.retired

(* The latest observation of the release is the incoming one, a bot run's. *)
MergeDocument(cur, inc) ==
    [drafts  |-> [d \in Drafts |-> MergeDraft(cur.drafts[d], inc.drafts[d])],
     ledger  |-> [e \in Events |-> MergeAttempts(cur.ledger[e], inc.ledger[e])],
     posted  |-> cur.posted \cup inc.posted,
     retired |-> MergeRetired(cur, inc), epoch |-> inc.epoch, enabled |-> inc.enabled]

-----------------------------------------------------------------------------
(* Update times.  A copy touched now is newer than every copy there is;    *)
(* only the order of the times matters.                                    *)

Copies(d) == {gist.drafts[d], mem.drafts[d]}
             \cup {w.doc.drafts[d] : w \in {x \in {patch, dash} : x.on}}

Touch(d, draft) ==
    [draft EXCEPT !.stamp = 1 + Max({draft.stamp} \cup {c.stamp : c \in Copies(d)})]

-----------------------------------------------------------------------------
(* Reading the document.                                                   *)

Entry(doc, d) == doc.ledger[EventOf[d]]

Unresolved(doc, d) == HasUnresolvedPublish(doc.drafts[d], Entry(doc, d))

(* automatic_publication_policy, under the repository variables rel.       *)
Enabled(doc, rel) == rel.on /\ rel.epoch # NoEpoch /\ rel.epoch \notin doc.retired

AutomaticAllowed(doc, draft, rel) == Enabled(doc, rel) /\ draft.approval.epoch = rel.epoch

(* _publish_intent_id: a draft without an intent publishes under its own id. *)
PublishIntentId(d, draft) == IF draft.intent # 0 THEN draft.intent ELSE d

Automatic(draft) == draft.approval.mode = "auto" \/ draft.auto \/ draft.armed

(* observe_publication_policy; repeating it changes nothing more.          *)
ObservePolicy(doc, rel) ==
    LET enabled == Enabled(doc, rel)
        retired == doc.retired
            \cup {e \in {doc.epoch} \ {NoEpoch} : ~enabled \/ e # rel.epoch}
            \cup {e \in {rel.epoch} \ {NoEpoch} : ~enabled}
        obsolete == {d \in Drafts :
            /\ doc.drafts[d].status \in {"pending", "approved"}
            /\ Automatic(doc.drafts[d])
            /\ \/ ~enabled
               \/ doc.drafts[d].approval.epoch # rel.epoch
               \/ doc.drafts[d].approval.epoch \in retired}
    IN  [doc EXCEPT
            !.drafts = [d \in Drafts |-> IF d \in obsolete THEN RevokeApproval(@[d]) ELSE @[d]],
            !.retired = retired \cup ({doc.drafts[d].approval.epoch : d \in obsolete} \ {NoEpoch}),
            !.epoch = rel.epoch,
            !.enabled = enabled]

(* _reconcile_publish_ledger: a receipt repairs the draft it was sent from. *)
(* (A receipt for other content only adds an error note, left out.)        *)
RepairDraft(d, draft, entry) ==
    LET row  == Primary(entry)
        view == [draft EXCEPT !.status = "posted", !.outcome = "confirmed"]
    IN  IF /\ draft.status \notin {"absent", "posted"}
           /\ HasReceipt(entry)
           /\ BindingMatches(draft, row)
           /\ ~HasUnresolvedPublish(view, entry)
        THEN Touch(d, [view EXCEPT !.tweet = row.tweet, !.attemptAt = row.at,
                                   !.armed = FALSE, !.intent = 0])
        ELSE draft

(* Mutant of ReconcileLedger: only drafts still in the queue are repaired. *)
MutantRepairQueued(doc) ==
    [doc EXCEPT !.drafts = [d \in Drafts |->
        IF @[d].status \in {"pending", "approved"} THEN RepairDraft(d, @[d], Entry(doc, d)) ELSE @[d]]]

ReconcileLedger(doc) ==
    [doc EXCEPT !.drafts = [d \in Drafts |-> RepairDraft(d, @[d], Entry(doc, d))]]

-----------------------------------------------------------------------------
Init ==
    /\ gist = EmptyDocument
    /\ run = IdleRun
    /\ mem = EmptyDocument
    /\ patch = NoWrite
    /\ dash = NoWrite
    /\ requested = {}
    /\ posts = {}
    /\ intents = 0
    /\ attempts = 0
    /\ faults = 0
    /\ lost = FALSE /\ erased = {}

(* What no write has read. *)
Unread == <<lost, erased>>

(* What a bot step leaves alone unless it says otherwise. *)
Outside == <<dash, requested, intents>>

Fault == faults < MaxFaults /\ faults' = faults + 1

-----------------------------------------------------------------------------
(* A bot run (cli.main): read, observe the policy, work, save.             *)

Due(doc) == {d \in Drafts : doc.drafts[d].status = "pending" /\ doc.drafts[d].armed}

(* Which of the armed drafts are due is the clock's choice. *)
StartRun(mode, rel, request) ==
    LET observed == ObservePolicy(gist, rel)
        doc == IF mode = "alerts" THEN observed ELSE ReconcileLedger(observed)
    IN  /\ run.pc = "idle"
        /\ mem' = doc
        /\ \E todo \in SUBSET (IF mode = "auto" /\ Enabled(doc, rel) THEN Due(doc) ELSE {}) :
               run' = [pc |-> "work", mode |-> mode, rel |-> rel, request |-> request,
                       todo |-> todo]
        /\ UNCHANGED <<gist, patch, posts, attempts, faults, Unread, Outside>>

EndRun ==
    /\ run' = IdleRun
    /\ mem' = EmptyDocument

Saving == [pc |-> "save", tries |-> 0]

GoSave(m) ==
    /\ mem' = m
    /\ run' = Saving

Working(mode) == run.pc = "work" /\ run.mode = mode

(* draft_save.save_draft of an admitted story: a new draft, with or without *)
(* a current model review, armed at once when automation is released.      *)
SaveDraft(d, text, modelReview) ==
    LET fresh == [AbsentDraft EXCEPT !.status = "pending", !.rev = 1, !.text = text]
        plain == IF modelReview THEN RecordReview(fresh, "model") ELSE RevokeApproval(fresh)
        armed == [BindReviewedRevision(plain, "auto", 0, run.rel.epoch)
                      EXCEPT !.auto = TRUE, !.armed = TRUE]
    IN  /\ Working("alerts")
        /\ mem.drafts[d].status = "absent"
        /\ \E new \in {plain} \cup (IF modelReview /\ Enabled(mem, run.rel) THEN {armed} ELSE {}) :
               mem' = [mem EXCEPT !.drafts[d] = Touch(d, new)]
        /\ UNCHANGED <<gist, run, patch, posts, attempts, faults, Unread, Outside>>

(* The run's work is over: nothing due is left, or the spacing guard defers it. *)
FinishWork ==
    /\ run.pc = "work"
    /\ run.mode # "manual"
    /\ \/ run.todo = {}
       \/ \E d \in Drafts : mem.drafts[d].status = "posted"
    /\ GoSave(mem)
    /\ UNCHANGED <<gist, patch, posts, attempts, faults, Unread, Outside>>

(* run_manual_tweet's checks before safety. *)
ManualAuthorized(d, intent) ==
    LET draft == mem.drafts[d]
    IN  /\ draft.status = "approved"
        /\ draft.intent = intent
        /\ draft.approval.intent = intent
        /\ ApprovalIsCurrent(draft, "manual")
        /\ ~Unresolved(mem, d)

(* post_approved's checks before it records an intent. *)
PostGuard(d, mode) ==
    LET draft == mem.drafts[d]
    IN  /\ mode = "auto" => AutomaticAllowed(mem, draft, run.rel)
        /\ ApprovalIsCurrent(draft, mode)
        /\ draft.status = IF mode = "manual" THEN "approved" ELSE "pending"
        /\ ~Unresolved(mem, d)
        /\ EventOf[d] \notin mem.posted
        /\ ~HasReceipt(Entry(mem, d))

(* The request is stale or the draft gone, the fire history is unsettled or *)
(* the editorial policy changed: the run only saves.                        *)
ManualSkip ==
    /\ Working("manual")
    /\ GoSave(mem)
    /\ UNCHANGED <<gist, patch, posts, attempts, faults, Unread, Outside>>

HeldDraft(draft) == [RevokeApproval(draft) EXCEPT !.status = "pending"]

(* The source went stale or the safety pipeline rejected the text. *)
ManualHold ==
    LET d == run.request[1]
    IN  /\ Working("manual")
        /\ ManualAuthorized(d, run.request[2])
        /\ GoSave([mem EXCEPT !.drafts[d] = Touch(d, HeldDraft(@))])
        /\ UNCHANGED <<gist, patch, posts, attempts, faults, Unread, Outside>>

(* What run_manual_tweet does to the draft after post_approved's answer.   *)
AfterManual(draft, result) ==
    CASE result = "posted"       -> [draft EXCEPT !.status = "posted", !.intent = 0]
      [] result = "rate_limited" -> [draft EXCEPT !.status = "pending", !.intent = 0]
      [] OTHER -> [draft EXCEPT !.status = "pending",
                                !.intent = IF draft.outcome = "not_sent" THEN 0 ELSE @]

(* And process_due_drafts: a failure hands the draft to a human. *)
AfterAuto(draft, result) ==
    CASE result = "posted"       -> [draft EXCEPT !.status = "posted", !.armed = FALSE]
      [] result = "rate_limited" -> [draft EXCEPT !.attempted = FALSE]
      [] OTHER -> RevokeApproval(draft)

(* post_approved refuses: the daily cap, fire history, or its own checks.  *)
ManualRefused ==
    LET d == run.request[1]
    IN  /\ Working("manual")
        /\ ManualAuthorized(d, run.request[2])
        /\ GoSave([mem EXCEPT !.drafts[d] = Touch(d, AfterManual(@, "failed"))])
        /\ UNCHANGED <<gist, patch, posts, attempts, faults, Unread, Outside>>

(* Every refusal of process_due_drafts or post_approved demotes a due draft. *)
AutoHold(d) ==
    /\ Working("auto")
    /\ d \in run.todo
    /\ mem' = [mem EXCEPT !.drafts[d] = Touch(d, RevokeApproval(@))]
    /\ run' = [run EXCEPT !.todo = @ \ {d}]
    /\ UNCHANGED <<gist, patch, posts, attempts, faults, Unread, Outside>>

-----------------------------------------------------------------------------
(* One attempt (post_approved): record the intent, make it durable for the *)
(* draft the run decided on, call the platform, keep the answer.           *)

Candidate(d) ==
    \/ Working("manual") /\ d = run.request[1] /\ ManualAuthorized(d, run.request[2])
    \/ Working("auto") /\ d \in run.todo

Claim(d) ==
    LET draft == mem.drafts[d]
        row == [intent |-> PublishIntentId(d, draft), at |-> attempts + 1,
                rev |-> draft.rev, text |-> draft.text,
                phase |-> "submitted", tweet |-> NoTweet, cancelled |-> FALSE]
        claimed == [draft EXCEPT !.outcome = "submitted", !.attemptAt = row.at,
                                 !.attempted = @ \/ run.mode = "auto"]
    IN  /\ Candidate(d)
        /\ PostGuard(d, run.mode)
        /\ attempts < MaxAttempts
        /\ attempts' = attempts + 1
        /\ mem' = [mem EXCEPT !.ledger[EventOf[d]] = {row}, !.drafts[d] = Touch(d, claimed)]
        /\ run' = [pc |-> "claim", mode |-> run.mode, rel |-> run.rel, todo |-> run.todo,
                   draft |-> d, want |-> draft, prior |-> Entry(mem, d)]
        /\ UNCHANGED <<gist, patch, posts, faults, Unread, Outside>>

(* Mutant of ExpectedDraftMatches: the claim is not checked against the read. *)
MutantUnchecked(doc) == TRUE

(* _expected_draft_matches, on the document the claim's GET returned.      *)
ExpectedDraftMatches(doc) ==
    /\ doc.drafts[run.draft] = run.want
    /\ Entry(doc, run.draft) = run.prior
    /\ run.want.approval.mode = "auto" => AutomaticAllowed(doc, run.want, run.rel)

(* The run's row and draft after an answer that leaves the row in phase. *)
Answered(phase) ==
    LET e == EventOf[run.draft]
        draft == mem.drafts[run.draft]
        tweet == IF phase = "confirmed" THEN draft.attemptAt ELSE NoTweet
        answered == [draft EXCEPT
            !.outcome = phase,
            !.tweet = IF phase = "confirmed" THEN tweet ELSE @,
            !.status = IF phase = "confirmed" THEN "posted" ELSE @,
            !.attempted = IF phase = "not_sent" THEN FALSE ELSE @]
    IN  [mem EXCEPT
            !.ledger[e] = {[a EXCEPT !.phase = phase, !.tweet = tweet] : a \in @},
            !.drafts[run.draft] = answered,
            !.posted = IF phase = "confirmed" THEN @ \cup {e} ELSE @]

(* Back to the caller: m is the copy post_approved leaves. *)
Finish(m, result) ==
    IF run.mode = "manual"
    THEN GoSave([m EXCEPT !.drafts[run.draft] = Touch(run.draft, AfterManual(@, result))])
    ELSE /\ mem' = [m EXCEPT !.drafts[run.draft] = Touch(run.draft, AfterAuto(@, result))]
         /\ run' = [pc |-> "work", mode |-> run.mode, rel |-> run.rel, request |-> NoDraft,
                    todo |-> run.todo \ {run.draft}]

(* The intent could not be confirmed durable: nothing is sent. *)
NotPersisted == Finish(Answered("not_sent"), "failed")

(* write_state's GET and checks, then the merge its PATCH will carry. *)
ClaimGet ==
    /\ run.pc = "claim"
    /\ \/ /\ ExpectedDraftMatches(gist)
          /\ patch' = [on |-> TRUE, base |-> gist, doc |-> MergeDocument(gist, mem)]
          /\ run' = [run EXCEPT !.pc = "claimPatch"]
          /\ UNCHANGED <<mem, faults>>
       \/ /\ ~ExpectedDraftMatches(gist)
          /\ NotPersisted
          /\ UNCHANGED <<patch, faults>>
       \/ /\ Fault
          /\ NotPersisted
          /\ UNCHANGED patch
    /\ UNCHANGED <<gist, posts, attempts, Unread, Outside>>

(* The PATCH reaches GitHub: it replaces the document, read or not. *)
Apply(write) ==
    /\ gist' = write.doc
    /\ lost' = (lost \/ gist # write.base)
    /\ erased' = erased \cup {e \in Events : gist.ledger[e] # write.base.ledger[e]}

(* Mutant of ClaimPatch: the answer of the write is not looked at. *)
MutantSendUnpersisted ==
    /\ run.pc = "claimPatch"
    /\ patch' = NoWrite
    /\ run' = [run EXCEPT !.pc = "send"]
    /\ \/ Apply(patch) /\ UNCHANGED faults
       \/ Fault /\ UNCHANGED <<gist, Unread>>
    /\ UNCHANGED <<mem, posts, attempts, Outside>>

ClaimPatch ==
    /\ run.pc = "claimPatch"
    /\ patch' = NoWrite
    /\ \/ /\ Apply(patch)
          /\ run' = [run EXCEPT !.pc = "send"]
          /\ UNCHANGED <<mem, faults>>
       \/ /\ Fault                       \* an error, the write applied or not
          /\ Apply(patch) \/ UNCHANGED <<gist, Unread>>
          /\ NotPersisted
    /\ UNCHANGED <<posts, attempts, Outside>>

(* Live checks after the claim: the source, the policy or the media moved. *)
HoldBeforeTransport ==
    /\ run.pc = "send"
    /\ \E held \in BOOLEAN :
          Finish([Answered("not_sent") EXCEPT
                     !.drafts[run.draft] = IF held THEN HeldDraft(@) ELSE @], "failed")
    /\ UNCHANGED <<gist, patch, posts, attempts, faults, Unread, Outside>>

Published == posts' = posts \cup {<<EventOf[run.draft], mem.drafts[run.draft].attemptAt>>}

(* Mutant of SendSilent: a missing response is taken for a refusal. *)
MutantSilenceMeansRefused ==
    /\ run.pc = "send"
    /\ Published \/ UNCHANGED posts
    /\ Finish(Answered("not_sent"), "failed")
    /\ UNCHANGED <<gist, patch, attempts, faults, Unread, Outside>>

(* No response, or one that proves nothing: the post may exist. *)
SendSilent ==
    /\ run.pc = "send"
    /\ Published \/ UNCHANGED posts
    /\ Finish(Answered("unknown"), "failed")
    /\ UNCHANGED <<gist, patch, attempts, faults, Unread, Outside>>

SendConfirmed ==
    /\ run.pc = "send"
    /\ Published
    /\ Finish(Answered("confirmed"), "posted")
    /\ UNCHANGED <<gist, patch, attempts, faults, Unread, Outside>>

(* A complete refusal before creation, or a rate limit: proof of no post. *)
SendRefused ==
    /\ run.pc = "send"
    /\ \E result \in {"rate_limited", "failed"} : Finish(Answered("not_sent"), result)
    /\ UNCHANGED <<gist, patch, posts, attempts, faults, Unread, Outside>>

-----------------------------------------------------------------------------
(* The final save (cli.main): write_state, tried twice.                    *)

SaveFailed ==
    IF run.tries = 0
    THEN run' = [Saving EXCEPT !.tries = 1] /\ UNCHANGED mem
    ELSE EndRun

SaveGet ==
    /\ run.pc = "save"
    /\ \/ /\ patch' = [on |-> TRUE, base |-> gist, doc |-> MergeDocument(gist, mem)]
          /\ run' = [run EXCEPT !.pc = "savePatch"]
          /\ UNCHANGED <<mem, faults>>
       \/ /\ Fault
          /\ SaveFailed
          /\ UNCHANGED patch
    /\ UNCHANGED <<gist, posts, attempts, Unread, Outside>>

SavePatch ==
    /\ run.pc = "savePatch"
    /\ patch' = NoWrite
    /\ \/ /\ Apply(patch)
          /\ EndRun
          /\ UNCHANGED faults
       \/ /\ Fault
          /\ Apply(patch) \/ UNCHANGED <<gist, Unread>>
          /\ SaveFailed
    /\ UNCHANGED <<posts, attempts, Outside>>

(* The process dies: only what reached the document or X remains. *)
Crash ==
    /\ run.pc # "idle"
    /\ Fault
    /\ EndRun
    /\ patch' = NoWrite
    /\ UNCHANGED <<gist, posts, attempts, Unread, Outside>>

(* A PATCH whose process is gone may still have been applied. *)
CrashAfterPatch ==
    /\ run.pc \in {"claimPatch", "savePatch"}
    /\ Fault
    /\ Apply(patch)
    /\ EndRun
    /\ patch' = NoWrite
    /\ UNCHANGED <<posts, attempts, Outside>>

-----------------------------------------------------------------------------
(* The dashboard.  An operation reads the document, checks, and writes it   *)
(* back changed in one draft (or one event's attempts).  The direct route   *)
(* PATCHes later; the serialized one runs between bot runs.                 *)

Submit(doc, request) ==
    IF Serialized
    THEN /\ run.pc = "idle"
         /\ gist' = doc
         /\ requested' = requested \cup request
         /\ UNCHANGED dash
    ELSE /\ dash = NoWrite
         /\ dash' = [on |-> TRUE, base |-> gist, doc |-> doc, request |-> request]
         /\ UNCHANGED <<gist, requested>>

OutsideDash == <<run, mem, patch, posts, attempts, faults, Unread>>

SubmitDraft(d, draft, request) ==
    Submit([gist EXCEPT !.drafts[d] = Touch(d, draft)], request)

(* assertMutable. *)
Mutable(d) ==
    /\ gist.drafts[d].status \in {"pending", "approved"}
    /\ ~Unresolved(gist, d)
    /\ gist.drafts[d].dec < MaxDec

Pending(d) == Mutable(d) /\ gist.drafts[d].status = "pending"

(* An edit that changes nothing only refreshes updated_at: left out. *)
Edit(d, text) ==
    /\ Mutable(d)
    /\ text # gist.drafts[d].text \/ gist.drafts[d].conflict
    /\ gist.drafts[d].rev < MaxRev
    /\ SubmitDraft(d, InvalidateText(gist.drafts[d], text), {})
    /\ UNCHANGED <<intents, OutsideDash>>

ReviewDraft(d) ==
    /\ Pending(d)
    /\ ~gist.drafts[d].conflict
    /\ SubmitDraft(d, RecordReview(gist.drafts[d], "human"), {})
    /\ UNCHANGED <<intents, OutsideDash>>

(* Approve for manual publication: a fresh intent, then a dispatch of the bot. *)
Approve(d) ==
    LET intent == intents + 1
        approved == BindReviewedRevision(RevokeApproval(gist.drafts[d]), "manual", intent, 0)
    IN  /\ Pending(d)
        /\ ReviewIsCurrent(gist.drafts[d])
        /\ intents < MaxIntents
        /\ intents' = intent
        /\ SubmitDraft(d, [approved EXCEPT !.status = "approved"], {<<d, intent>>})
        /\ UNCHANGED OutsideDash

(* Schedule automatic publication under the epoch the bot last reported. *)
AutoApprove(d) ==
    LET draft == gist.drafts[d]
        bound == BindReviewedRevision(RevokeApproval(draft), "auto", 0, gist.epoch)
    IN  /\ Pending(d)
        /\ ReviewIsCurrent(draft)
        /\ draft.review.kind = "model"
        /\ gist.enabled
        /\ gist.epoch \notin gist.retired
        /\ SubmitDraft(d, [bound EXCEPT !.auto = TRUE, !.armed = TRUE], {})
        /\ UNCHANGED <<intents, OutsideDash>>

Reject(d) ==
    /\ Mutable(d)
    /\ SubmitDraft(d, [RevokeApproval(gist.drafts[d]) EXCEPT !.status = "rejected"], {})
    /\ UNCHANGED <<intents, OutsideDash>>

(* Also the rollback of an approval whose dispatch GitHub refused. *)
CancelAutoApprove(d) ==
    /\ Mutable(d)
    /\ SubmitDraft(d, HeldDraft(gist.drafts[d]), {})
    /\ UNCHANGED <<intents, OutsideDash>>

(* decide (delivery_reconciliation): the attempt the operator names is the  *)
(* event's only one, and its event has exactly one draft.                   *)
Decidable(e, a, d) ==
    /\ gist.ledger[e] = {a}
    /\ {x \in Drafts : EventOf[x] = e /\ gist.drafts[x].status # "absent"} = {d}
    /\ a.tweet = NoTweet

(* The operator found the attempt's post on X. *)
ReconcileConfirm(e, a, d) ==
    /\ Decidable(e, a, d)
    /\ a.phase # "not_sent"
    /\ <<e, a.at>> \in posts
    /\ Submit([gist EXCEPT !.ledger[e] = {[a EXCEPT !.tweet = a.at, !.phase = "confirmed"]}], {})
    /\ UNCHANGED <<intents, OutsideDash>>

ReconcileCancel(e, a, d) ==
    /\ Decidable(e, a, d)
    /\ ~a.cancelled
    /\ gist.drafts[d].dec < MaxDec
    /\ Submit([gist EXCEPT !.ledger[e] = {[a EXCEPT !.cancelled = TRUE]},
                           !.drafts[d] = Touch(d, [RevokeApproval(@) EXCEPT
                                                       !.status = "rejected"])], {})
    /\ UNCHANGED <<intents, OutsideDash>>

(* The direct route's PATCH. *)
DashPatch ==
    /\ dash.on
    /\ Apply(dash)
    /\ requested' = requested \cup dash.request
    /\ dash' = NoWrite
    /\ UNCHANGED <<run, mem, patch, posts, intents, attempts, faults>>

DashFail ==
    /\ dash.on
    /\ dash' = NoWrite
    /\ UNCHANGED <<gist, requested, intents, OutsideDash>>

-----------------------------------------------------------------------------
Start ==
    \E rel \in Releases :
        \/ \E request \in requested : StartRun("manual", rel, request)
        \/ \E mode \in {"auto", "alerts"} : StartRun(mode, rel, NoDraft)

RunStep ==
    \/ \E d \in Drafts, text \in Texts, modelReview \in BOOLEAN : SaveDraft(d, text, modelReview)
    \/ FinishWork
    \/ ManualSkip
    \/ ManualHold
    \/ ManualRefused
    \/ \E d \in Drafts : AutoHold(d) \/ Claim(d)
    \/ ClaimGet
    \/ ClaimPatch
    \/ HoldBeforeTransport
    \/ SendSilent
    \/ SendConfirmed
    \/ SendRefused
    \/ SaveGet
    \/ SavePatch
    \/ Crash
    \/ CrashAfterPatch

Dashboard ==
    \/ \E d \in Drafts :
        \/ \E text \in Texts : Edit(d, text)
        \/ ReviewDraft(d)
        \/ Approve(d)
        \/ AutoApprove(d)
        \/ Reject(d)
        \/ CancelAutoApprove(d)
        \/ \E a \in gist.ledger[EventOf[d]] :
            \/ ReconcileConfirm(EventOf[d], a, d)
            \/ ReconcileCancel(EventOf[d], a, d)
    \/ DashPatch
    \/ DashFail

Next == Start \/ RunStep \/ Dashboard

Spec == Init /\ [][Next]_pubVars

-----------------------------------------------------------------------------
(* Properties.                                                             *)

(* Crashes, failed writes, silent answers, repeated dispatches, retries and *)
(* operator decisions in any order publish an event at most once.  What a   *)
(* PATCH replaces unread (an edit, an approval, another event's attempts)   *)
(* cannot break it: only the attempts of that very event, lost this way,    *)
(* can (post_approved, write_state).                                        *)
AtMostOncePerEvent == \A p, q \in posts : p[1] = q[1] => p = q \/ p[1] \in erased

(* Each post X has is, in the shared document, an attempt with its receipt  *)
(* or one still unresolved, never one ruled out; and no receipt is invented *)
(* (the write-first order of post_approved, _merge_publish_ledger), for     *)
(* every event none of whose attempts was replaced unread.                  *)
EvidenceBeforeEgress ==
    /\ \A p \in posts : p[1] \in erased \/ \E a \in gist.ledger[p[1]] :
          a.at = p[2] /\ (a.tweet # NoTweet \/ Open(a))
    /\ \A e \in Events \ erased : \A a \in gist.ledger[e] : a.tweet # NoTweet => <<e, a.tweet>> \in posts

(* When the platform call is made, the shared document still authorizes     *)
(* exactly this content by exactly the approval the run relied on, and an   *)
(* automatic one under an epoch that is not retired.  An operator who       *)
(* cancels the recorded attempt meanwhile does not recall it.               *)
AuthorityAtSend ==
    run.pc = "send" =>
        LET draft == gist.drafts[run.draft]
        IN  \/ lost
            \/ \E a \in Entry(gist, run.draft) :
                   a.at = mem.drafts[run.draft].attemptAt /\ a.cancelled
            \/ /\ ApprovalIsCurrent(draft, run.mode)
               /\ draft.approval = run.want.approval
               /\ \E a \in Entry(gist, run.draft) : Open(a) /\ Identity(a) = Identity(draft)
               /\ run.mode = "auto" => draft.approval.epoch \notin gist.retired

(* A draft of the shared document is authorized by the approval it had      *)
(* before the step, or by a later decision: no write, merge or stale copy   *)
(* brings back an approval that was revoked.                                *)
AuthorityOnlyByNewDecision ==
    [][\A d \in Drafts, mode \in {"manual", "auto"} :
          LET old == gist.drafts[d]
              new == gist'.drafts[d]
          IN  ApprovalIsCurrent(new, mode) =>
                  \/ lost'
                  \/ ApprovalIsCurrent(old, mode) /\ new.approval = old.approval
                  \/ new.dec > old.dec]_pubVars

(* A merge about to be written keeps every platform attempt either side     *)
(* knows, with its receipt and its cancellation; an attempt leaves the open *)
(* ones only on the word of a more final row about the same call.           *)
MergeKeepsEvidence ==
    patch.on =>
        \A e \in Events :
            LET known == patch.base.ledger[e] \cup mem.ledger[e]
            IN  \A a \in known : \E b \in patch.doc.ledger[e] :
                    /\ SameAttempt(a, b)
                    /\ a.tweet # NoTweet => b.tweet = a.tweet
                    /\ a.cancelled => b.cancelled
                    /\ Open(a) => \/ Open(b)
                                  \/ \E c \in known : SameAttempt(a, c) /\ c.phase = b.phase

(* An epoch once retired in the shared document never again authorizes an   *)
(* automatic platform call (merge_publication_control).                     *)
SendsUnder(epoch) ==
    run.pc = "send" /\ run.mode = "auto" /\ run.want.approval.epoch = epoch

RetiredForGood == \A epoch \in Epochs : [](epoch \in gist.retired => []~SendsUnder(epoch))

-----------------------------------------------------------------------------
(* What publication implements: the attempts of the shared document, and    *)
(* the process between its durable claim and the platform call.             *)

DurableAttempts(Test(_)) ==
    UNION {{<<e, a.at>> : a \in {x \in gist.ledger[e] : Test(x)}} : e \in Events}

Outbox == INSTANCE DeliveryOutbox WITH
    Numbers <- 1..MaxAttempts,
    open    <- DurableAttempts(Open),
    sent    <- DurableAttempts(LAMBDA a : a.tweet # NoTweet),
    notSent <- DurableAttempts(LAMBDA a : a.tweet = NoTweet /\ ~Open(a)),
    flight  <- IF run.pc = "send"
               THEN {<<EventOf[run.draft], mem.drafts[run.draft].attemptAt>>} ELSE {}

(* Through the serialized route, the whole of drafts, approvals, merges,    *)
(* failed writes and crashes implements the write-first outbox.             *)
ImplementsOutbox == Outbox!Spec

-----------------------------------------------------------------------------
(* The scheduler starts the hourly automatic run again and again (bot.yml), *)
(* and a run that has started goes on until it ends or dies.                *)
FairSpec ==
    /\ Spec
    /\ WF_pubVars(RunStep)
    /\ SF_pubVars(\E rel \in Releases : StartRun("auto", rel, NoDraft))

Repairable(d) ==
    /\ gist.drafts[d].status # "posted"
    /\ RepairDraft(d, gist.drafts[d], Entry(gist, d)).status = "posted"

(* A receipt in the ledger finds its way to the draft it was sent from,     *)
(* through runs that die and writes that fail (_reconcile_publish_ledger).  *)
ReceiptReachesDraft ==
    \A d \in Drafts : Repairable(d) ~> gist.drafts[d].status = "posted"

(* delivery_reconciliation.py: "unknown stays unknown until a receipt ...   *)
(* is supplied", "an exact later receipt may still confirm that attempt":   *)
(* an attempt that did reach X can be confirmed by the operator.            *)
ReceiptConfirmable ==
    run.pc = "idle" =>
        \A e \in Events, d \in Drafts : \A a \in gist.ledger[e] :
            (/\ Open(a)
             /\ <<e, a.at>> \in posts
             /\ {x \in Drafts : EventOf[x] = e /\ gist.drafts[x].status # "absent"} = {d})
            => Decidable(e, a, d)
=============================================================================
