--------------------------- MODULE PublicationInv ---------------------------
(***************************************************************************)
(* The inductive invariants of Publication: PubTypeOK and PatchIsMerge     *)
(* (types, and what a pending write carries), LedgerInv (the attempts) and *)
(* ClaimAuthority, DashAuthority, AuthorityInv (what authorizes a call).   *)
(* TLC evaluates them; PublicationProofs proves them.                      *)
(***************************************************************************)
EXTENDS Publication

Patching == {"claimPatch", "savePatch"}
Claiming == {"claim", "claimPatch", "send"}

KnownEpochs == Epochs \cup {NoEpoch}

(* What every copy of a draft satisfies beyond its type. *)
DraftOK(x) ==
    /\ x \in Draft
    /\ x.approval.epoch \in KnownEpochs
    /\ x.approval.mode # "none" /\ x.intent # 0 => x.approval.intent = x.intent
    /\ (x.status = "absent" <=> x.dec = 0)
    /\ x.status # "absent" => x.text \in Texts
    /\ x.status = "absent" => x.approval = NoApproval

(* A row of one of the first n attempts. *)
RowAt(a, n) == a \in Attempt /\ a.at \in 1..n

(* A document, written when n attempts had been claimed. *)
DocAt(doc, n) ==
    /\ doc \in Document
    /\ \A d \in Drafts : DraftOK(doc.drafts[d])
    /\ \A e \in Events : \A a \in doc.ledger[e] : RowAt(a, n)

(* A PATCH under way: what its GET saw and what it writes. *)
WriteAt(w, n) ==
    \/ w = NoWrite
    \/ w.on = TRUE /\ DocAt(w.base, n) /\ DocAt(w.doc, n)

Requests == Drafts \X (Nat \ {0})

(* The environment of a run, at work and while it holds a claim. *)
WorkOK ==
    /\ run = [pc |-> "work", mode |-> run.mode, rel |-> run.rel, request |-> run.request,
              todo |-> run.todo]
    /\ run.mode \in {"manual", "auto", "alerts"}
    /\ run.rel \in Releases
    /\ run.mode = "manual" => run.request \in Requests
    /\ run.todo \in SUBSET Drafts

ClaimOK ==
    /\ run = [pc |-> run.pc, mode |-> run.mode, rel |-> run.rel, todo |-> run.todo,
              draft |-> run.draft, want |-> run.want, prior |-> run.prior]
    /\ run.mode \in {"manual", "auto"}
    /\ run.rel \in Releases
    /\ run.todo \in SUBSET Drafts
    /\ run.draft \in Drafts
    /\ run.want \in Draft
    /\ run.prior \in SUBSET Attempt

RunOK ==
    \/ run = IdleRun
    \/ run.pc = "work" /\ WorkOK
    \/ run.pc \in Claiming /\ ClaimOK
    \/ run.pc \in {"save", "savePatch"} /\ run = [pc |-> run.pc, tries |-> run.tries] /\ run.tries \in {0, 1}

(* The claimed draft carries the number of the latest attempt. *)
ClaimedDraftOK ==
    run.pc \in Claiming =>
        /\ mem.drafts[run.draft].status # "absent"
        /\ mem.drafts[run.draft].attemptAt = attempts
        /\ attempts # 0

(* The drafts a run still has to publish are drafts it knows. *)
TodoOK ==
    run.pc \in {"work"} \cup Claiming => \A d \in run.todo : mem.drafts[d].status # "absent"

(* Whoever loses the attempts of an event overwrites a document unread. *)
UnreadOK == lost \in BOOLEAN /\ erased \in SUBSET Events /\ (erased # {} => lost)

(* The type invariant. *)
PubTypeOK ==
    /\ DocAt(gist, attempts)
    /\ DocAt(mem, attempts)
    /\ WriteAt(patch, attempts)
    /\ WriteAt(dash, attempts)
    /\ dash.on => dash.request \in SUBSET Requests
    /\ RunOK
    /\ ClaimedDraftOK
    /\ TodoOK
    /\ requested \in SUBSET Requests
    /\ posts \in SUBSET (Events \X (1..attempts))
    /\ intents \in Nat
    /\ attempts \in 0..MaxAttempts
    /\ UnreadOK

(* A pending PATCH of the bot is the merge of its GET with the copy of the run. *)
PatchIsMerge ==
    /\ (patch.on <=> run.pc \in Patching)
    /\ patch.on => patch.doc = MergeDocument(patch.base, mem)
    /\ run.pc = "idle" => mem = EmptyDocument

-----------------------------------------------------------------------------
ClaimedEvent == EventOf[run.draft]

(* The attempts of an event X published. *)
PostsOf(e) == {p[2] : p \in {q \in posts : q[1] = e}}

(* The attempt may have reached X, or did. *)
Live(a) == a.phase # "not_sent"

(* A row agrees with the posts P: a receipt is of a post, a row ruled out of none. *)
Recorded(a, P, n) ==
    /\ RowAt(a, n)
    /\ a.phase = "confirmed" => a.tweet = a.at /\ a.at \in P
    /\ a.phase = "not_sent" => a.at \notin P

(* One row for each attempt; rows of one attempt are about the same call; and *)
(* only one attempt of an event may have reached X.                           *)
OneRow(S) == \A a, b \in S : a.at = b.at => a = b
OneCall(S) == \A a, b \in S : a.at = b.at => SameAttempt(a, b)
OneLive(S) == \A a, b \in S : Live(a) /\ Live(b) => a.at = b.at
LiveAt(S, n) == \E a \in S : a.at = n /\ Live(a)

(* The rows G of an event in the document and M in the copy of the run, with its *)
(* posts P: whatever was posted is live in the document, and the copy holds no *)
(* live attempt the document lacks.                                           *)
EventOK(G, M, P, n) ==
    /\ \A a \in G \cup M : Recorded(a, P, n)
    /\ OneCall(G \cup M) /\ OneRow(G) /\ OneRow(M) /\ OneLive(G)
    /\ \A p \in P : LiveAt(G, p)
    /\ \A a \in M : Live(a) => LiveAt(G, a.at)

(* The intent of attempt n, submitted. *)
ClaimRow(r, n) == RowAt(r, n) /\ r.at = n /\ r.phase = "submitted"

(* The same while the intent of attempt n is in the copy only, *)
PendingOK(G, M, P, n) ==
    /\ EventOK(G, {}, P, n)
    /\ \A a \in G : a.at # n
    /\ \E r \in M : M = {r} /\ ClaimRow(r, n)

(* and once it is durable, until the platform answers. *)
SendingOK(G, M, P, n) ==
    /\ EventOK(G, M, P, n)
    /\ n \notin P
    /\ \A a \in G : a.at = n => Live(a)
    /\ \E a \in G : a.at = n /\ Open(a)
    /\ \E r \in M : M = {r} /\ ClaimRow(r, n)

(* What a decision of the operator makes of the rows of an event. *)
RowsOf(P, A, B) ==
    \/ B = A
    \/ \E a \in A :
          /\ A = {a} /\ a.tweet = NoTweet
          /\ \/ B = {[a EXCEPT !.cancelled = TRUE]}
             \/ /\ Live(a) /\ a.at \in P
                /\ B = {[a EXCEPT !.tweet = a.at, !.phase = "confirmed"]}

ClaimPending(e) == run.pc \in {"claim", "claimPatch"} /\ e = ClaimedEvent

(* The attempts of an event: a run that claims saw no live one, and writes over *)
(* what it saw.                                                               *)
LedgerAt(e) ==
    /\ IF ClaimPending(e) THEN PendingOK(gist.ledger[e], mem.ledger[e], PostsOf(e), attempts)
                         ELSE EventOK(gist.ledger[e], mem.ledger[e], PostsOf(e), attempts)
    /\ run.pc \in Claiming /\ e = ClaimedEvent =>
          /\ run.pc = "send" => SendingOK(gist.ledger[e], mem.ledger[e], PostsOf(e), attempts)
          /\ run.pc \in {"claim", "claimPatch"} => \A a \in run.prior : ~Live(a)
          /\ run.pc = "claimPatch" => patch.base.ledger[e] = run.prior

LedgerOK == \A e \in Events : LedgerAt(e)

(* A PATCH of the dashboard under way decides over the rows it read. *)
DashRows ==
    dash.on => \A e \in Events : RowsOf(PostsOf(e), dash.base.ledger[e], dash.doc.ledger[e])

(* The invariant of the attempts: it holds of each event whose attempts no PATCH *)
(* replaced unread, whatever else one did replace.                            *)
LedgerInv == DashRows /\ \A e \in Events \ erased : LedgerAt(e)

-----------------------------------------------------------------------------
(* Two copies are authorized alike. *)
SameAuthority(x, y) ==
    /\ x.rev = y.rev /\ x.text = y.text /\ x.dec = y.dec /\ x.review = y.review
    /\ x.approval = y.approval /\ x.intent = y.intent /\ x.conflict = y.conflict

Modes == {"manual", "auto"}

(* The run that holds a claim was, and is, authorized by the draft it decided on. *)
ClaimAuthority ==
    run.pc \in Claiming =>
        LET own == mem.drafts[run.draft] IN
        /\ ApprovalIsCurrent(run.want, run.mode)
        /\ SameAuthority(run.want, own)
        /\ own.stamp > run.want.stamp
        /\ \A r \in Entry(mem, run.draft) : Identity(r) = Identity(own)
        /\ run.mode = "auto" => run.want.approval.epoch \notin mem.retired
        /\ run.pc = "claimPatch" => /\ patch.base.drafts[run.draft] = run.want
                                    /\ run.mode = "auto" => run.want.approval.epoch \notin patch.base.retired

(* An operation of the dashboard is a later decision on a draft, made while none *)
(* of its attempts is unresolved, or together with cancelling the only one.   *)
DashDraft(base, doc, d) ==
    \/ doc.drafts[d] = base.drafts[d]
    \/ /\ doc.drafts[d].dec > base.drafts[d].dec
       /\ doc.drafts[d].rev >= base.drafts[d].rev
       /\ base.drafts[d].status # "absent"
       /\ ~Unresolved(base, d) \/ \E a \in Entry(base, d) : Entry(doc, d) = {[a EXCEPT !.cancelled = TRUE]}

DashAuthority ==
    dash.on => /\ \A d \in Drafts : DashDraft(dash.base, dash.doc, d)
               /\ dash.doc.retired = dash.base.retired

(* What the copy own still authorizes, the document's copy old authorizes   *)
(* too, or a later decision has replaced it.                               *)
Follows(old, own) ==
    /\ own.status = "absent" => old.status = "absent"
    /\ (\E mode \in Modes : ApprovalIsCurrent(own, mode)) /\ old.status # "absent" =>
          \/ old.dec > own.dec /\ old.rev >= own.rev
          \/ SameAuthority(old, own)

(* The copy of a run never runs ahead of the document. *)
MemAuthority ==
    run.pc # "idle" => \A d \in Drafts : Follows(gist.drafts[d], mem.drafts[d])

(* The invariant of authority. *)
AuthorityInv == lost \/ (MemAuthority /\ AuthorityAtSend)
=============================================================================
