----------------------- MODULE CommandAuthorityProofs -----------------------
(***************************************************************************)
(* CommandAuthority implements OperatorDecisions for any drafts, texts,    *)
(* operators, identifiers, requests and bounds.                            *)
(***************************************************************************)
EXTENDS CommandAuthority, TLAPS

Entry == [closure : BOOLEAN, request : sent]

(* An id is journaled once; until then it has no result; a closure, and     *)
(* nothing else that is journaled, is abandoned.                           *)
JournalInv ==
    /\ drafts \in [Drafts -> Draft]
    /\ \A r \in sent : IsRequest(r)
    /\ intents \in Seq(Entry)
    /\ results \in [Ids -> Results]
    /\ \A j, k \in DOMAIN intents : intents[j].request.id = intents[k].request.id => j = k
    /\ \A i \in Ids : ~Known(i) => results[i] = "none"
    /\ \A k \in DOMAIN intents : intents[k].closure <=> results[intents[k].request.id] = "abandoned"
    /\ now \in Nat /\ abandoned \subseteq sent
    /\ \A r \in abandoned : \E k \in DOMAIN intents : intents[k] = [closure |-> TRUE, request |-> r]

LEMMA JournalInit == AuthorityInit => JournalInv
  BY AuthorityAssumption DEF AuthorityInit, JournalInv, Results, Entry, Known

-----------------------------------------------------------------------------
(* Decisions on a draft are drafts, of a later decision revision.          *)

After(x, y) == y \in Draft /\ y.dec > x.dec /\ y.rev >= x.rev

LEMMA RevokeMovesOn ==
  ASSUME NEW x \in Draft
  PROVE  /\ After(x, RevokeApproval(x))
         /\ RevokeApproval(x).rev = x.rev /\ RevokeApproval(x).text = x.text
<1>1. x.dec + 1 \in Nat /\ NoApproval \in Approval /\ 0 \in Nat
  BY DEF Draft, NoApproval, Approval
<1>2. RevokeApproval(x) \in Draft
  BY <1>1, Zenon DEF RevokeApproval, Draft
<1>3. RevokeApproval(x).dec = x.dec + 1 /\ RevokeApproval(x).rev = x.rev /\ RevokeApproval(x).text = x.text
  BY DEF RevokeApproval, Draft
<1>4. x.dec \in Nat /\ x.rev \in Nat
  BY DEF Draft
<1> QED BY <1>2, <1>3, <1>4 DEF After

LEMMA AfterStatus ==
  ASSUME NEW x \in Draft, NEW y, After(x, y), NEW status \in Statuses
  PROVE  After(x, [y EXCEPT !.status = status])
<1>1. [y EXCEPT !.status = status] \in Draft
  BY DEF After, Draft
<1>2. [y EXCEPT !.status = status].dec = y.dec /\ [y EXCEPT !.status = status].rev = y.rev
  BY DEF After, Draft
<1> QED BY <1>1, <1>2 DEF After

LEMMA ReviewMovesOn == ASSUME NEW x \in Draft PROVE After(x, RecordReview(x, "human"))
<1> DEFINE y == RevokeApproval(x)
           review == [kind |-> "human", rev |-> x.rev, text |-> x.text]
<1>1. After(x, y)
  BY RevokeMovesOn
<1>2. review \in Review
  BY DEF Draft, Review
<1>3. RecordReview(x, "human") = [y EXCEPT !.review = review]
  BY DEF RecordReview
<1>4. [y EXCEPT !.review = review] \in Draft
  BY <1>1, <1>2 DEF After, Draft
<1>5. [y EXCEPT !.review = review].dec = y.dec /\ [y EXCEPT !.review = review].rev = y.rev
  BY <1>1 DEF After, Draft
<1> QED BY <1>1, <1>3, <1>4, <1>5 DEF After

LEMMA BindMovesOn ==
  ASSUME NEW x \in Draft, NEW mode \in {"manual", "auto"}, NEW intent \in Nat, NEW epoch \in Nat
  PROVE  After(x, BindReviewedRevision(RevokeApproval(x), mode, intent, epoch))
<1> DEFINE y == RevokeApproval(x)
           approval == [mode |-> mode, rev |-> y.rev, text |-> y.text, dec |-> y.dec + 1,
                        intent |-> intent, epoch |-> epoch]
           held == IF intent # 0 THEN intent ELSE y.intent
           z == [y EXCEPT !.dec = y.dec + 1, !.approval = approval, !.intent = held]
<1>1. After(x, y) /\ y \in Draft
  BY RevokeMovesOn DEF After
<1>2. approval \in Approval /\ y.dec + 1 \in Nat /\ held \in Nat
  BY <1>1 DEF Draft, Approval
<1>3. BindReviewedRevision(y, mode, intent, epoch) = z
  BY DEF BindReviewedRevision
<1> HIDE DEF approval, held
<1>4. z \in Draft /\ z.dec = y.dec + 1 /\ z.rev = y.rev
  BY <1>1, <1>2 DEF Draft
<1>5. y.dec \in Nat /\ x.dec \in Nat
  BY <1>1 DEF Draft
<1> QED BY <1>1, <1>3, <1>4, <1>5 DEF After

LEMMA EditMovesOn ==
  ASSUME NEW x \in Draft, NEW text \in Texts \cup {NoText}, InvalidateText(x, text) # x
  PROVE  After(x, InvalidateText(x, text))
<1> DEFINE y == RevokeApproval(x)
           z == [y EXCEPT !.rev = y.rev + 1, !.text = text, !.status = "pending",
                          !.review = NoReview, !.conflict = FALSE]
<1>1. After(x, y) /\ y \in Draft
  BY RevokeMovesOn DEF After
<1>2. InvalidateText(x, text) = z
  BY DEF InvalidateText
<1>3. NoReview \in Review /\ y.rev + 1 \in Nat /\ "pending" \in Statuses /\ FALSE \in BOOLEAN
  BY <1>1 DEF NoReview, Review, Draft, Statuses
<1>4. z \in Draft
  BY <1>1, <1>3, Zenon DEF Draft
<1>5. z.dec = y.dec /\ z.rev = y.rev + 1
  BY <1>1 DEF Draft
<1>6. y.rev \in Nat /\ x.rev \in Nat
  BY <1>1 DEF Draft
<1> QED BY <1>1, <1>2, <1>4, <1>5, <1>6 DEF After

LEMMA ScheduleMovesOn ==
  ASSUME NEW x \in Draft, NEW epoch \in Nat PROVE After(x, Scheduled(x, epoch))
<1> DEFINE y == BindReviewedRevision(RevokeApproval(x), "auto", 0, epoch)
<1>1. After(x, y)
  BY BindMovesOn
<1>2. Scheduled(x, epoch) = [y EXCEPT !.auto = TRUE, !.armed = TRUE]
  BY DEF Scheduled
<1>3. [y EXCEPT !.auto = TRUE, !.armed = TRUE] \in Draft
  BY <1>1, Zenon DEF After, Draft
<1>4. [y EXCEPT !.auto = TRUE, !.armed = TRUE].dec = y.dec /\ [y EXCEPT !.auto = TRUE, !.armed = TRUE].rev = y.rev
  BY <1>1 DEF After, Draft
<1> QED BY <1>1, <1>2, <1>3, <1>4 DEF After

LEMMA DecidedMovesOn ==
  ASSUME NEW x \in Draft, NEW r, IsRequest(r), r.action # "edit_revision" \/ Decided(r, x) # x
  PROVE  After(x, Decided(r, x))
<1>1. r.id \in Nat /\ r.epoch \in Nat /\ r.text \in Texts \cup {NoText} /\ r.action \in Actions
  <2>1. r.id \in Ids /\ r.epoch \in Epochs \cup {0} /\ r.text \in Texts \cup {NoText} /\ r.action \in Actions
    BY DEF IsRequest
  <2>2. Ids \subseteq Nat /\ Epochs \cup {0} \subseteq Nat
    BY AuthorityAssumption
  <2> QED BY <2>1, <2>2
<1>2. CASE r.action = "edit_revision"
  BY <1>1, <1>2, EditMovesOn DEF Decided
<1>3. CASE r.action = "record_review"
  BY <1>3, ReviewMovesOn DEF Decided
<1>4. CASE r.action = "approve_revision"
  <2>1. After(x, BindReviewedRevision(RevokeApproval(x), "manual", r.id, 0))
    BY <1>1, BindMovesOn
  <2>2. After(x, Approved(x, r.id))
    BY <2>1, AfterStatus DEF Approved, Statuses
  <2> QED BY <1>4, <2>2 DEF Decided
<1>5. CASE r.action = "schedule_revision"
  BY <1>1, <1>5, ScheduleMovesOn DEF Decided
<1>6. CASE r.action = "cancel_approval"
  BY <1>6, RevokeMovesOn, AfterStatus DEF Decided, Statuses
<1>7. CASE r.action \in {"reject_revision", "bulk_reject"}
  BY <1>7, RevokeMovesOn, AfterStatus DEF Decided, Statuses
<1> QED BY <1>1, <1>2, <1>3, <1>4, <1>5, <1>6, <1>7 DEF Actions

-----------------------------------------------------------------------------
(* What a transaction leaves in place.                                     *)

(* Appending an entry keeps the others where they are. *)
LEMMA Appended ==
  ASSUME NEW S, NEW s \in Seq(S), NEW x, NEW t, t = Append(s, x)
  PROVE  /\ DOMAIN t = DOMAIN s \cup {Len(s) + 1}
         /\ \A k \in DOMAIN s : t[k] = s[k]
         /\ t[Len(s) + 1] = x
         /\ Len(s) + 1 \notin DOMAIN s
  OBVIOUS

LEMMA JournalGrows ==
  ASSUME intents \in Seq(Entry), sent \subseteq sent' PROVE intents \in Seq(Entry')
<1>1. Entry \subseteq Entry'
  BY DEF Entry
<1> HIDE DEF Entry
<1> QED BY <1>1

LEMMA SendKeepsJournal ==
  ASSUME JournalInv, NEW id \in Ids, NEW a \in Actors, NEW c \in Choices, Send(id, a, c)
  PROVE  JournalInv'
<1> DEFINE r == [id |-> id, actor |-> a, action |-> c.action,
                 views |-> [d \in c.targets |-> ViewOf(drafts[d])],
                 text |-> c.text, epoch |-> c.epoch, expires |-> now + Lifetime]
<1>1. UNCHANGED <<drafts, intents, results, abandoned, now>> /\ sent' = sent \cup {r}
  BY DEF Send
<1>2. c \in Choice
  BY ChoiceAssumption
<1>3. \A d \in c.targets : d \in Drafts /\ ViewOf(drafts[d]) \in View
  <2>1. c.targets \subseteq Drafts
    BY <1>2 DEF Choice
  <2>2. \A x \in Draft : ViewOf(x) \in View
    BY DEF ViewOf, View, Draft
  <2> QED BY <2>1, <2>2 DEF JournalInv
<1>4. IsRequest(r)
  <2>1. id \in Ids /\ a \in Actors /\ c.action \in Actions /\ now + Lifetime \in Nat
        /\ c.text \in Texts \cup {NoText} /\ c.epoch \in Epochs \cup {0}
    BY <1>2, AuthorityAssumption DEF JournalInv, Choice
  <2>2. DOMAIN r.views = c.targets /\ \A d \in c.targets : r.views[d] = ViewOf(drafts[d])
    OBVIOUS
  <2>3. DOMAIN r.views \subseteq Drafts /\ \A d \in DOMAIN r.views : r.views[d] \in View
    BY <1>3, <2>2
  <2>4. r.action # "bulk_reject" => \E d \in Drafts : DOMAIN r.views = {d}
    BY <2>2, ChoiceAssumption
  <2>5. r.id = id /\ r.actor = a /\ r.action = c.action /\ r.text = c.text /\ r.epoch = c.epoch
        /\ r.expires = now + Lifetime
    OBVIOUS
  <2> HIDE DEF r
  <2> QED BY <2>1, <2>3, <2>4, <2>5 DEF IsRequest
<1>5. intents' \in Seq(Entry')
  BY <1>1, JournalGrows DEF JournalInv
<1> HIDE DEF r
<1>6. \A q \in sent' : IsRequest(q)
  BY <1>1, <1>4 DEF JournalInv
<1> QED BY <1>1, <1>5, <1>6 DEF JournalInv, Known

(* A journaled request is sent, and has an id of the authority. *)
LEMMA EntryRequest ==
  ASSUME JournalInv, NEW k \in DOMAIN intents
  PROVE  intents[k] \in Entry /\ intents[k].request \in sent /\ intents[k].request.id \in Ids
<1>1. intents[k] \in Entry
  BY DEF JournalInv
<1> QED BY <1>1 DEF Entry, JournalInv, IsRequest

(* A request is journaled under an id that was not: as itself, or closed.   *)
LEMMA NewEntryKeepsJournal ==
  ASSUME JournalInv, NEW r \in sent, NEW closure \in BOOLEAN, ~Known(r.id),
         intents' = Append(intents, [closure |-> closure, request |-> r]),
         results' = IF closure THEN [results EXCEPT ![r.id] = "abandoned"] ELSE results,
         abandoned' = IF closure THEN abandoned \cup {r} ELSE abandoned,
         UNCHANGED <<drafts, sent, now>>
  PROVE  JournalInv'
<1> DEFINE entry == [closure |-> closure, request |-> r]
           n == Len(intents) + 1
<1>1. r.id \in Ids /\ entry \in Entry
  BY DEF JournalInv, IsRequest, Entry
<1>2. intents \in Seq(Entry) /\ intents' \in Seq(Entry')
  BY <1>1 DEF JournalInv, Entry
<1>3. /\ DOMAIN intents' = DOMAIN intents \cup {n}
      /\ \A k \in DOMAIN intents : intents'[k] = intents[k]
      /\ intents'[n] = entry /\ n \notin DOMAIN intents
  BY <1>2, Appended
<1>4. \A k \in DOMAIN intents : intents[k].request.id # r.id
  BY DEF Known
<1>5. \A k \in DOMAIN intents : results'[intents[k].request.id] = results[intents[k].request.id]
  BY <1>1, <1>4, EntryRequest DEF JournalInv
<1>6. results[r.id] = "none" /\ results' \in [Ids -> Results]
  BY <1>1 DEF JournalInv, Results
<1>7. entry.closure = closure /\ entry.request = r
  OBVIOUS
<1> HIDE DEF n, entry
<1>8. \A j, k \in DOMAIN intents' : intents'[j].request.id = intents'[k].request.id => j = k
  BY <1>3, <1>4, <1>7 DEF JournalInv
<1>9. \A i \in Ids : ~Known(i)' => ~Known(i) /\ i # r.id
  BY <1>3, <1>7 DEF Known
<1>10. \A i \in Ids : ~Known(i)' => results'[i] = "none"
  BY <1>1, <1>9 DEF JournalInv
<1>11. results'[r.id] = "abandoned" <=> closure
  BY <1>1, <1>6 DEF JournalInv
<1>12. \A k \in DOMAIN intents' : intents'[k].closure <=> results'[intents'[k].request.id] = "abandoned"
  BY <1>3, <1>5, <1>7, <1>11 DEF JournalInv
<1>13. \A q \in abandoned' : \E k \in DOMAIN intents' : intents'[k] = [closure |-> TRUE, request |-> q]
  <2>1. \A q \in abandoned : \E k \in DOMAIN intents : intents[k] = [closure |-> TRUE, request |-> q]
    BY DEF JournalInv
  <2>2. \A q \in abandoned : \E k \in DOMAIN intents' : intents'[k] = [closure |-> TRUE, request |-> q]
    BY <1>3, <2>1
  <2>3. closure => intents'[n] = [closure |-> TRUE, request |-> r]
    BY <1>3 DEF entry
  <2> QED BY <1>3, <2>2, <2>3
<1> QED BY <1>2, <1>6, <1>8, <1>10, <1>12, <1>13 DEF JournalInv

(* Deciding keeps drafts drafts. *)
LEMMA ReductionType ==
  ASSUME JournalInv, NEW r \in sent PROVE Reduction(r) \in [Drafts -> Draft]
<1>1. \A d \in Drafts : Decided(r, drafts[d]) \in Draft
  BY DecidedMovesOn DEF JournalInv, After
<1> QED BY <1>1 DEF Reduction, JournalInv

LEMMA ConsumeKeepsJournal ==
  ASSUME JournalInv, NEW k \in DOMAIN intents, NEW epoch \in Epochs \cup {0}, Consume(k, epoch)
  PROVE  JournalInv'
<1> DEFINE r == intents[k].request
<1>1. r \in sent /\ r.id \in Ids
  BY EntryRequest
<1>2. results[r.id] = "none"
  BY DEF Consume, Oldest
<1>3. \E status \in {"rejected", "unchanged", "applied"} : results' = [results EXCEPT ![r.id] = status]
  BY DEF Consume
<1>4. drafts' \in [Drafts -> Draft]
  BY <1>1, ReductionType DEF Consume, JournalInv
<1>5. UNCHANGED <<intents, sent, abandoned, now>>
  BY DEF Consume
<1>6. results' \in [Ids -> Results]
  BY <1>3 DEF JournalInv, Results
<1>7. \A j \in DOMAIN intents : intents[j].closure <=> results'[intents[j].request.id] = "abandoned"
  BY <1>1, <1>2, <1>3, EntryRequest DEF JournalInv
<1>8. \A i \in Ids : ~Known(i) => results'[i] = "none"
  BY <1>1, <1>3 DEF JournalInv, Known
<1> QED BY <1>4, <1>5, <1>6, <1>7, <1>8 DEF JournalInv, Known, Entry

LEMMA JournalNext == JournalInv /\ [AuthorityNext]_authorityVars => JournalInv'
<1> SUFFICES ASSUME JournalInv, [AuthorityNext]_authorityVars PROVE JournalInv'
  OBVIOUS
<1>1. CASE UNCHANGED <<drafts, intents, results, sent, abandoned>> /\ now' \in Nat
  BY <1>1 DEF JournalInv, Entry, Known
<1>2. ASSUME NEW r \in sent, Accept(r) PROVE JournalInv'
  BY <1>2, NewEntryKeepsJournal DEF Accept
<1>3. ASSUME NEW r \in sent, Abandon(r) PROVE JournalInv'
  BY <1>3, NewEntryKeepsJournal DEF Abandon
<1>4. CASE (\E a \in Actors : Revoke(a)) \/ Tick \/ UNCHANGED authorityVars
  BY <1>1, <1>4 DEF Revoke, Tick, authorityVars, JournalInv
<1> QED BY <1>2, <1>3, <1>4, SendKeepsJournal, ConsumeKeepsJournal DEF AuthorityNext, ConsumeOldest

-----------------------------------------------------------------------------
(* The refinement: what each transaction does to decisions.                *)

Journaled(r) == \E k \in DOMAIN intents : intents[k] = [closure |-> FALSE, request |-> r]

(* One request is journaled, or closed, under an id. *)
LEMMA OnePerId ==
  ASSUME JournalInv, NEW j \in DOMAIN intents, NEW k \in DOMAIN intents,
         intents[j].request.id = intents[k].request.id
  PROVE  intents[j] = intents[k]
  BY DEF JournalInv

LEMMA SendDecides ==
  ASSUME JournalInv, NEW id \in Ids, NEW a \in Actors, NEW c \in Choices, Send(id, a, c)
  PROVE  UNCHANGED <<Copies, Taken, Ended>>
<1>1. UNCHANGED <<drafts, intents, results, abandoned>> /\ sent \subseteq sent'
  BY DEF Send
<1>2. \A r : Journaled(r) => r \in sent
  BY EntryRequest DEF Journaled
<1>3. \A r : Journaled(r)' <=> Journaled(r)
  BY <1>1 DEF Journaled
<1>4. Copies' = Copies
  BY <1>1 DEF Copies
<1>5. Taken' = Taken /\ Ended' = Ended
  BY <1>1, <1>2, <1>3 DEF Taken, Ended, Journaled
<1> QED BY <1>4, <1>5

(* Journaling a request decides nothing; closing it closes it, once.        *)
LEMMA NewEntryDecides ==
  ASSUME JournalInv, NEW r \in sent, NEW closure \in BOOLEAN, ~Known(r.id),
         intents' = Append(intents, [closure |-> closure, request |-> r]),
         results' = IF closure THEN [results EXCEPT ![r.id] = "abandoned"] ELSE results,
         abandoned' = IF closure THEN abandoned \cup {r} ELSE abandoned,
         UNCHANGED <<drafts, sent, now>>
  PROVE  /\ UNCHANGED <<Copies, Taken>> /\ r \notin Taken
         /\ Ended' = IF closure THEN Ended \cup {r} ELSE Ended
<1> DEFINE n == Len(intents) + 1
<1>1. /\ DOMAIN intents' = DOMAIN intents \cup {n}
      /\ \A k \in DOMAIN intents : intents'[k] = intents[k]
      /\ intents'[n] = [closure |-> closure, request |-> r]
  BY Appended DEF JournalInv
<1>2. r.id \in Ids /\ results[r.id] = "none" /\ results \in [Ids -> Results]
  BY DEF JournalInv, IsRequest
<1>3. \A k \in DOMAIN intents : intents[k].request.id # r.id /\ intents[k].request.id \in Ids
  BY EntryRequest DEF Known
<1>4. ~Journaled(r)
  BY <1>3 DEF Journaled
<1> HIDE DEF n
<1>5. \A q : Journaled(q) => results'[q.id] = results[q.id]
  BY <1>2, <1>3 DEF Journaled
<1>6. \A q : Journaled(q) => Journaled(q)'
  BY <1>1 DEF Journaled
<1>7. \A q : Journaled(q)' => Journaled(q) \/ (q = r /\ results'[r.id] \notin {"applied", "unchanged", "rejected"})
  BY <1>1, <1>2 DEF Journaled
<1>8. Taken' = Taken /\ r \notin Taken
  BY <1>4, <1>5, <1>6, <1>7 DEF Taken, Journaled
<1>9. Ended' = IF closure THEN Ended \cup {r} ELSE Ended
  BY <1>4, <1>5, <1>6, <1>7 DEF Ended, Journaled
<1> QED BY <1>8, <1>9 DEF Copies

(* A result decides the request that was journaled under its id, and no     *)
(* other.                                                                  *)
LEMMA ResultDecides ==
  ASSUME JournalInv, NEW k \in DOMAIN intents, Oldest(k), NEW status \in Results,
         results' = [results EXCEPT ![intents[k].request.id] = status],
         UNCHANGED <<intents, sent, abandoned>>
  PROVE  LET r == intents[k].request
         IN  /\ r \notin Taken \cup Ended
             /\ Taken' = IF status = "applied" THEN Taken \cup {r} ELSE Taken
             /\ Ended' = IF status \in {"unchanged", "rejected"} THEN Ended \cup {r} ELSE Ended
<1> DEFINE r == intents[k].request
<1>1. r \in sent /\ r.id \in Ids /\ results[r.id] = "none" /\ results \in [Ids -> Results]
  BY EntryRequest DEF Oldest, JournalInv
<1>2. intents[k] = [closure |-> FALSE, request |-> r]
  <2>1. intents[k] \in Entry /\ ~intents[k].closure
    BY <1>1, EntryRequest DEF JournalInv
  <2> QED BY <2>1 DEF Entry
<1>3. r \notin abandoned
  <2>1. SUFFICES ASSUME NEW j \in DOMAIN intents, intents[j] = [closure |-> TRUE, request |-> r]
                 PROVE  FALSE
    BY DEF JournalInv
  <2>2. intents[j] = intents[k]
    BY <2>1, OnePerId
  <2> QED BY <1>2, <2>1, <2>2
<1>4. \A q : Journaled(q) /\ q # r => q.id # r.id
  <2>1. SUFFICES ASSUME NEW q, NEW j \in DOMAIN intents,
                        intents[j] = [closure |-> FALSE, request |-> q], q.id = r.id
                 PROVE  q = r
    BY DEF Journaled
  <2>2. intents[j] = intents[k]
    BY <2>1, OnePerId
  <2> QED BY <1>2, <2>1, <2>2
<1>5. \A q : Journaled(q)' <=> Journaled(q)
  BY DEF Journaled
<1>6. Journaled(r)
  BY <1>2 DEF Journaled
<1> HIDE DEF r
<1>7. \A q : Journaled(q) /\ q # r => results'[q.id] = results[q.id]
  BY <1>1, <1>4 DEF r, JournalInv
<1>8. results'[r.id] = status
  BY <1>1 DEF r
<1>9. r \notin Taken \cup Ended
  BY <1>1, <1>3 DEF Taken, Ended
<1>10. Taken' = IF status = "applied" THEN Taken \cup {r} ELSE Taken
  BY <1>1, <1>5, <1>6, <1>7, <1>8, <1>9 DEF Taken, Journaled
<1>11. Ended' = IF status \in {"unchanged", "rejected"} THEN Ended \cup {r} ELSE Ended
  BY <1>1, <1>5, <1>6, <1>7, <1>8, <1>9 DEF Ended, Journaled
<1> QED BY <1>9, <1>10, <1>11 DEF r

(* An applied request changes every copy it is about, and no other.         *)
LEMMA AppliedDecides ==
  ASSUME JournalInv, NEW k \in DOMAIN intents, NEW epoch \in Epochs \cup {0}, Consume(k, epoch),
         Acceptable(intents[k].request, epoch), Reduction(intents[k].request) # drafts
  PROVE  Decisions!DecisionNext
<1> DEFINE r == intents[k].request
<1>1. r \in sent /\ r.id \in Ids /\ IsRequest(r)
  BY EntryRequest DEF JournalInv
<1>2. drafts' = Reduction(r) /\ results' = [results EXCEPT ![r.id] = "applied"]
      /\ UNCHANGED <<intents, sent, abandoned>> /\ Oldest(k)
  BY DEF Consume
<1>3. /\ r \notin Taken \cup Ended
      /\ Taken' = Taken \cup {r} /\ Ended' = Ended
  BY <1>2, ResultDecides DEF Results
<1> HIDE DEF r
<1>4. DOMAIN r.views \subseteq Drafts /\ drafts \in [Drafts -> Draft] /\ drafts' \in [Drafts -> Draft]
  BY <1>1, <1>2, ReductionType DEF IsRequest, JournalInv
<1>5. \A d \in Drafts \ DOMAIN r.views : drafts'[d] = drafts[d]
  BY <1>2 DEF Reduction
<1>6. \A d \in DOMAIN r.views : drafts'[d] = Decided(r, drafts[d]) /\ ViewOf(drafts[d]) = r.views[d]
  BY <1>2, <1>4 DEF Reduction, Acceptable, TargetAccepts, r
<1>7. \A d \in DOMAIN r.views : r.action # "edit_revision" \/ Decided(r, drafts[d]) # drafts[d]
  <2>1. SUFFICES ASSUME r.action = "edit_revision",
                        NEW d \in DOMAIN r.views, Decided(r, drafts[d]) = drafts[d]
                 PROVE  FALSE
    OBVIOUS
  <2>2. DOMAIN r.views = {d}
    BY <1>1, <2>1 DEF IsRequest
  <2>3. \A c \in Drafts : drafts'[c] = drafts[c]
    BY <1>5, <1>6, <2>1, <2>2
  <2>4. drafts' = drafts
    BY <1>4, <2>3
  <2> QED BY <1>2, <2>4 DEF r
<1>8. \A d \in DOMAIN r.views : After(drafts[d], drafts'[d])
  BY <1>1, <1>4, <1>6, <1>7, DecidedMovesOn
<1>9. \A d \in Drafts : Copies[d] = ViewOf(drafts[d]) /\ Copies'[d] = ViewOf(drafts'[d])
  BY DEF Copies
<1>10. \A d \in DOMAIN r.views : Copies[d] = r.views[d] /\ Decisions!MovesOn(Copies[d], Copies'[d])
  <2>1. SUFFICES ASSUME NEW d \in DOMAIN r.views
                 PROVE  Copies[d] = r.views[d] /\ Decisions!MovesOn(Copies[d], Copies'[d])
    OBVIOUS
  <2>2. Copies[d] = ViewOf(drafts[d]) /\ Copies'[d] = ViewOf(drafts'[d]) /\ After(drafts[d], drafts'[d])
    BY <1>4, <1>8, <1>9
  <2>3. drafts'[d].dec \in Nat /\ drafts'[d].rev \in Nat
    BY <2>2 DEF After, Draft
  <2> QED BY <1>6, <2>2, <2>3 DEF Decisions!MovesOn, Decisions!Versioned, ViewOf, After
<1>11. \A d \in Drafts \ DOMAIN r.views : Copies'[d] = Copies[d]
  BY <1>5, <1>9
<1>12. Decisions!TakesEffect(r)
  BY <1>3, <1>4, <1>10 DEF Decisions!TakesEffect
<1>13. Taken' \ Taken = {r}
  BY <1>3
<1> QED BY <1>3, <1>11, <1>12, <1>13 DEF Decisions!DecisionNext

LEMMA ConsumeDecides ==
  ASSUME JournalInv, NEW k \in DOMAIN intents, NEW epoch \in Epochs \cup {0}, Consume(k, epoch)
  PROVE  Decisions!DecisionNext
<1> DEFINE r == intents[k].request
<1>1. CASE Acceptable(r, epoch) /\ Reduction(r) # drafts
  BY <1>1, AppliedDecides
<1>2. CASE ~(Acceptable(r, epoch) /\ Reduction(r) # drafts)
  <2>1. drafts' = drafts
    BY <1>2 DEF Consume
  <2>2. \E status \in {"unchanged", "rejected"} : results' = [results EXCEPT ![r.id] = status]
    BY <1>2 DEF Consume
  <2>3. UNCHANGED <<intents, sent, abandoned>> /\ Oldest(k)
    BY DEF Consume
  <2>4. r \notin Taken /\ Taken' = Taken /\ Ended' = Ended \cup {r}
    BY <2>2, <2>3, ResultDecides DEF Results
  <2>5. Copies' = Copies
    BY <2>1 DEF Copies
  <2> QED BY <2>4, <2>5 DEF Decisions!DecisionNext
<1> QED BY <1>1, <1>2

LEMMA StepDecides ==
  JournalInv /\ [AuthorityNext]_authorityVars => [Decisions!DecisionNext]_(Decisions!decisionVars)
<1> SUFFICES ASSUME JournalInv, [AuthorityNext]_authorityVars
             PROVE  [Decisions!DecisionNext]_(Decisions!decisionVars)
  OBVIOUS
<1>1. CASE UNCHANGED <<Copies, Taken, Ended>>
  BY <1>1 DEF Decisions!decisionVars
<1>2. CASE UNCHANGED <<drafts, intents, results, sent, abandoned>>
  BY <1>1, <1>2 DEF Copies, Taken, Ended
<1>3. CASE (\E a \in Actors : Revoke(a)) \/ Tick \/ UNCHANGED authorityVars
  BY <1>2, <1>3 DEF Revoke, Tick, authorityVars
<1>4. ASSUME NEW r \in sent, Accept(r) PROVE UNCHANGED <<Copies, Taken, Ended>>
  BY <1>4, NewEntryDecides DEF Accept
<1>5. ASSUME NEW r \in sent, Abandon(r) PROVE Decisions!DecisionNext
  <2>1. r \notin Taken /\ UNCHANGED <<Copies, Taken>> /\ Ended' = Ended \cup {r}
    BY <1>5, NewEntryDecides DEF Abandon
  <2> QED BY <2>1 DEF Decisions!DecisionNext
<1> QED BY <1>1, <1>3, <1>4, <1>5, SendDecides, ConsumeDecides DEF AuthorityNext, ConsumeOldest

(* For any drafts, operators, requests and bounds, in any order of delivery, *)
(* repetition and abandonment: what the authority does to drafts is what    *)
(* operators are promised.                                                  *)
THEOREM AuthorityImplementsDecisions == AuthoritySpec => ImplementsDecisions
<1>1. AuthorityInit => Decisions!DecisionInit
  <2> SUFFICES ASSUME AuthorityInit PROVE Decisions!DecisionInit
    OBVIOUS
  <2>1. \A d \in Drafts : drafts[d] \in Draft
    BY JournalInit DEF JournalInv
  <2>2. \A d \in Drafts : Decisions!Versioned(Copies[d])
    BY <2>1 DEF Copies, ViewOf, Decisions!Versioned, Draft
  <2>3. Taken = {} /\ Ended = {}
    BY DEF AuthorityInit, Taken, Ended
  <2> QED BY <2>2, <2>3 DEF Decisions!DecisionInit
<1> QED
  BY <1>1, JournalInit, JournalNext, StepDecides, PTL
  DEF AuthoritySpec, ImplementsDecisions, Decisions!DecisionSpec

-----------------------------------------------------------------------------
(* The order of results.                                                   *)

LEMMA OrderNext ==
  ASSUME JournalInv, ResultsInOrder, [AuthorityNext]_authorityVars PROVE ResultsInOrder'
<1>1. CASE UNCHANGED <<intents, results>>
  BY <1>1 DEF ResultsInOrder
<1>2. ASSUME NEW r \in sent, Accept(r) \/ Abandon(r) PROVE ResultsInOrder'
  <2> DEFINE n == Len(intents) + 1
  <2>1. \E closure \in BOOLEAN :
           /\ intents' = Append(intents, [closure |-> closure, request |-> r])
           /\ ~closure => results' = results
    BY <1>2 DEF Accept, Abandon
  <2>2. /\ DOMAIN intents' = DOMAIN intents \cup {n} /\ DOMAIN intents \subseteq 1..(n - 1)
        /\ \A k \in DOMAIN intents : intents'[k] = intents[k]
        /\ intents'[n].request = r /\ (~intents'[n].closure => results' = results)
    BY <2>1, Appended DEF JournalInv
  <2>3. \A k \in DOMAIN intents : intents[k].request.id # r.id /\ intents[k].request.id \in Ids
    BY <1>2, EntryRequest DEF Accept, Abandon, Known
  <2>4. \A k \in DOMAIN intents : results'[intents[k].request.id] = results[intents[k].request.id]
    BY <1>2, <2>3 DEF Accept, Abandon, JournalInv
  <2>5. results[r.id] = "none"
    BY <1>2 DEF Accept, Abandon, JournalInv, IsRequest
  <2>6. n \in Nat
    BY DEF JournalInv
  <2> HIDE DEF n
  <2>7. ASSUME NEW j \in DOMAIN intents', NEW k \in DOMAIN intents', j < k, ~intents'[k].closure,
               results'[intents'[k].request.id] # "none"
        PROVE  results'[intents'[j].request.id] # "none"
    <3>1. k # n
      BY <2>2, <2>5, <2>7
    <3>2. k \in DOMAIN intents /\ j \in DOMAIN intents
      BY <2>2, <2>6, <2>7, <3>1
    <3> QED BY <2>2, <2>4, <2>7, <3>2 DEF ResultsInOrder
  <2> QED BY <2>7 DEF ResultsInOrder
<1>3. ASSUME NEW k \in DOMAIN intents, NEW epoch \in Epochs \cup {0}, Consume(k, epoch)
      PROVE  ResultsInOrder'
  <2> DEFINE id == intents[k].request.id
  <2>1. id \in Ids /\ intents' = intents /\ Oldest(k)
        /\ \E status \in {"rejected", "unchanged", "applied"} : results' = [results EXCEPT ![id] = status]
    BY <1>3, EntryRequest DEF Consume
  <2>2. results'[id] # "none" /\ \A i \in Ids : i # id => results'[i] = results[i]
    BY <2>1 DEF JournalInv
  <2>3. \A j \in DOMAIN intents : j # k => intents[j].request.id # id /\ intents[j].request.id \in Ids
    BY EntryRequest DEF JournalInv
  <2>4. DOMAIN intents \subseteq Nat
    BY DEF JournalInv
  <2> HIDE DEF id
  <2>5. ASSUME NEW i \in DOMAIN intents, NEW j \in DOMAIN intents, i < j, ~intents[j].closure,
               results'[intents[j].request.id] # "none"
        PROVE  results'[intents[i].request.id] # "none"
    <3>1. CASE j = k
      <4>1. i # k /\ i \in 1..(k - 1)
        BY <2>5, <3>1 DEF JournalInv
      <4> QED BY <2>1, <2>2, <2>3, <4>1 DEF Oldest
    <3>2. CASE j # k /\ i = k
      BY <2>2, <3>2 DEF id
    <3>3. CASE j # k /\ i # k
      BY <2>2, <2>3, <2>5, <3>3 DEF ResultsInOrder
    <3> QED BY <3>1, <3>2, <3>3
  <2> QED BY <2>1, <2>5 DEF ResultsInOrder
<1>4. ASSUME \/ \E a \in Actors : Revoke(a)
             \/ Tick
             \/ \E id \in Ids, a \in Actors, c \in Choices : Send(id, a, c)
      PROVE  ResultsInOrder'
  BY <1>1, <1>4 DEF Revoke, Tick, Send
<1>5. CASE UNCHANGED authorityVars
  BY <1>1, <1>5 DEF authorityVars
<1> QED BY <1>2, <1>3, <1>4, <1>5 DEF AuthorityNext, ConsumeOldest

(* Results are given in the order in which requests were accepted.          *)
THEOREM ConsumedInOrder == AuthoritySpec => []ResultsInOrder
<1>1. AuthorityInit => ResultsInOrder
  BY DEF AuthorityInit, ResultsInOrder
<1> QED BY <1>1, JournalInit, JournalNext, OrderNext, PTL DEF AuthoritySpec

-----------------------------------------------------------------------------
(* Type correctness.                                                       *)

ClockAndRoles == revoked \subseteq Actors /\ now \in 0..MaxTime

LEMMA ClockAndRolesNext == ClockAndRoles /\ [AuthorityNext]_authorityVars => ClockAndRoles'
<1> SUFFICES ASSUME ClockAndRoles, [AuthorityNext]_authorityVars PROVE ClockAndRoles'
  OBVIOUS
<1> USE DEF ClockAndRoles
<1>1. CASE Tick
  BY <1>1, AuthorityAssumption DEF Tick
<1>2. ASSUME NEW a \in Actors, Revoke(a) PROVE ClockAndRoles'
  BY <1>2 DEF Revoke
<1>3. CASE UNCHANGED <<revoked, now>>
  BY <1>3
<1>4. ASSUME \/ \E r \in sent : Accept(r) \/ Abandon(r)
             \/ ConsumeOldest
             \/ \E id \in Ids, a \in Actors, c \in Choices : Send(id, a, c)
             \/ UNCHANGED authorityVars
      PROVE  ClockAndRoles'
  BY <1>3, <1>4 DEF Accept, Abandon, ConsumeOldest, Consume, Send, authorityVars
<1> QED BY <1>1, <1>2, <1>4 DEF AuthorityNext

(* The journal holds requests that were sent, drafts stay drafts, and what   *)
(* is journaled as a closure, and nothing else that is, is abandoned.        *)
THEOREM AuthorityTyped == AuthoritySpec => []AuthorityTypeOK
<1>1. AuthorityInit => ClockAndRoles
  BY AuthorityAssumption DEF AuthorityInit, ClockAndRoles
<1>2. JournalInv /\ ClockAndRoles => AuthorityTypeOK
  <2> SUFFICES ASSUME JournalInv, ClockAndRoles PROVE AuthorityTypeOK
    OBVIOUS
  <2>1. \A k \in DOMAIN intents : intents[k] \in Intent
    BY EntryRequest DEF Entry, Intent
  <2>2. \A k \in DOMAIN intents : (intents[k].closure <=> results[intents[k].request.id] = "abandoned")
    BY DEF JournalInv
  <2> QED BY <2>1, <2>2 DEF AuthorityTypeOK, JournalInv, ClockAndRoles
<1> QED BY <1>1, <1>2, JournalInit, JournalNext, ClockAndRolesNext, PTL DEF AuthoritySpec

-----------------------------------------------------------------------------
(* Approvals.                                                              *)

(* What taking a request leaves of the approval of a draft: the one it      *)
(* derives, of the text its operator saw, or none of an operator.           *)
LEMMA DecidedApproval ==
  ASSUME NEW x \in Draft, NEW r, IsRequest(r), Decided(r, x).approval.mode = "manual"
  PROVE  \/ Decided(r, x) = x
         \/ /\ r.action = "approve_revision"
            /\ Decided(r, x).approval.intent = r.id
            /\ Decided(r, x).rev = x.rev /\ Decided(r, x).text = x.text
<1> DEFINE y == RevokeApproval(x)
<1>1. r.id \in Nat \ {0} /\ r.action \in Actions
  BY AuthorityAssumption DEF IsRequest
<1>2. y \in Draft /\ y.approval = NoApproval /\ y.rev = x.rev /\ y.text = x.text
  BY RevokeMovesOn DEF After, RevokeApproval, Draft
<1>3. NoApproval.mode # "manual"
  BY DEF NoApproval
<1>4. CASE r.action = "edit_revision"
  <2>1. CASE InvalidateText(x, r.text) = x
    BY <1>4, <2>1 DEF Decided
  <2>2. CASE InvalidateText(x, r.text) # x
    <3>1. InvalidateText(x, r.text) =
             [y EXCEPT !.rev = y.rev + 1, !.text = r.text, !.status = "pending",
                       !.review = NoReview, !.conflict = FALSE]
      BY <2>2 DEF InvalidateText
    <3>2. InvalidateText(x, r.text).approval = y.approval
      BY <1>2, <3>1 DEF Draft
    <3> QED BY <1>2, <1>3, <1>4, <3>2 DEF Decided
  <2> QED BY <2>1, <2>2
<1>5. CASE r.action = "record_review"
  <2>1. RecordReview(x, "human").approval = y.approval
    BY <1>2 DEF RecordReview, Draft
  <2> QED BY <1>2, <1>3, <1>5, <2>1 DEF Decided
<1>6. CASE r.action = "approve_revision"
  <2> DEFINE z == BindReviewedRevision(y, "manual", r.id, 0)
  <2>1. z.approval.intent = r.id /\ z.rev = y.rev /\ z.text = y.text /\ DOMAIN z = DOMAIN y
    BY <1>1, <1>2 DEF BindReviewedRevision, Draft
  <2> HIDE DEF z
  <2>2. "status" \in DOMAIN y /\ Approved(x, r.id) = [z EXCEPT !.status = "approved"]
    BY <1>2 DEF Approved, z, Draft
  <2>3. Approved(x, r.id).approval = z.approval /\ Approved(x, r.id).rev = z.rev /\ Approved(x, r.id).text = z.text
    BY <2>1, <2>2, <1>2 DEF Draft
  <2> QED BY <1>2, <1>6, <2>1, <2>3 DEF Decided
<1>7. CASE r.action = "schedule_revision"
  <2> DEFINE z == BindReviewedRevision(y, "auto", 0, r.epoch)
  <2>1. z.approval.mode = "auto" /\ DOMAIN z = DOMAIN y
    BY <1>2 DEF BindReviewedRevision, Draft
  <2>2. Scheduled(x, r.epoch) = [z EXCEPT !.auto = TRUE, !.armed = TRUE]
    BY DEF Scheduled
  <2> HIDE DEF z
  <2>3. Scheduled(x, r.epoch).approval = z.approval
    BY <1>2, <2>1, <2>2 DEF Draft
  <2> QED BY <1>7, <2>1, <2>3 DEF Decided
<1>8. CASE r.action \in {"cancel_approval", "reject_revision", "bulk_reject"}
  <2>1. \A status : [y EXCEPT !.status = status].approval = y.approval
    BY <1>2 DEF Draft
  <2> QED BY <1>2, <1>3, <1>8, <2>1 DEF Decided
<1> QED BY <1>1, <1>4, <1>5, <1>6, <1>7, <1>8 DEF Actions

(* What was taken stays taken. *)
LEMMA TakenStays == JournalInv /\ [AuthorityNext]_authorityVars => Taken \subseteq Taken'
  BY StepDecides DEF Decisions!DecisionNext, Decisions!decisionVars

LEMMA ApprovedNext ==
  ASSUME JournalInv, ApprovedAsSeen, [AuthorityNext]_authorityVars PROVE ApprovedAsSeen'
<1>1. Taken \subseteq Taken'
  BY TakenStays
<1>2. ASSUME NEW d \in Drafts, drafts'[d] = drafts[d], drafts'[d].approval.mode = "manual"
      PROVE  \E r \in Taken' :
                /\ r.action = "approve_revision" /\ d \in DOMAIN r.views
                /\ r.id = drafts'[d].approval.intent
                /\ r.views[d].rev = drafts'[d].rev /\ r.views[d].text = drafts'[d].text
  BY <1>1, <1>2 DEF ApprovedAsSeen
<1>3. CASE drafts' = drafts
  BY <1>2, <1>3 DEF ApprovedAsSeen
<1>4. ASSUME NEW k \in DOMAIN intents, NEW epoch \in Epochs \cup {0}, Consume(k, epoch),
             drafts' # drafts
      PROVE  ApprovedAsSeen'
  <2> DEFINE r == intents[k].request
  <2>1. r \in sent /\ IsRequest(r)
    BY EntryRequest DEF JournalInv
  <2>2. Acceptable(r, epoch) /\ drafts' = Reduction(r) /\ Oldest(k)
        /\ results' = [results EXCEPT ![r.id] = "applied"] /\ UNCHANGED <<intents, sent, abandoned>>
    BY <1>4 DEF Consume
  <2>3. r \in Taken'
    BY <2>2, ResultDecides DEF Results
  <2> HIDE DEF r
  <2>4. SUFFICES ASSUME NEW d \in Drafts, drafts'[d] # drafts[d], drafts'[d].approval.mode = "manual"
                 PROVE  \E q \in Taken' :
                           /\ q.action = "approve_revision" /\ d \in DOMAIN q.views
                           /\ q.id = drafts'[d].approval.intent
                           /\ q.views[d].rev = drafts'[d].rev /\ q.views[d].text = drafts'[d].text
    BY <1>2 DEF ApprovedAsSeen
  <2>5. d \in DOMAIN r.views /\ drafts'[d] = Decided(r, drafts[d]) /\ drafts[d] \in Draft
    BY <2>2, <2>4 DEF Reduction, JournalInv
  <2>6. ViewOf(drafts[d]) = r.views[d]
    BY <2>2, <2>5 DEF Acceptable, TargetAccepts
  <2>7. r.views[d].rev = drafts[d].rev /\ r.views[d].text = drafts[d].text
    BY <2>6 DEF ViewOf
  <2>8. /\ r.action = "approve_revision"
        /\ drafts'[d].approval.intent = r.id
        /\ drafts'[d].rev = drafts[d].rev /\ drafts'[d].text = drafts[d].text
    BY <2>1, <2>4, <2>5, DecidedApproval
  <2> QED BY <2>3, <2>5, <2>7, <2>8
<1>5. CASE ConsumeOldest
  BY <1>3, <1>4, <1>5 DEF ConsumeOldest
<1>6. ASSUME \/ \E r \in sent : Accept(r) \/ Abandon(r)
             \/ \E a \in Actors : Revoke(a)
             \/ Tick
             \/ \E id \in Ids, a \in Actors, c \in Choices : Send(id, a, c)
             \/ UNCHANGED authorityVars
      PROVE  ApprovedAsSeen'
  BY <1>3, <1>6 DEF Accept, Abandon, Revoke, Tick, Send, authorityVars
<1> QED BY <1>5, <1>6 DEF AuthorityNext

(* An authority may be initialized with approvals that operators took        *)
(* elsewhere; of those this says nothing.                                    *)
NoneApprovedAtStart == \A state \in Initial : \A d \in Drafts : state[d].approval.mode # "manual"

(* Whatever is edited, rejected, given up or sent twice in between: an      *)
(* approval that stands was taken by a request whose operator saw exactly   *)
(* this revision and text, under the intent its own command derives.        *)
THEOREM ApprovalsAsSeen ==
  ASSUME NoneApprovedAtStart PROVE AuthoritySpec => []ApprovedAsSeen
<1>1. AuthorityInit => ApprovedAsSeen
  BY DEF AuthorityInit, NoneApprovedAtStart, ApprovedAsSeen
<1> QED BY <1>1, JournalInit, JournalNext, ApprovedNext, PTL DEF AuthoritySpec
=============================================================================
