-------------------------- MODULE PublicationProofs --------------------------
(***************************************************************************)
(* What holds of publication for every number of drafts, events, epochs,   *)
(* attempts and faults.  The inductive invariants are in PublicationInv.   *)
(***************************************************************************)
EXTENDS PublicationInv, FiniteSetTheorems, WellFoundedInduction, TLAPS

-----------------------------------------------------------------------------
(*****************************************************************************)
(* Merging two copies of the attempts of an event can never lose a receipt,  *)
(* lose a call, clear an open call without a more final report of the same   *)
(* call, or invent a report (PublishLedger).                                 *)
(*****************************************************************************)

(* The rows the code writes, over any intents I and texts T. *)
Rows(I, T) == {a \in [intent : I, at : Nat, rev : Nat, text : T, phase : Phases,
                      tweet : Nat, cancelled : BOOLEAN] : ReceiptIsConfirmed(a)}

(* The rank of a report, and the rank of a receipt. *)
LEMMA RankBounds ==
    ASSUME NEW I, NEW T, NEW a \in Rows(I, T)
    PROVE  /\ AttemptRank(a) \in 1..4
           /\ a.tweet # NoTweet => AttemptRank(a) = 4
<1>1. CASE a.tweet # NoTweet
  BY <1>1 DEF AttemptRank
<1>2. CASE a.tweet = NoTweet /\ a.phase = "confirmed"
  BY <1>2 DEF AttemptRank
<1>3. CASE a.tweet = NoTweet /\ a.phase = "not_sent"
  BY <1>3 DEF AttemptRank
<1>4. CASE a.tweet = NoTweet /\ a.phase = "unknown"
  BY <1>4 DEF AttemptRank
<1>5. CASE a.tweet = NoTweet /\ a.phase = "submitted"
  BY <1>5 DEF AttemptRank
<1>6. a.phase \in {"submitted", "unknown", "not_sent", "confirmed"}
  BY DEF Rows, Phases
<1> QED BY <1>1, <1>2, <1>3, <1>4, <1>5, <1>6

(* The cancellation mark is all that merging changes on a row it keeps. *)
LEMMA KeptRow ==
    ASSUME NEW I, NEW T, NEW a \in Rows(I, T), NEW S
    PROVE  /\ KeepCancellation(a, S).tweet = a.tweet
           /\ KeepCancellation(a, S).phase = a.phase
           /\ AttemptKey(KeepCancellation(a, S)) = AttemptKey(a)
           /\ KeepCancellation(a, S).cancelled
                  <=> (\E b \in S : SameAttempt(a, b) /\ b.cancelled)
<1>1. DOMAIN a = {"intent", "at", "rev", "text", "phase", "tweet", "cancelled"}
  BY DEF Rows
<1>2. a = [x \in DOMAIN a |-> a[x]]
  BY DEF Rows
<1> QED BY <1>1, <1>2 DEF KeepCancellation, AttemptKey

(* Among the reports of one call there is always one no other outranks. *)
LEMMA MostFinalReport ==
    ASSUME NEW I, NEW T, NEW S \in SUBSET Rows(I, T), NEW a \in S
    PROVE  \E x \in S : /\ SameAttempt(a, x)
                        /\ AttemptRank(x) >= AttemptRank(a)
                        /\ ~Outranked(x, S)
<1> DEFINE R(n) == \E x \in S : SameAttempt(a, x) /\ AttemptRank(x) = n
<1>1. \A x \in S : AttemptRank(x) \in 1..4
  BY RankBounds
<1>2. SameAttempt(a, a)
  BY DEF SameAttempt
<1>3. \A x, y \in S : SameAttempt(a, x) /\ SameAttempt(x, y) => SameAttempt(a, y)
  BY DEF SameAttempt
<1>4. ASSUME NEW n \in 1..4, R(n), n >= AttemptRank(a), \A m \in 1..4 : m > n => ~R(m)
      PROVE  \E x \in S : /\ SameAttempt(a, x)
                          /\ AttemptRank(x) >= AttemptRank(a)
                          /\ ~Outranked(x, S)
  <2>1. PICK x \in S : SameAttempt(a, x) /\ AttemptRank(x) = n
    BY <1>4
  <2>2. ~Outranked(x, S)
    BY <2>1, <1>1, <1>3, <1>4 DEF Outranked
  <2> QED BY <2>1, <2>2, <1>4
<1>5. R(AttemptRank(a))
  BY <1>2
<1>6. \E n \in 1..4 : n >= AttemptRank(a) /\ R(n) /\ \A m \in 1..4 : m > n => ~R(m)
  <2> HIDE DEF R
  <2>1. AttemptRank(a) \in {1, 2, 3, 4}
    BY <1>1
  <2>2. CASE R(4)
    BY <2>1, <2>2
  <2>3. CASE ~R(4) /\ R(3)
    BY <2>1, <2>3, <1>5
  <2>4. CASE ~R(4) /\ ~R(3) /\ R(2)
    BY <2>1, <2>4, <1>5
  <2>5. CASE ~R(4) /\ ~R(3) /\ ~R(2)
    BY <2>1, <2>5, <1>5
  <2> QED BY <2>2, <2>3, <2>4, <2>5
<1> QED BY <1>4, <1>6

(* A receipt known to either side is in the merged entry, with its post. *)
THEOREM MergeKeepsReceipts ==
    ASSUME NEW I, NEW T, NEW A \in SUBSET Rows(I, T), NEW B \in SUBSET Rows(I, T),
           NEW a \in A \cup B, a.tweet # NoTweet
    PROVE  \E b \in MergeAttempts(A, B) : SameAttempt(a, b) /\ b.tweet = a.tweet
<1> DEFINE S == A \cup B
           k == KeepCancellation(a, S)
<1>1. a \in Rows(I, T) /\ \A x \in S : AttemptRank(x) \in 1..4
  BY RankBounds
<1>2. AttemptRank(a) = 4
  BY <1>1, RankBounds
<1>3. ~Outranked(a, S)
  BY <1>1, <1>2 DEF Outranked
<1>4. k \in MergeAttempts(A, B)
  BY <1>3 DEF MergeAttempts
<1>5. k.tweet = a.tweet /\ AttemptKey(k) = AttemptKey(a)
  BY <1>1, KeptRow
<1> QED BY <1>4, <1>5 DEF SameAttempt

(* A call that may have reached X stays in the merged entry, and stays open *)
(* unless one side holds a receipt, a confirmation or a proof of no post    *)
(* about the same call; a cancellation on any report of it is kept.         *)
THEOREM MergeKeepsOpenAttempts ==
    ASSUME NEW I, NEW T, NEW A \in SUBSET Rows(I, T), NEW B \in SUBSET Rows(I, T),
           NEW a \in A \cup B, Open(a)
    PROVE  \E b \in MergeAttempts(A, B) :
               /\ SameAttempt(a, b)
               /\ a.cancelled => b.cancelled
               /\ \/ Open(b)
                  \/ \E c \in A \cup B : /\ SameAttempt(a, c)
                                         /\ c.tweet = b.tweet /\ c.phase = b.phase
                                         /\ c.tweet # NoTweet \/ c.phase = "not_sent"
<1> DEFINE S == A \cup B
<1>1. S \in SUBSET Rows(I, T) /\ a \in S
  OBVIOUS
<1>2. PICK x \in S : SameAttempt(a, x) /\ ~Outranked(x, S)
  BY <1>1, MostFinalReport
<1> DEFINE k == KeepCancellation(x, S)
<1>3. k \in MergeAttempts(A, B)
  BY <1>2 DEF MergeAttempts
<1>t. x \in Rows(I, T)
  BY <1>1
<1>4. /\ k.tweet = x.tweet
      /\ k.phase = x.phase
      /\ AttemptKey(k) = AttemptKey(x)
      /\ k.cancelled <=> (\E b \in S : SameAttempt(x, b) /\ b.cancelled)
  <2> HIDE DEF S
  <2> QED BY <1>t, KeptRow
<1>5. SameAttempt(a, k)
  BY <1>2, <1>4 DEF SameAttempt
<1>6. a.cancelled => k.cancelled
  BY <1>1, <1>2, <1>4 DEF SameAttempt
<1>7. Open(k) \/ x.tweet # NoTweet \/ x.phase = "not_sent"
  BY <1>4 DEF Open
<1> HIDE DEF k
<1> QED BY <1>2, <1>3, <1>4, <1>5, <1>6, <1>7

(* Every merged row reports what one of the two sides reported. *)
THEOREM MergeInventsNothing ==
    ASSUME NEW I, NEW T, NEW A \in SUBSET Rows(I, T), NEW B \in SUBSET Rows(I, T),
           NEW b \in MergeAttempts(A, B)
    PROVE  \E a \in A \cup B : SameAttempt(a, b) /\ a.phase = b.phase /\ a.tweet = b.tweet
<1>1. PICK a \in A \cup B : b = KeepCancellation(a, A \cup B)
  BY DEF MergeAttempts
<1>2. a \in Rows(I, T)
  OBVIOUS
<1> DEFINE S == A \cup B
           k == KeepCancellation(a, S)
<1>3. /\ k.tweet = a.tweet
      /\ k.phase = a.phase
      /\ AttemptKey(k) = AttemptKey(a)
  <2> HIDE DEF S
  <2> QED BY <1>2, KeptRow
<1>4. b = k
  BY <1>1
<1> HIDE DEF k
<1> QED BY <1>3, <1>4 DEF SameAttempt

-----------------------------------------------------------------------------
(*****************************************************************************)
(* What the operations on a draft do to its authority: a later decision      *)
(* revokes it (After, Revoked), a publication mark leaves it (Marked).       *)
(*****************************************************************************)

(* A later decision on the draft: nothing of the authority of x survives.   *)
After(x, y) == DraftOK(y) /\ y.dec > x.dec /\ y.rev >= x.rev

(* Only publication marks changed; an intent may have been used up.         *)
Marked(x, y) ==
    /\ y \in Draft
    /\ y.rev = x.rev /\ y.text = x.text /\ y.dec = x.dec /\ y.review = x.review
    /\ y.approval = x.approval /\ y.conflict = x.conflict
    /\ y.intent \in {x.intent, 0}
    /\ x.status # "absent" /\ y.status # "absent"

(* A later decision that leaves no approval at all. *)
Revoked(x, y) == After(x, y) /\ y.approval = NoApproval

(* A publication mark leaves what authorizes a draft as it was. *)
LEMMA MarkedOK ==
  ASSUME NEW x, NEW y, DraftOK(x), Marked(x, y)
  PROVE  /\ DraftOK(y)
         /\ \A mode \in Modes : ApprovalIsCurrent(y, mode) => SameAuthority(x, y)
<1>1. DraftOK(y)
  BY DEF DraftOK, Marked
<1>2. ASSUME NEW mode \in Modes, ApprovalIsCurrent(y, mode) PROVE SameAuthority(x, y)
  <2>1. y.approval.mode # "none" /\ y.approval.intent = y.intent
    BY <1>2 DEF ApprovalIsCurrent, Modes
  <2>2. y.intent = x.intent
    BY <2>1 DEF DraftOK, Marked
  <2> QED BY <2>2 DEF Marked, SameAuthority
<1> QED BY <1>1, <1>2

(* What was revoked is authorized in no mode. *)
LEMMA RevokedOK ==
  ASSUME NEW x, NEW y, Revoked(x, y), NEW mode \in Modes
  PROVE  ~ApprovalIsCurrent(y, mode)
BY DEF Revoked, NoApproval, ApprovalIsCurrent, Modes

LEMMA RevokeMovesOn ==
  ASSUME NEW x, DraftOK(x), x.status # "absent"
  PROVE  /\ Revoked(x, RevokeApproval(x))
         /\ RevokeApproval(x).rev = x.rev /\ RevokeApproval(x).text = x.text
         /\ RevokeApproval(x).status = x.status /\ RevokeApproval(x).intent = 0
<1>1. x \in Draft /\ x.dec + 1 \in Nat /\ NoApproval \in Approval /\ 0 \in Nat
  BY DEF DraftOK, Draft, NoApproval, Approval
<1>2. RevokeApproval(x) \in Draft
  BY <1>1, Zenon DEF RevokeApproval, Draft
<1>3. /\ RevokeApproval(x).dec = x.dec + 1 /\ RevokeApproval(x).rev = x.rev
      /\ RevokeApproval(x).text = x.text /\ RevokeApproval(x).approval = NoApproval
      /\ RevokeApproval(x).intent = 0 /\ RevokeApproval(x).status = x.status
  BY <1>1 DEF RevokeApproval, Draft
<1>4. x.dec \in Nat /\ x.rev \in Nat
  BY <1>1 DEF Draft
<1>5. NoApproval.mode = "none" /\ NoApproval.epoch \in KnownEpochs
  BY DEF NoApproval, KnownEpochs, NoEpoch
<1> QED BY <1>2, <1>3, <1>4, <1>5 DEF After, Revoked, DraftOK

LEMMA WithStatus ==
  ASSUME NEW x, NEW y, DraftOK(y), y.status # "absent", NEW status \in Statuses \ {"absent"}
  PROVE  /\ After(x, y) => After(x, [y EXCEPT !.status = status])
         /\ Revoked(x, y) => Revoked(x, [y EXCEPT !.status = status])
<1> DEFINE z == [y EXCEPT !.status = status]
<1>1. z \in Draft
  BY DEF DraftOK, Draft
<1>2. z.dec = y.dec /\ z.rev = y.rev /\ z.approval = y.approval /\ z.intent = y.intent /\ z.status = status /\ z.text = y.text
  BY DEF DraftOK, Draft
<1> HIDE DEF z
<1>3. (After(x, y) => After(x, z)) /\ (Revoked(x, y) => Revoked(x, z))
  BY <1>1, <1>2 DEF After, Revoked, DraftOK
<1> QED BY <1>3 DEF z

LEMMA HeldMovesOn ==
  ASSUME NEW x, DraftOK(x), x.status # "absent"
  PROVE  Revoked(x, HeldDraft(x))
BY RevokeMovesOn, WithStatus DEF HeldDraft, Statuses, Revoked, After

LEMMA ReviewMovesOn ==
  ASSUME NEW x, DraftOK(x), x.status # "absent", NEW kind \in {"human", "model"}
  PROVE  /\ Revoked(x, RecordReview(x, kind))
         /\ RecordReview(x, kind).intent = 0 /\ RecordReview(x, kind).status # "absent"
<1> DEFINE y == RevokeApproval(x)
           review == [kind |-> kind, rev |-> x.rev, text |-> x.text]
           z == [y EXCEPT !.review = review]
<1>1. Revoked(x, y) /\ y \in Draft /\ y.status # "absent" /\ y.intent = 0 /\ x \in Draft
  BY RevokeMovesOn DEF Revoked, After, DraftOK
<1>2. review \in Review
  BY <1>1 DEF Draft, Review
<1>3. RecordReview(x, kind) = z
  BY DEF RecordReview
<1> HIDE DEF y, review
<1>4. z \in Draft
  BY <1>1, <1>2 DEF Draft
<1>5. z.dec = y.dec /\ z.rev = y.rev /\ z.status = y.status /\ z.intent = y.intent /\ z.approval = y.approval /\ z.text = y.text
  BY <1>1 DEF Draft
<1> HIDE DEF z
<1> QED BY <1>1, <1>3, <1>4, <1>5 DEF Revoked, After, DraftOK

(* An approval is a later decision about a reviewed revision. *)
LEMMA BindMovesOn ==
  ASSUME NEW x, DraftOK(x), x.status # "absent", x.intent = 0, NEW mode \in {"manual", "auto"},
         NEW intent \in Nat, NEW epoch \in KnownEpochs
  PROVE  /\ After(x, BindReviewedRevision(x, mode, intent, epoch))
         /\ BindReviewedRevision(x, mode, intent, epoch).status = x.status
<1> DEFINE approval == [mode |-> mode, rev |-> x.rev, text |-> x.text, dec |-> x.dec + 1,
                        intent |-> intent, epoch |-> epoch]
           held == IF intent # 0 THEN intent ELSE x.intent
           z == [x EXCEPT !.dec = x.dec + 1, !.approval = approval, !.intent = held]
<1>0. epoch \in Nat
  BY PublicationAssumption DEF KnownEpochs, NoEpoch
<1>1. x \in Draft /\ epoch \in Nat
  BY <1>0 DEF DraftOK
<1>2. approval \in Approval /\ x.dec + 1 \in Nat /\ held \in Nat
  BY <1>1 DEF Draft, Approval
<1>3. BindReviewedRevision(x, mode, intent, epoch) = z
  BY DEF BindReviewedRevision
<1>4. approval.epoch = epoch /\ approval.intent = intent /\ held = intent
  OBVIOUS
<1> HIDE DEF approval, held
<1>5. z \in Draft /\ z.dec = x.dec + 1 /\ z.rev = x.rev /\ z.approval = approval /\ z.intent = held /\ z.status = x.status /\ z.text = x.text
  BY <1>1, <1>2 DEF Draft
<1>6. x.dec \in Nat /\ x.rev \in Nat
  BY <1>1 DEF Draft
<1> HIDE DEF z
<1>7. z.dec # 0 /\ z.dec > x.dec /\ z.rev >= x.rev
  BY <1>5, <1>6
<1>8. DraftOK(z)
  BY <1>1, <1>4, <1>5, <1>7 DEF DraftOK
<1> QED BY <1>3, <1>5, <1>7, <1>8 DEF After

(* An edit is a new revision, and revokes (invalidate_text). *)
LEMMA EditMovesOn ==
  ASSUME NEW x, DraftOK(x), x.status # "absent", NEW text \in Texts,
         text # x.text \/ x.conflict
  PROVE  Revoked(x, InvalidateText(x, text))
<1> DEFINE y == RevokeApproval(x)
           z == [y EXCEPT !.rev = y.rev + 1, !.text = text, !.status = "pending",
                          !.review = NoReview, !.conflict = FALSE]
<1>1. Revoked(x, y) /\ y \in Draft /\ y.status # "absent" /\ x \in Draft
  BY RevokeMovesOn DEF Revoked, After, DraftOK
<1>2. InvalidateText(x, text) = z
  BY DEF InvalidateText
<1> HIDE DEF y
<1>3. NoReview \in Review /\ y.rev + 1 \in Nat /\ "pending" \in Statuses /\ FALSE \in BOOLEAN /\ text \in Texts \cup {NoText}
  BY <1>1 DEF NoReview, Review, Draft, Statuses
<1>4. z \in Draft
  BY <1>1, <1>3, Zenon DEF Draft
<1>5. z.dec = y.dec /\ z.rev = y.rev + 1 /\ z.status = "pending" /\ z.approval = y.approval /\ z.intent = y.intent /\ z.text = text
  BY <1>1 DEF Draft
<1>6. y.rev \in Nat /\ x.rev \in Nat
  BY <1>1 DEF Draft
<1> HIDE DEF z
<1> QED BY <1>1, <1>2, <1>4, <1>5, <1>6 DEF Revoked, After, DraftOK

-----------------------------------------------------------------------------
(* Update times. *)

(* The greatest of a finite set, which the clock of Touch is one more than. *)
HasMax(S) == \E m \in S : \A k \in S : m >= k

LEMMA OneMoreMax ==
  ASSUME NEW S, S \in SUBSET Nat, HasMax(S), NEW n \in Nat
  PROVE  S \cup {n} \in SUBSET Nat /\ HasMax(S \cup {n})
<1>1. PICK m \in S : \A k \in S : m >= k
  BY DEF HasMax
<1>2. m \in Nat
  OBVIOUS
<1>3. CASE n >= m
  BY <1>1, <1>2, <1>3 DEF HasMax
<1>4. CASE m >= n
  BY <1>1, <1>2, <1>4 DEF HasMax
<1> QED BY <1>2, <1>3, <1>4

LEMMA MaxIs ==
  ASSUME NEW S, S \in SUBSET Nat, HasMax(S)
  PROVE  Max(S) \in Nat /\ \A k \in S : Max(S) >= k
BY DEF Max, HasMax

(* A copy touched is newer than it was, and carries the same decisions. *)
LEMMA TouchIsLater ==
  ASSUME PubTypeOK, NEW d \in Drafts, NEW x \in Draft
  PROVE  /\ Touch(d, x) \in Draft
         /\ Touch(d, x).stamp > x.stamp
         /\ \E s \in Nat : Touch(d, x) = [x EXCEPT !.stamp = s] /\ s > x.stamp
<1> DEFINE W == {w.doc.drafts[d] : w \in {v \in {patch, dash} : v.on}}
           S == {x.stamp} \cup {c.stamp : c \in Copies(d)}
           s == 1 + Max(S)
<1>1. gist.drafts[d] \in Draft /\ mem.drafts[d] \in Draft
  BY DEF PubTypeOK, DocAt, DraftOK
<1>2. \A w \in {patch, dash} : w.on => w.doc.drafts[d] \in Draft
  <2> SUFFICES ASSUME NEW w, w.on, WriteAt(w, attempts) PROVE w.doc.drafts[d] \in Draft
    BY DEF PubTypeOK
  <2>1. DocAt(w.doc, attempts)
    BY DEF WriteAt, NoWrite
  <2> QED BY <2>1 DEF DocAt, DraftOK
<1>3. \A y \in Draft : y.stamp \in Nat
  BY DEF Draft
<1> DEFINE p == IF patch.on THEN patch.doc.drafts[d].stamp ELSE x.stamp
           q == IF dash.on THEN dash.doc.drafts[d].stamp ELSE x.stamp
           R == ((({x.stamp} \cup {gist.drafts[d].stamp}) \cup {mem.drafts[d].stamp}) \cup {p}) \cup {q}
<1>4. p \in Nat /\ q \in Nat /\ x.stamp \in Nat /\ gist.drafts[d].stamp \in Nat /\ mem.drafts[d].stamp \in Nat
  BY <1>1, <1>2, <1>3
<1>5. S = R
  BY DEF Copies
<1>6. HasMax({x.stamp}) /\ {x.stamp} \in SUBSET Nat
  BY <1>4 DEF HasMax
<1>7. R \in SUBSET Nat /\ HasMax(R)
  <2> HIDE DEF p, q
  <2>1. {x.stamp} \cup {gist.drafts[d].stamp} \in SUBSET Nat /\ HasMax({x.stamp} \cup {gist.drafts[d].stamp})
    BY <1>4, <1>6, OneMoreMax
  <2> DEFINE A == {x.stamp} \cup {gist.drafts[d].stamp}
             B == A \cup {mem.drafts[d].stamp}
             C == B \cup {p}
  <2> HIDE DEF A
  <2>2. A \in SUBSET Nat /\ HasMax(A)
    BY <2>1 DEF A
  <2>3. B \in SUBSET Nat /\ HasMax(B)
    BY <1>4, <2>2, OneMoreMax
  <2> HIDE DEF B
  <2>4. C \in SUBSET Nat /\ HasMax(C)
    BY <1>4, <2>3, OneMoreMax
  <2> HIDE DEF C
  <2>5. C \cup {q} \in SUBSET Nat /\ HasMax(C \cup {q})
    BY <1>4, <2>4, OneMoreMax
  <2> QED BY <2>5 DEF C, B, A
<1> HIDE DEF R
<1>8. Max(S) \in Nat /\ Max(S) >= x.stamp
  BY <1>5, <1>7, MaxIs
<1>9. s \in Nat /\ s > x.stamp
  BY <1>8, <1>4
<1>10. Touch(d, x) = [x EXCEPT !.stamp = s]
  BY DEF Touch
<1> HIDE DEF s
<1>11. [x EXCEPT !.stamp = s] \in Draft /\ [x EXCEPT !.stamp = s].stamp = s
  BY <1>9 DEF Draft
<1> QED BY <1>9, <1>10, <1>11

(* A touch refreshes the time stamp and nothing else. *)
LEMMA TouchKeeps ==
  ASSUME PubTypeOK, NEW d \in Drafts, NEW x, DraftOK(x), NEW y
  PROVE  /\ After(x, y) => After(x, Touch(d, y))
         /\ Revoked(x, y) => Revoked(x, Touch(d, y))
         /\ Marked(x, y) => Marked(x, Touch(d, y))
<1> SUFFICES ASSUME y \in Draft
             PROVE  /\ After(x, y) => After(x, Touch(d, y))
                    /\ Revoked(x, y) => Revoked(x, Touch(d, y))
                    /\ Marked(x, y) => Marked(x, Touch(d, y))
  BY DEF After, Revoked, Marked, DraftOK
<1>1. PICK s \in Nat : Touch(d, y) = [y EXCEPT !.stamp = s]
  BY TouchIsLater
<1> DEFINE z == [y EXCEPT !.stamp = s]
<1>2. /\ z \in Draft /\ z.rev = y.rev /\ z.text = y.text /\ z.dec = y.dec /\ z.review = y.review
      /\ z.approval = y.approval /\ z.intent = y.intent /\ z.conflict = y.conflict
      /\ z.status = y.status
  BY DEF Draft
<1>3. Touch(d, y) = z
  BY <1>1
<1> HIDE DEF z
<1> QED BY <1>2, <1>3 DEF After, Revoked, Marked, DraftOK

-----------------------------------------------------------------------------
(* The primary row. *)

(* Every inhabited set of naturals has a least one (Primary takes an extreme). *)
LEMMA LeastNatural ==
  ASSUME NEW S \in SUBSET Nat, S # {}
  PROVE  \E m \in S : \A k \in S : m <= k
<1> DEFINE R == OpToRel(<, Nat)
<1>1. IsWellFoundedOn(R, Nat)
  BY NatLessThanWellFounded
<1>2. \A a, b \in Nat : a < b => <<a, b>> \in R
  BY DEF OpToRel
<1> HIDE DEF R
<1>3. PICK m \in S : \A k \in S : ~(<<k, m>> \in R)
  BY <1>1, WFMin
<1>4. \A k \in S : ~(k < m)
  BY <1>2, <1>3
<1>5. \A k \in S : k \in Nat
  OBVIOUS
<1> QED BY <1>4, <1>5

LEMMA ReceiptRank ==
  ASSUME NEW a \in Attempt
  PROVE  a.tweet # NoTweet => AttemptRank(a) = 4
BY DEF AttemptRank

LEMMA PrimaryReceipt ==
  ASSUME NEW S, NEW N \in Nat, \A a \in S : a \in Attempt /\ a.at <= N, HasReceipt(S)
  PROVE  Primary(S) \in S /\ Primary(S).tweet # NoTweet
<1> DEFINE K == {N - a.at : a \in {x \in S : x.tweet # NoTweet}}
<1>1. \A a \in S : a.at \in Nat /\ a.tweet \in Nat
  BY DEF Attempt
<1>2. K \in SUBSET Nat /\ K # {}
  BY <1>1 DEF HasReceipt
<1>3. PICK m \in K : \A k \in K : m <= k
  BY <1>2, LeastNatural
<1>4. PICK a \in S : a.tweet # NoTweet /\ m = N - a.at
  BY <1>3
<1>5. ASSUME NEW b \in S, b.tweet # NoTweet PROVE a.at >= b.at
  <2>1. N - b.at \in K
    BY <1>5
  <2>2. N - a.at <= N - b.at
    BY <2>1, <1>3, <1>4
  <2> QED BY <1>1, <2>2
<1>6. ASSUME NEW b \in S PROVE PrimaryOver(a, b)
  <2>1. CASE b.tweet = NoTweet
    BY <1>4, <2>1 DEF PrimaryOver
  <2>2. CASE b.tweet # NoTweet
    BY <1>1, <1>4, <1>5, <2>2, ReceiptRank DEF PrimaryOver
  <2> QED BY <2>1, <2>2
<1>7. Primary(S) \in S /\ PrimaryOver(Primary(S), a)
  BY <1>6 DEF Primary
<1>8. Primary(S).tweet # NoTweet
  BY <1>7, <1>4 DEF PrimaryOver
<1> QED BY <1>7, <1>8

-----------------------------------------------------------------------------
(* Publication marks.                                                      *)

(* Repairing a draft from a receipt only marks it. *)
LEMMA RepairMarks ==
  ASSUME PubTypeOK, NEW d \in Drafts, NEW x, DraftOK(x), NEW S,
         \A a \in S : RowAt(a, attempts)
  PROVE  RepairDraft(d, x, S) = x \/ Marked(x, RepairDraft(d, x, S))
<1> DEFINE row == Primary(S)
           view == [x EXCEPT !.status = "posted", !.outcome = "confirmed"]
           y == [view EXCEPT !.tweet = row.tweet, !.attemptAt = row.at,
                             !.armed = FALSE, !.intent = 0]
<1>1. SUFFICES ASSUME x.status # "absent", HasReceipt(S), RepairDraft(d, x, S) = Touch(d, y)
               PROVE  Marked(x, RepairDraft(d, x, S))
  BY DEF RepairDraft
<1>2. attempts \in Nat /\ \A a \in S : a \in Attempt /\ a.at <= attempts
  <2>1. attempts \in 0..MaxAttempts
    BY DEF PubTypeOK
  <2> QED BY <2>1 DEF RowAt
<1>3. row \in Attempt
  BY <1>1, <1>2, PrimaryReceipt
<1>4. row.tweet \in Nat /\ row.at \in Nat
  BY <1>3 DEF Attempt
<1>5. x \in Draft
  BY DEF DraftOK
<1> HIDE DEF row
<1>6. view \in Draft
  BY <1>5 DEF Draft, Statuses, Outcomes
<1>7. y \in Draft
  BY <1>4, <1>6, Zenon DEF Draft
<1>8. /\ y.rev = x.rev /\ y.text = x.text /\ y.dec = x.dec /\ y.review = x.review
      /\ y.approval = x.approval /\ y.conflict = x.conflict /\ y.intent = 0 /\ y.status = "posted"
  BY <1>5 DEF Draft
<1> HIDE DEF y
<1>9. Marked(x, y)
  BY <1>1, <1>7, <1>8 DEF Marked
<1> QED BY <1>1, <1>9, TouchKeeps

(* So does claiming an attempt, *)
LEMMA ClaimMarks ==
  ASSUME NEW x, DraftOK(x), x.status # "absent", NEW n \in Nat, NEW b \in BOOLEAN
  PROVE  LET y == [x EXCEPT !.outcome = "submitted", !.attemptAt = n, !.attempted = b]
         IN  Marked(x, y) /\ y.intent = x.intent /\ y.attemptAt = n
<1> DEFINE y == [x EXCEPT !.outcome = "submitted", !.attemptAt = n, !.attempted = b]
<1>1. x \in Draft
  BY DEF DraftOK
<1>2. "submitted" \in Outcomes
  BY DEF Outcomes
<1>3. y \in Draft
  BY <1>1, <1>2, Zenon DEF Draft
<1>4. /\ y.rev = x.rev /\ y.text = x.text /\ y.dec = x.dec /\ y.review = x.review
      /\ y.approval = x.approval /\ y.conflict = x.conflict /\ y.intent = x.intent
      /\ y.status = x.status /\ y.attemptAt = n
  BY <1>1 DEF Draft
<1> HIDE DEF y
<1>5. Marked(x, y) /\ y.intent = x.intent /\ y.attemptAt = n
  BY <1>3, <1>4 DEF Marked
<1> QED BY <1>5 DEF y

(* and so does recording the answer of the platform. *)
LEMMA AnswerMarks ==
  ASSUME NEW x, DraftOK(x), x.status # "absent", NEW phase \in {"unknown", "not_sent", "confirmed"},
         NEW tweet \in Nat, NEW status \in {"posted", x.status}, NEW b \in BOOLEAN
  PROVE  Marked(x, [x EXCEPT !.outcome = phase, !.tweet = tweet, !.status = status, !.attempted = b])
<1> DEFINE y == [x EXCEPT !.outcome = phase, !.tweet = tweet, !.status = status, !.attempted = b]
<1>1. x \in Draft
  BY DEF DraftOK
<1>2. phase \in Outcomes /\ status \in Statuses
  BY <1>1 DEF Outcomes, Draft, Statuses
<1>3. y \in Draft
  BY <1>1, <1>2, Zenon DEF Draft
<1>4. /\ y.rev = x.rev /\ y.text = x.text /\ y.dec = x.dec /\ y.review = x.review
      /\ y.approval = x.approval /\ y.conflict = x.conflict /\ y.intent = x.intent
      /\ y.status = status
  BY <1>1 DEF Draft
<1> HIDE DEF y
<1>5. Marked(x, y)
  BY <1>3, <1>4 DEF Marked
<1> QED BY <1>5 DEF y

LEMMA MarkedTwice ==
  ASSUME NEW x, NEW y, NEW z, Marked(x, y), Marked(y, z)
  PROVE  Marked(x, z)
BY DEF Marked
(* What the caller does next marks the draft, or revokes its approval. *)
LEMMA AfterManualMarks ==
  ASSUME NEW x, DraftOK(x), x.status # "absent", NEW result
  PROVE  Marked(x, AfterManual(x, result))
<1>1. x \in Draft
  BY DEF DraftOK
<1>2. "posted" \in Statuses /\ "pending" \in Statuses /\ 0 \in Nat /\ x.intent \in Nat
  BY <1>1 DEF Statuses, Draft
<1>3. ASSUME NEW status \in {"posted", "pending"}, NEW intent \in {0, x.intent}
      PROVE  Marked(x, [x EXCEPT !.status = status, !.intent = intent])
  <2> DEFINE y == [x EXCEPT !.status = status, !.intent = intent]
  <2>1. status \in Statuses /\ intent \in Nat
    BY <1>2
  <2>2. y \in Draft
    BY <1>1, <2>1, Zenon DEF Draft
  <2>3. /\ y.rev = x.rev /\ y.text = x.text /\ y.dec = x.dec /\ y.review = x.review
        /\ y.approval = x.approval /\ y.conflict = x.conflict /\ y.intent = intent
        /\ y.status = status
    BY <1>1 DEF Draft
  <2> HIDE DEF y
  <2>4. Marked(x, y)
    BY <2>2, <2>3 DEF Marked
  <2> QED BY <2>4 DEF y
<1>4. CASE result = "posted"
  BY <1>3, <1>4 DEF AfterManual
<1>5. CASE result = "rate_limited"
  BY <1>3, <1>5 DEF AfterManual
<1>6. CASE result \notin {"posted", "rate_limited"}
  BY <1>3, <1>6 DEF AfterManual
<1> QED BY <1>4, <1>5, <1>6

LEMMA AfterAutoMarks ==
  ASSUME NEW x, DraftOK(x), x.status # "absent", NEW result
  PROVE  Marked(x, AfterAuto(x, result)) \/ Revoked(x, AfterAuto(x, result))
<1>1. x \in Draft
  BY DEF DraftOK
<1>2. CASE result = "posted"
  <2> DEFINE y == [x EXCEPT !.status = "posted", !.armed = FALSE]
  <2>1. y \in Draft
    BY <1>1 DEF Draft, Statuses
  <2>2. /\ y.rev = x.rev /\ y.text = x.text /\ y.dec = x.dec /\ y.review = x.review
        /\ y.approval = x.approval /\ y.conflict = x.conflict /\ y.intent = x.intent
        /\ y.status = "posted" /\ AfterAuto(x, result) = y
    BY <1>1, <1>2 DEF Draft, AfterAuto
  <2> HIDE DEF y
  <2> QED BY <2>1, <2>2 DEF Marked
<1>3. CASE result = "rate_limited"
  <2> DEFINE y == [x EXCEPT !.attempted = FALSE]
  <2>1. y \in Draft
    BY <1>1 DEF Draft
  <2>2. /\ y.rev = x.rev /\ y.text = x.text /\ y.dec = x.dec /\ y.review = x.review
        /\ y.approval = x.approval /\ y.conflict = x.conflict /\ y.intent = x.intent
        /\ y.status = x.status /\ AfterAuto(x, result) = y
    BY <1>1, <1>3 DEF Draft, AfterAuto
  <2> HIDE DEF y
  <2> QED BY <2>1, <2>2 DEF Marked
<1>4. CASE result \notin {"posted", "rate_limited"}
  BY <1>4, RevokeMovesOn DEF AfterAuto
<1> QED BY <1>2, <1>3, <1>4

-----------------------------------------------------------------------------
(*****************************************************************************)
(* Merging two copies of a draft (MergeDraft), and of its rows.              *)
(*****************************************************************************)

(* z is the copy w with other publication marks; a conflict takes its approval. *)
Copied(w, z, conflict) ==
    /\ z \in Draft
    /\ z.rev = w.rev /\ z.text = w.text /\ z.dec = w.dec /\ z.review = w.review
    /\ z.intent = w.intent
    /\ w.status # "absent" /\ z.status # "absent"
    /\ conflict => z.approval = NoApproval /\ z.conflict = TRUE
    /\ ~conflict => z.approval = w.approval /\ z.conflict = w.conflict

LEMMA CarryMarks ==
  ASSUME NEW x \in Draft, NEW l \in Draft, x.status # "absent"
  PROVE  LET z == CarryUnknown(x, l)
         IN  /\ z \in Draft /\ z.rev = x.rev /\ z.text = x.text /\ z.dec = x.dec
             /\ z.review = x.review /\ z.approval = x.approval /\ z.conflict = x.conflict
             /\ z.intent = x.intent /\ z.status # "absent"
<1> DEFINE n == IF l.attemptAt # 0 THEN l.attemptAt ELSE x.attemptAt
           z == [x EXCEPT !.attempted = TRUE, !.outcome = "unknown", !.attemptAt = n]
<1>1. n \in Nat /\ "unknown" \in Outcomes
  BY DEF Draft, Outcomes
<1>2. CarryUnknown(x, l) = z
  BY DEF CarryUnknown
<1> HIDE DEF n
<1>3. z \in Draft
  BY <1>1, Zenon DEF Draft
<1>4. /\ z.rev = x.rev /\ z.text = x.text /\ z.dec = x.dec
      /\ z.review = x.review /\ z.approval = x.approval /\ z.conflict = x.conflict
      /\ z.intent = x.intent /\ z.status = x.status
  BY DEF Draft
<1> HIDE DEF z
<1> QED BY <1>2, <1>3, <1>4

(* Evidence carried over in a merge marks the draft that wins. *)
LEMMA EvidenceMarks ==
  ASSUME NEW x \in Draft, NEW l \in Draft, x.status # "absent"
  PROVE  LET z == KeepEvidence(x, l)
         IN  /\ z \in Draft /\ z.rev = x.rev /\ z.text = x.text /\ z.dec = x.dec
             /\ z.review = x.review /\ z.approval = x.approval /\ z.conflict = x.conflict
             /\ z.intent = x.intent /\ z.status # "absent"
<1> DEFINE n == IF l.attemptAt # 0 THEN l.attemptAt ELSE x.attemptAt
           z == [x EXCEPT !.tweet = l.tweet, !.status = "posted", !.outcome = "confirmed",
                          !.attemptAt = n]
<1>1. n \in Nat /\ "confirmed" \in Outcomes /\ "posted" \in Statuses /\ l.tweet \in Nat
  BY DEF Draft, Outcomes, Statuses
<1>2. KeepEvidence(x, l) \in {z, CarryUnknown(x, l), x}
  BY DEF KeepEvidence
<1> HIDE DEF n
<1>3. z \in Draft
  BY <1>1, Zenon DEF Draft
<1>4. /\ z.rev = x.rev /\ z.text = x.text /\ z.dec = x.dec
      /\ z.review = x.review /\ z.approval = x.approval /\ z.conflict = x.conflict
      /\ z.intent = x.intent /\ z.status = "posted"
  BY DEF Draft
<1> HIDE DEF z
<1>5. CASE KeepEvidence(x, l) = z
  BY <1>3, <1>4, <1>5
<1>6. CASE KeepEvidence(x, l) = CarryUnknown(x, l)
  BY <1>6, CarryMarks
<1>7. CASE KeepEvidence(x, l) = x
  BY <1>7
<1> QED BY <1>2, <1>5, <1>6, <1>7

(* Two copies that differ in content and claim the same revision. *)
PairConflict(x, y) ==
    \/ CopiesConflict(x, y)
    \/ \E d \in {x, y} : d.rev = (IF IncomingWins(x, y) THEN y ELSE x).rev /\ d.conflict

LEMMA MergePair ==
  ASSUME NEW x \in Draft, NEW y \in Draft, x.status # "absent", y.status # "absent"
  PROVE  Copied(IF IncomingWins(x, y) THEN y ELSE x, MergeDraftPair(x, y), PairConflict(x, y))
<1> DEFINE w == IF IncomingWins(x, y) THEN y ELSE x
           l == IF IncomingWins(x, y) THEN x ELSE y
           v == [w EXCEPT !.conflict = TRUE, !.approval = NoApproval, !.armed = FALSE]
           out == IF PairConflict(x, y) THEN v ELSE w
<1>1. w \in Draft /\ l \in Draft /\ w.status # "absent"
  OBVIOUS
<1>2. MergeDraftPair(x, y) = KeepEvidence(out, l)
  BY DEF MergeDraftPair, PairConflict
<1> HIDE DEF w, l
<1>3. NoApproval \in Approval
  BY DEF NoApproval, Approval
<1>4. v \in Draft
  BY <1>1, <1>3, Zenon DEF Draft
<1>5. /\ v.rev = w.rev /\ v.text = w.text /\ v.dec = w.dec /\ v.review = w.review
      /\ v.intent = w.intent /\ v.status = w.status /\ v.approval = NoApproval /\ v.conflict = TRUE
  BY <1>1 DEF Draft
<1> HIDE DEF v
<1>6. Copied(w, out, PairConflict(x, y))
  BY <1>1, <1>4, <1>5 DEF Copied
<1> HIDE DEF out
<1>7. Copied(w, KeepEvidence(out, l), PairConflict(x, y))
  BY <1>1, <1>6, EvidenceMarks DEF Copied
<1> QED BY <1>2, <1>7 DEF w

(* The copy that wins a merge, and what the merge makes of it. *)
LEMMA MergedDraft ==
  ASSUME NEW x, NEW y, DraftOK(x), DraftOK(y)
  PROVE  /\ DraftOK(MergeDraft(x, y))
         /\ x.status = "absent" => MergeDraft(x, y) = y
         /\ x.status # "absent" /\ y.status = "absent" => MergeDraft(x, y) = x
         /\ x.status # "absent" /\ y.status # "absent" =>
               Copied(IF IncomingWins(x, y) THEN y ELSE x, MergeDraft(x, y), PairConflict(x, y))
<1>1. x \in Draft /\ y \in Draft
  BY DEF DraftOK
<1>2. CASE x.status = "absent"
  BY <1>2 DEF MergeDraft
<1>3. CASE x.status # "absent" /\ y.status = "absent"
  BY <1>3 DEF MergeDraft
<1>4. CASE x.status # "absent" /\ y.status # "absent"
  <2> DEFINE w == IF IncomingWins(x, y) THEN y ELSE x
             z == MergeDraft(x, y)
  <2>1. Copied(w, z, PairConflict(x, y))
    BY <1>1, <1>4, MergePair DEF MergeDraft
  <2>2. DraftOK(w)
    OBVIOUS
  <2> HIDE DEF w, z
  <2>3. NoApproval.epoch \in KnownEpochs /\ NoApproval.mode = "none"
    BY DEF NoApproval, KnownEpochs, NoEpoch
  <2>4. DraftOK(z)
    BY <2>1, <2>2, <2>3 DEF Copied, DraftOK
  <2> QED BY <1>4, <2>1, <2>4 DEF w, z
<1> QED BY <1>2, <1>3, <1>4

-----------------------------------------------------------------------------
(* The merged ledger.                                                      *)

(* A merged row is a row of either side, but for its cancellation. *)
LEMMA MergedRow ==
  ASSUME NEW A \in SUBSET Attempt, NEW B \in SUBSET Attempt, NEW b \in MergeAttempts(A, B)
  PROVE  /\ b \in Attempt
         /\ \E a \in A \cup B : /\ SameAttempt(a, b) /\ a.phase = b.phase /\ a.tweet = b.tweet
                                /\ ~Outranked(a, A \cup B)
                                /\ b = KeepCancellation(a, A \cup B)
<1> DEFINE S == A \cup B
<1>1. PICK a \in S : b = KeepCancellation(a, S) /\ ~Outranked(a, S)
  BY DEF MergeAttempts
<1>2. a \in Attempt
  OBVIOUS
<1> DEFINE c == \E r \in S : SameAttempt(a, r) /\ r.cancelled
           k == [a EXCEPT !.cancelled = c]
<1>3. b = k /\ c \in BOOLEAN
  BY <1>1 DEF KeepCancellation
<1> HIDE DEF c
<1>4. k \in Attempt /\ k.intent = a.intent /\ k.at = a.at /\ k.rev = a.rev /\ k.text = a.text
      /\ k.phase = a.phase /\ k.tweet = a.tweet
  BY <1>2, <1>3 DEF Attempt, ReceiptIsConfirmed
<1> HIDE DEF k
<1>5. SameAttempt(a, b)
  BY <1>3, <1>4 DEF SameAttempt, AttemptKey
<1> QED BY <1>1, <1>3, <1>4, <1>5

(* The merge of two documents is a document. *)
LEMMA MergedDoc ==
  ASSUME NEW x, NEW y, NEW n \in Nat, DocAt(x, n), DocAt(y, n)
  PROVE  DocAt(MergeDocument(x, y), n)
<1> DEFINE D == [d \in Drafts |-> MergeDraft(x.drafts[d], y.drafts[d])]
           L == [e \in Events |-> MergeAttempts(x.ledger[e], y.ledger[e])]
           m == MergeDocument(x, y)
<1>1. x \in Document /\ y \in Document
  BY DEF DocAt
<1>2. \A d \in Drafts : DraftOK(D[d])
  BY MergedDraft DEF DocAt
<1>3. D \in [Drafts -> Draft]
  BY <1>2 DEF DraftOK
<1>4. ASSUME NEW e \in Events, NEW b \in L[e] PROVE RowAt(b, n)
  <2>1. x.ledger[e] \in SUBSET Attempt /\ y.ledger[e] \in SUBSET Attempt
    BY <1>1 DEF Document
  <2>2. PICK a \in x.ledger[e] \cup y.ledger[e] : SameAttempt(a, b) /\ b \in Attempt
    BY <1>4, <2>1, MergedRow
  <2>3. a.at \in 1..n
    BY DEF DocAt, RowAt
  <2> QED BY <2>2, <2>3 DEF RowAt, SameAttempt, AttemptKey
<1>5. L \in [Events -> SUBSET Attempt]
  BY <1>4 DEF RowAt
<1>6. /\ m.drafts = D /\ m.ledger = L /\ m.posted = x.posted \cup y.posted
      /\ m.retired = x.retired \cup y.retired /\ m.epoch = y.epoch /\ m.enabled = y.enabled
  BY DEF MergeDocument, MergeRetired
<1>7. m \in Document
  <2>1. /\ x.posted \cup y.posted \in SUBSET Events /\ x.retired \cup y.retired \in SUBSET Epochs
        /\ y.epoch \in Epochs \cup {NoEpoch} /\ y.enabled \in BOOLEAN
    BY <1>1 DEF Document
  <2> HIDE DEF D, L
  <2> QED BY <1>3, <1>5, <2>1 DEF MergeDocument, MergeRetired, Document, D, L
<1> HIDE DEF m
<1>8. DocAt(m, n)
  BY <1>2, <1>4, <1>6, <1>7 DEF DocAt
<1> QED BY <1>8 DEF m

-----------------------------------------------------------------------------
(*****************************************************************************)
(* Documents: each operation on one keeps its type.                          *)
(*****************************************************************************)

LEMMA DocWithDraft ==
  ASSUME NEW doc, NEW n, DocAt(doc, n), NEW d \in Drafts, NEW y, DraftOK(y)
  PROVE  LET new == [doc EXCEPT !.drafts[d] = y]
         IN  /\ DocAt(new, n)
             /\ new.drafts = [doc.drafts EXCEPT ![d] = y] /\ new.drafts[d] = y
             /\ \A c \in Drafts \ {d} : new.drafts[c] = doc.drafts[c]
             /\ new.ledger = doc.ledger /\ new.posted = doc.posted
             /\ new.retired = doc.retired
<1> DEFINE new == [doc EXCEPT !.drafts[d] = y]
           D == [doc.drafts EXCEPT ![d] = y]
<1>1. doc \in Document /\ y \in Draft
  BY DEF DocAt, DraftOK
<1>2. D \in [Drafts -> Draft]
  BY <1>1 DEF Document
<1>3. D[d] = y /\ \A c \in Drafts \ {d} : D[c] = doc.drafts[c]
  BY <1>1 DEF Document
<1>4. new = [doc EXCEPT !.drafts = D]
  BY <1>1 DEF Document
<1> HIDE DEF D
<1>5. new \in Document
  BY <1>1, <1>2, <1>4 DEF Document
<1>6. /\ new.drafts = D /\ new.ledger = doc.ledger /\ new.posted = doc.posted
      /\ new.retired = doc.retired
  BY <1>1, <1>4 DEF Document
<1> HIDE DEF new
<1>7. DocAt(new, n)
  BY <1>3, <1>5, <1>6 DEF DocAt
<1> QED BY <1>3, <1>6, <1>7 DEF new, D

LEMMA DocWithRows ==
  ASSUME NEW doc, NEW n, DocAt(doc, n), NEW e \in Events, NEW S, \A a \in S : RowAt(a, n)
  PROVE  LET new == [doc EXCEPT !.ledger[e] = S]
         IN  /\ DocAt(new, n)
             /\ new.ledger = [doc.ledger EXCEPT ![e] = S] /\ new.ledger[e] = S
             /\ \A c \in Events \ {e} : new.ledger[c] = doc.ledger[c]
             /\ new.drafts = doc.drafts /\ new.posted = doc.posted
             /\ new.retired = doc.retired
<1> DEFINE new == [doc EXCEPT !.ledger[e] = S]
           L == [doc.ledger EXCEPT ![e] = S]
<1>1. doc \in Document /\ S \in SUBSET Attempt
  BY DEF DocAt, RowAt
<1>2. L \in [Events -> SUBSET Attempt]
  BY <1>1 DEF Document
<1>3. L[e] = S /\ \A c \in Events \ {e} : L[c] = doc.ledger[c]
  BY <1>1 DEF Document
<1>4. new = [doc EXCEPT !.ledger = L]
  BY <1>1 DEF Document
<1> HIDE DEF L
<1>5. new \in Document
  BY <1>1, <1>2, <1>4 DEF Document
<1>6. /\ new.ledger = L /\ new.drafts = doc.drafts /\ new.posted = doc.posted
      /\ new.retired = doc.retired
  BY <1>1, <1>4 DEF Document
<1> HIDE DEF new
<1>7. DocAt(new, n)
  BY <1>3, <1>5, <1>6 DEF DocAt
<1> QED BY <1>3, <1>6, <1>7 DEF new, L

LEMMA DocLater ==
  ASSUME NEW doc, NEW n \in Nat, NEW m \in Nat, n <= m, DocAt(doc, n)
  PROVE  DocAt(doc, m)
<1>1. \A a : RowAt(a, n) => RowAt(a, m)
  BY DEF RowAt
<1> QED BY <1>1 DEF DocAt

LEMMA AbsentOK == AbsentDraft \in Draft /\ DraftOK(AbsentDraft)
<1>1. /\ NoApproval \in Approval /\ NoReview \in Review
      /\ "absent" \in Statuses /\ "none" \in Outcomes
  BY DEF NoApproval, Approval, NoReview, Review, Statuses, Outcomes
<1>2. AbsentDraft \in Draft
  BY <1>1 DEF AbsentDraft, Draft, NoTweet
<1>3. DraftOK(AbsentDraft)
  BY <1>2 DEF DraftOK, AbsentDraft, NoApproval, KnownEpochs, NoEpoch
<1> QED BY <1>2, <1>3

LEMMA EmptyDoc ==
  ASSUME NEW n
  PROVE  DocAt(EmptyDocument, n)
<1>1. EmptyDocument \in Document
  BY AbsentOK DEF EmptyDocument, Document, NoEpoch
<1> QED BY <1>1, AbsentOK DEF DocAt, EmptyDocument

(* What observing the policy does to one draft. *)
LEMMA ObservedDoc ==
  ASSUME NEW doc, NEW n, DocAt(doc, n), NEW rel \in Releases
  PROVE  LET new == ObservePolicy(doc, rel)
         IN  /\ DocAt(new, n)
             /\ new.ledger = doc.ledger
             /\ \A d \in Drafts : new.drafts[d] = doc.drafts[d] \/ Revoked(doc.drafts[d], new.drafts[d])
<1> DEFINE enabled == Enabled(doc, rel)
           retired == doc.retired
               \cup {e \in {doc.epoch} \ {NoEpoch} : ~enabled \/ e # rel.epoch}
               \cup {e \in {rel.epoch} \ {NoEpoch} : ~enabled}
           obsolete == {d \in Drafts :
               /\ doc.drafts[d].status \in {"pending", "approved"}
               /\ Automatic(doc.drafts[d])
               /\ \/ ~enabled
                  \/ doc.drafts[d].approval.epoch # rel.epoch
                  \/ doc.drafts[d].approval.epoch \in retired}
           D == [d \in Drafts |-> IF d \in obsolete THEN RevokeApproval(doc.drafts[d]) ELSE doc.drafts[d]]
           R == retired \cup ({doc.drafts[d].approval.epoch : d \in obsolete} \ {NoEpoch})
           new == [doc EXCEPT !.drafts = D, !.retired = R, !.epoch = rel.epoch, !.enabled = enabled]
<1>1. doc \in Document /\ \A d \in Drafts : DraftOK(doc.drafts[d])
  BY DEF DocAt
<1>2. ObservePolicy(doc, rel) = new
  BY <1>1 DEF ObservePolicy, Document
<1>3. \A d \in obsolete : d \in Drafts /\ doc.drafts[d].status # "absent"
  OBVIOUS
<1>4. \A d \in obsolete : Revoked(doc.drafts[d], D[d])
  BY <1>1, <1>3, RevokeMovesOn
<1>5. \A d \in Drafts \ obsolete : D[d] = doc.drafts[d]
  OBVIOUS
<1>6. rel.epoch \in Epochs \cup {NoEpoch} /\ rel.on \in BOOLEAN
  <2>1. CASE rel = [on |-> FALSE, epoch |-> NoEpoch]
    BY <2>1
  <2>2. CASE rel \in [on : BOOLEAN, epoch : Epochs]
    BY <2>2
  <2> QED BY <2>1, <2>2 DEF Releases
<1>7. retired \in SUBSET Epochs
  BY <1>1, <1>6 DEF Document
<1>8. \A d \in obsolete : doc.drafts[d].approval.epoch \in Epochs \cup {NoEpoch}
  BY <1>1, <1>3 DEF DraftOK, KnownEpochs
<1> HIDE DEF retired, obsolete
<1>9. R \in SUBSET Epochs
  BY <1>7, <1>8
<1> HIDE DEF R
<1>10. \A d \in Drafts : DraftOK(D[d])
  BY <1>1, <1>4, <1>5 DEF Revoked, After
<1> DEFINE F == D
<1>11. F \in [Drafts -> Draft]
  BY <1>10 DEF DraftOK
<1>12. enabled \in BOOLEAN
  BY <1>6 DEF Enabled
<1> HIDE DEF D, enabled
<1>13. new \in Document
  BY <1>1, <1>6, <1>9, <1>11, <1>12, Zenon DEF Document
<1>14. new.drafts = D /\ new.ledger = doc.ledger
  BY <1>1 DEF Document
<1> HIDE DEF new
<1>15. DocAt(new, n)
  BY <1>10, <1>13, <1>14 DEF DocAt
<1>16. /\ DocAt(new, n) /\ new.ledger = doc.ledger
       /\ \A d \in Drafts : new.drafts[d] = doc.drafts[d] \/ Revoked(doc.drafts[d], new.drafts[d])
  BY <1>4, <1>5, <1>14, <1>15
<1> QED BY <1>2, <1>16

LEMMA ReconciledDoc ==
  ASSUME PubTypeOK, NEW doc, DocAt(doc, attempts)
  PROVE  LET new == ReconcileLedger(doc)
         IN  /\ DocAt(new, attempts)
             /\ new.ledger = doc.ledger /\ new.retired = doc.retired
             /\ \A d \in Drafts : new.drafts[d] = doc.drafts[d] \/ Marked(doc.drafts[d], new.drafts[d])
<1> DEFINE D == [d \in Drafts |-> RepairDraft(d, doc.drafts[d], Entry(doc, d))]
           new == [doc EXCEPT !.drafts = D]
<1>1. doc \in Document /\ \A d \in Drafts : DraftOK(doc.drafts[d])
  BY DEF DocAt
<1>2. ReconcileLedger(doc) = new
  BY <1>1 DEF ReconcileLedger, Document
<1>3. ASSUME NEW d \in Drafts PROVE D[d] = doc.drafts[d] \/ Marked(doc.drafts[d], D[d])
  <2>1. EventOf[d] \in Events
    BY PublicationAssumption
  <2>2. \A a \in Entry(doc, d) : RowAt(a, attempts)
    BY <2>1 DEF DocAt, Entry
  <2> QED BY <1>1, <2>2, RepairMarks
<1>4. \A d \in Drafts : DraftOK(D[d])
  BY <1>1, <1>3, MarkedOK
<1> DEFINE F == D
<1>5. F \in [Drafts -> Draft]
  BY <1>4 DEF DraftOK
<1> HIDE DEF D
<1>6. new \in Document
  BY <1>1, <1>5 DEF Document
<1>7. new.drafts = D /\ new.ledger = doc.ledger /\ new.retired = doc.retired
  BY <1>1 DEF Document
<1> HIDE DEF new
<1>8. DocAt(new, attempts)
  BY <1>4, <1>6, <1>7 DEF DocAt
<1> QED BY <1>2, <1>3, <1>7, <1>8

-----------------------------------------------------------------------------
(*****************************************************************************)
(* The run that holds a claim, and its return to the caller.                 *)
(*****************************************************************************)

(* What is known while a run holds a claim. *)
LEMMA ClaimState ==
  ASSUME PubTypeOK, run.pc \in Claiming
  PROVE  /\ ClaimOK
         /\ EventOf[run.draft] \in Events /\ run.draft \in Drafts
         /\ DraftOK(mem.drafts[run.draft]) /\ mem.drafts[run.draft].status # "absent"
         /\ mem.drafts[run.draft].attemptAt = attempts /\ attempts \in Nat \ {0}
         /\ mem \in Document /\ DocAt(mem, attempts)
         /\ \A a \in mem.ledger[EventOf[run.draft]] : RowAt(a, attempts)
<1>1. ClaimOK
  BY DEF PubTypeOK, RunOK, Claiming, IdleRun
<1>2. run.draft \in Drafts
  BY <1>1 DEF ClaimOK
<1>3. EventOf[run.draft] \in Events
  BY <1>2, PublicationAssumption
<1>4. attempts \in Nat
  BY PublicationAssumption DEF PubTypeOK
<1> QED BY <1>1, <1>2, <1>3, <1>4 DEF PubTypeOK, ClaimedDraftOK, DocAt

AnsweredRow(a, phase) ==
    [a EXCEPT !.phase = phase, !.tweet = IF phase = "confirmed" THEN attempts ELSE NoTweet]

LEMMA AnsweredRowOK ==
  ASSUME PubTypeOK, attempts # 0, NEW a, RowAt(a, attempts), NEW phase \in {"unknown", "not_sent", "confirmed"}
  PROVE  LET b == AnsweredRow(a, phase)
         IN  /\ RowAt(b, attempts) /\ SameAttempt(a, b) /\ b.phase = phase
             /\ b.tweet = IF phase = "confirmed" THEN attempts ELSE NoTweet
             /\ b.at = a.at
<1> DEFINE t == IF phase = "confirmed" THEN attempts ELSE NoTweet
           b == [a EXCEPT !.phase = phase, !.tweet = t]
<1>1. t \in Nat /\ (t # NoTweet <=> phase = "confirmed") /\ phase \in Phases
  BY PublicationAssumption DEF PubTypeOK, NoTweet, Phases
<1>2. a \in Attempt /\ a.at \in 1..attempts
  BY DEF RowAt
<1> HIDE DEF t
<1>3. /\ b.intent = a.intent /\ b.at = a.at /\ b.rev = a.rev /\ b.text = a.text
      /\ b.phase = phase /\ b.tweet = t
  BY <1>2 DEF Attempt
<1>4. b \in [intent : Nat \cup Drafts, at : Nat, rev : Nat, text : Texts, phase : Phases,
             tweet : Nat, cancelled : BOOLEAN]
  BY <1>1, <1>2 DEF Attempt
<1>5. AnsweredRow(a, phase) = b
  BY DEF AnsweredRow, t
<1> HIDE DEF b
<1>6. b \in Attempt
  BY <1>1, <1>3, <1>4 DEF Attempt, ReceiptIsConfirmed
<1> QED BY <1>2, <1>3, <1>5, <1>6 DEF RowAt, SameAttempt, AttemptKey, t

(* The copy after an answer: the claimed row and draft carry it. *)
LEMMA AnsweredDoc ==
  ASSUME PubTypeOK, run.pc \in Claiming, NEW phase \in {"unknown", "not_sent", "confirmed"}
  PROVE  LET new == Answered(phase)
         IN  /\ DocAt(new, attempts)
             /\ Marked(mem.drafts[run.draft], new.drafts[run.draft])
             /\ \A c \in Drafts \ {run.draft} : new.drafts[c] = mem.drafts[c]
             /\ new.ledger[EventOf[run.draft]] =
                   {AnsweredRow(a, phase) : a \in mem.ledger[EventOf[run.draft]]}
             /\ \A c \in Events \ {EventOf[run.draft]} : new.ledger[c] = mem.ledger[c]
             /\ new.retired = mem.retired
<1> DEFINE e == EventOf[run.draft]
           x == mem.drafts[run.draft]
           tweet == IF phase = "confirmed" THEN attempts ELSE NoTweet
           S == {AnsweredRow(a, phase) : a \in mem.ledger[e]}
           y == [x EXCEPT !.outcome = phase,
                          !.tweet = IF phase = "confirmed" THEN tweet ELSE x.tweet,
                          !.status = IF phase = "confirmed" THEN "posted" ELSE x.status,
                          !.attempted = IF phase = "not_sent" THEN FALSE ELSE x.attempted]
           D == [mem.drafts EXCEPT ![run.draft] = y]
           L == [mem.ledger EXCEPT ![e] = S]
           P == IF phase = "confirmed" THEN mem.posted \cup {e} ELSE mem.posted
           new == [mem EXCEPT !.ledger = L, !.drafts = D, !.posted = P]
<1>1. /\ e \in Events /\ run.draft \in Drafts /\ DraftOK(x) /\ x.status # "absent"
      /\ x.attemptAt = attempts /\ attempts \in Nat \ {0}
      /\ mem \in Document /\ DocAt(mem, attempts)
      /\ \A a \in mem.ledger[e] : RowAt(a, attempts)
  BY ClaimState
<1>2. Answered(phase) = new
  BY <1>1 DEF Answered, AnsweredRow, Document, NoTweet
<1>3. \A b \in S : RowAt(b, attempts)
  BY <1>1, AnsweredRowOK
<1>4. Marked(x, y)
  <2>1. x \in Draft /\ x.tweet \in Nat /\ x.attempted \in BOOLEAN
    BY <1>1 DEF DraftOK, Draft
  <2>2. (IF phase = "confirmed" THEN tweet ELSE x.tweet) \in Nat
    BY <1>1, <2>1
  <2> QED BY <1>1, <2>1, <2>2, AnswerMarks
<1> HIDE DEF y, S
<1>5. DraftOK(y) /\ y \in Draft
  BY <1>1, <1>4, MarkedOK DEF Marked
<1>6. D \in [Drafts -> Draft] /\ D[run.draft] = y /\ \A c \in Drafts \ {run.draft} : D[c] = mem.drafts[c]
  BY <1>1, <1>5 DEF Document
<1>7. L \in [Events -> SUBSET Attempt] /\ L[e] = S /\ \A c \in Events \ {e} : L[c] = mem.ledger[c]
  BY <1>1, <1>3 DEF Document, RowAt
<1>8. P \in SUBSET Events
  BY <1>1 DEF Document
<1> HIDE DEF D, L, P
<1>9. new \in Document
  BY <1>1, <1>6, <1>7, <1>8 DEF Document
<1>10. new.drafts = D /\ new.ledger = L /\ new.retired = mem.retired
  BY <1>1 DEF Document
<1> HIDE DEF new
<1>11. DocAt(new, attempts)
  BY <1>1, <1>3, <1>5, <1>6, <1>7, <1>9, <1>10 DEF DocAt
<1> QED BY <1>2, <1>4, <1>6, <1>7, <1>10, <1>11 DEF S

(* What the run is left with after post_approved returned the copy m. *)
Returned(m, new) ==
    /\ DocAt(new, attempts)
    /\ new.ledger = m.ledger /\ new.retired = m.retired
    /\ \A c \in Drafts \ {run.draft} : new.drafts[c] = m.drafts[c]
    /\ \/ Marked(m.drafts[run.draft], new.drafts[run.draft])
       \/ Revoked(m.drafts[run.draft], new.drafts[run.draft])

LEMMA Finished ==
  ASSUME PubTypeOK, run.pc \in Claiming, NEW m, DocAt(m, attempts),
         m.drafts[run.draft].status # "absent", NEW result, Finish(m, result)
  PROVE  /\ Returned(m, mem')
         /\ RunOK' /\ run'.pc \in {"work", "save"}
         /\ run'.pc = "work" => run'.todo \subseteq run.todo
<1> DEFINE d == run.draft
           x == m.drafts[d]
<1>1. d \in Drafts /\ ClaimOK
  BY ClaimState
<1>2. DraftOK(x) /\ x.status # "absent"
  BY <1>1 DEF DocAt
<1>3. ASSUME NEW y, Marked(x, y) \/ Revoked(x, y), mem' = [m EXCEPT !.drafts[d] = Touch(d, y)]
      PROVE  Returned(m, mem')
  <2> DEFINE z == Touch(d, y)
  <2>1. Marked(x, z) \/ Revoked(x, z)
    BY <1>1, <1>2, <1>3, TouchKeeps
  <2>2. DraftOK(z)
    BY <1>2, <2>1, MarkedOK DEF Revoked, After
  <2> HIDE DEF z
  <2>3. mem' = [m EXCEPT !.drafts[d] = z]
    BY <1>3 DEF z
  <2> QED BY <1>1, <2>1, <2>2, <2>3, DocWithDraft DEF Returned
<1>4. CASE run.mode = "manual"
  <2>1. mem' = [m EXCEPT !.drafts[d] = Touch(d, AfterManual(x, result))] /\ run' = Saving
    <3>1. m.drafts \in [Drafts -> Draft] /\ m \in Document
      BY DEF DocAt, Document
    <3> QED BY <1>1, <1>4, <3>1 DEF Finish, GoSave, Document
  <2>2. Marked(x, AfterManual(x, result))
    BY <1>2, AfterManualMarks
  <2>3. RunOK' /\ run'.pc = "save"
    BY <2>1 DEF Saving, RunOK
  <2> QED BY <1>3, <2>1, <2>2, <2>3
<1>5. CASE run.mode = "auto"
  <2>1. /\ mem' = [m EXCEPT !.drafts[d] = Touch(d, AfterAuto(x, result))]
        /\ run' = [pc |-> "work", mode |-> run.mode, rel |-> run.rel, request |-> NoDraft,
                   todo |-> run.todo \ {run.draft}]
    <3>1. m.drafts \in [Drafts -> Draft] /\ m \in Document
      BY DEF DocAt, Document
    <3> QED BY <1>1, <1>5, <3>1 DEF Finish, Document
  <2>2. Marked(x, AfterAuto(x, result)) \/ Revoked(x, AfterAuto(x, result))
    BY <1>2, AfterAutoMarks
  <2>3. RunOK' /\ run'.pc = "work" /\ run'.todo \subseteq run.todo
    <3>1. run.rel \in Releases /\ run.todo \in SUBSET Drafts
      BY <1>1 DEF ClaimOK
    <3>2. WorkOK' /\ run'.pc = "work"
      BY <1>5, <2>1, <3>1 DEF WorkOK
    <3> QED BY <2>1, <3>2 DEF RunOK
  <2> QED BY <1>3, <2>1, <2>2, <2>3
<1> QED BY <1>1, <1>4, <1>5 DEF ClaimOK

-----------------------------------------------------------------------------
(*****************************************************************************)
(* The rows of one event, in the document (G) and in the copy of a run (M):  *)
(* what a merge, a claim, an answer and an operator make of EventOK,         *)
(* PendingOK and SendingOK.                                                  *)
(*****************************************************************************)

(* The phase of a row and its rank. *)
LEMMA RankOf ==
  ASSUME NEW a \in Attempt
  PROVE  /\ a.phase = "confirmed" => AttemptRank(a) = 4
         /\ a.phase = "not_sent" => AttemptRank(a) = 3
         /\ a.phase = "unknown" => AttemptRank(a) = 2
         /\ a.phase = "submitted" => AttemptRank(a) = 1
         /\ a.phase \in Phases
         /\ (a.tweet = NoTweet <=> a.phase # "confirmed")
BY DEF AttemptRank, Attempt, Phases, ReceiptIsConfirmed

LEMMA AttemptFields ==
  ASSUME NEW a \in Attempt, NEW b \in Attempt, SameAttempt(a, b), a.phase = b.phase,
         a.tweet = b.tweet, a.cancelled = b.cancelled
  PROVE  a = b
<1>1. /\ a = [intent |-> a.intent, at |-> a.at, rev |-> a.rev, text |-> a.text,
              phase |-> a.phase, tweet |-> a.tweet, cancelled |-> a.cancelled]
      /\ b = [intent |-> b.intent, at |-> b.at, rev |-> b.rev, text |-> b.text,
              phase |-> b.phase, tweet |-> b.tweet, cancelled |-> b.cancelled]
  BY DEF Attempt
<1>2. a.intent = b.intent /\ a.at = b.at /\ a.rev = b.rev /\ a.text = b.text
  BY DEF SameAttempt, AttemptKey
<1> QED BY <1>1, <1>2

LEMMA SameAt ==
  ASSUME NEW a, NEW b, SameAttempt(a, b)
  PROVE  a.at = b.at /\ SameAttempt(b, a) /\ \A c : SameAttempt(b, c) => SameAttempt(a, c)
BY DEF SameAttempt, AttemptKey

(* The row of an attempt that a merge keeps. *)
LEMMA KeptAt ==
  ASSUME NEW G \in SUBSET Attempt, NEW M \in SUBSET Attempt, NEW a \in G \cup M
  PROVE  \E x \in G \cup M : \E b \in MergeAttempts(G, M) :
             /\ SameAttempt(a, x) /\ SameAttempt(x, b) /\ b.phase = x.phase /\ b.tweet = x.tweet
             /\ AttemptRank(x) >= AttemptRank(a) /\ b.at = a.at
             /\ ~Outranked(x, G \cup M)
<1> DEFINE S == G \cup M
<1>1. S \in SUBSET Rows(Nat \cup Drafts, Texts)
  BY DEF Attempt, Rows
<1>2. PICK x \in S : SameAttempt(a, x) /\ AttemptRank(x) >= AttemptRank(a) /\ ~Outranked(x, S)
  BY <1>1, MostFinalReport
<1> DEFINE b == KeepCancellation(x, S)
<1>3. b \in MergeAttempts(G, M)
  BY <1>2 DEF MergeAttempts
<1>4. b.phase = x.phase /\ b.tweet = x.tweet /\ SameAttempt(x, b)
  <2> HIDE DEF S
  <2>1. x \in Rows(Nat \cup Drafts, Texts)
    BY <1>1
  <2> QED BY <2>1, KeptRow DEF SameAttempt
<1> HIDE DEF b
<1>5. b.at = a.at
  BY <1>2, <1>4, SameAt
<1> QED BY <1>2, <1>3, <1>4, <1>5

(* A merge leaves one row for each attempt. *)
LEMMA MergedOneRow ==
  ASSUME NEW G \in SUBSET Attempt, NEW M \in SUBSET Attempt, OneCall(G \cup M),
         \A a \in G \cup M : a.phase = "confirmed" => a.tweet = a.at
  PROVE  OneRow(MergeAttempts(G, M))
<1> DEFINE S == G \cup M
<1> SUFFICES ASSUME NEW b \in MergeAttempts(G, M), NEW c \in MergeAttempts(G, M), b.at = c.at
             PROVE  b = c
  BY DEF OneRow
<1>1. PICK x \in S : b \in Attempt /\ SameAttempt(x, b) /\ x.phase = b.phase /\ x.tweet = b.tweet
                       /\ ~Outranked(x, S) /\ b = KeepCancellation(x, S)
  BY MergedRow
<1>2. PICK y \in S : c \in Attempt /\ SameAttempt(y, c) /\ y.phase = c.phase /\ y.tweet = c.tweet
                       /\ ~Outranked(y, S) /\ c = KeepCancellation(y, S)
  BY MergedRow
<1>3. x.at = y.at /\ x \in Attempt /\ y \in Attempt
  BY <1>1, <1>2, SameAt
<1>4. SameAttempt(x, y)
  BY <1>3 DEF OneCall
<1>5. AttemptRank(x) = AttemptRank(y)
  <2>1. AttemptRank(x) \in Int /\ AttemptRank(y) \in Int
    BY <1>3, RankOf DEF Phases
  <2>2. ~(AttemptRank(y) > AttemptRank(x)) /\ ~(AttemptRank(x) > AttemptRank(y))
    BY <1>1, <1>2, <1>4, SameAt DEF Outranked
  <2> QED BY <2>1, <2>2
<1>6. x.phase = y.phase
  BY <1>3, <1>5, RankOf DEF Phases
<1>7. x.tweet = y.tweet
  BY <1>3, <1>6, RankOf
<1>8. b.cancelled = c.cancelled
  <2>1. b.cancelled <=> \E r \in S : SameAttempt(x, r) /\ r.cancelled
    <3>1. x \in Rows(Nat \cup Drafts, Texts)
      BY <1>3 DEF Attempt, Rows
    <3> HIDE DEF S
    <3> QED BY <1>1, <3>1, KeptRow
  <2>2. c.cancelled <=> \E r \in S : SameAttempt(y, r) /\ r.cancelled
    <3>1. y \in Rows(Nat \cup Drafts, Texts)
      BY <1>3 DEF Attempt, Rows
    <3> HIDE DEF S
    <3> QED BY <1>2, <3>1, KeptRow
  <2>3. b.cancelled \in BOOLEAN /\ c.cancelled \in BOOLEAN
    BY <1>1, <1>2 DEF Attempt
  <2> QED BY <1>4, <2>1, <2>2, <2>3, SameAt
<1>9. SameAttempt(b, c)
  BY <1>1, <1>2, <1>4 DEF SameAttempt
<1> QED BY <1>1, <1>2, <1>6, <1>7, <1>8, <1>9, AttemptFields

(* Merging the run's copy into the document. *)
LEMMA MergeOK ==
  ASSUME NEW G, NEW M, NEW P, NEW n, EventOK(G, M, P, n)
  PROVE  EventOK(MergeAttempts(G, M), M, P, n)
<1> DEFINE S == G \cup M
           A == MergeAttempts(G, M)
<1>1. G \in SUBSET Attempt /\ M \in SUBSET Attempt
  BY DEF EventOK, Recorded, RowAt
<1>2. \A a \in S : Recorded(a, P, n)
  BY DEF EventOK
<1>3. ASSUME NEW b \in A
      PROVE  b \in Attempt /\ \E a \in S : SameAttempt(a, b) /\ a.phase = b.phase /\ a.tweet = b.tweet
  <2>1. PICK a \in G \cup M : b \in Attempt /\ SameAttempt(a, b) /\ a.phase = b.phase /\ a.tweet = b.tweet
                /\ ~Outranked(a, G \cup M) /\ b = KeepCancellation(a, G \cup M)
    BY <1>1, <1>3, MergedRow
  <2> QED BY <2>1
<1>4. ASSUME NEW b \in A PROVE Recorded(b, P, n)
  <2>1. PICK a \in S : b \in Attempt /\ SameAttempt(a, b) /\ a.phase = b.phase /\ a.tweet = b.tweet
    BY <1>3
  <2> QED BY <1>2, <2>1, SameAt DEF Recorded, RowAt
<1>5. OneCall(A \cup M)
  <2> SUFFICES ASSUME NEW b \in A \cup M, NEW c \in A \cup M, b.at = c.at
               PROVE  SameAttempt(b, c)
    BY DEF OneCall
  <2>1. \A z \in A \cup M : \E a \in S : SameAttempt(a, z)
    BY <1>3 DEF SameAttempt
  <2>2. PICK x \in S : SameAttempt(x, b)
    BY <2>1
  <2>3. PICK y \in S : SameAttempt(y, c)
    BY <2>1
  <2>4. SameAttempt(x, y)
    BY <2>2, <2>3, SameAt DEF EventOK, OneCall
  <2> QED BY <2>2, <2>3, <2>4 DEF SameAttempt
<1>6. OneRow(A)
  BY <1>1, <1>2, MergedOneRow DEF EventOK, Recorded
<1>7. \A b \in A : Live(b) => LiveAt(G, b.at)
  <2> SUFFICES ASSUME NEW b \in A, Live(b) PROVE LiveAt(G, b.at)
    OBVIOUS
  <2>1. PICK a \in S : SameAttempt(a, b) /\ a.phase = b.phase
    BY <1>3
  <2> QED BY <2>1, SameAt DEF EventOK, Live, LiveAt
<1>8. OneLive(A)
  BY <1>7 DEF OneLive, LiveAt, EventOK
<1>9. \A p \in P : LiveAt(A, p)
  <2> SUFFICES ASSUME NEW p \in P PROVE LiveAt(A, p)
    OBVIOUS
  <2>1. PICK a \in G : a.at = p
    BY DEF EventOK, LiveAt
  <2>2. PICK x \in G \cup M : \E b \in MergeAttempts(G, M) :
             /\ SameAttempt(a, x) /\ SameAttempt(x, b) /\ b.phase = x.phase /\ b.tweet = x.tweet
             /\ AttemptRank(x) >= AttemptRank(a) /\ b.at = a.at
             /\ ~Outranked(x, G \cup M)
    BY <1>1, KeptAt
  <2>3. x.at = p
    BY <2>1, <2>2, SameAt
  <2>4. Live(x)
    BY <1>2, <2>3 DEF Recorded, Live
  <2> QED BY <2>1, <2>2, <2>4 DEF LiveAt, Live
<1>10. \A a \in M : Live(a) => LiveAt(A, a.at)
  <2> SUFFICES ASSUME NEW a \in M, Live(a) PROVE LiveAt(A, a.at)
    OBVIOUS
  <2>1. PICK g \in G : g.at = a.at /\ Live(g)
    BY DEF EventOK, LiveAt
  <2>2. PICK x \in G \cup M : \E b \in MergeAttempts(G, M) :
             /\ SameAttempt(a, x) /\ SameAttempt(x, b) /\ b.phase = x.phase /\ b.tweet = x.tweet
             /\ AttemptRank(x) >= AttemptRank(a) /\ b.at = a.at
             /\ ~Outranked(x, G \cup M)
    BY <1>1, KeptAt
  <2>3. x.at = a.at
    BY <2>2, SameAt
  <2>4. x = a \/ x = g
    BY <2>1, <2>3 DEF EventOK, OneRow
  <2> QED BY <2>1, <2>2, <2>4 DEF LiveAt, Live
<1> QED BY <1>2, <1>4, <1>5, <1>6, <1>8, <1>9, <1>10 DEF EventOK

(* A fresh claim is merged into a document without any live attempt. *)
LEMMA ClaimMerged ==
  ASSUME NEW G, NEW M, NEW P, NEW n \in Nat, PendingOK(G, M, P, n), \A a \in G : ~Live(a)
  PROVE  SendingOK(MergeAttempts(G, M), M, P, n)
<1> DEFINE S == G \cup M
           A == MergeAttempts(G, M)
<1>1. PICK r : M = {r} /\ ClaimRow(r, n)
  BY DEF PendingOK
<1>2. EventOK(G, {}, P, n) /\ \A a \in G : a.at # n
  BY DEF PendingOK
<1>3. n \notin P
  BY <1>2 DEF EventOK, LiveAt
<1>4. r \in Attempt /\ r.at = n /\ r.phase = "submitted" /\ r.at \in 1..n /\ Live(r)
  BY <1>1 DEF ClaimRow, RowAt, Live
<1>5. G \in SUBSET Attempt /\ M \in SUBSET Attempt
  BY <1>1, <1>2, <1>4 DEF EventOK, Recorded, RowAt
<1>6. \A a \in S : Recorded(a, P, n)
  BY <1>1, <1>2, <1>4 DEF EventOK, Recorded, RowAt
<1>7. OneCall(S)
  <2>1. SameAttempt(r, r)
    BY DEF SameAttempt
  <2> QED BY <1>1, <1>2, <1>4, <2>1 DEF EventOK, OneCall
<1>8. ASSUME NEW b \in A
      PROVE  b \in Attempt /\ \E a \in S : SameAttempt(a, b) /\ a.phase = b.phase /\ a.tweet = b.tweet
  <2>1. PICK a \in G \cup M : b \in Attempt /\ SameAttempt(a, b) /\ a.phase = b.phase /\ a.tweet = b.tweet
                /\ ~Outranked(a, G \cup M) /\ b = KeepCancellation(a, G \cup M)
    BY <1>5, <1>8, MergedRow
  <2> QED BY <2>1
<1>9. ASSUME NEW b \in A PROVE Recorded(b, P, n)
  <2>1. PICK a \in S : b \in Attempt /\ SameAttempt(a, b) /\ a.phase = b.phase /\ a.tweet = b.tweet
    BY <1>8
  <2> QED BY <1>6, <2>1, SameAt DEF Recorded, RowAt
<1>10. OneCall(A \cup M)
  <2> SUFFICES ASSUME NEW b \in A \cup M, NEW c \in A \cup M, b.at = c.at
               PROVE  SameAttempt(b, c)
    BY DEF OneCall
  <2>1. \A z \in A \cup M : \E a \in S : SameAttempt(a, z)
    BY <1>8 DEF SameAttempt
  <2>2. PICK x \in S : SameAttempt(x, b)
    BY <2>1
  <2>3. PICK y \in S : SameAttempt(y, c)
    BY <2>1
  <2>4. SameAttempt(x, y)
    BY <2>2, <2>3, <1>7, SameAt DEF OneCall
  <2> QED BY <2>2, <2>3, <2>4 DEF SameAttempt
<1>11. OneRow(A)
  BY <1>5, <1>6, <1>7, MergedOneRow DEF Recorded
<1>12. \A b \in A : Live(b) => b.at = n
  <2> SUFFICES ASSUME NEW b \in A, Live(b) PROVE b.at = n
    OBVIOUS
  <2>1. PICK a \in S : SameAttempt(a, b) /\ a.phase = b.phase
    BY <1>8
  <2> QED BY <1>1, <1>4, <2>1, SameAt DEF Live
<1>13. P = {}
  BY <1>2 DEF EventOK, LiveAt
<1>14. PICK b \in A : b.phase = "submitted" /\ b.tweet = r.tweet /\ b.at = n
  <2>1. r \in G \cup M
    BY <1>1
  <2>2. PICK x \in G \cup M : \E b \in MergeAttempts(G, M) :
             /\ SameAttempt(r, x) /\ SameAttempt(x, b) /\ b.phase = x.phase /\ b.tweet = x.tweet
             /\ AttemptRank(x) >= AttemptRank(r) /\ b.at = r.at
             /\ ~Outranked(x, G \cup M)
    BY <1>5, <2>1, KeptAt
  <2>3. x = r
    BY <1>1, <1>2, <1>4, <2>2, SameAt
  <2> QED BY <1>4, <2>2, <2>3
<1>15. Open(b) /\ LiveAt(A, n)
  BY <1>4, <1>14, RankOf DEF Open, LiveAt, Live
<1>16. \A a \in A : a.at = n => Live(a)
  BY <1>11, <1>14 DEF OneRow, Live
<1>17. EventOK(A, M, P, n)
  <2>1. OneRow(M)
    BY <1>1 DEF OneRow
  <2>2. OneLive(A)
    BY <1>12 DEF OneLive
  <2>3. \A a \in M : Live(a) => LiveAt(A, a.at)
    BY <1>1, <1>4, <1>15
  <2> QED BY <1>6, <1>9, <1>10, <1>11, <1>13, <2>1, <2>2, <2>3 DEF EventOK
<1> QED BY <1>1, <1>3, <1>14, <1>15, <1>16, <1>17 DEF SendingOK

(* A run that starts from the document, or has no copy, is as good as the document. *)
LEMMA ReadOK ==
  ASSUME NEW G, NEW M, NEW P, NEW n, EventOK(G, M, P, n)
  PROVE  EventOK(G, G, P, n) /\ EventOK(G, {}, P, n)
<1>1. G \cup G = G /\ G \cup {} = G
  OBVIOUS
<1>2. \A a \in G : Live(a) => LiveAt(G, a.at)
  BY DEF LiveAt
<1> QED BY <1>1, <1>2 DEF EventOK, OneCall, OneRow

(* More attempts claimed elsewhere change nothing here. *)
LEMMA LaterOK ==
  ASSUME NEW G, NEW M, NEW P, NEW n \in Nat, EventOK(G, M, P, n)
  PROVE  EventOK(G, M, P, n + 1)
<1>1. \A a : Recorded(a, P, n) => Recorded(a, P, n + 1)
  BY DEF Recorded, RowAt
<1> QED BY <1>1 DEF EventOK

(* Recording an intent makes the event pending. *)
LEMMA ClaimOpens ==
  ASSUME NEW G, NEW M, NEW P, NEW n \in Nat, EventOK(G, M, P, n), NEW r, ClaimRow(r, n + 1)
  PROVE  PendingOK(G, {r}, P, n + 1)
<1>1. EventOK(G, {}, P, n + 1)
  BY ReadOK, LaterOK
<1>2. \A a \in G : a.at # n + 1
  BY DEF EventOK, Recorded, RowAt
<1> QED BY <1>1, <1>2 DEF PendingOK

(* The intent was not made durable: its row is ruled out in the run's copy. *)
LEMMA GivenUp ==
  ASSUME NEW G, NEW M, NEW P, NEW n \in Nat, PendingOK(G, M, P, n),
         NEW N, \E r \in M : \E s : N = {s} /\ RowAt(s, n) /\ s.at = n /\ s.phase = "not_sent"
  PROVE  EventOK(G, N, P, n)
<1>1. PICK s : N = {s} /\ RowAt(s, n) /\ s.at = n /\ s.phase = "not_sent"
  OBVIOUS
<1>2. EventOK(G, {}, P, n) /\ \A a \in G : a.at # n
  BY DEF PendingOK
<1>3. n \notin P
  BY <1>2 DEF EventOK, LiveAt
<1>4. Recorded(s, P, n) /\ SameAttempt(s, s) /\ ~Live(s)
  BY <1>1, <1>3 DEF Recorded, SameAttempt, Live
<1> QED BY <1>1, <1>2, <1>4 DEF EventOK, OneCall, OneRow

(* The platform call was answered: published or not, as phase allows. *)
LEMMA AnsweredOK ==
  ASSUME NEW G, NEW M, NEW P, NEW n \in Nat, SendingOK(G, M, P, n), NEW Q, Q = P \/ Q = P \cup {n},
         NEW N, NEW r \in M, NEW s, N = {s}, RowAt(s, n), SameAttempt(r, s),
         s.phase = "not_sent" => Q = P,
         s.phase = "confirmed" => n \in Q /\ s.tweet = n
  PROVE  EventOK(G, N, Q, n)
<1>1. EventOK(G, M, P, n) /\ n \notin P /\ (\A a \in G : a.at = n => Live(a)) /\ M = {r} /\ r.at = n
      /\ LiveAt(G, n)
  BY DEF SendingOK, ClaimRow, Open, LiveAt, Live
<1>2. s.at = n
  BY <1>1, SameAt
<1>3. Recorded(s, Q, n)
  BY <1>1, <1>2 DEF Recorded
<1>4. \A a \in G : Recorded(a, Q, n)
  BY <1>1 DEF EventOK, Recorded, Live
<1>5. OneCall(G \cup N)
  <2>1. \A a \in G : a.at = n => SameAttempt(a, r)
    BY <1>1 DEF EventOK, OneCall
  <2>2. \A a \in G : a.at = n => SameAttempt(a, s) /\ SameAttempt(s, a)
    BY <2>1 DEF SameAttempt
  <2>3. SameAttempt(s, s)
    BY DEF SameAttempt
  <2> QED BY <1>1, <1>2, <2>2, <2>3 DEF EventOK, OneCall
<1>6. \A p \in Q : LiveAt(G, p)
  BY <1>1 DEF EventOK
<1>7. OneRow(N)
  BY DEF OneRow
<1> QED BY <1>1, <1>2, <1>3, <1>4, <1>5, <1>6, <1>7 DEF EventOK

-----------------------------------------------------------------------------
(* The dashboard's writes of the rows. *)

LEMMA OperatorRow ==
  ASSUME NEW G, NEW M, NEW P, NEW n \in Nat, EventOK(G, M, P, n), NEW H, H # G, RowsOf(P, G, H)
  PROVE  \E a, b : /\ G = {a} /\ H = {b} /\ SameAttempt(a, b) /\ RowAt(b, n)
                   /\ Recorded(b, P, n) /\ (Live(a) <=> Live(b))
                   /\ a.tweet = NoTweet
                   /\ b.phase # a.phase => Live(a) /\ a.at \in P
                   /\ b.phase = a.phase => b.tweet = NoTweet /\ b.cancelled
<1>1. PICK a : /\ G = {a} /\ a.tweet = NoTweet
               /\ \/ H = {[a EXCEPT !.cancelled = TRUE]}
                  \/ /\ Live(a) /\ a.at \in P
                     /\ H = {[a EXCEPT !.tweet = a.at, !.phase = "confirmed"]}
  BY DEF RowsOf
<1>2. Recorded(a, P, n) /\ a \in Attempt /\ a.at \in 1..n
  BY <1>1 DEF EventOK, Recorded, RowAt
<1>3. CASE H = {[a EXCEPT !.cancelled = TRUE]}
  <2> DEFINE b == [a EXCEPT !.cancelled = TRUE]
  <2>1. /\ b \in Attempt /\ b.intent = a.intent /\ b.at = a.at /\ b.rev = a.rev /\ b.text = a.text
        /\ b.phase = a.phase /\ b.tweet = a.tweet /\ b.cancelled = TRUE
    BY <1>2 DEF Attempt, ReceiptIsConfirmed
  <2> HIDE DEF b
  <2>2. SameAttempt(a, b)
    BY <2>1 DEF SameAttempt, AttemptKey
  <2>3. H = {b}
    BY <1>3 DEF b
  <2> QED BY <1>1, <1>2, <2>1, <2>2, <2>3 DEF Recorded, RowAt, Live
<1>4. CASE Live(a) /\ a.at \in P /\ H = {[a EXCEPT !.tweet = a.at, !.phase = "confirmed"]}
  <2> DEFINE b == [a EXCEPT !.tweet = a.at, !.phase = "confirmed"]
  <2>1. /\ b.intent = a.intent /\ b.at = a.at /\ b.rev = a.rev /\ b.text = a.text
        /\ b.phase = "confirmed" /\ b.tweet = a.at
    BY <1>2 DEF Attempt
  <2>2. b \in [intent : Nat \cup Drafts, at : Nat, rev : Nat, text : Texts, phase : Phases,
               tweet : Nat, cancelled : BOOLEAN]
    BY <1>2 DEF Attempt, Phases
  <2> HIDE DEF b
  <2>6. b \in Attempt
    BY <1>2, <2>1, <2>2 DEF Attempt, ReceiptIsConfirmed, NoTweet
  <2>3. SameAttempt(a, b)
    BY <2>1 DEF SameAttempt, AttemptKey
  <2>4. H = {b}
    BY <1>4 DEF b
  <2>5. a.phase # "confirmed"
    BY <1>1, <1>2, RankOf
  <2> QED BY <1>1, <1>2, <1>4, <2>1, <2>3, <2>4, <2>5, <2>6 DEF Recorded, RowAt, Live
<1> QED BY <1>1, <1>3, <1>4

(* A decision of the operator keeps all three. *)
LEMMA OperatorOK ==
  ASSUME NEW G, NEW M, NEW P, NEW n \in Nat, NEW H, RowsOf(P, G, H)
  PROVE  /\ EventOK(G, M, P, n) => EventOK(H, M, P, n)
         /\ PendingOK(G, M, P, n) => PendingOK(H, M, P, n)
         /\ SendingOK(G, M, P, n) => SendingOK(H, M, P, n)
<1>1. ASSUME NEW N, EventOK(G, N, P, n), H # G PROVE EventOK(H, N, P, n)
  <2>1. PICK a, b : /\ G = {a} /\ H = {b} /\ SameAttempt(a, b) /\ RowAt(b, n)
                    /\ Recorded(b, P, n) /\ (Live(a) <=> Live(b))
                    /\ a.tweet = NoTweet
                    /\ b.phase # a.phase => Live(a) /\ a.at \in P
                    /\ b.phase = a.phase => b.tweet = NoTweet /\ b.cancelled
    BY <1>1, OperatorRow
  <2>2. b.at = a.at
    BY <2>1, SameAt
  <2>3. \A k : LiveAt(G, k) => LiveAt(H, k)
    BY <2>1, <2>2 DEF LiveAt
  <2>4. OneCall(H \cup N)
    <3>1. SameAttempt(b, b)
      BY DEF SameAttempt
    <3>2. ASSUME NEW c \in N, c.at = b.at PROVE SameAttempt(b, c) /\ SameAttempt(c, b)
      <4>1. SameAttempt(a, c)
        BY <1>1, <2>1, <2>2, <3>2 DEF EventOK, OneCall
      <4> QED BY <2>1, <4>1 DEF SameAttempt
    <3>3. \A c, d \in N : c.at = d.at => SameAttempt(c, d)
      BY <1>1 DEF EventOK, OneCall
    <3> QED BY <2>1, <3>1, <3>2, <3>3 DEF OneCall
  <2> QED BY <1>1, <2>1, <2>3, <2>4 DEF EventOK, OneRow, OneLive
<1>2. ASSUME H # G, NEW N, EventOK(G, N, P, n) PROVE \A b \in H : \E a \in G : b.at = a.at /\ (Live(a) => Live(b))
  <2>1. PICK a, b : /\ G = {a} /\ H = {b} /\ SameAttempt(a, b) /\ RowAt(b, n)
                    /\ Recorded(b, P, n) /\ (Live(a) <=> Live(b))
                    /\ a.tweet = NoTweet
                    /\ b.phase # a.phase => Live(a) /\ a.at \in P
                    /\ b.phase = a.phase => b.tweet = NoTweet /\ b.cancelled
    BY <1>2, OperatorRow
  <2> QED BY <2>1, SameAt
<1>5. ASSUME H # G, SendingOK(G, M, P, n) PROVE \E b \in H : b.at = n /\ Open(b)
  <2>1. EventOK(G, M, P, n) /\ n \notin P
    BY <1>5 DEF SendingOK
  <2>2. PICK a, b : /\ G = {a} /\ H = {b} /\ SameAttempt(a, b) /\ RowAt(b, n)
                    /\ Recorded(b, P, n) /\ (Live(a) <=> Live(b))
                    /\ a.tweet = NoTweet
                    /\ b.phase # a.phase => Live(a) /\ a.at \in P
                    /\ b.phase = a.phase => b.tweet = NoTweet /\ b.cancelled
    BY <1>5, <2>1, OperatorRow
  <2>3. a.at = n /\ Open(a)
    BY <1>5, <2>2 DEF SendingOK
  <2>4. b.phase = a.phase /\ b.at = n
    BY <2>1, <2>2, <2>3, SameAt
  <2> QED BY <2>2, <2>3, <2>4 DEF Open
<1>3. CASE H = G
  BY <1>3
<1>4. CASE H # G
  BY <1>1, <1>2, <1>4, <1>5 DEF PendingOK, SendingOK
<1> QED BY <1>3, <1>4

-----------------------------------------------------------------------------
(*****************************************************************************)
(* What each step of a run does to its copy.                                 *)
(*****************************************************************************)

(* What starting a run, and working, may do to the drafts of the copy. *)
Drifted(old, new) ==
    \A d \in Drafts : new[d] = old[d] \/ Marked(old[d], new[d]) \/ Revoked(old[d], new[d])

Created(old, new) == old.status = "absent" /\ new.status # "absent" /\ DraftOK(new)

Worked(old, new) ==
    \A d \in Drafts : \/ new[d] = old[d] \/ Marked(old[d], new[d]) \/ Revoked(old[d], new[d])
                      \/ Created(old[d], new[d])

LEMMA RevokedMarked ==
  ASSUME NEW x, NEW y, NEW z, Revoked(x, y), Marked(y, z)
  PROVE  Revoked(x, z)
<1>1. DraftOK(z)
  BY MarkedOK DEF Revoked, After
<1> QED BY <1>1 DEF Revoked, After, Marked

(* The copy a run starts from: the document, observed and repaired. *)
LEMMA StartEffect ==
  ASSUME PubTypeOK, NEW mode \in {"manual", "auto", "alerts"}, NEW rel \in Releases, NEW request,
         mode = "manual" => request \in Requests, StartRun(mode, rel, request)
  PROVE  /\ DocAt(mem', attempts) /\ mem'.ledger = gist.ledger
         /\ Drifted(gist.drafts, mem'.drafts)
         /\ RunOK' /\ run'.pc = "work"
         /\ \A d \in run'.todo : mem'.drafts[d].status # "absent"
<1> DEFINE observed == ObservePolicy(gist, rel)
           doc == IF mode = "alerts" THEN observed ELSE ReconcileLedger(observed)
<1>1. DocAt(gist, attempts)
  BY DEF PubTypeOK
<1>2. /\ DocAt(observed, attempts) /\ observed.ledger = gist.ledger
      /\ \A d \in Drafts : \/ observed.drafts[d] = gist.drafts[d]
                           \/ Revoked(gist.drafts[d], observed.drafts[d])
  BY <1>1, ObservedDoc
<1> HIDE DEF observed
<1>3. /\ DocAt(doc, attempts) /\ doc.ledger = observed.ledger
      /\ \A d \in Drafts : doc.drafts[d] = observed.drafts[d] \/ Marked(observed.drafts[d], doc.drafts[d])
  BY <1>2, ReconciledDoc
<1>4. mem' = doc
  BY DEF StartRun, observed
<1>5. PICK todo \in SUBSET (IF mode = "auto" /\ Enabled(doc, rel) THEN Due(doc) ELSE {}) :
         run' = [pc |-> "work", mode |-> mode, rel |-> rel, request |-> request, todo |-> todo]
  BY DEF StartRun, observed
<1>6. todo \in SUBSET Drafts /\ \A d \in todo : doc.drafts[d].status = "pending"
  BY DEF Due
<1>7. RunOK' /\ run'.pc = "work" /\ run'.todo = todo
  <2>1. WorkOK' /\ run'.pc = "work"
    BY <1>5, <1>6 DEF WorkOK
  <2> QED BY <1>5, <2>1 DEF RunOK
<1> HIDE DEF doc
<1>8. ASSUME NEW d \in Drafts
      PROVE  \/ doc.drafts[d] = gist.drafts[d] \/ Marked(gist.drafts[d], doc.drafts[d])
             \/ Revoked(gist.drafts[d], doc.drafts[d])
  BY <1>2, <1>3, RevokedMarked
<1> QED BY <1>2, <1>3, <1>4, <1>6, <1>7, <1>8 DEF Drifted

(* A step of the run's own work: its copy of one draft, and its progress. *)
WorkEffect ==
    /\ DocAt(mem', attempts) /\ mem'.ledger = mem.ledger /\ mem'.retired = mem.retired
    /\ Worked(mem.drafts, mem'.drafts)
    /\ RunOK' /\ run'.pc \in {"work", "save"}
    /\ run'.pc = "work" => run'.todo \subseteq run.todo

LEMMA WorkOnDraft ==
  ASSUME PubTypeOK, NEW d \in Drafts, NEW y,
         Marked(mem.drafts[d], y) \/ Revoked(mem.drafts[d], y) \/ Created(mem.drafts[d], y),
         mem' = [mem EXCEPT !.drafts[d] = Touch(d, y)],
         RunOK', run'.pc \in {"work", "save"}, run'.pc = "work" => run'.todo \subseteq run.todo
  PROVE  WorkEffect
<1> DEFINE x == mem.drafts[d]
           z == Touch(d, y)
<1>1. DraftOK(x) /\ DocAt(mem, attempts)
  BY DEF PubTypeOK, DocAt
<1>2. Marked(x, z) \/ Revoked(x, z) \/ Created(x, z)
  <2>1. CASE Marked(x, y) \/ Revoked(x, y)
    BY <1>1, <2>1, TouchKeeps
  <2>2. CASE Created(x, y)
    <3>1. y \in Draft /\ DraftOK(y)
      BY <2>2 DEF Created, DraftOK
    <3>2. PICK s \in Nat : z = [y EXCEPT !.stamp = s]
      BY <3>1, TouchIsLater
    <3>3. /\ [y EXCEPT !.stamp = s] \in Draft
          /\ [y EXCEPT !.stamp = s].status = y.status /\ [y EXCEPT !.stamp = s].dec = y.dec
          /\ [y EXCEPT !.stamp = s].approval = y.approval /\ [y EXCEPT !.stamp = s].intent = y.intent
      BY <3>1 DEF Draft
    <3> HIDE DEF z
    <3> QED BY <2>2, <3>1, <3>2, <3>3 DEF Created, DraftOK
  <2> QED BY <2>1, <2>2
<1>3. DraftOK(z)
  BY <1>1, <1>2, MarkedOK DEF Revoked, After, Created
<1> HIDE DEF z
<1>4. mem' = [mem EXCEPT !.drafts[d] = z]
  BY DEF z
<1>5. /\ DocAt(mem', attempts) /\ mem'.drafts[d] = z
      /\ \A c \in Drafts \ {d} : mem'.drafts[c] = mem.drafts[c]
      /\ mem'.ledger = mem.ledger /\ mem'.retired = mem.retired
  <2> DEFINE m == [mem EXCEPT !.drafts[d] = z]
  <2>1. /\ DocAt(m, attempts) /\ m.drafts[d] = z
        /\ \A c \in Drafts \ {d} : m.drafts[c] = mem.drafts[c]
        /\ m.ledger = mem.ledger /\ m.retired = mem.retired
    BY <1>1, <1>3, DocWithDraft
  <2> HIDE DEF m
  <2>2. mem' = m
    BY <1>4 DEF m
  <2> QED BY <2>1, <2>2
<1> QED BY <1>2, <1>5 DEF WorkEffect, Worked

LEMMA WorkState ==
  ASSUME PubTypeOK, run.pc = "work"
  PROVE  WorkOK /\ DocAt(mem, attempts) /\ \A d \in Drafts : DraftOK(mem.drafts[d])
BY DEF PubTypeOK, RunOK, Claiming, IdleRun, DocAt

LEMMA SaveDraftEffect ==
  ASSUME PubTypeOK, NEW d \in Drafts, NEW text \in Texts, NEW modelReview \in BOOLEAN,
         SaveDraft(d, text, modelReview)
  PROVE  WorkEffect
<1> DEFINE fresh == [AbsentDraft EXCEPT !.status = "pending", !.rev = 1, !.text = text]
           plain == IF modelReview THEN RecordReview(fresh, "model") ELSE RevokeApproval(fresh)
           bound == BindReviewedRevision(plain, "auto", 0, run.rel.epoch)
           armed == [bound EXCEPT !.auto = TRUE, !.armed = TRUE]
<1>1. WorkOK /\ mem.drafts[d].status = "absent" /\ run.pc = "work" /\ run' = run
  BY WorkState DEF SaveDraft, Working
<1>2. run.rel.epoch \in KnownEpochs
  <2>1. CASE run.rel = [on |-> FALSE, epoch |-> NoEpoch]
    BY <2>1 DEF KnownEpochs
  <2>2. CASE run.rel \in [on : BOOLEAN, epoch : Epochs]
    BY <2>2 DEF KnownEpochs
  <2> QED BY <1>1, <2>1, <2>2 DEF WorkOK, Releases
<1>3. AbsentDraft \in Draft /\ AbsentDraft.dec = 0
  BY AbsentOK DEF AbsentDraft
<1>4. NoApproval \in Approval /\ "pending" \in Statuses /\ 1 \in Nat /\ text \in Texts \cup {NoText}
  BY DEF NoApproval, Approval, Statuses
<1>5. fresh \in Draft /\ fresh.dec = 0 /\ fresh.status = "pending" /\ fresh.text = text
  BY <1>3, <1>4 DEF Draft
<1> DEFINE revoked == RevokeApproval(fresh)
           review == [kind |-> "model", rev |-> fresh.rev, text |-> fresh.text]
           reviewed == [revoked EXCEPT !.review = review]
<1>6. revoked \in Draft /\ revoked.dec = 1 /\ revoked.status = "pending" /\ revoked.approval = NoApproval
      /\ revoked.intent = 0 /\ revoked.text = text
  <2> HIDE DEF fresh
  <2>1. fresh.dec + 1 \in Nat /\ fresh.dec + 1 = 1 /\ 0 \in Nat
    BY <1>5
  <2>2. revoked \in Draft
    BY <1>4, <1>5, <2>1, Zenon DEF RevokeApproval, Draft
  <2> QED BY <1>5, <2>2, <2>1 DEF RevokeApproval, Draft
<1> HIDE DEF fresh
<1>7. review \in Review
  BY <1>5 DEF Review, Draft
<1> HIDE DEF revoked, review
<1>8. reviewed \in Draft /\ reviewed.dec = 1 /\ reviewed.status = "pending" /\ reviewed.approval = NoApproval
      /\ reviewed.intent = 0 /\ reviewed.text = text
  BY <1>6, <1>7 DEF Draft
<1>9. plain \in {revoked, reviewed}
  BY DEF plain, RecordReview, revoked, reviewed, review
<1> HIDE DEF plain, reviewed
<1>10. /\ DraftOK(plain) /\ plain.status = "pending" /\ plain.intent = 0
  BY <1>6, <1>8, <1>9 DEF DraftOK, NoApproval, KnownEpochs, NoEpoch
<1>11. DraftOK(bound) /\ bound.status = "pending"
  BY <1>2, <1>10, BindMovesOn DEF After
<1> HIDE DEF bound
<1>12. /\ armed \in Draft /\ armed.status = "pending" /\ armed.dec = bound.dec
       /\ armed.approval = bound.approval /\ armed.intent = bound.intent
       /\ armed.text = bound.text
  BY <1>11 DEF DraftOK, Draft
<1> HIDE DEF armed
<1>13. DraftOK(armed)
  BY <1>11, <1>12 DEF DraftOK
<1>14. PICK new \in {plain} \cup (IF modelReview /\ Enabled(mem, run.rel) THEN {armed} ELSE {}) :
          mem' = [mem EXCEPT !.drafts[d] = Touch(d, new)]
  BY DEF SaveDraft, plain, armed, bound, fresh
<1>15. Created(mem.drafts[d], new)
  BY <1>1, <1>10, <1>12, <1>13, <1>14 DEF Created
<1>16. RunOK' /\ run'.pc \in {"work", "save"} /\ run'.todo \subseteq run.todo
  BY <1>1 DEF PubTypeOK, RunOK, WorkOK
<1> QED BY <1>14, <1>15, <1>16, WorkOnDraft

LEMMA SavingOK == ASSUME run' = Saving PROVE RunOK' /\ run'.pc = "save"
BY DEF Saving, RunOK

(* The steps of a manual run that post nothing. *)
LEMMA ManualEffect ==
  ASSUME PubTypeOK, ManualHold \/ ManualRefused
  PROVE  WorkEffect
<1> DEFINE d == run.request[1]
           x == mem.drafts[d]
<1>1. WorkOK /\ run.mode = "manual"
  BY WorkState DEF ManualHold, ManualRefused, Working
<1>2. d \in Drafts
  BY <1>1 DEF WorkOK, Requests
<1>3. x.status = "approved" /\ DraftOK(x)
  BY <1>2 DEF ManualHold, ManualRefused, ManualAuthorized, PubTypeOK, DocAt
<1>4. mem.drafts \in [Drafts -> Draft] /\ mem \in Document
  BY DEF PubTypeOK, DocAt, Document
<1>5. RunOK' /\ run'.pc = "save"
  BY SavingOK DEF ManualHold, ManualRefused, GoSave
<1>6. CASE ManualHold
  <2>1. mem' = [mem EXCEPT !.drafts[d] = Touch(d, HeldDraft(x))]
    BY <1>2, <1>4, <1>6 DEF ManualHold, GoSave, Document
  <2>2. Revoked(x, HeldDraft(x))
    BY <1>3, HeldMovesOn
  <2> QED BY <1>2, <1>5, <2>1, <2>2, WorkOnDraft
<1>7. CASE ManualRefused
  <2>1. mem' = [mem EXCEPT !.drafts[d] = Touch(d, AfterManual(x, "failed"))]
    BY <1>2, <1>4, <1>7 DEF ManualRefused, GoSave, Document
  <2>2. Marked(x, AfterManual(x, "failed"))
    BY <1>3, AfterManualMarks
  <2> QED BY <1>2, <1>5, <2>1, <2>2, WorkOnDraft
<1> QED BY <1>6, <1>7

LEMMA IdleWork ==
  ASSUME PubTypeOK, FinishWork \/ ManualSkip
  PROVE  WorkEffect
<1>1. mem' = mem /\ run' = Saving
  BY DEF FinishWork, ManualSkip, GoSave
<1>2. RunOK' /\ run'.pc = "save"
  BY <1>1, SavingOK
<1>3. DocAt(mem', attempts)
  BY <1>1 DEF PubTypeOK
<1> QED BY <1>1, <1>2, <1>3 DEF WorkEffect, Worked

LEMMA AutoHoldEffect ==
  ASSUME PubTypeOK, NEW d \in Drafts, AutoHold(d)
  PROVE  WorkEffect
<1> DEFINE x == mem.drafts[d]
<1>1. WorkOK /\ run.pc = "work" /\ d \in run.todo /\ mem \in Document /\ DraftOK(x)
  BY WorkState DEF AutoHold, Working, PubTypeOK, DocAt
<1>2. x.status # "absent"
  BY <1>1 DEF PubTypeOK, TodoOK
<1>3. mem' = [mem EXCEPT !.drafts[d] = Touch(d, RevokeApproval(x))]
  BY <1>1 DEF AutoHold, Document
<1>4. Revoked(x, RevokeApproval(x))
  BY <1>1, <1>2, RevokeMovesOn
<1>5. RunOK' /\ run'.pc = "work" /\ run'.todo \subseteq run.todo
  <2>1. run' = [pc |-> "work", mode |-> run.mode, rel |-> run.rel, request |-> run.request,
                todo |-> run.todo \ {d}]
    BY <1>1 DEF AutoHold, WorkOK
  <2>2. WorkOK' /\ run'.pc = "work"
    BY <1>1, <2>1 DEF WorkOK
  <2> QED BY <2>1, <2>2 DEF RunOK
<1> QED BY <1>3, <1>4, <1>5, WorkOnDraft

WorkStep ==
    \/ \E d \in Drafts, text \in Texts, modelReview \in BOOLEAN : SaveDraft(d, text, modelReview)
    \/ FinishWork
    \/ ManualSkip
    \/ ManualHold
    \/ ManualRefused
    \/ \E d \in Drafts : AutoHold(d)

LEMMA WorkingEffect ==
  ASSUME PubTypeOK, WorkStep
  PROVE  /\ WorkEffect /\ run.pc = "work"
         /\ UNCHANGED <<gist, patch, posts, attempts, faults, Unread, Outside>>
<1>1. WorkEffect
  BY SaveDraftEffect, IdleWork, ManualEffect, AutoHoldEffect DEF WorkStep
<1>2. run.pc = "work" /\ UNCHANGED <<gist, patch, posts, attempts, faults, Unread, Outside>>
  BY DEF WorkStep, SaveDraft, FinishWork, ManualSkip, ManualHold, ManualRefused, AutoHold, Working
<1> QED BY <1>1, <1>2

(* What claiming the draft d leaves: a fresh row in the run's own copy. *)
ClaimEffect(d) ==
    /\ run.pc = "work" /\ run.mode \in {"manual", "auto"} /\ PostGuard(d, run.mode)
    /\ attempts \in Nat /\ attempts' = attempts + 1 /\ attempts' \in 0..MaxAttempts
    /\ DocAt(mem', attempts')
    /\ Marked(mem.drafts[d], mem'.drafts[d])
    /\ mem'.drafts[d].intent = mem.drafts[d].intent
    /\ mem'.drafts[d].stamp > mem.drafts[d].stamp
    /\ mem'.drafts[d].attemptAt = attempts'
    /\ \A c \in Drafts \ {d} : mem'.drafts[c] = mem.drafts[c]
    /\ \E r : /\ mem'.ledger[EventOf[d]] = {r} /\ ClaimRow(r, attempts')
              /\ Identity(r) = Identity(mem.drafts[d])
    /\ \A c \in Events \ {EventOf[d]} : mem'.ledger[c] = mem.ledger[c]
    /\ mem'.retired = mem.retired
    /\ run' = [pc |-> "claim", mode |-> run.mode, rel |-> run.rel, todo |-> run.todo,
               draft |-> d, want |-> mem.drafts[d], prior |-> Entry(mem, d)]
    /\ run.rel \in Releases /\ run.todo \in SUBSET Drafts
    /\ mem.drafts[d].status # "absent"

(* What a claim does. *)
LEMMA Claimed ==
  ASSUME PubTypeOK, NEW d \in Drafts, Claim(d)
  PROVE  ClaimEffect(d)
<1> DEFINE x == mem.drafts[d]
           e == EventOf[d]
           n == attempts + 1
           row == [intent |-> PublishIntentId(d, x), at |-> n, rev |-> x.rev, text |-> x.text,
                   phase |-> "submitted", tweet |-> NoTweet, cancelled |-> FALSE]
           tried == x.attempted \/ run.mode = "auto"
           y == [x EXCEPT !.outcome = "submitted", !.attemptAt = n, !.attempted = tried]
           z == Touch(d, y)
           D == [mem.drafts EXCEPT ![d] = z]
           L == [mem.ledger EXCEPT ![e] = {row}]
           m == [mem EXCEPT !.ledger = L, !.drafts = D]
<1>1. /\ WorkOK /\ DocAt(mem, attempts) /\ DraftOK(x) /\ e \in Events /\ run.pc = "work"
      /\ run.mode \in {"manual", "auto"} /\ PostGuard(d, run.mode) /\ attempts < MaxAttempts
      /\ attempts' = n
  BY WorkState, PublicationAssumption DEF Claim, Candidate, Working
<1>2. attempts \in Nat /\ n \in 1..MaxAttempts /\ n \in Nat /\ n \in 1..n
  BY <1>1, PublicationAssumption DEF PubTypeOK
<1>3. x.status \in {"approved", "pending"} /\ x \in Draft
  BY <1>1 DEF PostGuard, DraftOK
<1>4. ClaimRow(row, n) /\ Identity(row) = Identity(x)
  <2>1. x.intent \in Nat /\ x.rev \in Nat /\ x.text \in Texts
    BY <1>1, <1>3 DEF DraftOK, Draft
  <2>2. PublishIntentId(d, x) \in Nat \cup Drafts
    BY <2>1 DEF PublishIntentId
  <2>3. row \in Attempt
    BY <1>2, <2>1, <2>2 DEF Attempt, Phases, ReceiptIsConfirmed, NoTweet
  <2> QED BY <1>2, <2>3 DEF ClaimRow, RowAt, Identity
<1>5. Marked(x, y) /\ y.intent = x.intent /\ y.attemptAt = n
  <2>1. tried \in BOOLEAN
    BY <1>3 DEF Draft
  <2>2. DraftOK(x) /\ x.status # "absent" /\ n \in Nat
    BY <1>1, <1>2, <1>3
  <2> HIDE DEF tried, n
  <2> QED BY <2>1, <2>2, ClaimMarks
<1>6. y \in Draft /\ y.stamp = x.stamp
  BY <1>3, <1>5 DEF Marked, Draft
<1> HIDE DEF row
<1>7. /\ mem' = m
      /\ run' = [pc |-> "claim", mode |-> run.mode, rel |-> run.rel, todo |-> run.todo,
               draft |-> d, want |-> x, prior |-> Entry(mem, d)]
  <2>1. mem \in Document
    BY DEF PubTypeOK, DocAt
  <2> QED BY <1>1, <2>1 DEF Claim, Document, row
<1> HIDE DEF y
<1>8. Marked(x, z) /\ z.intent = x.intent /\ z.stamp > x.stamp /\ z.attemptAt = n
  <2>1. Marked(x, z)
    BY <1>1, <1>5, TouchKeeps
  <2>2. PICK s \in Nat : z = [y EXCEPT !.stamp = s] /\ s > y.stamp
    BY <1>6, TouchIsLater
  <2>3. /\ [y EXCEPT !.stamp = s].intent = y.intent /\ [y EXCEPT !.stamp = s].attemptAt = y.attemptAt
        /\ [y EXCEPT !.stamp = s].stamp = s
    BY <1>6 DEF Draft
  <2> HIDE DEF z
  <2> QED BY <1>5, <1>6, <2>1, <2>2, <2>3
<1>9. DraftOK(z)
  BY <1>1, <1>8, MarkedOK
<1> HIDE DEF z
<1>10. DocAt(mem, n)
  BY <1>1, <1>2, DocLater
<1> DEFINE rows == {row}
           m1 == [mem EXCEPT !.drafts[d] = z]
           m2 == [m1 EXCEPT !.ledger[e] = rows]
<1>11. /\ DocAt(m1, n) /\ m1.drafts[d] = z
       /\ \A c \in Drafts \ {d} : m1.drafts[c] = mem.drafts[c]
       /\ m1.ledger = mem.ledger /\ m1.retired = mem.retired
       /\ m1.drafts = D
  BY <1>9, <1>10, DocWithDraft
<1>12. m1 = [mem EXCEPT !.drafts = D]
  BY <1>1 DEF DocAt, Document
<1> HIDE DEF m1
<1>r. \A a \in rows : RowAt(a, n)
  BY <1>4 DEF ClaimRow
<1>e. e \in Events
  BY <1>1
<1> HIDE DEF n, e, rows
<1>13. /\ DocAt(m2, n) /\ m2.ledger[e] = rows
       /\ \A c \in Events \ {e} : m2.ledger[c] = m1.ledger[c]
       /\ m2.drafts = m1.drafts /\ m2.retired = m1.retired
  <2>1. DocAt(m1, n)
    BY <1>11
  <2>2. DocAt([m1 EXCEPT !.ledger[e] = rows], n)
    BY <1>e, <1>r, <2>1, DocWithRows
  <2>3. m2.ledger[e] = rows
    BY <1>e, <2>1 DEF DocAt, Document
  <2>4. \A c \in Events \ {e} : m2.ledger[c] = m1.ledger[c]
    BY <1>e, <1>r, <2>1, DocWithRows
  <2>5. m2.drafts = m1.drafts /\ m2.retired = m1.retired
    BY <1>e, <1>r, <2>1, DocWithRows
  <2> QED BY <2>2, <2>3, <2>4, <2>5
<1>14. m2 = m
  <2>1. mem \in Document
    BY DEF PubTypeOK, DocAt
  <2>2. DOMAIN mem = {"drafts", "ledger", "posted", "retired", "epoch", "enabled"}
        /\ mem = [k \in DOMAIN mem |-> mem[k]]
    BY <2>1 DEF Document
  <2>3. m1.ledger = mem.ledger
    BY <1>11
  <2>4. m2 = [m1 EXCEPT !.ledger = L]
    <3>1. m1 \in Document
      BY <1>11 DEF DocAt
    <3> QED BY <2>3, <3>1 DEF Document, rows
  <2> HIDE DEF D
  <2> QED BY <1>12, <2>2, <2>4 DEF rows
<1>15. mem' = m2
  BY <1>7, <1>14
<1> HIDE DEF m, m2
<1> HIDE DEF D, L
<1> USE DEF n, e, rows
<1>16. \E r : mem'.ledger[e] = {r} /\ ClaimRow(r, attempts') /\ Identity(r) = Identity(x)
  BY <1>1, <1>4, <1>13, <1>15
<1>17. run.rel \in Releases /\ run.todo \in SUBSET Drafts
  BY <1>1 DEF WorkOK
<1>18. /\ \A c \in Drafts \ {d} : mem'.drafts[c] = mem.drafts[c]
       /\ \A c \in Events \ {e} : mem'.ledger[c] = mem.ledger[c]
       /\ mem'.retired = mem.retired /\ mem'.drafts[d] = z /\ DocAt(mem', attempts')
  BY <1>1, <1>11, <1>13, <1>15
<1> QED BY <1>1, <1>2, <1>3, <1>7, <1>8, <1>16, <1>17, <1>18 DEF ClaimEffect

(* What an answer, whatever it is, leaves in the run's copy. *)
AnswerEffect(phase) ==
    /\ DocAt(mem', attempts)
    /\ mem'.ledger[ClaimedEvent] = {AnsweredRow(a, phase) : a \in mem.ledger[ClaimedEvent]}
    /\ \A c \in Events \ {ClaimedEvent} : mem'.ledger[c] = mem.ledger[c]
    /\ mem'.retired = mem.retired
    /\ Worked(mem.drafts, mem'.drafts)
    /\ RunOK' /\ run'.pc \in {"work", "save"}
    /\ run'.pc = "work" => run'.todo \subseteq run.todo

LEMMA MarkedThen ==
  ASSUME NEW x, DraftOK(x), NEW y, NEW z, Marked(x, y) \/ Revoked(x, y), Marked(y, z) \/ Revoked(y, z)
  PROVE  Marked(x, z) \/ Revoked(x, z)
<1>1. CASE Marked(x, y) /\ Marked(y, z)
  BY <1>1, MarkedTwice
<1>2. CASE Revoked(x, y) /\ Marked(y, z)
  BY <1>2, RevokedMarked
<1>3. CASE Revoked(y, z)
  <2>1. y.dec >= x.dec /\ y.rev >= x.rev /\ x.dec \in Nat /\ y.dec \in Nat /\ x.rev \in Nat /\ y.rev \in Nat
    BY DEF Marked, Revoked, After, DraftOK, Draft
  <2>2. z \in Draft /\ z.dec > y.dec /\ z.rev >= y.rev
    BY <1>3 DEF Revoked, After, DraftOK
  <2>3. z.dec \in Nat /\ z.rev \in Nat
    BY <2>2 DEF Draft
  <2>4. z.dec > x.dec /\ z.rev >= x.rev
    BY <2>1, <2>2, <2>3
  <2> QED BY <1>3, <2>4 DEF Revoked, After
<1> QED BY <1>1, <1>2, <1>3

(* Every way to finish an attempt is an answer about its row. *)
LEMMA Answering ==
  ASSUME PubTypeOK, run.pc \in Claiming, NEW phase \in {"unknown", "not_sent", "confirmed"}, NEW m,
         \/ m = Answered(phase)
         \/ m = [Answered(phase) EXCEPT !.drafts[run.draft] = HeldDraft(@)],
         NEW result, Finish(m, result)
  PROVE  AnswerEffect(phase)
<1> DEFINE d == run.draft
           x == mem.drafts[d]
           m1 == Answered(phase)
           y == m1.drafts[d]
<1>1. d \in Drafts /\ ClaimedEvent \in Events /\ DraftOK(x) /\ x.status # "absent"
  BY ClaimState DEF ClaimedEvent
<1>2. /\ DocAt(m1, attempts) /\ Marked(x, y)
      /\ \A c \in Drafts \ {d} : m1.drafts[c] = mem.drafts[c]
      /\ m1.ledger[ClaimedEvent] = {AnsweredRow(a, phase) : a \in mem.ledger[ClaimedEvent]}
      /\ \A c \in Events \ {ClaimedEvent} : m1.ledger[c] = mem.ledger[c]
      /\ m1.retired = mem.retired
  BY AnsweredDoc DEF ClaimedEvent
<1>3. DraftOK(y) /\ y.status # "absent"
  BY <1>1, <1>2, MarkedOK DEF Marked
<1>4. /\ DocAt(m, attempts) /\ m.ledger = m1.ledger /\ m.retired = m1.retired
      /\ \A c \in Drafts \ {d} : m.drafts[c] = m1.drafts[c]
      /\ m.drafts[d] = y \/ Revoked(y, m.drafts[d])
  <2>1. CASE m = m1
    BY <1>2, <2>1
  <2>2. CASE m = [m1 EXCEPT !.drafts[d] = HeldDraft(@)]
    <3> DEFINE z == HeldDraft(y)
               m2 == [m1 EXCEPT !.drafts[d] = z]
    <3>1. m = m2
      <4>1. m1 \in Document
        BY <1>2 DEF DocAt
      <4> HIDE DEF m1
      <4> QED BY <1>1, <2>2, <4>1 DEF Document
    <3>2. Revoked(y, z)
      BY <1>3, HeldMovesOn
    <3>3. DraftOK(z)
      BY <3>2 DEF Revoked, After
    <3> HIDE DEF z, m1, y
    <3>4. DocAt(m1, attempts)
      BY <1>2
    <3>5. /\ DocAt(m2, attempts) /\ m2.drafts[d] = z
          /\ \A c \in Drafts \ {d} : m2.drafts[c] = m1.drafts[c]
          /\ m2.ledger = m1.ledger /\ m2.retired = m1.retired
      BY <1>1, <3>3, <3>4, DocWithDraft
    <3> HIDE DEF m2
    <3> QED BY <3>1, <3>2, <3>5
  <2> QED BY <2>1, <2>2
<1> HIDE DEF m1, y
<1>5. Marked(x, m.drafts[d]) \/ Revoked(x, m.drafts[d])
  BY <1>1, <1>2, <1>4, MarkedThen DEF y
<1>6. DraftOK(m.drafts[d]) /\ m.drafts[d].status # "absent"
  BY <1>1, <1>5, MarkedOK DEF Marked, Revoked, After, DraftOK, Draft
<1>7. /\ Returned(m, mem')
      /\ RunOK' /\ run'.pc \in {"work", "save"}
      /\ run'.pc = "work" => run'.todo \subseteq run.todo
  BY <1>4, <1>6, Finished
<1>8. Marked(x, mem'.drafts[d]) \/ Revoked(x, mem'.drafts[d])
  BY <1>1, <1>5, <1>7, MarkedThen DEF Returned
<1>9. Worked(mem.drafts, mem'.drafts)
  BY <1>2, <1>4, <1>7, <1>8 DEF Worked, Returned
<1> QED BY <1>2, <1>4, <1>7, <1>9 DEF AnswerEffect, Returned

-----------------------------------------------------------------------------
(*****************************************************************************)
(* What an operation of the dashboard writes.                                *)
(*****************************************************************************)

(* What a dashboard operation writes: one draft, or one event's only row. *)
OperationOK(doc, request) ==
    /\ DocAt(doc, attempts) /\ request \in SUBSET Requests
    /\ doc.retired = gist.retired
    /\ \A d \in Drafts : DashDraft(gist, doc, d)
    /\ \A e \in Events : RowsOf(PostsOf(e), gist.ledger[e], doc.ledger[e])

LEMMA DraftOperation ==
  ASSUME PubTypeOK, NEW d \in Drafts, NEW y, After(gist.drafts[d], y),
         gist.drafts[d].status # "absent", ~Unresolved(gist, d),
         NEW request \in SUBSET Requests, SubmitDraft(d, y, request)
  PROVE  \E doc : OperationOK(doc, request) /\ Submit(doc, request)
<1> DEFINE x == gist.drafts[d]
           z == Touch(d, y)
           doc == [gist EXCEPT !.drafts[d] = z]
<1>1. DraftOK(x) /\ DocAt(gist, attempts)
  BY DEF PubTypeOK, DocAt
<1>2. After(x, z)
  BY <1>1, TouchKeeps
<1>3. DraftOK(z)
  BY <1>2 DEF After
<1>4. Submit(doc, request)
  BY DEF SubmitDraft
<1> HIDE DEF z
<1>5. /\ DocAt(doc, attempts) /\ doc.drafts[d] = z
      /\ \A c \in Drafts \ {d} : doc.drafts[c] = gist.drafts[c]
      /\ doc.ledger = gist.ledger /\ doc.retired = gist.retired
  BY <1>1, <1>3, DocWithDraft
<1> HIDE DEF doc
<1>6. \A c \in Drafts : DashDraft(gist, doc, c)
  BY <1>2, <1>5 DEF DashDraft, After
<1>7. \A e \in Events : RowsOf(PostsOf(e), gist.ledger[e], doc.ledger[e])
  BY <1>5 DEF RowsOf
<1> QED BY <1>4, <1>5, <1>6, <1>7 DEF OperationOK

(* assertMutable: no attempt of the draft is unresolved. *)
LEMMA MutableDraft ==
  ASSUME PubTypeOK, NEW d \in Drafts, Mutable(d)
  PROVE  DraftOK(gist.drafts[d]) /\ gist.drafts[d].status # "absent" /\ ~Unresolved(gist, d)
BY DEF PubTypeOK, DocAt, Mutable

DraftAction(d) ==
    \/ \E text \in Texts : Edit(d, text)
    \/ ReviewDraft(d)
    \/ Approve(d)
    \/ AutoApprove(d)
    \/ Reject(d)
    \/ CancelAutoApprove(d)

(* Every operation of the dashboard on a draft is a later decision, *)
LEMMA DraftActions ==
  ASSUME PubTypeOK, NEW d \in Drafts, DraftAction(d)
  PROVE  /\ \E doc, request : OperationOK(doc, request) /\ Submit(doc, request)
         /\ UNCHANGED OutsideDash /\ intents' \in Nat
<1> DEFINE x == gist.drafts[d]
<1>0. intents \in Nat /\ intents + 1 \in Nat \ {0} /\ {} \in SUBSET Requests
  BY DEF PubTypeOK
<1>1. DraftOK(x) /\ x.status # "absent" /\ ~Unresolved(gist, d)
  BY MutableDraft DEF DraftAction, Edit, ReviewDraft, Approve, AutoApprove, Reject, CancelAutoApprove, Pending
<1>2. ASSUME NEW y, After(x, y), SubmitDraft(d, y, {})
      PROVE  \E doc, request : OperationOK(doc, request) /\ Submit(doc, request)
  BY <1>0, <1>1, <1>2, DraftOperation
<1>3. CASE \E text \in Texts : Edit(d, text)
  <2>1. PICK text \in Texts : Edit(d, text)
    BY <1>3
  <2>2. Revoked(x, InvalidateText(x, text))
    BY <1>1, <2>1, EditMovesOn DEF Edit
  <2> QED BY <1>0, <1>2, <2>1, <2>2 DEF Edit, Revoked
<1>4. CASE ReviewDraft(d)
  <2>1. Revoked(x, RecordReview(x, "human"))
    BY <1>1, ReviewMovesOn
  <2> QED BY <1>0, <1>2, <1>4, <2>1 DEF ReviewDraft, Revoked
<1> DEFINE y == RevokeApproval(x)
<1>5. Revoked(x, y) /\ DraftOK(y) /\ y.status # "absent" /\ y.intent = 0
  BY <1>1, RevokeMovesOn DEF Revoked, After
<1>6. ASSUME NEW z, After(y, z)
      PROVE  After(x, z)
  <2>1. /\ x.dec \in Nat /\ y.dec \in Nat /\ z.dec \in Nat /\ x.rev \in Nat /\ y.rev \in Nat
        /\ z.rev \in Nat /\ y.dec > x.dec /\ y.rev >= x.rev /\ z.dec > y.dec /\ z.rev >= y.rev
    BY <1>1, <1>5, <1>6 DEF After, Revoked, DraftOK, Draft
  <2> QED BY <1>6, <2>1 DEF After
<1>7. CASE Approve(d)
  <2> DEFINE n == intents + 1
             z == BindReviewedRevision(y, "manual", n, 0)
             w == [z EXCEPT !.status = "approved"]
  <2>0. n \in Nat /\ 0 \in KnownEpochs
    BY <1>0 DEF KnownEpochs, NoEpoch
  <2> HIDE DEF y, n
  <2>1. After(y, z) /\ z.status = y.status
    BY <1>5, <2>0, BindMovesOn
  <2>2. After(x, z) /\ DraftOK(z) /\ z.status # "absent" /\ "approved" \in Statuses \ {"absent"}
    BY <1>5, <1>6, <2>1 DEF After, Statuses
  <2> HIDE DEF z
  <2>3. After(x, w)
    BY <2>2, WithStatus
  <2> HIDE DEF w
  <2>4. SubmitDraft(d, w, {<<d, n>>}) /\ intents' = n /\ UNCHANGED OutsideDash
    BY <1>7 DEF Approve, n, w, z, y
  <2>5. {<<d, n>>} \in SUBSET Requests
    BY <1>0 DEF Requests, n
  <2>6. \E doc : OperationOK(doc, {<<d, n>>}) /\ Submit(doc, {<<d, n>>})
    BY <1>1, <2>3, <2>4, <2>5, DraftOperation
  <2> QED BY <2>0, <2>4, <2>6
<1>8. CASE AutoApprove(d)
  <2> DEFINE z == BindReviewedRevision(y, "auto", 0, gist.epoch)
             w == [z EXCEPT !.auto = TRUE, !.armed = TRUE]
  <2>0. gist.epoch \in KnownEpochs
    BY DEF PubTypeOK, DocAt, Document, KnownEpochs
  <2> HIDE DEF y
  <2>1. After(y, z) /\ z.status = y.status
    BY <1>0, <1>5, <2>0, BindMovesOn
  <2>2. After(x, z) /\ DraftOK(z) /\ z.status # "absent" /\ z \in Draft
    BY <1>5, <1>6, <2>1 DEF After, DraftOK
  <2> HIDE DEF z
  <2>3. /\ w \in Draft /\ w.dec = z.dec /\ w.rev = z.rev /\ w.approval = z.approval
        /\ w.intent = z.intent /\ w.status = z.status /\ w.text = z.text
    BY <2>2 DEF Draft
  <2>4. SubmitDraft(d, w, {}) /\ intents' = intents /\ UNCHANGED OutsideDash
    BY <1>8 DEF AutoApprove, z, y
  <2> HIDE DEF w
  <2>5. After(x, w)
    BY <2>2, <2>3 DEF After, DraftOK
  <2> QED BY <1>0, <1>2, <2>4, <2>5
<1>9. CASE Reject(d)
  <2>1. Revoked(x, [y EXCEPT !.status = "rejected"])
    BY <1>5, WithStatus DEF Statuses
  <2> QED BY <1>0, <1>2, <1>9, <2>1 DEF Reject, Revoked
<1>10. CASE CancelAutoApprove(d)
  <2>1. Revoked(x, HeldDraft(x))
    BY <1>1, HeldMovesOn
  <2> QED BY <1>0, <1>2, <1>10, <2>1 DEF CancelAutoApprove, Revoked
<1> QED BY <1>3, <1>4, <1>7, <1>8, <1>9, <1>10 DEF DraftAction

LEMMA RowWritten ==
  ASSUME PubTypeOK, NEW e \in Events, NEW a, gist.ledger[e] = {a}, a.tweet = NoTweet, NEW b,
         \/ b = [a EXCEPT !.cancelled = TRUE]
         \/ /\ b = [a EXCEPT !.tweet = a.at, !.phase = "confirmed"]
            /\ a.phase # "not_sent" /\ <<e, a.at>> \in posts
  PROVE  RowAt(b, attempts) /\ RowsOf(PostsOf(e), gist.ledger[e], {b})
<1>1. RowAt(a, attempts) /\ a \in Attempt /\ a.at \in 1..attempts
  BY DEF PubTypeOK, DocAt, RowAt
<1>2. CASE b = [a EXCEPT !.cancelled = TRUE]
  <2>1. b \in Attempt /\ b.at = a.at
    BY <1>1, <1>2 DEF Attempt, ReceiptIsConfirmed
  <2> QED BY <1>1, <1>2, <2>1 DEF RowAt, RowsOf
<1>3. CASE /\ b = [a EXCEPT !.tweet = a.at, !.phase = "confirmed"]
           /\ a.phase # "not_sent" /\ <<e, a.at>> \in posts
  <2>1. /\ b.at = a.at /\ b.phase = "confirmed" /\ b.tweet = a.at
        /\ b \in [intent : Nat \cup Drafts, at : Nat, rev : Nat, text : Texts, phase : Phases,
                   tweet : Nat, cancelled : BOOLEAN]
    BY <1>1, <1>3 DEF Attempt, Phases
  <2>2. b \in Attempt
    BY <1>1, <2>1 DEF Attempt, ReceiptIsConfirmed, NoTweet
  <2>3. a.at \in PostsOf(e) /\ Live(a)
    BY <1>1, <1>3 DEF PostsOf, Live
  <2> QED BY <1>1, <1>3, <2>1, <2>2, <2>3 DEF RowAt, RowsOf
<1> QED BY <1>2, <1>3

(* every decision about an attempt changes that row only, *)
LEMMA RowOperation ==
  ASSUME PubTypeOK, NEW d \in Drafts, NEW a,
         ReconcileConfirm(EventOf[d], a, d) \/ ReconcileCancel(EventOf[d], a, d)
  PROVE  /\ \E doc, request : OperationOK(doc, request) /\ Submit(doc, request)
         /\ UNCHANGED OutsideDash /\ intents' \in Nat
<1> DEFINE e == EventOf[d]
           x == gist.drafts[d]
           confirmed == [a EXCEPT !.tweet = a.at, !.phase = "confirmed"]
           cancelled == [a EXCEPT !.cancelled = TRUE]
           z == Touch(d, [RevokeApproval(x) EXCEPT !.status = "rejected"])
<1>1. /\ e \in Events /\ gist.ledger[e] = {a} /\ a.tweet = NoTweet /\ x.status # "absent"
      /\ gist \in Document /\ DocAt(gist, attempts) /\ DraftOK(x)
  BY PublicationAssumption DEF ReconcileConfirm, ReconcileCancel, Decidable, PubTypeOK, DocAt
<1>2. UNCHANGED OutsideDash /\ intents' \in Nat /\ {} \in SUBSET Requests
  BY DEF ReconcileConfirm, ReconcileCancel, PubTypeOK
<1>3. ASSUME NEW b, RowAt(b, attempts) /\ RowsOf(PostsOf(e), gist.ledger[e], {b})
      PROVE  LET doc == [gist EXCEPT !.ledger[e] = {b}]
             IN  /\ DocAt(doc, attempts) /\ doc.drafts = gist.drafts
                 /\ doc.retired = gist.retired /\ doc.ledger[e] = {b}
                 /\ \A c \in Events : RowsOf(PostsOf(c), gist.ledger[c], doc.ledger[c])
  <2> DEFINE S == {b}
             doc == [gist EXCEPT !.ledger[e] = S]
  <2>1. \A c \in S : RowAt(c, attempts)
    BY <1>3
  <2>2. doc.ledger[e] = S
    BY <1>1 DEF Document
  <2> HIDE DEF S, e
  <2>3. DocAt(doc, attempts)
    BY <1>1, <2>1, DocWithRows
  <2>4. \A c \in Events \ {e} : doc.ledger[c] = gist.ledger[c]
    BY <1>1, <2>1, DocWithRows
  <2>5. doc.drafts = gist.drafts /\ doc.retired = gist.retired
    BY <1>1, <2>1, DocWithRows
  <2> HIDE DEF doc
  <2>6. \A c \in Events : RowsOf(PostsOf(c), gist.ledger[c], doc.ledger[c])
    <3>1. RowsOf(PostsOf(e), gist.ledger[e], doc.ledger[e])
      BY <1>3, <2>2 DEF S
    <3>2. \A c \in Events \ {e} : RowsOf(PostsOf(c), gist.ledger[c], doc.ledger[c])
      BY <2>4 DEF RowsOf
    <3> QED BY <3>1, <3>2
  <2>7. /\ DocAt(doc, attempts) /\ doc.drafts = gist.drafts
        /\ doc.retired = gist.retired /\ doc.ledger[e] = {b}
        /\ \A c \in Events : RowsOf(PostsOf(c), gist.ledger[c], doc.ledger[c])
    BY <2>2, <2>3, <2>5, <2>6 DEF S
  <2> QED BY <2>7 DEF doc, S, e
<1>4. CASE ReconcileConfirm(e, a, d)
  <2> DEFINE doc == [gist EXCEPT !.ledger[e] = {confirmed}]
  <2>1. Submit(doc, {})
    BY <1>4 DEF ReconcileConfirm
  <2>2. RowAt(confirmed, attempts) /\ RowsOf(PostsOf(e), gist.ledger[e], {confirmed})
    BY <1>1, <1>4, RowWritten DEF ReconcileConfirm
  <2> HIDE DEF confirmed
  <2>3. /\ DocAt(doc, attempts) /\ doc.drafts = gist.drafts /\ doc.retired = gist.retired
        /\ \A c \in Events : RowsOf(PostsOf(c), gist.ledger[c], doc.ledger[c])
    BY <1>3, <2>2
  <2> HIDE DEF doc
  <2>4. OperationOK(doc, {})
    BY <1>2, <2>3 DEF OperationOK, DashDraft
  <2> QED BY <1>2, <2>1, <2>4
<1>5. CASE ReconcileCancel(e, a, d)
  <2> DEFINE doc == [gist EXCEPT !.ledger[e] = {cancelled}]
             new == [doc EXCEPT !.drafts[d] = z]
  <2>1. Submit(new, {})
    <3>1. new = [gist EXCEPT !.ledger[e] = {[a EXCEPT !.cancelled = TRUE]},
                             !.drafts[d] = Touch(d, [RevokeApproval(@) EXCEPT !.status = "rejected"])]
      BY <1>1 DEF Document
    <3> QED BY <1>5, <3>1 DEF ReconcileCancel
  <2>2. RowAt(cancelled, attempts) /\ RowsOf(PostsOf(e), gist.ledger[e], {cancelled})
    BY <1>1, RowWritten
  <2>3. After(x, z)
    <3>1. Revoked(x, RevokeApproval(x)) /\ RevokeApproval(x).status # "absent"
      BY <1>1, RevokeMovesOn
    <3>2. Revoked(x, [RevokeApproval(x) EXCEPT !.status = "rejected"])
      BY <3>1, WithStatus DEF Revoked, After, Statuses
    <3> QED BY <1>1, <3>2, TouchKeeps DEF Revoked
  <2>4. DraftOK(z)
    BY <2>3 DEF After
  <2> HIDE DEF cancelled, z
  <2>5. /\ DocAt(doc, attempts) /\ doc.drafts = gist.drafts /\ doc.retired = gist.retired
        /\ doc.ledger[e] = {cancelled}
        /\ \A c \in Events : RowsOf(PostsOf(c), gist.ledger[c], doc.ledger[c])
    BY <1>3, <2>2
  <2> HIDE DEF doc
  <2>6. /\ DocAt(new, attempts) /\ new.drafts[d] = z
        /\ \A c \in Drafts \ {d} : new.drafts[c] = doc.drafts[c]
        /\ new.ledger = doc.ledger /\ new.retired = doc.retired
    BY <2>4, <2>5, DocWithDraft
  <2> HIDE DEF new
  <2>7. \A c \in Drafts : DashDraft(gist, new, c)
    <3>1. Entry(gist, d) = {a} /\ Entry(new, d) = {[a EXCEPT !.cancelled = TRUE]}
      BY <1>1, <2>5, <2>6 DEF Entry, cancelled
    <3>2. DashDraft(gist, new, d)
      BY <1>1, <2>3, <2>6, <3>1 DEF DashDraft, After
    <3> QED BY <2>5, <2>6, <3>2 DEF DashDraft
  <2>8. OperationOK(new, {})
    BY <1>2, <2>5, <2>6, <2>7 DEF OperationOK
  <2> QED BY <1>2, <2>1, <2>8
<1> QED BY <1>4, <1>5

(* so each step of the dashboard is one of these, or its PATCH. *)
LEMMA DashboardStep ==
  ASSUME PubTypeOK, Dashboard
  PROVE  \/ /\ \E doc, request : OperationOK(doc, request) /\ Submit(doc, request)
            /\ UNCHANGED OutsideDash /\ intents' \in Nat
         \/ DashPatch
         \/ DashFail
<1>1. ASSUME NEW d \in Drafts, DraftAction(d)
      PROVE  /\ \E doc, request : OperationOK(doc, request) /\ Submit(doc, request)
             /\ UNCHANGED OutsideDash /\ intents' \in Nat
  BY <1>1, DraftActions
<1>2. ASSUME NEW d \in Drafts, NEW a,
             ReconcileConfirm(EventOf[d], a, d) \/ ReconcileCancel(EventOf[d], a, d)
      PROVE  /\ \E doc, request : OperationOK(doc, request) /\ Submit(doc, request)
             /\ UNCHANGED OutsideDash /\ intents' \in Nat
  BY <1>2, RowOperation
<1> QED BY <1>1, <1>2 DEF Dashboard, DraftAction

-----------------------------------------------------------------------------
(*****************************************************************************)
(* Type correctness.                                                         *)
(*****************************************************************************)

(* Types, and a PATCH under way that is the merge of what its GET saw. *)
TypeInv == PubTypeOK /\ PatchIsMerge

LEMMA TypeInit == Init => TypeInv
<1> SUFFICES ASSUME Init PROVE TypeInv
  OBVIOUS
<1>1. gist = EmptyDocument /\ mem = EmptyDocument /\ run = IdleRun /\ patch = NoWrite /\ dash = NoWrite
      /\ attempts = 0 /\ posts = {} /\ requested = {} /\ intents = 0
  BY DEF Init
<1>2. DocAt(gist, 0) /\ DocAt(mem, 0)
  BY <1>1, EmptyDoc
<1>3. run.pc = "idle" /\ ~dash.on /\ ~patch.on
  BY <1>1 DEF IdleRun, NoWrite
<1>6. RunOK /\ ClaimedDraftOK /\ TodoOK
  BY <1>1, <1>3 DEF RunOK, ClaimedDraftOK, TodoOK, Claiming
<1>7. WriteAt(patch, attempts) /\ WriteAt(dash, attempts) /\ DocAt(gist, attempts) /\ DocAt(mem, attempts)
  BY <1>1, <1>2 DEF WriteAt
<1>8. attempts \in 0..MaxAttempts
  BY <1>1, PublicationAssumption
<1>9. UnreadOK
  BY DEF Init, UnreadOK
<1>4. PubTypeOK
  BY <1>1, <1>3, <1>6, <1>7, <1>8, <1>9 DEF PubTypeOK
<1>5. PatchIsMerge
  BY <1>1, <1>3 DEF PatchIsMerge, Patching
<1> QED BY <1>4, <1>5 DEF TypeInv

LEMMA UnreadType ==
  ASSUME UnreadOK, UNCHANGED Unread \/ \E w : Apply(w)
  PROVE  UnreadOK'
<1>1. CASE UNCHANGED Unread
  BY <1>1 DEF Unread, UnreadOK
<1>2. CASE \E w : Apply(w)
  <2>1. PICK w : Apply(w)
    BY <1>2
  <2>2. lost' \in BOOLEAN /\ erased' \in SUBSET Events
    BY <2>1 DEF Apply, UnreadOK
  <2>3. ASSUME erased' # {} PROVE lost'
    <3>1. CASE erased # {}
      BY <2>1, <3>1 DEF Apply, UnreadOK
    <3>2. CASE erased = {}
      <4>1. gist # w.base
        BY <2>1, <2>3, <3>2 DEF Apply
      <4> QED BY <2>1, <4>1 DEF Apply
    <3> QED BY <3>1, <3>2
  <2> QED BY <2>2, <2>3 DEF UnreadOK
<1> QED BY <1>1, <1>2

(* What a step of the bot leaves alone keeps its type. *)
LEMMA BotTypeOK ==
  ASSUME PubTypeOK, UNCHANGED <<dash, requested, intents, attempts>>,
         DocAt(gist', attempts), DocAt(mem', attempts), WriteAt(patch', attempts),
         RunOK', ClaimedDraftOK', TodoOK', posts' \in SUBSET (Events \X (1..attempts)),
         UnreadOK'
  PROVE  PubTypeOK'
BY DEF PubTypeOK

LEMMA DraftsKept ==
  ASSUME PubTypeOK, run.pc \in {"work"} \cup Claiming, Worked(mem.drafts, mem'.drafts),
         run'.pc \in {"work", "save"}, run'.pc = "work" => run'.todo \subseteq run.todo
  PROVE  TodoOK' /\ ClaimedDraftOK'
<1>1. \A d \in run.todo : d \in Drafts /\ mem.drafts[d].status # "absent" /\ DraftOK(mem.drafts[d])
  BY DEF PubTypeOK, TodoOK, RunOK, WorkOK, ClaimOK, IdleRun, Claiming, DocAt
<1>2. \A x, y : DraftOK(x) /\ x.status # "absent" /\ (Marked(x, y) \/ Revoked(x, y) \/ Created(x, y))
                   => y.status # "absent"
  BY DEF Marked, Revoked, After, Created, DraftOK, Draft
<1>3. \A d \in run.todo : mem'.drafts[d].status # "absent"
  BY <1>1, <1>2 DEF Worked
<1> QED BY <1>3 DEF TodoOK, ClaimedDraftOK, Claiming

LEMMA StartType ==
  ASSUME TypeInv, Start
  PROVE  TypeInv'
<1>1. PICK mode, rel, request :
         /\ mode \in {"manual", "auto", "alerts"} /\ rel \in Releases
         /\ mode = "manual" => request \in Requests
         /\ StartRun(mode, rel, request)
  BY DEF Start, TypeInv, PubTypeOK
<1>2. /\ DocAt(mem', attempts) /\ RunOK' /\ run'.pc = "work"
      /\ \A d \in run'.todo : mem'.drafts[d].status # "absent"
  BY <1>1, StartEffect DEF TypeInv
<1>3. run.pc = "idle" /\ UNCHANGED <<gist, patch, posts, attempts, faults, Unread, Outside>>
  BY <1>1 DEF StartRun
<1>4. PubTypeOK'
  BY <1>2, <1>3, BotTypeOK, UnreadType DEF TypeInv, PubTypeOK, Outside, ClaimedDraftOK, TodoOK, Claiming
<1>5. PatchIsMerge'
  BY <1>2, <1>3 DEF TypeInv, PatchIsMerge, Patching
<1> QED BY <1>4, <1>5 DEF TypeInv

LEMMA WorkType ==
  ASSUME TypeInv, WorkStep
  PROVE  TypeInv'
<1>1. /\ WorkEffect /\ run.pc = "work"
      /\ UNCHANGED <<gist, patch, posts, attempts, faults, Unread, Outside>>
  BY WorkingEffect DEF TypeInv
<1>2. TodoOK' /\ ClaimedDraftOK'
  BY <1>1, DraftsKept DEF TypeInv, WorkEffect
<1>3. PubTypeOK'
  BY <1>1, <1>2, BotTypeOK, UnreadType DEF TypeInv, PubTypeOK, Outside, WorkEffect
<1>4. PatchIsMerge'
  BY <1>1 DEF TypeInv, PatchIsMerge, Patching, WorkEffect
<1> QED BY <1>3, <1>4 DEF TypeInv

LEMMA ClaimType ==
  ASSUME TypeInv, NEW d \in Drafts, Claim(d)
  PROVE  TypeInv'
<1>1. ClaimEffect(d)
  BY Claimed DEF TypeInv
<1>2. UNCHANGED <<gist, patch, posts, faults, Unread, Outside>>
  BY DEF Claim
<1>3. attempts \in Nat /\ attempts' \in Nat /\ attempts <= attempts' /\ attempts' # 0
  BY <1>1 DEF ClaimEffect
<1>4. DocAt(gist', attempts') /\ WriteAt(patch', attempts') /\ WriteAt(dash', attempts')
  BY <1>2, <1>3, DocLater DEF TypeInv, PubTypeOK, WriteAt, Outside
<1>5. RunOK' /\ run'.pc = "claim" /\ run'.draft = d /\ run'.todo = run.todo
  <2>1. Entry(mem, d) \in SUBSET Attempt /\ mem.drafts[d] \in Draft
    BY PublicationAssumption DEF TypeInv, PubTypeOK, DocAt, RowAt, Entry, DraftOK
  <2>2. ClaimOK' /\ run'.pc = "claim"
    BY <1>1, <2>1 DEF ClaimEffect, ClaimOK
  <2> QED BY <1>1, <2>2 DEF RunOK, Claiming, ClaimEffect
<1>6. ClaimedDraftOK' /\ TodoOK'
  <2>1. \A c \in run.todo : mem.drafts[c].status # "absent"
    BY <1>1 DEF TypeInv, PubTypeOK, TodoOK, ClaimEffect
  <2>2. mem'.drafts[d].status # "absent" /\ mem'.drafts[d].attemptAt = attempts'
    BY <1>1 DEF ClaimEffect, Marked
  <2>3. \A c \in run.todo : mem'.drafts[c].status # "absent"
    BY <1>1, <2>1, <2>2 DEF ClaimEffect
  <2> QED BY <1>3, <1>5, <2>2, <2>3 DEF ClaimedDraftOK, TodoOK
<1>7. posts' \in SUBSET (Events \X (1..attempts'))
  BY <1>2, <1>3 DEF TypeInv, PubTypeOK
<1>8. PubTypeOK'
  BY <1>1, <1>2, <1>4, <1>5, <1>6, <1>7, UnreadType DEF TypeInv, PubTypeOK, ClaimEffect, Outside
<1>9. PatchIsMerge'
  BY <1>1, <1>2, <1>5 DEF TypeInv, PatchIsMerge, Patching, ClaimEffect
<1> QED BY <1>8, <1>9 DEF TypeInv

(* The claim, its save and the run's save: GET and merge. *)
LEMMA MergeType ==
  ASSUME TypeInv, patch' = [on |-> TRUE, base |-> gist, doc |-> MergeDocument(gist, mem)],
         mem' = mem, RunOK', run'.pc \in Patching,
         run'.pc = "claimPatch" => /\ run.pc = "claim" /\ run'.draft = run.draft
                                   /\ run'.todo = run.todo,
         UNCHANGED <<gist, posts, attempts, Unread, Outside>>
  PROVE  TypeInv'
<1>1. attempts \in Nat /\ DocAt(gist, attempts) /\ DocAt(mem, attempts)
  BY PublicationAssumption DEF TypeInv, PubTypeOK
<1>2. WriteAt(patch', attempts)
  BY <1>1, MergedDoc DEF WriteAt
<1>3. TodoOK' /\ ClaimedDraftOK'
  BY DEF TypeInv, PubTypeOK, TodoOK, ClaimedDraftOK, Claiming, Patching
<1>4. PubTypeOK'
  BY <1>1, <1>2, <1>3, BotTypeOK, UnreadType DEF TypeInv, PubTypeOK, Outside
<1>5. PatchIsMerge'
  BY DEF PatchIsMerge, Patching
<1> QED BY <1>4, <1>5 DEF TypeInv

(* A step that answers the run's attempt, the document written or not. *)
LEMMA AnswerType ==
  ASSUME TypeInv, run.pc \in Claiming, NEW phase, AnswerEffect(phase),
         \/ UNCHANGED <<gist, Unread>>
         \/ run.pc = "claimPatch" /\ Apply(patch),
         patch' = NoWrite, UNCHANGED <<attempts, Outside>>,
         posts' = posts \/ posts' = posts \cup {<<ClaimedEvent, mem.drafts[run.draft].attemptAt>>}
  PROVE  TypeInv'
<1>1. TodoOK' /\ ClaimedDraftOK'
  BY DraftsKept DEF TypeInv, AnswerEffect
<1>2. DocAt(gist', attempts) /\ UnreadOK'
  <2>0. UnreadOK'
    BY UnreadType DEF TypeInv, PubTypeOK
  <2>1. CASE UNCHANGED <<gist, Unread>>
    BY <2>0, <2>1 DEF TypeInv, PubTypeOK
  <2>2. CASE run.pc = "claimPatch" /\ Apply(patch)
    <3>1. patch.on /\ WriteAt(patch, attempts)
      BY <2>2 DEF TypeInv, PubTypeOK, PatchIsMerge, Patching
    <3>2. DocAt(patch.doc, attempts)
      BY <3>1 DEF WriteAt, NoWrite
    <3> QED BY <2>0, <2>2, <3>2 DEF Apply
  <2> QED BY <2>1, <2>2
<1>3. posts' \in SUBSET (Events \X (1..attempts))
  <2>1. ClaimedEvent \in Events /\ mem.drafts[run.draft].attemptAt \in 1..attempts
    BY ClaimState DEF TypeInv, ClaimedEvent
  <2> QED BY <2>1 DEF TypeInv, PubTypeOK
<1>4. WriteAt(patch', attempts) /\ ~patch'.on
  BY DEF WriteAt, NoWrite
<1>5. PubTypeOK'
  BY <1>1, <1>2, <1>3, <1>4, BotTypeOK DEF TypeInv, AnswerEffect, Outside
<1>6. PatchIsMerge'
  BY <1>4 DEF PatchIsMerge, AnswerEffect, Patching
<1> QED BY <1>5, <1>6 DEF TypeInv

(* The kinds of step a bot run takes. *)
Written == run.pc \in Patching /\ Apply(patch)

(* A GET that read the document and merged the copy into it, *)
Merging ==
    /\ patch' = [on |-> TRUE, base |-> gist, doc |-> MergeDocument(gist, mem)]
    /\ \/ run.pc = "claim" /\ run' = [run EXCEPT !.pc = "claimPatch"] /\ ExpectedDraftMatches(gist)
       \/ run.pc = "save" /\ run' = [run EXCEPT !.pc = "savePatch"]
    /\ UNCHANGED <<gist, mem, posts, attempts, Unread, Outside>>

(* the claim that is durable, *)
ToSend ==
    /\ run.pc = "claimPatch" /\ Apply(patch)
    /\ run' = [run EXCEPT !.pc = "send"]
    /\ patch' = NoWrite
    /\ UNCHANGED <<mem, posts, attempts, Outside>>

(* the end of an attempt, whatever is known of it, *)
BotAnswer(phase) ==
    /\ run.pc \in Claiming
    /\ AnswerEffect(phase)
    /\ patch' = NoWrite
    /\ UNCHANGED <<gist, Unread>> \/ Written
    /\ phase # "not_sent" => run.pc = "send"
    /\ \/ posts' = posts /\ phase # "confirmed"
       \/ posts' = posts \cup {<<ClaimedEvent, mem.drafts[run.draft].attemptAt>>} /\ phase # "not_sent"
    /\ UNCHANGED <<attempts, Outside>>

(* and the end, or the retry, of the final save: by success, failure or crash. *)
Ending ==
    /\ \/ run' = IdleRun /\ mem' = EmptyDocument
       \/ run.pc \in {"save", "savePatch"} /\ run' = [Saving EXCEPT !.tries = 1] /\ mem' = mem
    /\ patch' = NoWrite
    /\ UNCHANGED <<gist, Unread>> \/ Written
    /\ run.pc # "idle"
    /\ UNCHANGED <<posts, attempts, Outside>>

LEMMA NotPatching ==
  ASSUME TypeInv, run.pc \notin Patching
  PROVE  patch = NoWrite
BY DEF TypeInv, PubTypeOK, PatchIsMerge, WriteAt

LEMMA ClaimGetCase ==
  ASSUME TypeInv, ClaimGet
  PROVE  Merging \/ BotAnswer("not_sent")
<1>1. run.pc = "claim" /\ UNCHANGED <<gist, posts, attempts, Unread, Outside>>
  BY DEF ClaimGet
<1>2. CASE NotPersisted /\ UNCHANGED patch
  <2>1. AnswerEffect("not_sent")
    BY <1>1, <1>2, Answering DEF NotPersisted, TypeInv, Claiming
  <2>2. patch' = NoWrite
    BY <1>1, <1>2, NotPatching DEF Patching
  <2> QED BY <1>1, <2>1, <2>2 DEF BotAnswer, Claiming
<1>3. CASE /\ ExpectedDraftMatches(gist) /\ run' = [run EXCEPT !.pc = "claimPatch"] /\ UNCHANGED mem
           /\ patch' = [on |-> TRUE, base |-> gist, doc |-> MergeDocument(gist, mem)]
  BY <1>1, <1>3 DEF Merging
<1> QED BY <1>2, <1>3 DEF ClaimGet

LEMMA ClaimPatchCase ==
  ASSUME TypeInv, ClaimPatch
  PROVE  ToSend \/ BotAnswer("not_sent")
<1>1. run.pc = "claimPatch" /\ UNCHANGED <<posts, attempts, Outside>> /\ patch' = NoWrite
  BY DEF ClaimPatch
<1>2. CASE NotPersisted /\ (Apply(patch) \/ UNCHANGED <<gist, Unread>>)
  <2>1. AnswerEffect("not_sent")
    BY <1>1, <1>2, Answering DEF NotPersisted, TypeInv, Claiming
  <2> QED BY <1>1, <1>2, <2>1 DEF BotAnswer, Claiming, Written, Patching
<1>3. CASE Apply(patch) /\ run' = [run EXCEPT !.pc = "send"] /\ UNCHANGED mem
  BY <1>1, <1>3 DEF ToSend
<1> QED BY <1>2, <1>3 DEF ClaimPatch

LEMMA SendCase ==
  ASSUME TypeInv, HoldBeforeTransport \/ SendSilent \/ SendConfirmed \/ SendRefused
  PROVE  \E phase \in {"unknown", "not_sent", "confirmed"} : BotAnswer(phase)
<1>1. run.pc = "send" /\ UNCHANGED <<gist, patch, attempts, faults, Unread, Outside>>
  BY DEF HoldBeforeTransport, SendSilent, SendConfirmed, SendRefused
<1>2. patch' = NoWrite
  BY <1>1, NotPatching DEF Patching
<1>3. ASSUME NEW phase \in {"unknown", "not_sent", "confirmed"}, AnswerEffect(phase),
             \/ posts' = posts /\ phase # "confirmed"
             \/ Published /\ phase # "not_sent"
      PROVE  BotAnswer(phase)
  BY <1>1, <1>2, <1>3 DEF BotAnswer, Claiming, Published, ClaimedEvent
<1>4. PubTypeOK /\ run.pc \in Claiming
  BY <1>1 DEF TypeInv, Claiming
<1>5. CASE HoldBeforeTransport
  <2> DEFINE m == Answered("not_sent")
  <2>1. PICK held \in BOOLEAN :
           Finish([m EXCEPT !.drafts[run.draft] = IF held THEN HeldDraft(@) ELSE @], "failed")
    BY <1>5 DEF HoldBeforeTransport
  <2>2. m \in Document /\ run.draft \in Drafts
    BY <1>4, AnsweredDoc, ClaimState DEF DocAt
  <2>3. CASE held = TRUE
    <3>1. Finish([m EXCEPT !.drafts[run.draft] = HeldDraft(@)], "failed")
      BY <2>1, <2>3
    <3>2. AnswerEffect("not_sent")
      BY <1>4, <3>1, Answering
    <3> QED BY <1>3, <1>5, <3>2 DEF HoldBeforeTransport
  <2>4. CASE held = FALSE
    <3>1. Finish([m EXCEPT !.drafts[run.draft] = @], "failed")
      BY <2>1, <2>4
    <3> HIDE DEF m
    <3>2. [m EXCEPT !.drafts[run.draft] = @] = m
      BY <2>2 DEF Document
    <3>3. Finish(m, "failed")
      BY <3>1, <3>2
    <3>4. AnswerEffect("not_sent")
      BY <1>4, <3>3, Answering DEF m
    <3> QED BY <1>3, <1>5, <3>4 DEF HoldBeforeTransport
  <2> QED BY <2>3, <2>4
<1>6. CASE SendSilent
  <2>1. AnswerEffect("unknown")
    BY <1>4, <1>6, Answering DEF SendSilent
  <2> QED BY <1>3, <1>6, <2>1 DEF SendSilent
<1>7. CASE SendConfirmed
  <2>1. AnswerEffect("confirmed")
    BY <1>4, <1>7, Answering DEF SendConfirmed
  <2> QED BY <1>3, <1>7, <2>1 DEF SendConfirmed
<1>8. CASE SendRefused
  <2>1. AnswerEffect("not_sent")
    BY <1>4, <1>8, Answering DEF SendRefused
  <2> QED BY <1>3, <1>8, <2>1 DEF SendRefused
<1> QED BY <1>5, <1>6, <1>7, <1>8

LEMMA SaveCase ==
  ASSUME TypeInv, SaveGet \/ SavePatch \/ Crash \/ CrashAfterPatch
  PROVE  Merging \/ Ending
<1>1. CASE SaveGet
  <2>1. patch = NoWrite
    BY <1>1, NotPatching DEF SaveGet, Patching
  <2> QED BY <1>1, <2>1 DEF SaveGet, SaveFailed, EndRun, Merging, Ending
<1>2. CASE SavePatch
  BY <1>2 DEF SavePatch, SaveFailed, EndRun, Ending, Written, Patching
<1>3. CASE Crash
  BY <1>3 DEF Crash, EndRun, Ending
<1>4. CASE CrashAfterPatch
  BY <1>4 DEF CrashAfterPatch, EndRun, Ending, Written, Patching
<1> QED BY <1>1, <1>2, <1>3, <1>4

(* A bot run takes no other step. *)
LEMMA RunCases ==
  ASSUME TypeInv, RunStep
  PROVE  \/ WorkStep
         \/ \E d \in Drafts : Claim(d)
         \/ Merging
         \/ ToSend
         \/ \E phase \in {"unknown", "not_sent", "confirmed"} : BotAnswer(phase)
         \/ Ending
BY ClaimGetCase, ClaimPatchCase, SendCase, SaveCase DEF RunStep, WorkStep

-----------------------------------------------------------------------------
LEMMA MergingType ==
  ASSUME TypeInv, Merging
  PROVE  TypeInv'
<1>1. RunOK' /\ run'.pc \in Patching
  <2>1. CASE run.pc = "claim" /\ run' = [run EXCEPT !.pc = "claimPatch"]
    <3>1. ClaimOK
      BY <2>1 DEF TypeInv, PubTypeOK, RunOK, Claiming, IdleRun
    <3>2. ClaimOK' /\ run'.pc = "claimPatch"
      BY <2>1, <3>1 DEF ClaimOK
    <3> QED BY <3>2 DEF RunOK, Claiming, Patching
  <2>2. CASE run.pc = "save" /\ run' = [run EXCEPT !.pc = "savePatch"]
    <3>1. run = [pc |-> run.pc, tries |-> run.tries] /\ run.tries \in {0, 1}
      BY <2>2 DEF TypeInv, PubTypeOK, RunOK, Claiming, IdleRun
    <3> QED BY <2>2, <3>1 DEF RunOK, Patching
  <2> QED BY <2>1, <2>2 DEF Merging
<1>2. run'.pc = "claimPatch" => run.pc = "claim" /\ run'.draft = run.draft /\ run'.todo = run.todo
  <2>1. CASE run.pc = "claim" /\ run' = [run EXCEPT !.pc = "claimPatch"]
    <3>1. ClaimOK
      BY <2>1 DEF TypeInv, PubTypeOK, RunOK, Claiming, IdleRun
    <3> QED BY <2>1, <3>1 DEF ClaimOK
  <2>2. CASE run.pc = "save" /\ run' = [run EXCEPT !.pc = "savePatch"]
    <3>1. run = [pc |-> run.pc, tries |-> run.tries]
      BY <2>2 DEF TypeInv, PubTypeOK, RunOK, Claiming, IdleRun
    <3> QED BY <2>2, <3>1
  <2> QED BY <2>1, <2>2 DEF Merging
<1> QED BY <1>1, <1>2, MergeType DEF Merging

LEMMA WrittenType ==
  ASSUME TypeInv, UNCHANGED <<gist, Unread>> \/ Written
  PROVE  DocAt(gist', attempts) /\ UnreadOK'
<1>0. UnreadOK'
  BY UnreadType DEF TypeInv, PubTypeOK, Written
<1>1. CASE UNCHANGED <<gist, Unread>>
  BY <1>0, <1>1 DEF TypeInv, PubTypeOK
<1>2. CASE Written
  <2>1. patch.on /\ WriteAt(patch, attempts)
    BY <1>2 DEF TypeInv, PubTypeOK, PatchIsMerge, Written
  <2>2. DocAt(patch.doc, attempts)
    BY <2>1 DEF WriteAt, NoWrite
  <2> QED BY <1>0, <1>2, <2>2 DEF Apply, Written
<1> QED BY <1>1, <1>2

LEMMA ToSendType ==
  ASSUME TypeInv, ToSend
  PROVE  TypeInv'
<1>1. ClaimOK /\ run.pc = "claimPatch"
  BY DEF ToSend, TypeInv, PubTypeOK, RunOK, Claiming, IdleRun
<1>2. ClaimOK' /\ run'.pc = "send" /\ run'.draft = run.draft /\ run'.todo = run.todo
  BY <1>1 DEF ToSend, ClaimOK
<1>3. RunOK' /\ ClaimedDraftOK' /\ TodoOK'
  BY <1>1, <1>2 DEF ToSend, TypeInv, PubTypeOK, RunOK, ClaimedDraftOK, TodoOK, Claiming
<1>4. DocAt(gist', attempts) /\ UnreadOK'
  BY WrittenType DEF ToSend, Written, Patching
<1>5. WriteAt(patch', attempts) /\ ~patch'.on
  BY DEF ToSend, WriteAt, NoWrite
<1>6. DocAt(mem', attempts) /\ posts' \in SUBSET (Events \X (1..attempts))
  BY DEF ToSend, TypeInv, PubTypeOK
<1>7. PubTypeOK'
  BY <1>3, <1>4, <1>5, <1>6, BotTypeOK DEF TypeInv, ToSend, Outside
<1>8. PatchIsMerge'
  BY <1>2, <1>5 DEF PatchIsMerge, Patching
<1> QED BY <1>7, <1>8 DEF TypeInv

LEMMA BotAnswerType ==
  ASSUME TypeInv, NEW phase, BotAnswer(phase)
  PROVE  TypeInv'
BY AnswerType DEF BotAnswer, Written, Patching, Claiming

LEMMA EndingType ==
  ASSUME TypeInv, Ending
  PROVE  TypeInv'
<1>1. RunOK' /\ run'.pc \in {"idle", "save"}
  BY DEF Ending, RunOK, IdleRun, Saving
<1>2. TodoOK' /\ ClaimedDraftOK'
  BY <1>1 DEF TodoOK, ClaimedDraftOK, Claiming
<1>3. DocAt(gist', attempts) /\ UnreadOK'
  BY WrittenType DEF Ending
<1>4. DocAt(mem', attempts)
  BY EmptyDoc DEF Ending, TypeInv, PubTypeOK
<1>5. WriteAt(patch', attempts) /\ ~patch'.on
  BY DEF Ending, WriteAt, NoWrite
<1>6. posts' \in SUBSET (Events \X (1..attempts))
  BY DEF Ending, TypeInv, PubTypeOK
<1>7. PubTypeOK'
  BY <1>1, <1>2, <1>3, <1>4, <1>5, <1>6, BotTypeOK DEF TypeInv, Ending, Outside
<1>8. PatchIsMerge'
  BY <1>1, <1>5 DEF PatchIsMerge, Patching, Ending, Saving
<1> QED BY <1>7, <1>8 DEF TypeInv

LEMMA DashboardType ==
  ASSUME TypeInv, Dashboard
  PROVE  TypeInv'
<1>1. PatchIsMerge' /\ UNCHANGED <<run, mem, patch, posts, attempts>>
  <2>1. UNCHANGED <<run, mem, patch, posts, attempts>>
    BY DashboardStep DEF TypeInv, OutsideDash, DashPatch, DashFail
  <2> QED BY <2>1 DEF TypeInv, PatchIsMerge
<1>2. RunOK' /\ ClaimedDraftOK' /\ TodoOK'
  BY <1>1 DEF TypeInv, PubTypeOK, RunOK, WorkOK, ClaimOK, ClaimedDraftOK, TodoOK
<1>3. ASSUME DocAt(gist', attempts), WriteAt(dash', attempts), dash'.on => dash'.request \in SUBSET Requests,
             requested' \in SUBSET Requests, intents' \in Nat, UnreadOK'
      PROVE  PubTypeOK'
  BY <1>1, <1>2, <1>3 DEF TypeInv, PubTypeOK
<1>4. CASE DashPatch
  <2>1. dash.on /\ WriteAt(dash, attempts) /\ dash.request \in SUBSET Requests
    BY <1>4 DEF DashPatch, TypeInv, PubTypeOK
  <2>2. DocAt(dash.doc, attempts)
    BY <2>1 DEF WriteAt, NoWrite
  <2>3. DocAt(gist', attempts)
    BY <1>4, <2>2 DEF DashPatch, Apply
  <2>4. UnreadOK'
    BY <1>4, UnreadType DEF DashPatch, TypeInv, PubTypeOK
  <2>5. WriteAt(dash', attempts) /\ ~dash'.on
    BY <1>4 DEF DashPatch, WriteAt, NoWrite
  <2>6. requested' \in SUBSET Requests /\ intents' \in Nat
    BY <1>4, <2>1 DEF DashPatch, TypeInv, PubTypeOK
  <2> QED BY <1>1, <1>3, <2>3, <2>4, <2>5, <2>6 DEF TypeInv
<1>5. CASE DashFail
  <2>1. UNCHANGED <<gist, requested, intents, Unread>> /\ dash' = NoWrite
    BY <1>5 DEF DashFail, OutsideDash
  <2>2. WriteAt(dash', attempts) /\ ~dash'.on
    BY <2>1 DEF WriteAt, NoWrite
  <2>3. DocAt(gist', attempts) /\ requested' \in SUBSET Requests /\ intents' \in Nat /\ UnreadOK'
    BY <2>1, UnreadType DEF TypeInv, PubTypeOK
  <2> QED BY <1>1, <1>3, <2>2, <2>3 DEF TypeInv
<1>6. CASE /\ \E doc, request : OperationOK(doc, request) /\ Submit(doc, request)
           /\ UNCHANGED OutsideDash /\ intents' \in Nat
  <2>1. PICK doc, request : OperationOK(doc, request) /\ Submit(doc, request)
    BY <1>6
  <2>2. DocAt(doc, attempts) /\ request \in SUBSET Requests /\ DocAt(gist, attempts)
    BY <2>1 DEF OperationOK, TypeInv, PubTypeOK
  <2>3. DocAt(gist', attempts)
    BY <2>1, <2>2 DEF Submit
  <2>4. WriteAt(dash', attempts) /\ (dash'.on => dash'.request \in SUBSET Requests)
    BY <2>1, <2>2 DEF Submit, WriteAt, TypeInv, PubTypeOK
  <2>5. requested' \in SUBSET Requests
    BY <2>1, <2>2 DEF Submit, TypeInv, PubTypeOK
  <2>6. UnreadOK'
    BY <1>6, UnreadType DEF OutsideDash, TypeInv, PubTypeOK
  <2> QED BY <1>1, <1>3, <1>6, <2>3, <2>4, <2>5, <2>6 DEF TypeInv
<1> QED BY <1>4, <1>5, <1>6, DashboardStep DEF TypeInv

LEMMA TypeStep ==
  ASSUME TypeInv, [Next]_pubVars
  PROVE  TypeInv'
<1>1. CASE UNCHANGED pubVars
  BY <1>1 DEF pubVars, TypeInv, PubTypeOK, UnreadOK, PatchIsMerge, RunOK, WorkOK, ClaimOK, ClaimedDraftOK, TodoOK
<1>2. CASE RunStep
  BY <1>2, RunCases, WorkType, ClaimType, MergingType, ToSendType, BotAnswerType, EndingType
<1> QED BY <1>1, <1>2, StartType, DashboardType DEF Next

(* Every document, copy, pending write, run and counter has its type in      *)
(* every state, and a PATCH about to be sent is the merge of what its GET    *)
(* returned with the copy of the run (write_state, _merge_state).            *)
THEOREM TypeCorrect == Spec => []TypeInv
BY TypeInit, TypeStep, PTL DEF Spec

-----------------------------------------------------------------------------
(*****************************************************************************)
(* The merge about to be written.                                            *)
(*****************************************************************************)

(* What a merge keeps of a row of either side. *)
LEMMA MergedEvidence ==
  ASSUME NEW A \in SUBSET Attempt, NEW B \in SUBSET Attempt, NEW a \in A \cup B
  PROVE  \E b \in MergeAttempts(A, B) :
            /\ SameAttempt(a, b)
            /\ a.tweet # NoTweet => b.tweet = a.tweet
            /\ a.cancelled => b.cancelled
            /\ Open(a) => \/ Open(b)
                          \/ \E c \in A \cup B : SameAttempt(a, c) /\ c.phase = b.phase
<1> DEFINE S == A \cup B
<1>1. S \in SUBSET Rows(Nat \cup Drafts, Texts)
  BY DEF Attempt, Rows
<1>2. PICK x \in S : /\ SameAttempt(a, x) /\ ~Outranked(x, S)
                     /\ a.tweet # NoTweet => x = a
  <2>1. CASE a.tweet # NoTweet
    <3>1. ~Outranked(a, S)
      BY <1>1, <2>1, RankBounds DEF Outranked
    <3>2. SameAttempt(a, a)
      BY DEF SameAttempt
    <3> QED BY <3>1, <3>2
  <2>2. CASE a.tweet = NoTweet
    <3> HIDE DEF S
    <3>1. a \in S
      BY DEF S
    <3>2. \E x \in S : SameAttempt(a, x) /\ AttemptRank(x) >= AttemptRank(a) /\ ~Outranked(x, S)
      BY <1>1, <3>1, MostFinalReport
    <3> QED BY <2>2, <3>2
  <2> QED BY <2>1, <2>2
<1> DEFINE b == KeepCancellation(x, S)
<1>3. b \in MergeAttempts(A, B)
  BY <1>2 DEF MergeAttempts
<1>4. /\ b.phase = x.phase /\ b.tweet = x.tweet /\ SameAttempt(x, b)
      /\ b.cancelled <=> (\E r \in S : SameAttempt(x, r) /\ r.cancelled)
  <2> HIDE DEF S
  <2>1. x \in Rows(Nat \cup Drafts, Texts)
    BY <1>1
  <2> QED BY <2>1, KeptRow DEF SameAttempt
<1> HIDE DEF b
<1>5. SameAttempt(a, b) /\ SameAttempt(x, a)
  BY <1>2, <1>4 DEF SameAttempt
<1>6. a.cancelled => b.cancelled
  BY <1>4, <1>5
<1> QED BY <1>2, <1>3, <1>4, <1>5, <1>6

LEMMA EvidenceKept == TypeInv => MergeKeepsEvidence
<1> SUFFICES ASSUME TypeInv, patch.on, NEW e \in Events,
                    NEW a \in patch.base.ledger[e] \cup mem.ledger[e]
             PROVE  \E b \in patch.doc.ledger[e] :
                    /\ SameAttempt(a, b)
                    /\ a.tweet # NoTweet => b.tweet = a.tweet
                    /\ a.cancelled => b.cancelled
                    /\ Open(a) => \/ Open(b)
                                  \/ \E c \in patch.base.ledger[e] \cup mem.ledger[e] :
                                        SameAttempt(a, c) /\ c.phase = b.phase
  BY DEF MergeKeepsEvidence
<1>1. patch.base \in Document /\ mem \in Document /\ patch.doc = MergeDocument(patch.base, mem)
  BY DEF TypeInv, PubTypeOK, PatchIsMerge, WriteAt, NoWrite, DocAt
<1>2. patch.doc.ledger[e] = MergeAttempts(patch.base.ledger[e], mem.ledger[e])
  BY <1>1 DEF MergeDocument
<1>3. patch.base.ledger[e] \in SUBSET Attempt /\ mem.ledger[e] \in SUBSET Attempt
  BY <1>1 DEF Document
<1> DEFINE A == patch.base.ledger[e]
           B == mem.ledger[e]
<1> HIDE DEF A, B
<1>4. A \in SUBSET Attempt /\ B \in SUBSET Attempt /\ a \in A \cup B /\ patch.doc.ledger[e] = MergeAttempts(A, B)
  BY <1>2, <1>3 DEF A, B
<1>5. \E b \in MergeAttempts(A, B) :
            /\ SameAttempt(a, b)
            /\ a.tweet # NoTweet => b.tweet = a.tweet
            /\ a.cancelled => b.cancelled
            /\ Open(a) => \/ Open(b)
                          \/ \E c \in A \cup B : SameAttempt(a, c) /\ c.phase = b.phase
  BY <1>4, MergedEvidence
<1> QED BY <1>4, <1>5 DEF A, B

(* MergeKeepsEvidence: a merge about to be written keeps every platform      *)
(* attempt, receipt and cancellation either side knows (_merge_state,        *)
(* _merge_publish_ledger).                                                   *)
THEOREM NoEvidenceLost == Spec => []MergeKeepsEvidence
BY TypeCorrect, EvidenceKept, PTL

-----------------------------------------------------------------------------
(*****************************************************************************)
(* The inductive invariant of the attempts, LedgerInv, step by step.         *)
(*****************************************************************************)

(* Nothing is claimed at first. *)
LEMMA LedgerInit == Init => LedgerInv
<1> SUFFICES ASSUME Init PROVE LedgerInv
  OBVIOUS
<1>1. gist = EmptyDocument /\ mem = EmptyDocument /\ run = IdleRun /\ dash = NoWrite /\ posts = {}
  BY DEF Init
<1>2. \A e \in Events : gist.ledger[e] = {} /\ mem.ledger[e] = {} /\ PostsOf(e) = {}
  BY <1>1 DEF EmptyDocument, PostsOf
<1>3. EventOK({}, {}, {}, attempts)
  BY DEF EventOK, OneCall, OneRow, OneLive
<1>4. run.pc = "idle" /\ ~dash.on
  BY <1>1 DEF IdleRun, NoWrite
<1>5. \A e \in Events : EventOK(gist.ledger[e], mem.ledger[e], PostsOf(e), attempts)
  BY <1>2, <1>3
<1>6. \A e \in Events : LedgerAt(e)
  BY <1>4, <1>5 DEF LedgerAt, ClaimPending, Claiming
<1>7. DashRows
  BY <1>4 DEF DashRows
<1> QED BY <1>6, <1>7 DEF LedgerInv

(* What a step of the bot keeps of the dashboard's writes. *)
LEMMA RowsLater ==
  ASSUME DashRows, dash' = dash, posts \subseteq posts'
  PROVE  DashRows'
<1>1. \A e : PostsOf(e) \subseteq PostsOf(e)'
  BY DEF PostsOf
<1>2. ASSUME NEW P, NEW Q, P \subseteq Q, NEW A, NEW B, RowsOf(P, A, B) PROVE RowsOf(Q, A, B)
  BY <1>2 DEF RowsOf
<1> QED BY <1>1, <1>2 DEF DashRows

(* Outside a pending claim an event is as it should be. *)
LEMMA SettledAt ==
  ASSUME NEW e, LedgerAt(e), ~ClaimPending(e)
  PROVE  EventOK(gist.ledger[e], mem.ledger[e], PostsOf(e), attempts)
BY DEF LedgerAt

LEMMA SettledLedger ==
  ASSUME run'.pc \in {"idle", "work", "save", "savePatch"}, NEW e,
         EventOK(gist'.ledger[e], mem'.ledger[e], PostsOf(e)', attempts')
  PROVE  LedgerAt(e)'
BY DEF LedgerAt, ClaimPending, Claiming

(* The same of every event of a document never overwritten unread. *)
LEMMA EventsOK ==
  ASSUME LedgerOK, NEW e \in Events, ~ClaimPending(e)
  PROVE  EventOK(gist.ledger[e], mem.ledger[e], PostsOf(e), attempts)
BY SettledAt DEF LedgerOK

LEMMA StartLedger ==
  ASSUME TypeInv, NEW e \in Events, LedgerAt(e), Start
  PROVE  LedgerAt(e)'
<1>1. PICK mode, rel, request :
         /\ mode \in {"manual", "auto", "alerts"} /\ rel \in Releases
         /\ mode = "manual" => request \in Requests
         /\ StartRun(mode, rel, request)
  BY DEF Start, TypeInv, PubTypeOK
<1>2. mem'.ledger = gist.ledger /\ run'.pc = "work"
  BY <1>1, StartEffect DEF TypeInv
<1>3. run.pc = "idle" /\ UNCHANGED <<gist, posts, attempts>>
  BY <1>1 DEF StartRun
<1>4. EventOK(gist.ledger[e], gist.ledger[e], PostsOf(e), attempts)
  BY <1>3, SettledAt, ReadOK DEF ClaimPending
<1>5. PostsOf(e)' = PostsOf(e)
  BY <1>3 DEF PostsOf
<1>6. EventOK(gist'.ledger[e], mem'.ledger[e], PostsOf(e)', attempts')
  BY <1>2, <1>3, <1>4, <1>5
<1> QED BY <1>2, <1>6, SettledLedger

LEMMA WorkLedger ==
  ASSUME TypeInv, NEW e \in Events, LedgerAt(e), WorkStep
  PROVE  LedgerAt(e)'
<1>1. /\ WorkEffect /\ run.pc = "work" /\ UNCHANGED <<gist, posts, attempts>>
  BY WorkingEffect DEF TypeInv
<1>2. EventOK(gist.ledger[e], mem.ledger[e], PostsOf(e), attempts)
  BY <1>1, SettledAt DEF ClaimPending
<1>3. PostsOf(e)' = PostsOf(e)
  BY <1>1 DEF PostsOf
<1>4. EventOK(gist'.ledger[e], mem'.ledger[e], PostsOf(e)', attempts')
  BY <1>1, <1>2, <1>3 DEF WorkEffect
<1> QED BY <1>1, <1>4, SettledLedger DEF WorkEffect

LEMMA ClaimLedger ==
  ASSUME TypeInv, NEW e \in Events, LedgerAt(e), NEW d \in Drafts, Claim(d)
  PROVE  LedgerAt(e)'
<1> DEFINE c == EventOf[d]
<1>1. ClaimEffect(d) /\ UNCHANGED <<gist, posts>> /\ c \in Events
  BY Claimed, PublicationAssumption DEF TypeInv, Claim
<1>2. attempts \in Nat /\ attempts' = attempts + 1 /\ run.pc = "work"
  BY <1>1 DEF ClaimEffect
<1>3. run'.pc = "claim" /\ run'.draft = d /\ run'.prior = mem.ledger[c]
  BY <1>1 DEF ClaimEffect, Entry
<1>4. EventOK(gist.ledger[e], mem.ledger[e], PostsOf(e), attempts)
  BY <1>2, SettledAt DEF ClaimPending
<1>5. PostsOf(e)' = PostsOf(e)
  BY <1>1 DEF PostsOf
<1>6. CASE e = c
  <2>1. PICK r : mem'.ledger[e] = {r} /\ ClaimRow(r, attempts')
    BY <1>1, <1>6 DEF ClaimEffect
  <2> DEFINE G == gist.ledger[e]
             P == PostsOf(e)
             M == mem.ledger[e]
  <2>2. EventOK(G, M, P, attempts)
    BY <1>4
  <2> HIDE DEF G, P, M
  <2>3. PendingOK(G, {r}, P, attempts + 1)
    BY <1>2, <2>1, <2>2, ClaimOpens
  <2>4. PendingOK(gist'.ledger[e], mem'.ledger[e], PostsOf(e)', attempts')
    BY <1>1, <1>2, <1>5, <2>1, <2>3 DEF G, P
  <2>5. PostGuard(d, run.mode)
    BY <1>1 DEF ClaimEffect
  <2>6. \A a \in mem.ledger[c] : a.tweet = NoTweet /\ ~UnresolvedAttempt(a, mem.drafts[d])
    BY <2>5 DEF PostGuard, Unresolved, HasUnresolvedPublish, HasReceipt, Entry
  <2>7. \A a \in run'.prior : ~Live(a)
    BY <1>3, <2>6 DEF UnresolvedAttempt, Live
  <2>8. ClaimPending(e)'
    BY <1>3, <1>6 DEF ClaimPending, ClaimedEvent
  <2> QED BY <1>3, <2>4, <2>7, <2>8 DEF LedgerAt
<1>7. CASE e # c
  <2>1. EventOK(gist.ledger[e], mem.ledger[e], PostsOf(e), attempts + 1)
    BY <1>2, <1>4, LaterOK
  <2>2. mem'.ledger[e] = mem.ledger[e]
    BY <1>1, <1>7 DEF ClaimEffect
  <2>3. EventOK(gist'.ledger[e], mem'.ledger[e], PostsOf(e)', attempts')
    BY <1>1, <1>2, <1>5, <2>1, <2>2
  <2>4. ClaimedEvent' # e
    BY <1>3, <1>7 DEF ClaimedEvent
  <2> QED BY <2>3, <2>4 DEF LedgerAt, ClaimPending
<1> QED BY <1>6, <1>7

LEMMA MergingLedger ==
  ASSUME TypeInv, NEW e \in Events, LedgerAt(e), Merging
  PROVE  LedgerAt(e)'
<1>1. UNCHANGED <<gist, mem, posts, attempts>> /\ patch'.base = gist
  BY DEF Merging
<1>2. PostsOf(e)' = PostsOf(e)
  BY <1>1 DEF PostsOf
<1>3. CASE run.pc = "claim" /\ run' = [run EXCEPT !.pc = "claimPatch"] /\ ExpectedDraftMatches(gist)
  <2>1. ClaimOK
    BY <1>3 DEF TypeInv, PubTypeOK, RunOK, Claiming, IdleRun
  <2>2. run'.pc = "claimPatch" /\ run'.draft = run.draft /\ run'.prior = run.prior
    BY <1>3, <2>1 DEF ClaimOK
  <2>3. gist.ledger[ClaimedEvent] = run.prior
    BY <1>3 DEF ExpectedDraftMatches, Entry, ClaimedEvent
  <2>4. ClaimedEvent' = ClaimedEvent /\ (ClaimPending(e)' <=> ClaimPending(e))
    BY <1>3, <2>2 DEF ClaimedEvent, ClaimPending
  <2> QED BY <1>1, <1>2, <1>3, <2>2, <2>3, <2>4 DEF LedgerAt, Claiming
<1>4. CASE run.pc = "save" /\ run' = [run EXCEPT !.pc = "savePatch"]
  <2>1. run'.pc = "savePatch"
    BY <1>4 DEF TypeInv, PubTypeOK, RunOK, Claiming, IdleRun
  <2>2. EventOK(gist.ledger[e], mem.ledger[e], PostsOf(e), attempts)
    BY <1>4, SettledAt DEF ClaimPending
  <2>3. EventOK(gist'.ledger[e], mem'.ledger[e], PostsOf(e)', attempts')
    BY <1>1, <1>2, <2>2
  <2> QED BY <2>1, <2>3, SettledLedger
<1> QED BY <1>3, <1>4 DEF Merging

(* A PATCH that erases nothing of an event wrote over the rows it read. *)
LEMMA ReadWhole ==
  ASSUME NEW w, Apply(w), NEW e \in Events, e \notin erased'
  PROVE  gist.ledger[e] = w.base.ledger[e] /\ gist'.ledger[e] = w.doc.ledger[e]
BY DEF Apply

(* What the bot's PATCH makes of the rows it read. *)
LEMMA WrittenAt ==
  ASSUME TypeInv, NEW e \in Events, LedgerAt(e), Written, e \notin erased'
  PROVE  /\ EventOK(gist'.ledger[e], mem.ledger[e], PostsOf(e), attempts)
         /\ ClaimPending(e) => SendingOK(gist'.ledger[e], mem.ledger[e], PostsOf(e), attempts)
<1>1. patch.on /\ gist.ledger[e] = patch.base.ledger[e] /\ gist'.ledger[e] = patch.doc.ledger[e]
  BY ReadWhole DEF Written, TypeInv, PatchIsMerge
<1>2. attempts \in Nat
  BY PublicationAssumption DEF TypeInv, PubTypeOK
<1> DEFINE G == gist.ledger[e]
           M == mem.ledger[e]
           P == PostsOf(e)
<1>3. gist'.ledger[e] = MergeAttempts(G, M)
  BY <1>1 DEF MergeDocument, TypeInv, PatchIsMerge
<1>4. CASE ClaimPending(e)
  <2>1. PendingOK(G, M, P, attempts) /\ \A a \in G : ~Live(a)
    BY <1>1, <1>4 DEF LedgerAt, ClaimPending, Written, Patching, Claiming
  <2> HIDE DEF G, M, P
  <2>2. SendingOK(MergeAttempts(G, M), M, P, attempts)
    BY <1>2, <2>1, ClaimMerged
  <2>3. EventOK(MergeAttempts(G, M), M, P, attempts)
    BY <2>2 DEF SendingOK
  <2> QED BY <1>3, <2>2, <2>3 DEF M, P
<1>5. CASE ~ClaimPending(e)
  <2>1. EventOK(G, M, P, attempts)
    BY <1>5, SettledAt
  <2> HIDE DEF G, M, P
  <2>2. EventOK(MergeAttempts(G, M), M, P, attempts)
    BY <2>1, MergeOK
  <2> QED BY <1>3, <1>5, <2>2 DEF M, P
<1> QED BY <1>4, <1>5

(* A document not overwritten unread had its attempts read too. *)
LEMMA NothingErased ==
  ASSUME TypeInv', ~lost'
  PROVE  erased' = {}
BY DEF TypeInv, PubTypeOK, UnreadOK

(* Its PATCH over the very document it read. *)
LEMMA WrittenLedger ==
  ASSUME TypeInv, TypeInv', LedgerOK, Written, ~lost'
  PROVE  \A e \in Events :
            /\ EventOK(gist'.ledger[e], mem.ledger[e], PostsOf(e), attempts)
            /\ ClaimPending(e) => SendingOK(gist'.ledger[e], mem.ledger[e], PostsOf(e), attempts)
BY NothingErased, WrittenAt DEF LedgerOK

LEMMA ToSendLedger ==
  ASSUME TypeInv, NEW e \in Events, LedgerAt(e), ToSend, e \notin erased'
  PROVE  LedgerAt(e)'
<1>1. /\ EventOK(gist'.ledger[e], mem.ledger[e], PostsOf(e), attempts)
      /\ ClaimPending(e) => SendingOK(gist'.ledger[e], mem.ledger[e], PostsOf(e), attempts)
  BY WrittenAt DEF ToSend, Written, Patching
<1>2. ClaimOK /\ run.pc = "claimPatch" /\ UNCHANGED <<mem, posts, attempts>>
  BY DEF ToSend, TypeInv, PubTypeOK, RunOK, Claiming, IdleRun
<1>3. run'.pc = "send" /\ run'.draft = run.draft
  BY <1>2 DEF ToSend, ClaimOK
<1>4. ClaimedEvent' = ClaimedEvent /\ (ClaimPending(e) <=> e = ClaimedEvent)
  BY <1>2, <1>3 DEF ClaimedEvent, ClaimPending
<1>5. PostsOf(e)' = PostsOf(e)
  BY <1>2 DEF PostsOf
<1> QED BY <1>1, <1>2, <1>3, <1>4, <1>5 DEF LedgerAt, ClaimPending

(* The only row of the claimed event, answered. *)
LEMMA AnsweredEntry ==
  ASSUME TypeInv, run.pc \in Claiming, NEW phase \in {"unknown", "not_sent", "confirmed"},
         AnswerEffect(phase), NEW r, mem.ledger[ClaimedEvent] = {r}, ClaimRow(r, attempts)
  PROVE  \E s : /\ mem'.ledger[ClaimedEvent] = {s} /\ RowAt(s, attempts) /\ SameAttempt(r, s)
                /\ s.phase = phase /\ s.at = attempts
                /\ s.tweet = IF phase = "confirmed" THEN attempts ELSE NoTweet
<1> DEFINE s == AnsweredRow(r, phase)
<1>1. mem'.ledger[ClaimedEvent] = {s}
  BY DEF AnswerEffect
<1>2. attempts # 0 /\ RowAt(r, attempts) /\ r.at = attempts /\ PubTypeOK
  BY ClaimState DEF ClaimRow, TypeInv
<1>3. /\ RowAt(s, attempts) /\ SameAttempt(r, s) /\ s.phase = phase
      /\ s.tweet = IF phase = "confirmed" THEN attempts ELSE NoTweet
      /\ s.at = r.at
  BY <1>2, AnsweredRowOK
<1> HIDE DEF s
<1> QED BY <1>1, <1>2, <1>3

(* An accepted post is one more attempt of its event. *)
LEMMA PostsAdded ==
  ASSUME NEW e, NEW f, NEW n, posts' = posts \cup {<<f, n>>}
  PROVE  PostsOf(e)' = IF e = f THEN PostsOf(e) \cup {n} ELSE PostsOf(e)
<1> DEFINE A == posts'
           B == posts
<1>1. A = B \cup {<<f, n>>} /\ <<f, n>>[1] = f /\ <<f, n>>[2] = n
  OBVIOUS
<1>2. PostsOf(e)' = {p[2] : p \in {q \in A : q[1] = e}} /\ PostsOf(e) = {p[2] : p \in {q \in B : q[1] = e}}
  BY DEF PostsOf
<1> HIDE DEF A, B
<1>3. CASE e = f
  <2>1. {q \in A : q[1] = e} = {q \in B : q[1] = e} \cup {<<f, n>>}
    BY <1>1, <1>3
  <2> DEFINE Y == {q \in B : q[1] = e}
  <2>2. PostsOf(e)' = {p[2] : p \in Y \cup {<<f, n>>}} /\ PostsOf(e) = {p[2] : p \in Y}
    BY <1>2, <2>1
  <2> HIDE DEF Y
  <2>3. {p[2] : p \in Y \cup {<<f, n>>}} = {p[2] : p \in Y} \cup {n}
    <3> DEFINE t == <<f, n>>
    <3>1. t[2] = n
      OBVIOUS
    <3> HIDE DEF t
    <3>2. {p[2] : p \in Y \cup {t}} = {p[2] : p \in Y} \cup {t[2]}
      OBVIOUS
    <3> QED BY <3>1, <3>2 DEF t
  <2> QED BY <1>3, <2>2, <2>3
<1>4. CASE e # f
  <2>1. {q \in A : q[1] = e} = {q \in B : q[1] = e}
    BY <1>1, <1>4
  <2> QED BY <1>2, <1>4, <2>1
<1> QED BY <1>3, <1>4

(* The answer to an attempt, its claim durable or not. *)
LEMMA AnswerLedger ==
  ASSUME TypeInv, NEW e \in Events, LedgerAt(e), NEW phase \in {"unknown", "not_sent", "confirmed"},
         BotAnswer(phase), e \notin erased'
  PROVE  LedgerAt(e)'
<1>0. ClaimedEvent \in Events
  BY ClaimState DEF BotAnswer, AnswerEffect, TypeInv, ClaimedEvent
<1> PICK c \in Events : c = ClaimedEvent
  BY <1>0
<1>1. /\ AnswerEffect(phase) /\ run.pc \in Claiming /\ attempts' = attempts /\ run'.pc \in {"work", "save"}
      /\ c \in Events /\ attempts \in Nat /\ mem.drafts[run.draft].attemptAt = attempts
  BY ClaimState DEF BotAnswer, AnswerEffect, TypeInv, ClaimedEvent
<1>p. /\ phase # "not_sent" => run.pc = "send"
      /\ \/ posts' = posts /\ phase # "confirmed"
         \/ posts' = posts \cup {<<c, attempts>>} /\ phase # "not_sent"
  BY <1>1 DEF BotAnswer
<1>2. CASE e # c
  <2>1. PostsOf(e)' = PostsOf(e)
    BY <1>2, <1>p, PostsAdded DEF PostsOf
  <2>2. mem'.ledger[e] = mem.ledger[e]
    BY <1>1, <1>2 DEF AnswerEffect
  <2>3. EventOK(gist'.ledger[e], mem.ledger[e], PostsOf(e), attempts)
    <3>1. CASE UNCHANGED <<gist, Unread>>
      BY <1>2, <3>1, SettledAt DEF ClaimPending
    <3>2. CASE Written
      BY <3>2, WrittenAt
    <3> QED BY <3>1, <3>2 DEF BotAnswer
  <2>4. EventOK(gist'.ledger[e], mem'.ledger[e], PostsOf(e)', attempts')
    BY <1>1, <2>1, <2>2, <2>3
  <2> QED BY <1>1, <2>4, SettledLedger
<1>3. CASE e = c
  <2> DEFINE M == mem.ledger[e]
             N == mem'.ledger[e]
             P == PostsOf(e)
             Q == PostsOf(e)'
             H == gist'.ledger[e]
  <2> SUFFICES EventOK(H, N, Q, attempts)
    BY <1>1, SettledLedger
  <2>1. (Q = P /\ phase # "confirmed") \/ (Q = P \cup {attempts} /\ phase # "not_sent")
    <3>1. CASE posts' = posts /\ phase # "confirmed"
      BY <3>1 DEF PostsOf
    <3>2. CASE posts' = posts \cup {<<e, attempts>>} /\ phase # "not_sent"
      <4>1. PostsOf(e)' = PostsOf(e) \cup {attempts}
        BY <3>2, PostsAdded
      <4> QED BY <3>2, <4>1
    <3> QED BY <1>p, <1>3, <3>1, <3>2
  <2>2. ASSUME NEW r, M = {r}, ClaimRow(r, attempts)
        PROVE  \E s : /\ N = {s} /\ RowAt(s, attempts) /\ SameAttempt(r, s)
                      /\ s.phase = phase /\ s.at = attempts
                      /\ s.tweet = IF phase = "confirmed" THEN attempts ELSE NoTweet
    BY <1>1, <1>3, <2>2, AnsweredEntry
  <2>3. ASSUME SendingOK(H, M, P, attempts) PROVE EventOK(H, N, Q, attempts)
    <3>1. PICK r : M = {r} /\ ClaimRow(r, attempts)
      BY <2>3 DEF SendingOK
    <3>2. PICK s : /\ N = {s} /\ RowAt(s, attempts) /\ SameAttempt(r, s)
                   /\ s.phase = phase /\ s.at = attempts
                   /\ s.tweet = IF phase = "confirmed" THEN attempts ELSE NoTweet
      BY <2>2, <3>1
    <3> HIDE DEF H, M, N, P, Q
    <3>3. r \in M /\ (Q = P \/ Q = P \cup {attempts}) /\ (s.phase = "not_sent" => Q = P)
          /\ (s.phase = "confirmed" => attempts \in Q /\ s.tweet = attempts)
      BY <2>1, <3>1, <3>2
    <3> QED BY <1>1, <2>3, <3>2, <3>3, AnsweredOK
  <2>4. CASE run.pc = "send"
    <3>1. gist' = gist
      BY <2>4 DEF BotAnswer, Written, Patching
    <3>2. SendingOK(H, M, P, attempts)
      BY <1>3, <2>4, <3>1 DEF LedgerAt, Claiming
    <3> QED BY <2>3, <3>2
  <2>5. CASE run.pc # "send" /\ Written
    <3>1. SendingOK(H, M, P, attempts)
      BY <1>1, <1>3, <2>5, WrittenAt DEF ClaimPending, Claiming
    <3> QED BY <2>3, <3>1
  <2>6. CASE run.pc # "send" /\ UNCHANGED <<gist, Unread>>
    <3>1. PendingOK(H, M, P, attempts) /\ phase = "not_sent"
      BY <1>1, <1>3, <2>6 DEF LedgerAt, ClaimPending, Claiming, BotAnswer
    <3>2. PICK r : M = {r} /\ ClaimRow(r, attempts)
      BY <3>1 DEF PendingOK
    <3>3. PICK s : /\ N = {s} /\ RowAt(s, attempts) /\ SameAttempt(r, s)
                   /\ s.phase = phase /\ s.at = attempts
                   /\ s.tweet = IF phase = "confirmed" THEN attempts ELSE NoTweet
      BY <2>2, <3>2
    <3>4. Q = P
      BY <2>1, <3>1
    <3> HIDE DEF H, M, N, P, Q
    <3>5. EventOK(H, N, P, attempts)
      BY <1>1, <3>1, <3>2, <3>3, GivenUp
    <3> QED BY <3>4, <3>5
  <2> QED BY <2>4, <2>5, <2>6 DEF BotAnswer
<1> QED BY <1>2, <1>3

(* A run that ends forgets its copy. *)
LEMMA EndingLedger ==
  ASSUME TypeInv, NEW e \in Events, LedgerAt(e), Ending, e \notin erased'
  PROVE  LedgerAt(e)'
<1>1. /\ run'.pc \in {"idle", "save"} /\ UNCHANGED <<posts, attempts>>
  BY DEF Ending, IdleRun, Saving
<1>2. PostsOf(e)' = PostsOf(e)
  BY <1>1 DEF PostsOf
<1>3. EventOK(gist'.ledger[e], {}, PostsOf(e), attempts)
  <2>1. CASE UNCHANGED <<gist, Unread>> /\ ClaimPending(e)
    BY <2>1 DEF LedgerAt, PendingOK
  <2>2. CASE UNCHANGED <<gist, Unread>> /\ ~ClaimPending(e)
    BY <2>2, SettledAt, ReadOK
  <2>3. CASE Written
    BY <2>3, WrittenAt, ReadOK
  <2> QED BY <2>1, <2>2, <2>3 DEF Ending
<1>4. CASE mem' = EmptyDocument
  <2>1. mem'.ledger[e] = {}
    BY <1>4 DEF EmptyDocument
  <2> QED BY <1>1, <1>2, <1>3, <2>1, SettledLedger
<1>5. CASE run.pc \in {"save", "savePatch"} /\ mem' = mem
  <2>1. EventOK(gist'.ledger[e], mem.ledger[e], PostsOf(e), attempts)
    <3>1. CASE UNCHANGED <<gist, Unread>>
      BY <1>5, <3>1, SettledAt DEF ClaimPending
    <3>2. CASE Written
      BY <3>2, WrittenAt
    <3> QED BY <3>1, <3>2 DEF Ending
  <2> QED BY <1>1, <1>2, <1>5, <2>1, SettledLedger
<1> QED BY <1>4, <1>5 DEF Ending

(* A write of the dashboard over the rows it read. *)
LEMMA OperatorLedger ==
  ASSUME TypeInv, NEW e \in Events, LedgerAt(e), UNCHANGED <<run, mem, patch, posts, attempts>>,
         RowsOf(PostsOf(e), gist.ledger[e], gist'.ledger[e])
  PROVE  LedgerAt(e)'
<1>1. attempts \in Nat /\ PostsOf(e)' = PostsOf(e)
  BY PublicationAssumption DEF TypeInv, PubTypeOK, PostsOf
<1>2. ClaimedEvent' = ClaimedEvent /\ (ClaimPending(e)' <=> ClaimPending(e))
  BY DEF ClaimedEvent, ClaimPending
<1>3. /\ EventOK(gist.ledger[e], mem.ledger[e], PostsOf(e), attempts)
            => EventOK(gist'.ledger[e], mem.ledger[e], PostsOf(e), attempts)
      /\ PendingOK(gist.ledger[e], mem.ledger[e], PostsOf(e), attempts)
            => PendingOK(gist'.ledger[e], mem.ledger[e], PostsOf(e), attempts)
      /\ SendingOK(gist.ledger[e], mem.ledger[e], PostsOf(e), attempts)
            => SendingOK(gist'.ledger[e], mem.ledger[e], PostsOf(e), attempts)
  BY <1>1, OperatorOK
<1> QED BY <1>1, <1>2, <1>3 DEF LedgerAt

LEMMA DashboardLedger ==
  ASSUME TypeInv, LedgerInv, Dashboard
  PROVE  LedgerInv'
<1>1. UNCHANGED <<run, mem, patch, posts, attempts>>
  BY DashboardStep DEF TypeInv, OutsideDash, DashPatch, DashFail
<1>2. \A e : PostsOf(e)' = PostsOf(e)
  BY <1>1 DEF PostsOf
<1>3. CASE DashPatch
  <2>1. dash.on /\ ~dash'.on
    BY <1>3 DEF DashPatch, NoWrite
  <2>2. DashRows'
    BY <2>1 DEF DashRows
  <2>3. ASSUME NEW e \in Events \ erased' PROVE LedgerAt(e)'
    <3>1. Apply(dash) /\ e \in Events \ erased
      BY <1>3, <2>3 DEF DashPatch, Apply
    <3>2. gist.ledger[e] = dash.base.ledger[e] /\ gist'.ledger[e] = dash.doc.ledger[e]
      BY <2>3, <3>1, ReadWhole
    <3>3. LedgerAt(e) /\ RowsOf(PostsOf(e), gist.ledger[e], gist'.ledger[e])
      BY <2>1, <3>1, <3>2 DEF LedgerInv, DashRows
    <3> QED BY <1>1, <3>3, OperatorLedger
  <2> QED BY <2>2, <2>3 DEF LedgerInv
<1>4. CASE DashFail
  <2>1. gist' = gist /\ erased' = erased /\ dash' = NoWrite
    BY <1>4 DEF DashFail, OutsideDash, Unread
  <2>2. DashRows'
    BY <2>1 DEF DashRows, NoWrite
  <2>3. ASSUME NEW e \in Events \ erased' PROVE LedgerAt(e)'
    BY <1>1, <2>1, <2>3, OperatorLedger DEF LedgerInv, RowsOf
  <2> QED BY <2>2, <2>3 DEF LedgerInv
<1>5. CASE /\ \E doc, request : OperationOK(doc, request) /\ Submit(doc, request)
           /\ UNCHANGED OutsideDash /\ intents' \in Nat
  <2>1. PICK doc, request : OperationOK(doc, request) /\ Submit(doc, request)
    BY <1>5
  <2>2. \A e \in Events : RowsOf(PostsOf(e), gist.ledger[e], doc.ledger[e])
    BY <2>1 DEF OperationOK
  <2>3. erased' = erased
    BY <1>5 DEF OutsideDash, Unread
  <2>4. DashRows'
    BY <1>2, <2>1, <2>2 DEF Submit, DashRows, LedgerInv
  <2>5. ASSUME NEW e \in Events \ erased' PROVE LedgerAt(e)'
    <3>1. LedgerAt(e)
      BY <2>3, <2>5 DEF LedgerInv
    <3>2. RowsOf(PostsOf(e), gist.ledger[e], gist'.ledger[e])
      BY <2>1, <2>2 DEF Submit, RowsOf
    <3> QED BY <1>1, <3>1, <3>2, OperatorLedger
  <2> QED BY <2>4, <2>5 DEF LedgerInv
<1> QED BY <1>3, <1>4, <1>5, DashboardStep DEF TypeInv

(* What was replaced unread stays so marked. *)
UnreadGrows == (lost => lost') /\ erased \subseteq erased'

LEMMA LostKept == ASSUME UNCHANGED Unread \/ \E w : Apply(w) PROVE UnreadGrows
<1>1. CASE UNCHANGED Unread
  BY <1>1 DEF Unread, UnreadGrows
<1>2. CASE \E w : Apply(w)
  <2>1. PICK w : Apply(w)
    BY <1>2
  <2> QED BY <2>1 DEF Apply, UnreadGrows
<1> QED BY <1>1, <1>2

(* What no step of a bot run takes away. *)
LEMMA BotKeeps ==
  ASSUME TypeInv, Start \/ RunStep
  PROVE  dash' = dash /\ posts \subseteq posts' /\ UnreadGrows
<1>1. CASE Start
  BY <1>1, LostKept DEF Start, StartRun, Outside
<1>2. CASE WorkStep
  BY <1>2, WorkingEffect, LostKept DEF TypeInv, Outside
<1>3. CASE \E d \in Drafts : Claim(d)
  BY <1>3, LostKept DEF Claim, Outside
<1>4. CASE Merging \/ ToSend \/ Ending \/ \E phase \in {"unknown", "not_sent", "confirmed"} : BotAnswer(phase)
  <2>1. dash' = dash /\ posts \subseteq posts'
    BY <1>4 DEF Merging, ToSend, Ending, BotAnswer, Outside
  <2>2. UNCHANGED Unread \/ \E w : Apply(w)
    BY <1>4 DEF Merging, ToSend, Ending, BotAnswer, Written
  <2> QED BY <2>1, <2>2, LostKept
<1> QED BY <1>1, <1>2, <1>3, <1>4, RunCases

LEMMA LostStays ==
  ASSUME TypeInv, Next
  PROVE  UnreadGrows
<1>1. CASE Dashboard
  <2>1. UNCHANGED Unread \/ \E w : Apply(w)
    BY <1>1, DashboardStep DEF TypeInv, OutsideDash, DashPatch, DashFail
  <2> QED BY <2>1, LostKept
<1> QED BY <1>1, BotKeeps DEF Next

LEMMA LedgerStep ==
  ASSUME TypeInv, LedgerInv, [Next]_pubVars
  PROVE  LedgerInv'
<1>1. CASE UNCHANGED pubVars
  <2>1. \A e : PostsOf(e)' = PostsOf(e)
    BY <1>1 DEF PostsOf, pubVars
  <2>2. ClaimedEvent' = ClaimedEvent /\ (\A e : (ClaimPending(e)' <=> ClaimPending(e)))
    BY <1>1 DEF ClaimedEvent, ClaimPending, pubVars
  <2> QED BY <1>1, <2>1, <2>2 DEF pubVars, LedgerInv, DashRows, LedgerAt
<1>2. CASE Start \/ RunStep
  <2>1. dash' = dash /\ posts \subseteq posts' /\ erased \subseteq erased'
    BY <1>2, BotKeeps DEF UnreadGrows
  <2>2. DashRows'
    BY <2>1, RowsLater DEF LedgerInv
  <2>3. ASSUME NEW e \in Events \ erased' PROVE LedgerAt(e)'
    <3>1. LedgerAt(e) /\ e \in Events /\ e \notin erased'
      BY <2>1, <2>3 DEF LedgerInv
    <3> QED BY <1>2, <3>1, RunCases, StartLedger, WorkLedger, ClaimLedger, MergingLedger,
               ToSendLedger, AnswerLedger, EndingLedger
  <2> QED BY <2>2, <2>3 DEF LedgerInv
<1> QED BY <1>1, <1>2, DashboardLedger DEF Next

(* While nothing was overwritten unread the ledger of every event is sound. *)
LEMMA WholeLedger ==
  ASSUME TypeInv, LedgerInv, ~lost
  PROVE  LedgerOK
BY DEF TypeInv, PubTypeOK, UnreadOK, LedgerInv, LedgerOK

(* The two promises, read off the invariant. *)
LEMMA LedgerImplies ==
  ASSUME TypeInv, LedgerInv
  PROVE  AtMostOncePerEvent /\ EvidenceBeforeEgress
<1>1. \A e \in Events \ erased : EventOK(gist.ledger[e], {}, PostsOf(e), attempts)
  BY ReadOK DEF LedgerInv, LedgerAt, PendingOK
<1>2. ASSUME NEW p \in posts
      PROVE  p[1] \in Events /\ p[2] \in PostsOf(p[1]) /\ p = <<p[1], p[2]>>
  BY DEF TypeInv, PubTypeOK, PostsOf
<1>3. ASSUME NEW p \in posts, p[1] \notin erased
      PROVE  \E a \in gist.ledger[p[1]] : a.at = p[2] /\ Live(a)
  BY <1>1, <1>2, <1>3 DEF EventOK, LiveAt
<1>4. AtMostOncePerEvent
  <2> SUFFICES ASSUME NEW p \in posts, NEW q \in posts, p[1] = q[1], p[1] \notin erased PROVE p = q
    BY DEF AtMostOncePerEvent
  <2>1. OneLive(gist.ledger[p[1]])
    BY <1>1, <1>2 DEF EventOK
  <2>2. p[2] = q[2]
    BY <1>3, <2>1 DEF OneLive
  <2> QED BY <1>2, <2>2
<1>5. \A e \in Events \ erased : \A a \in gist.ledger[e] : Recorded(a, PostsOf(e), attempts) /\ a \in Attempt
  BY <1>1 DEF EventOK, Recorded, RowAt
<1>6. EvidenceBeforeEgress
  <2>1. ASSUME NEW p \in posts, p[1] \notin erased
        PROVE  \E a \in gist.ledger[p[1]] : a.at = p[2] /\ (a.tweet # NoTweet \/ Open(a))
    BY <1>3, <2>1 DEF Live, Open
  <2>2. ASSUME NEW e \in Events \ erased, NEW a \in gist.ledger[e], a.tweet # NoTweet
        PROVE  <<e, a.tweet>> \in posts
    <3>1. a.phase = "confirmed" /\ a.tweet = a.at /\ a.at \in PostsOf(e)
      BY <1>5, <2>2, RankOf DEF Recorded
    <3>2. PICK q \in posts : q[1] = e /\ q[2] = a.tweet
      BY <3>1 DEF PostsOf
    <3>3. q = <<e, a.tweet>>
      BY <1>2, <3>2
    <3> QED BY <3>3
  <2> QED BY <2>1, <2>2 DEF EvidenceBeforeEgress
<1> QED BY <1>4, <1>6

LEMMA LedgerHolds == Spec => [](TypeInv /\ LedgerInv)
BY TypeInit, LedgerInit, TypeStep, LedgerStep, PTL DEF Spec

(* AtMostOncePerEvent: unless a PATCH replaced attempts of this very event   *)
(* unread, it is published at most once, through crashes, failed writes,     *)
(* silent answers, operator decisions and whatever else of the document is   *)
(* overwritten, in any order (post_approved, write_state).                   *)
THEOREM PublishedAtMostOnce == Spec => []AtMostOncePerEvent
BY LedgerHolds, LedgerImplies, PTL

(* EvidenceBeforeEgress: each post X has is a receipt or an open attempt of  *)
(* the document, and no receipt is invented (the write-first order of        *)
(* post_approved), for each event none of whose attempts was replaced unread.*)
THEOREM EgressLeavesEvidence == Spec => []EvidenceBeforeEgress
BY LedgerHolds, LedgerImplies, PTL

-----------------------------------------------------------------------------
(*****************************************************************************)
(* Authority: the copy of a run never runs ahead of the document.            *)
(*****************************************************************************)

(* Copies of one authority are current together. *)
LEMMA SameIsCurrent ==
  ASSUME NEW x, NEW y, SameAuthority(x, y), NEW mode
  PROVE  ApprovalIsCurrent(x, mode) <=> ApprovalIsCurrent(y, mode)
BY DEF SameAuthority, ApprovalIsCurrent, ReviewIsCurrent, BindingMatches

(* A current copy is in no conflict and has a draft behind it. *)
LEMMA CurrentOK ==
  ASSUME NEW x, DraftOK(x), NEW mode \in Modes, ApprovalIsCurrent(x, mode)
  PROVE  ~x.conflict /\ x.status # "absent" /\ x.approval # NoApproval
<1>1. x.approval.mode # "none"
  BY DEF ApprovalIsCurrent, Modes
<1>2. x.approval # NoApproval
  BY <1>1 DEF NoApproval
<1> QED BY <1>2 DEF DraftOK, ApprovalIsCurrent, ReviewIsCurrent

(* The copies of one authority do not conflict. *)
LEMMA NoConflict ==
  ASSUME NEW x, NEW y, SameAuthority(x, y), ~y.conflict
  PROVE  ~PairConflict(x, y)
BY DEF SameAuthority, PairConflict, CopiesConflict, Identity

(* Merging a copy into the document's: what the merge makes current was     *)
(* current in the document's copy, and the copy still follows the merge.    *)
LEMMA MergeAuthority ==
  ASSUME NEW x, NEW y, DraftOK(x), DraftOK(y), Follows(x, y)
  PROVE  /\ Follows(MergeDraft(x, y), y)
         /\ \A mode \in Modes : ApprovalIsCurrent(MergeDraft(x, y), mode) =>
               LET z == MergeDraft(x, y)
               IN  \/ ApprovalIsCurrent(x, mode) /\ z.approval = x.approval
                   \/ z.dec > x.dec
<1> DEFINE z == MergeDraft(x, y)
           w == IF IncomingWins(x, y) THEN y ELSE x
<1>1. CASE x.status = "absent"
  <2>1. z = y
    BY <1>1, MergedDraft
  <2>2. y.status # "absent" => y.dec > x.dec
    BY <1>1 DEF DraftOK, Draft
  <2>3. Follows(z, y)
    BY <2>1 DEF Follows, SameAuthority
  <2>4. \A mode \in Modes : ApprovalIsCurrent(y, mode) => y.status # "absent"
    BY CurrentOK
  <2> QED BY <2>1, <2>2, <2>3, <2>4
<1>2. CASE x.status # "absent" /\ y.status = "absent"
  BY <1>2 DEF Follows
<1>3. CASE x.status # "absent" /\ y.status # "absent"
  <2>1. Copied(w, z, PairConflict(x, y))
    BY <1>3, MergedDraft
  <2>2. x.rev \in Nat /\ y.rev \in Nat /\ x.dec \in Nat /\ y.dec \in Nat /\ x.stamp \in Nat /\ y.stamp \in Nat
    BY DEF DraftOK, Draft
  <2>3. ASSUME NEW mode \in Modes, ApprovalIsCurrent(y, mode)
        PROVE  \/ w = x /\ x.dec > y.dec /\ x.rev >= y.rev
               \/ SameAuthority(x, y) /\ ~PairConflict(x, y)
    <3>1. CASE x.dec > y.dec /\ x.rev >= y.rev
      <4>1. ~IncomingWins(x, y)
        BY <2>2, <3>1 DEF IncomingWins
      <4> QED BY <3>1, <4>1
    <3>2. CASE SameAuthority(x, y)
      BY <2>3, <3>2, NoConflict, CurrentOK
    <3> QED BY <1>3, <2>3, <3>1, <3>2 DEF Follows
  <2> HIDE DEF z
  <2>4. ASSUME ~PairConflict(x, y) PROVE SameAuthority(z, w)
    BY <2>1, <2>4 DEF Copied, SameAuthority
  <2>5. Follows(z, y)
    <3> SUFFICES ASSUME NEW mode \in Modes, ApprovalIsCurrent(y, mode)
                 PROVE  (z.dec > y.dec /\ z.rev >= y.rev) \/ SameAuthority(z, y)
      BY <1>3 DEF Follows
    <3>1. CASE w = x /\ x.dec > y.dec /\ x.rev >= y.rev
      BY <2>1, <3>1 DEF Copied
    <3>2. CASE SameAuthority(x, y) /\ ~PairConflict(x, y)
      BY <2>4, <3>2 DEF SameAuthority
    <3> QED BY <2>3, <3>1, <3>2
  <2>6. ASSUME NEW mode \in Modes, ApprovalIsCurrent(z, mode)
        PROVE  ApprovalIsCurrent(x, mode) /\ z.approval = x.approval
    <3>1. z.approval.mode # "none"
      BY <2>6 DEF ApprovalIsCurrent, Modes
    <3>2. ~PairConflict(x, y)
      BY <2>1, <3>1 DEF Copied, NoApproval
    <3>3. SameAuthority(z, w)
      BY <2>4, <3>2
    <3>4. ApprovalIsCurrent(w, mode)
      BY <2>6, <3>3, SameIsCurrent
    <3>5. CASE w = x
      BY <3>3, <3>4, <3>5 DEF SameAuthority
    <3>6. CASE w = y
      <4>1. w = x \/ SameAuthority(x, y)
        BY <2>3, <3>4, <3>6
      <4>2. CASE SameAuthority(x, y)
        BY <3>3, <3>4, <3>6, <4>2, SameIsCurrent DEF SameAuthority
      <4> QED BY <3>5, <4>1, <4>2
    <3> QED BY <3>5, <3>6
  <2> QED BY <2>5, <2>6 DEF z
<1> QED BY <1>1, <1>2, <1>3

-----------------------------------------------------------------------------
(* What the run makes of its copy. *)
LEMMA CopyMoves ==
  ASSUME NEW x, NEW y, NEW z, DraftOK(y), Follows(x, y),
         z = y \/ Marked(y, z) \/ Revoked(y, z) \/ Created(y, z)
  PROVE  Follows(x, z)
<1>1. CASE z = y
  BY <1>1
<1>2. CASE Marked(y, z)
  <2>1. \A mode \in Modes : ApprovalIsCurrent(z, mode) => SameAuthority(y, z) /\ ApprovalIsCurrent(y, mode)
    BY <1>2, MarkedOK, SameIsCurrent
  <2> QED BY <1>2, <2>1 DEF Follows, SameAuthority, Marked
<1>3. CASE Revoked(y, z)
  <2>1. z.status # "absent"
    BY <1>3 DEF Revoked, After, DraftOK, Draft
  <2> QED BY <1>3, <2>1, RevokedOK DEF Follows
<1>4. CASE Created(y, z)
  BY <1>4 DEF Created, Follows
<1> QED BY <1>1, <1>2, <1>3, <1>4

(* A decision of the dashboard leaves the copies behind it behind. *)
LEMMA DashFollows ==
  ASSUME NEW base, NEW doc, NEW d, DraftOK(base.drafts[d]), DraftOK(doc.drafts[d]),
         DashDraft(base, doc, d), NEW y, DraftOK(y), Follows(base.drafts[d], y)
  PROVE  Follows(doc.drafts[d], y)
<1> DEFINE x == base.drafts[d]
           z == doc.drafts[d]
<1>1. CASE z = x
  BY <1>1
<1>2. CASE z.dec > x.dec /\ z.rev >= x.rev /\ x.status # "absent"
  <2>1. x.dec \in Nat /\ z.dec \in Nat /\ y.dec \in Nat /\ x.rev \in Nat /\ y.rev \in Nat /\ z.rev \in Nat
    BY DEF DraftOK, Draft
  <2>2. (x.dec > y.dec /\ x.rev >= y.rev) \/ SameAuthority(x, y) => z.dec > y.dec /\ z.rev >= y.rev
    BY <1>2, <2>1 DEF SameAuthority
  <2> QED BY <1>2, <2>2 DEF Follows
<1> QED BY <1>1, <1>2 DEF DashDraft

-----------------------------------------------------------------------------
(* A change of the shared document that revives no authority. *)
NoRevival(old, new) ==
    \A d \in Drafts, mode \in Modes : ApprovalIsCurrent(new[d], mode) =>
        \/ ApprovalIsCurrent(old[d], mode) /\ new[d].approval = old[d].approval
        \/ new[d].dec > old[d].dec

(* A merge that reached the document revives nothing there. *)
LEMMA WrittenAuthority ==
  ASSUME TypeInv, MemAuthority, Written, ~lost'
  PROVE  /\ \A d \in Drafts : Follows(gist'.drafts[d], mem.drafts[d])
         /\ NoRevival(gist.drafts, gist'.drafts)
<1>1. gist' = MergeDocument(gist, mem)
  BY DEF Written, Apply, TypeInv, PatchIsMerge
<1>2. run.pc # "idle"
  BY DEF Written, Patching
<1>3. \A d \in Drafts : /\ DraftOK(gist.drafts[d]) /\ DraftOK(mem.drafts[d])
                        /\ Follows(gist.drafts[d], mem.drafts[d])
                        /\ gist'.drafts[d] = MergeDraft(gist.drafts[d], mem.drafts[d])
  BY <1>1, <1>2 DEF TypeInv, PubTypeOK, DocAt, MemAuthority, MergeDocument
<1> QED BY <1>3, MergeAuthority DEF NoRevival

LEMMA SameRevivesNothing == ASSUME gist'.drafts = gist.drafts PROVE NoRevival(gist.drafts, gist'.drafts)
BY DEF NoRevival

LEMMA DashRevivesNothing ==
  ASSUME NEW base, NEW doc, \A d \in Drafts : DashDraft(base, doc, d)
  PROVE  NoRevival(base.drafts, doc.drafts)
BY DEF NoRevival, DashDraft

(* The document before and after a step of the bot, and the run's copy. *)
LEMMA BotAuthority ==
  ASSUME TypeInv, MemAuthority, run.pc # "idle", UNCHANGED <<gist, Unread>> \/ Written, ~lost'
  PROVE  /\ \A d \in Drafts : Follows(gist'.drafts[d], mem.drafts[d])
         /\ NoRevival(gist.drafts, gist'.drafts)
<1>1. CASE UNCHANGED <<gist, Unread>>
  BY <1>1, SameRevivesNothing DEF MemAuthority
<1> QED BY <1>1, WrittenAuthority

LEMMA StartAuthority ==
  ASSUME TypeInv, Start
  PROVE  MemAuthority' /\ gist' = gist
<1>1. PICK mode, rel, request :
         /\ mode \in {"manual", "auto", "alerts"} /\ rel \in Releases
         /\ mode = "manual" => request \in Requests
         /\ StartRun(mode, rel, request)
  BY DEF Start, TypeInv, PubTypeOK
<1>2. Drifted(gist.drafts, mem'.drafts) /\ gist' = gist
  BY <1>1, StartEffect DEF TypeInv, StartRun
<1>3. \A d \in Drafts : DraftOK(gist.drafts[d]) /\ Follows(gist.drafts[d], gist.drafts[d])
  BY DEF TypeInv, PubTypeOK, DocAt, Follows, SameAuthority
<1> QED BY <1>2, <1>3, CopyMoves DEF Drifted, MemAuthority

(* A step of the run that works on its copy. *)
LEMMA WorkedAuthority ==
  ASSUME TypeInv, Worked(mem.drafts, mem'.drafts),
         \A d \in Drafts : Follows(gist'.drafts[d], mem.drafts[d])
  PROVE  MemAuthority'
<1>1. \A d \in Drafts : DraftOK(mem.drafts[d])
  BY DEF TypeInv, PubTypeOK, DocAt
<1> QED BY <1>1, CopyMoves DEF Worked, MemAuthority

(* Every step but the document overwritten unread keeps the run's copy      *)
(* behind the document, and revives no authority there.                     *)
LEMMA MemAuthorityStep ==
  ASSUME TypeInv, MemAuthority, Next, ~lost', DashAuthority
  PROVE  MemAuthority' /\ NoRevival(gist.drafts, gist'.drafts)
<1>1. CASE Start
  BY <1>1, StartAuthority, SameRevivesNothing
<1>2. CASE WorkStep
  <2>1. WorkEffect /\ run.pc = "work" /\ gist' = gist
    BY <1>2, WorkingEffect DEF TypeInv
  <2> QED BY <2>1, WorkedAuthority, SameRevivesNothing DEF WorkEffect, MemAuthority
<1>3. CASE \E d \in Drafts : Claim(d)
  <2>1. PICK d \in Drafts : Claim(d)
    BY <1>3
  <2>2. ClaimEffect(d) /\ gist' = gist
    BY <2>1, Claimed DEF TypeInv, Claim
  <2>3. Worked(mem.drafts, mem'.drafts)
    BY <2>2 DEF ClaimEffect, Worked
  <2> QED BY <2>2, <2>3, WorkedAuthority, SameRevivesNothing DEF ClaimEffect, MemAuthority
<1>4. CASE Merging
  <2>1. run.pc # "idle" /\ gist' = gist /\ mem' = mem
    BY <1>4 DEF Merging
  <2> QED BY <2>1, SameRevivesNothing DEF MemAuthority
<1>5. CASE ToSend
  <2>1. Written /\ run.pc # "idle" /\ mem' = mem
    BY <1>5 DEF ToSend, Written, Patching
  <2> QED BY <2>1, BotAuthority DEF MemAuthority
<1>6. ASSUME NEW phase \in {"unknown", "not_sent", "confirmed"}, BotAnswer(phase)
      PROVE  MemAuthority' /\ NoRevival(gist.drafts, gist'.drafts)
  <2>1. run.pc # "idle" /\ Worked(mem.drafts, mem'.drafts) /\ (UNCHANGED <<gist, Unread>> \/ Written)
    BY <1>6 DEF BotAnswer, AnswerEffect, Claiming
  <2> QED BY <2>1, BotAuthority, WorkedAuthority
<1>7. CASE Ending
  <2>1. /\ run.pc # "idle" /\ (UNCHANGED <<gist, Unread>> \/ Written)
        /\ run'.pc = "idle" \/ mem' = mem
    BY <1>7 DEF Ending, IdleRun
  <2> QED BY <2>1, BotAuthority DEF MemAuthority
<1>8. CASE Dashboard
  <2>1. UNCHANGED <<run, mem>>
    BY <1>8, DashboardStep DEF TypeInv, OutsideDash, DashPatch, DashFail
  <2>2. ASSUME NEW doc, gist' = doc, \A d \in Drafts : DashDraft(gist, doc, d) /\ DraftOK(doc.drafts[d])
        PROVE  MemAuthority' /\ NoRevival(gist.drafts, gist'.drafts)
    <3>1. \A d \in Drafts : DraftOK(gist.drafts[d]) /\ DraftOK(mem.drafts[d])
      BY DEF TypeInv, PubTypeOK, DocAt
    <3>2. \A d \in Drafts : Follows(gist.drafts[d], mem.drafts[d]) => Follows(doc.drafts[d], mem.drafts[d])
      BY <2>2, <3>1, DashFollows
    <3> QED BY <2>1, <2>2, <3>2, DashRevivesNothing DEF MemAuthority
  <2>3. CASE gist' = gist
    BY <2>1, <2>3, SameRevivesNothing DEF MemAuthority
  <2>4. CASE DashPatch
    <3>1. gist = dash.base /\ gist' = dash.doc /\ dash.on
      BY <2>4 DEF DashPatch, Apply
    <3>2. \A d \in Drafts : DashDraft(gist, dash.doc, d) /\ DraftOK(dash.doc.drafts[d])
      BY <3>1 DEF DashAuthority, TypeInv, PubTypeOK, WriteAt, NoWrite, DocAt
    <3> QED BY <2>2, <3>1, <3>2
  <2>5. CASE DashFail
    BY <2>3, <2>5 DEF DashFail
  <2>6. CASE \E doc, request : OperationOK(doc, request) /\ Submit(doc, request)
    <3>1. PICK doc, request : OperationOK(doc, request) /\ Submit(doc, request)
      BY <2>6
    <3>2. \A d \in Drafts : DashDraft(gist, doc, d) /\ DraftOK(doc.drafts[d])
      BY <3>1 DEF OperationOK, DocAt
    <3> QED BY <2>2, <2>3, <3>1, <3>2 DEF Submit
  <2> QED BY <1>8, <2>4, <2>5, <2>6, DashboardStep DEF TypeInv
<1> QED BY <1>1, <1>2, <1>3, <1>4, <1>5, <1>6, <1>7, <1>8, RunCases DEF Next

LEMMA DashAuthorityStep ==
  ASSUME TypeInv, DashAuthority, [Next]_pubVars
  PROVE  DashAuthority'
<1>1. CASE dash' = dash
  BY <1>1 DEF DashAuthority
<1>2. CASE Start
  BY <1>1, <1>2 DEF Start, StartRun, Outside
<1>3. CASE RunStep
  BY <1>1, <1>3, BotKeeps
<1>4. CASE Dashboard
  <2>1. CASE DashPatch \/ DashFail
    BY <2>1 DEF DashPatch, DashFail, NoWrite, DashAuthority
  <2>2. CASE \E doc, request : OperationOK(doc, request) /\ Submit(doc, request)
    <3>1. PICK doc, request : OperationOK(doc, request) /\ Submit(doc, request)
      BY <2>2
    <3>2. CASE Serialized
      BY <1>1, <3>1, <3>2 DEF Submit
    <3>3. CASE ~Serialized
      <4>1. dash' = [on |-> TRUE, base |-> gist, doc |-> doc, request |-> request]
        BY <3>1, <3>3 DEF Submit
      <4> QED BY <3>1, <4>1 DEF DashAuthority, OperationOK
    <3> QED BY <3>2, <3>3
  <2> QED BY <1>4, <2>1, <2>2, DashboardStep DEF TypeInv
<1> QED BY <1>1, <1>2, <1>3, <1>4 DEF Next, pubVars

-----------------------------------------------------------------------------
(*****************************************************************************)
(* Authority when the platform call is made.                                 *)
(*****************************************************************************)

(* A claim is made under an approval current in the copy. *)
LEMMA ClaimedAuthority ==
  ASSUME TypeInv, NEW d \in Drafts, Claim(d)
  PROVE  ClaimAuthority'
<1> DEFINE x == mem.drafts[d]
           own == mem'.drafts[d]
<1>1. ClaimEffect(d) /\ DraftOK(x)
  BY Claimed DEF TypeInv, PubTypeOK, DocAt
<1>2. /\ run'.pc = "claim" /\ run'.draft = d /\ run'.mode = run.mode /\ run'.want = x
      /\ run.mode \in Modes
  BY <1>1 DEF ClaimEffect, Modes
<1>3. ApprovalIsCurrent(x, run.mode)
  BY <1>1 DEF ClaimEffect, PostGuard
<1>4. SameAuthority(x, own) /\ own.stamp > x.stamp
  BY <1>1 DEF ClaimEffect, Marked, SameAuthority
<1>5. run.mode = "auto" => x.approval.epoch \notin mem'.retired
  BY <1>1 DEF ClaimEffect, PostGuard, AutomaticAllowed, Enabled
<1>6. \A r \in Entry(mem', d) : Identity(r) = Identity(own)
  BY <1>1, <1>4 DEF ClaimEffect, Entry, SameAuthority, Identity
<1> HIDE DEF x, own
<1>7. ApprovalIsCurrent(run'.want, run'.mode) /\ SameAuthority(run'.want, mem'.drafts[run'.draft])
  BY <1>2, <1>3, <1>4 DEF own
<1>8. /\ mem'.drafts[run'.draft].stamp > run'.want.stamp
      /\ \A r \in Entry(mem, run.draft)' : Identity(r) = Identity(mem'.drafts[run'.draft])
      /\ run'.mode = "auto" => run'.want.approval.epoch \notin mem'.retired
  BY <1>2, <1>4, <1>5, <1>6 DEF own, Entry
<1> QED BY <1>2, <1>7, <1>8 DEF ClaimAuthority

LEMMA ClaimAuthorityStep ==
  ASSUME TypeInv, ClaimAuthority, [Next]_pubVars
  PROVE  ClaimAuthority'
<1>1. CASE UNCHANGED <<run, mem, patch>>
  BY <1>1 DEF ClaimAuthority, Entry
<1>2. CASE run'.pc \notin Claiming
  BY <1>2 DEF ClaimAuthority
<1>3. CASE Start
  BY <1>2, <1>3, StartEffect DEF Start, StartRun, Claiming
<1>4. CASE WorkStep
  BY <1>2, <1>4, WorkingEffect DEF TypeInv, WorkEffect, Claiming
<1>5. CASE \E d \in Drafts : Claim(d)
  BY <1>5, ClaimedAuthority
<1>6. CASE Merging
  <2>1. CASE run.pc = "claim" /\ run' = [run EXCEPT !.pc = "claimPatch"] /\ ExpectedDraftMatches(gist)
    <3>1. ClaimOK /\ run.pc \in Claiming
      BY <2>1 DEF TypeInv, PubTypeOK, RunOK, Claiming, IdleRun
    <3>2. /\ run'.pc = "claimPatch" /\ run'.draft = run.draft /\ run'.mode = run.mode
          /\ run'.want = run.want
      BY <2>1, <3>1 DEF ClaimOK
    <3>3. patch'.base = gist /\ mem' = mem
      BY <1>6 DEF Merging
    <3>4. gist.drafts[run.draft] = run.want /\ (run.mode = "auto" => run.want.approval.epoch \notin gist.retired)
      BY <2>1, <3>1 DEF ExpectedDraftMatches, ClaimAuthority, ApprovalIsCurrent, AutomaticAllowed, Enabled
    <3> QED BY <3>1, <3>2, <3>3, <3>4 DEF ClaimAuthority, Entry
  <2>2. CASE run.pc = "save" /\ run' = [run EXCEPT !.pc = "savePatch"]
    <3>1. run'.pc = "savePatch"
      BY <2>2 DEF TypeInv, PubTypeOK, RunOK, Claiming, IdleRun
    <3> QED BY <1>2, <3>1 DEF Claiming
  <2> QED BY <1>6, <2>1, <2>2 DEF Merging
<1>7. CASE ToSend
  <2>1. ClaimOK /\ run.pc \in Claiming
    BY <1>7 DEF ToSend, TypeInv, PubTypeOK, RunOK, Claiming, IdleRun
  <2>2. /\ run'.pc = "send" /\ run'.draft = run.draft /\ run'.mode = run.mode
        /\ run'.want = run.want /\ mem' = mem
    BY <1>7, <2>1 DEF ToSend, ClaimOK
  <2> QED BY <2>1, <2>2 DEF ClaimAuthority, Entry
<1>8. CASE \E phase \in {"unknown", "not_sent", "confirmed"} : BotAnswer(phase)
  BY <1>2, <1>8 DEF BotAnswer, AnswerEffect, Claiming
<1>9. CASE Ending
  BY <1>2, <1>9 DEF Ending, IdleRun, Saving, Claiming
<1>10. CASE Dashboard
  BY <1>1, <1>10, DashboardStep DEF TypeInv, OutsideDash, DashPatch, DashFail
<1>11. CASE UNCHANGED pubVars
  BY <1>1, <1>11 DEF pubVars
<1> QED BY <1>3, <1>4, <1>5, <1>6, <1>7, <1>8, <1>9, <1>10, <1>11, RunCases DEF Next

-----------------------------------------------------------------------------
(* The claim written over the very document it was checked against is       *)
(* authorized there.                                                        *)
LEMMA SentWithAuthority ==
  ASSUME TypeInv, LedgerOK, ClaimAuthority, ToSend, ~lost'
  PROVE  AuthorityAtSend'
<1> DEFINE d == run.draft
           x == run.want
           own == mem.drafts[d]
           new == gist'.drafts[d]
           c == EventOf[d]
<1>1. ClaimOK /\ run.pc = "claimPatch" /\ run.pc \in Claiming /\ d \in Drafts /\ c \in Events
      /\ run.mode \in Modes
  BY PublicationAssumption DEF ToSend, TypeInv, PubTypeOK, RunOK, Claiming, IdleRun, ClaimOK, Modes
<1>2. /\ run'.pc = "send" /\ run'.draft = d /\ run'.mode = run.mode /\ run'.want = x /\ mem' = mem
  BY <1>1 DEF ToSend, ClaimOK
<1>3. gist = patch.base /\ gist' = MergeDocument(gist, mem) /\ gist.drafts[d] = x
  BY <1>1 DEF ToSend, Apply, TypeInv, PatchIsMerge, Patching, ClaimAuthority
<1>4. DraftOK(x) /\ DraftOK(own) /\ new = MergeDraft(x, own)
  BY <1>1, <1>3 DEF TypeInv, PubTypeOK, DocAt, MergeDocument
<1>5. /\ SameAuthority(x, own) /\ own.stamp > x.stamp /\ ApprovalIsCurrent(x, run.mode)
      /\ ApprovalIsCurrent(own, run.mode)
      /\ \A r \in mem.ledger[c] : Identity(r) = Identity(own)
      /\ run.mode = "auto" => x.approval.epoch \notin mem.retired /\ x.approval.epoch \notin gist.retired
  BY <1>1, <1>3, SameIsCurrent DEF ClaimAuthority, Entry
<1>6. ~own.conflict /\ x.status # "absent" /\ own.status # "absent"
  BY <1>1, <1>4, <1>5, CurrentOK
<1> HIDE DEF x, own, new
<1>7. IncomingWins(x, own) /\ ~PairConflict(x, own)
  BY <1>5, <1>6, NoConflict DEF IncomingWins, SameAuthority
<1>8. SameAuthority(new, own)
  <2>1. Copied(own, new, PairConflict(x, own))
    BY <1>4, <1>6, <1>7, MergedDraft
  <2> QED BY <1>7, <2>1 DEF Copied, SameAuthority
<1>9. ApprovalIsCurrent(new, run.mode) /\ new.approval = x.approval /\ Identity(new) = Identity(own)
  BY <1>5, <1>8, SameIsCurrent DEF SameAuthority, Identity
<1>10. \E a \in gist'.ledger[c] : Open(a) /\ Identity(a) = Identity(own)
  <2> DEFINE G == gist.ledger[c]
             M == mem.ledger[c]
  <2>1. PendingOK(G, M, PostsOf(c), attempts)
    BY <1>1 DEF LedgerOK, LedgerAt, ClaimPending, ClaimedEvent
  <2>2. gist'.ledger[c] = MergeAttempts(G, M)
    BY <1>1, <1>3 DEF MergeDocument
  <2>3. G \in SUBSET Attempt /\ M \in SUBSET Attempt
    BY <1>1 DEF TypeInv, PubTypeOK, DocAt, RowAt
  <2>4. PICK r \in M : M = {r} /\ ClaimRow(r, attempts)
    BY <2>1 DEF PendingOK
  <2>5. Identity(r) = Identity(own)
    BY <1>5, <2>4
  <2> HIDE DEF G, M
  <2>6. PICK y \in G \cup M : \E b \in MergeAttempts(G, M) :
             /\ SameAttempt(r, y) /\ SameAttempt(y, b) /\ b.phase = y.phase /\ b.tweet = y.tweet
             /\ AttemptRank(y) >= AttemptRank(r) /\ b.at = r.at
             /\ ~Outranked(y, G \cup M)
    BY <2>3, <2>4, KeptAt
  <2>7. y = r
    BY <2>1, <2>4, <2>6, SameAt DEF PendingOK, ClaimRow
  <2>8. PICK b \in MergeAttempts(G, M) : SameAttempt(r, b) /\ b.phase = r.phase /\ b.tweet = r.tweet
    BY <2>6, <2>7
  <2>9. Open(b)
    <3>1. r.phase = "submitted" /\ r \in Attempt
      BY <2>4 DEF ClaimRow, RowAt
    <3> QED BY <2>8, <3>1 DEF Open, Attempt, ReceiptIsConfirmed
  <2>10. Identity(b) = Identity(r)
    BY <2>8 DEF Identity, SameAttempt, AttemptKey
  <2> QED BY <2>2, <2>5, <2>8, <2>9, <2>10
<1>11. run.mode = "auto" => new.approval.epoch \notin gist'.retired
  BY <1>3, <1>5, <1>9 DEF MergeDocument, MergeRetired
<1>12. /\ ApprovalIsCurrent(gist'.drafts[run'.draft], run'.mode)
       /\ gist'.drafts[run'.draft].approval = run'.want.approval
       /\ \E a \in Entry(gist, run.draft)' : Open(a) /\ Identity(a) = Identity(gist'.drafts[run'.draft])
       /\ run'.mode = "auto" => gist'.drafts[run'.draft].approval.epoch \notin gist'.retired
  BY <1>2, <1>9, <1>10, <1>11 DEF Entry, new
<1> QED BY <1>12 DEF AuthorityAtSend

(* While the platform call is out, a write of the dashboard takes the       *)
(* authority back only together with a cancellation of the very attempt.    *)
LEMMA SendingWrite ==
  ASSUME TypeInv, LedgerOK, AuthorityAtSend, run.pc = "send", ~lost,
         NEW doc, DocAt(doc, attempts), doc.retired = gist.retired,
         \A d \in Drafts : DashDraft(gist, doc, d),
         \A e \in Events : RowsOf(PostsOf(e), gist.ledger[e], doc.ledger[e]),
         gist' = doc, UNCHANGED <<run, mem>>
  PROVE  AuthorityAtSend'
<1> DEFINE d == run.draft
           c == ClaimedEvent
           A == gist.ledger[c]
           B == doc.ledger[c]
<1>1. ClaimOK /\ d \in Drafts /\ c \in Events /\ mem.drafts[d].attemptAt = attempts /\ Entry(gist, d) = A
      /\ Entry(doc, d) = B
  BY ClaimState DEF TypeInv, Claiming, ClaimedEvent, Entry
<1>2. RowsOf(PostsOf(c), A, B) /\ DashDraft(gist, doc, d)
  BY <1>1
<1>3. /\ attempts \notin PostsOf(c)
      /\ \E a \in A : a.at = attempts /\ Open(a)
      /\ OneRow(A)
  BY <1>1 DEF LedgerOK, LedgerAt, Claiming, SendingOK, EventOK
<1>4. PICK o \in A : o.at = attempts /\ Open(o)
  BY <1>3
<1>5. Unresolved(gist, d)
  BY <1>1, <1>4 DEF Unresolved, HasUnresolvedPublish, UnresolvedAttempt, Open
<1>6. \A a \in A : a \in Attempt
  BY <1>1 DEF TypeInv, PubTypeOK, DocAt, RowAt
<1>7. B = A \/ \E a \in A : /\ A = {a} /\ a = o
                            /\ B = {[a EXCEPT !.cancelled = TRUE]}
  <2>1. CASE B = A
    BY <2>1
  <2>2. CASE \E a \in A : A = {a} /\ B = {[a EXCEPT !.cancelled = TRUE]}
    BY <1>4, <2>2
  <2>3. CASE \E a \in A : A = {a} /\ Live(a) /\ a.at \in PostsOf(c)
    BY <1>3, <1>4, <2>3
  <2> HIDE DEF A, B
  <2> QED BY <1>2, <2>1, <2>2, <2>3 DEF RowsOf
<1>8. ASSUME \E a \in B : a.at = attempts /\ a.cancelled PROVE AuthorityAtSend'
  <2>1. \E a \in Entry(gist, run.draft)' : a.at = mem'.drafts[run'.draft].attemptAt /\ a.cancelled
    BY <1>1, <1>8 DEF Entry
  <2> QED BY <2>1 DEF AuthorityAtSend
<1>9. CASE \E a \in A : A = {a} /\ a = o /\ B = {[a EXCEPT !.cancelled = TRUE]}
  <2>1. B = {[o EXCEPT !.cancelled = TRUE]} /\ o \in Attempt
    BY <1>6, <1>9
  <2>2. [o EXCEPT !.cancelled = TRUE].at = attempts /\ [o EXCEPT !.cancelled = TRUE].cancelled
    BY <1>4, <2>1 DEF Attempt
  <2> QED BY <1>8, <2>1, <2>2
<1>10. CASE B = A
  <2>1. CASE doc.drafts[d] = gist.drafts[d]
    <3>1. Entry(gist, run.draft)' = Entry(gist, run.draft) /\ gist'.drafts[run'.draft] = gist.drafts[run.draft]
          /\ gist'.retired = gist.retired
      BY <1>1, <1>10, <2>1 DEF Entry
    <3> QED BY <3>1 DEF AuthorityAtSend
  <2>2. CASE doc.drafts[d] # gist.drafts[d]
    <3>1. PICK a \in A : B = {[a EXCEPT !.cancelled = TRUE]}
      BY <1>1, <1>2, <1>5, <2>2 DEF DashDraft
    <3>2. o = [a EXCEPT !.cancelled = TRUE] /\ a \in Attempt
      BY <1>6, <1>10, <3>1
    <3>3. o.cancelled
      BY <3>2 DEF Attempt
    <3> QED BY <1>4, <1>8, <1>10, <3>3
  <2> QED BY <2>1, <2>2
<1> QED BY <1>7, <1>9, <1>10

LEMMA AuthorityStep ==
  ASSUME TypeInv, LedgerInv, ClaimAuthority, DashAuthority, AuthorityAtSend, [Next]_pubVars
  PROVE  AuthorityAtSend'
<1> SUFFICES ASSUME ~lost' PROVE AuthorityAtSend'
  BY DEF AuthorityAtSend
<1>1. CASE run'.pc # "send"
  BY <1>1 DEF AuthorityAtSend
<1>2. CASE Start
  BY <1>1, <1>2, StartEffect DEF Start, StartRun
<1>3. CASE WorkStep
  BY <1>1, <1>3, WorkingEffect DEF TypeInv, WorkEffect
<1>4. CASE \E d \in Drafts : Claim(d)
  BY <1>1, <1>4, Claimed DEF TypeInv, ClaimEffect
<1>5. CASE Merging
  <2>1. run'.pc \in Patching
    BY <1>5 DEF Merging, TypeInv, PubTypeOK, RunOK, ClaimOK, Patching, Claiming, IdleRun
  <2> QED BY <1>1, <2>1 DEF Patching
<1>6. CASE ToSend
  <2>1. ~lost
    BY <1>6 DEF ToSend, Apply
  <2> QED BY <1>6, <2>1, SentWithAuthority, WholeLedger
<1>7. CASE \E phase \in {"unknown", "not_sent", "confirmed"} : BotAnswer(phase)
  BY <1>1, <1>7 DEF BotAnswer, AnswerEffect
<1>8. CASE Ending
  BY <1>1, <1>8 DEF Ending, IdleRun, Saving
<1>9. CASE UNCHANGED <<gist, run, mem, lost>>
  BY <1>9 DEF AuthorityAtSend, Entry
<1>10. CASE Dashboard
  <2>1. UNCHANGED <<run, mem>>
    BY <1>10, DashboardStep DEF TypeInv, OutsideDash, DashPatch, DashFail
  <2>2. CASE DashPatch
    <3>1. ~lost /\ gist = dash.base /\ gist' = dash.doc /\ dash.on
      BY <2>2 DEF DashPatch, Apply
    <3>2. /\ LedgerOK /\ \A e \in Events : RowsOf(PostsOf(e), gist.ledger[e], dash.doc.ledger[e])
      BY <3>1, WholeLedger DEF LedgerInv, DashRows
    <3>3. DocAt(dash.doc, attempts)
      BY <3>1 DEF TypeInv, PubTypeOK, WriteAt, NoWrite
    <3>4. dash.doc.retired = gist.retired /\ \A d \in Drafts : DashDraft(gist, dash.doc, d)
      BY <3>1 DEF DashAuthority
    <3> QED BY <1>1, <2>1, <3>1, <3>2, <3>3, <3>4, SendingWrite
  <2>3. CASE DashFail
    BY <1>9, <2>3 DEF DashFail, OutsideDash, Unread
  <2>4. CASE /\ \E doc, request : OperationOK(doc, request) /\ Submit(doc, request)
             /\ UNCHANGED OutsideDash
    <3>1. PICK doc, request : OperationOK(doc, request) /\ Submit(doc, request)
      BY <2>4
    <3>2. CASE gist' = gist
      BY <1>9, <2>4, <3>2 DEF OutsideDash, Unread
    <3>3. CASE gist' = doc
      <4>1. ~lost /\ LedgerOK
        BY <2>4, WholeLedger DEF OutsideDash, Unread
      <4> QED BY <1>1, <2>1, <3>1, <3>3, <4>1, SendingWrite DEF OperationOK
    <3> QED BY <3>1, <3>2, <3>3 DEF Submit
  <2> QED BY <1>10, <2>2, <2>3, <2>4, DashboardStep DEF TypeInv
<1>11. CASE UNCHANGED pubVars
  BY <1>9, <1>11 DEF pubVars
<1> QED BY <1>2, <1>3, <1>4, <1>5, <1>6, <1>7, <1>8, <1>10, <1>11, RunCases DEF Next

LEMMA AuthorityInit == Init => ClaimAuthority /\ DashAuthority /\ AuthorityAtSend /\ MemAuthority
BY DEF Init, IdleRun, NoWrite, ClaimAuthority, DashAuthority, AuthorityAtSend, MemAuthority, Claiming

(* What a step may make current in the shared document. *)
LEMMA RevivalStep ==
  ASSUME TypeInv, DashAuthority, lost \/ MemAuthority, [Next]_pubVars
  PROVE  /\ lost' \/ MemAuthority'
         /\ lost' \/ NoRevival(gist.drafts, gist'.drafts)
<1> SUFFICES ASSUME ~lost' PROVE MemAuthority' /\ NoRevival(gist.drafts, gist'.drafts)
  OBVIOUS
<1>1. CASE UNCHANGED pubVars
  BY <1>1, SameRevivesNothing DEF pubVars, MemAuthority
<1>2. CASE Next
  <2>1. ~lost
    BY <1>2, LostStays DEF UnreadGrows
  <2> QED BY <1>2, <2>1, MemAuthorityStep
<1> QED BY <1>1, <1>2

(* The invariant of authority when the platform call is made. *)
AuthoritySafe == TypeInv /\ LedgerInv /\ ClaimAuthority /\ DashAuthority /\ AuthorityAtSend

LEMMA AuthorityHolds == Spec => [](AuthoritySafe /\ (lost \/ MemAuthority))
<1>1. Init => AuthoritySafe /\ (lost \/ MemAuthority)
  BY TypeInit, LedgerInit, AuthorityInit DEF AuthoritySafe
<1>2. AuthoritySafe /\ (lost \/ MemAuthority) /\ [Next]_pubVars => (AuthoritySafe /\ (lost \/ MemAuthority))'
  BY TypeStep, LedgerStep, ClaimAuthorityStep, DashAuthorityStep, AuthorityStep, RevivalStep DEF AuthoritySafe
<1> QED BY <1>1, <1>2, PTL DEF Spec

(* AuthorityAtSend: when the platform call is made the document still        *)
(* authorizes exactly this content by the approval the run relied on, and    *)
(* an automatic one under an epoch not retired (_expected_draft_matches).    *)
THEOREM AuthorizedWhenSent == Spec => []AuthorityAtSend
BY AuthorityHolds, PTL DEF AuthoritySafe

(* AuthorityOnlyByNewDecision: no write, merge or stale copy brings back an  *)
(* approval that was revoked (the draft merge of src/state.py).              *)
THEOREM NoAuthorityRevived == Spec => AuthorityOnlyByNewDecision
<1> DEFINE A == \A d \in Drafts, mode \in {"manual", "auto"} :
          LET old == gist.drafts[d]
              new == gist'.drafts[d]
          IN  ApprovalIsCurrent(new, mode) =>
                  \/ lost'
                  \/ ApprovalIsCurrent(old, mode) /\ new.approval = old.approval
                  \/ new.dec > old.dec
<1>1. AuthoritySafe /\ (lost \/ MemAuthority) /\ [Next]_pubVars => A
  BY RevivalStep DEF AuthoritySafe, NoRevival, Modes
<1> HIDE DEF A
<1>2. Spec => [][A]_pubVars
  BY <1>1, AuthorityHolds, PTL DEF Spec
<1> QED BY <1>2 DEF A, AuthorityOnlyByNewDecision

-----------------------------------------------------------------------------
(*****************************************************************************)
(* The serialized route: what a GET returned is still the document when the  *)
(* PATCH arrives, because operations are submitted between bot runs.         *)
(*****************************************************************************)

(* No dashboard PATCH is ever under way, and what a bot's GET returned is   *)
(* still the document when its PATCH arrives.                              *)
RouteInv ==
    /\ lost = FALSE
    /\ ~dash.on
    /\ "pc" \in DOMAIN run
    /\ run.pc \in Patching => patch.base = gist

LEMMA RouteInit == Init => RouteInv
BY DEF Init, RouteInv, NoWrite, IdleRun, Patching

(* A run that goes on to anything but a PATCH, over an unchanged document. *)
LEMMA Onward ==
    ASSUME RouteInv, lost' = lost, dash' = dash,
           "pc" \in DOMAIN run', run'.pc \notin Patching
    PROVE  RouteInv'
BY DEF RouteInv

LEMMA FinishOnward ==
    ASSUME NEW m, NEW result, Finish(m, result)
    PROVE  "pc" \in DOMAIN run' /\ run'.pc \notin Patching
BY DEF Finish, GoSave, Saving, Patching

(* The operations of the dashboard, which wait for the bot to be idle. *)
LEMMA SubmitKeepsRoute ==
    ASSUME Serialized, RouteInv, NEW doc, NEW request, Submit(doc, request),
           UNCHANGED <<run, patch, lost>>
    PROVE  RouteInv'
BY DEF Submit, RouteInv, Patching

LEMMA DashboardKeepsRoute ==
    ASSUME Serialized, RouteInv, Dashboard
    PROVE  RouteInv'
<1> USE DEF OutsideDash, Unread
<1>1. ASSUME NEW d \in Drafts, NEW text \in Texts, Edit(d, text) PROVE RouteInv'
  BY <1>1, SubmitKeepsRoute DEF Edit, SubmitDraft
<1>2. ASSUME NEW d \in Drafts,
             ReviewDraft(d) \/ Approve(d) \/ AutoApprove(d) \/ Reject(d) \/ CancelAutoApprove(d)
      PROVE  RouteInv'
  BY <1>2, SubmitKeepsRoute
     DEF ReviewDraft, Approve, AutoApprove, Reject, CancelAutoApprove, SubmitDraft
<1>3. ASSUME NEW d \in Drafts, NEW a \in gist.ledger[EventOf[d]],
             ReconcileConfirm(EventOf[d], a, d) \/ ReconcileCancel(EventOf[d], a, d)
      PROVE  RouteInv'
  BY <1>3, SubmitKeepsRoute DEF ReconcileConfirm, ReconcileCancel
<1>4. ~(DashPatch \/ DashFail)
  BY DEF DashPatch, DashFail, RouteInv
<1> QED BY <1>1, <1>2, <1>3, <1>4 DEF Dashboard

LEMMA RunStepKeepsRoute ==
    ASSUME RouteInv, RunStep
    PROVE  RouteInv'
<1> USE DEF Outside, Unread
<1>1. ASSUME NEW d \in Drafts, NEW text \in Texts, NEW modelReview \in BOOLEAN,
             SaveDraft(d, text, modelReview)
      PROVE  RouteInv'
  BY <1>1 DEF SaveDraft, RouteInv
<1>2. CASE FinishWork \/ ManualSkip \/ ManualHold \/ ManualRefused
  BY <1>2, Onward DEF FinishWork, ManualSkip, ManualHold, ManualRefused, GoSave, Saving, Patching
<1>3. ASSUME NEW d \in Drafts, AutoHold(d) PROVE RouteInv'
  BY <1>3 DEF AutoHold, Working, RouteInv, Patching
<1>4. ASSUME NEW d \in Drafts, Claim(d) PROVE RouteInv'
  BY <1>4, Onward DEF Claim, Patching
<1>5. CASE ClaimGet
  <2>1. CASE NotPersisted
    BY <1>5, <2>1, FinishOnward, Onward DEF NotPersisted, ClaimGet
  <2>2. CASE patch' = [on |-> TRUE, base |-> gist, doc |-> MergeDocument(gist, mem)]
             /\ run' = [run EXCEPT !.pc = "claimPatch"]
    BY <1>5, <2>2 DEF ClaimGet, RouteInv
  <2> QED BY <1>5, <2>1, <2>2 DEF ClaimGet
<1>6. CASE ClaimPatch
  <2>1. run.pc \in Patching /\ patch.base = gist
    BY <1>6 DEF ClaimPatch, RouteInv, Patching
  <2>2. lost' = lost /\ dash' = dash
    BY <1>6, <2>1 DEF ClaimPatch, Apply, RouteInv
  <2>3. "pc" \in DOMAIN run' /\ run'.pc \notin Patching
    <3>1. CASE NotPersisted
      BY <3>1, FinishOnward DEF NotPersisted
    <3>2. CASE run' = [run EXCEPT !.pc = "send"]
      BY <3>2 DEF RouteInv, Patching
    <3> QED BY <1>6, <3>1, <3>2 DEF ClaimPatch
  <2> QED BY <2>2, <2>3, Onward
<1>7. CASE HoldBeforeTransport \/ SendSilent \/ SendConfirmed \/ SendRefused
  <2>1. lost' = lost /\ dash' = dash
    BY <1>7 DEF HoldBeforeTransport, SendSilent, SendConfirmed, SendRefused
  <2>2. \E m, result : Finish(m, result)
    BY <1>7 DEF HoldBeforeTransport, SendSilent, SendConfirmed, SendRefused
  <2> QED BY <2>1, <2>2, FinishOnward, Onward
<1>8. CASE SaveGet
  <2>1. CASE patch' = [on |-> TRUE, base |-> gist, doc |-> MergeDocument(gist, mem)]
             /\ run' = [run EXCEPT !.pc = "savePatch"]
    BY <1>8, <2>1 DEF SaveGet, RouteInv
  <2>2. CASE SaveFailed
    BY <1>8, <2>2, Onward DEF SaveGet, SaveFailed, Saving, EndRun, IdleRun, Patching
  <2> QED BY <1>8, <2>1, <2>2 DEF SaveGet
<1>9. CASE SavePatch
  <2>1. lost' = lost /\ dash' = dash
    BY <1>9 DEF SavePatch, Apply, RouteInv, Patching
  <2>2. "pc" \in DOMAIN run' /\ run'.pc \notin Patching
    BY <1>9 DEF SavePatch, SaveFailed, Saving, EndRun, IdleRun, Patching
  <2> QED BY <2>1, <2>2, Onward
<1>10. CASE Crash \/ CrashAfterPatch
  <2>1. lost' = lost /\ dash' = dash
    BY <1>10 DEF Crash, CrashAfterPatch, Apply, RouteInv, Patching
  <2>2. "pc" \in DOMAIN run' /\ run'.pc \notin Patching
    BY <1>10 DEF Crash, CrashAfterPatch, EndRun, IdleRun, Patching
  <2> QED BY <2>1, <2>2, Onward
<1> QED BY <1>1, <1>2, <1>3, <1>4, <1>5, <1>6, <1>7, <1>8, <1>9, <1>10 DEF RunStep

LEMMA StartKeepsRoute ==
    ASSUME RouteInv, Start
    PROVE  RouteInv'
<1>1. ASSUME NEW mode, NEW rel, NEW request, StartRun(mode, rel, request) PROVE RouteInv'
  BY <1>1, Onward DEF StartRun, Patching, Outside, Unread
<1> QED BY <1>1 DEF Start

LEMMA RouteStep ==
    ASSUME Serialized, RouteInv, [Next]_pubVars
    PROVE  RouteInv'
<1>1. CASE UNCHANGED pubVars
  BY <1>1 DEF pubVars, RouteInv
<1> QED BY <1>1, StartKeepsRoute, RunStepKeepsRoute, DashboardKeepsRoute DEF Next

(* Over the serialized route the exemption of AtMostOncePerEvent and          *)
(* EvidenceBeforeEgress never applies: without any condition an event has at  *)
(* most one post, and a post has its receipt or an open attempt.              *)
THEOREM SerializedPublishesOnce ==
  ASSUME Serialized
  PROVE  Spec => [](/\ \A p, q \in posts : p[1] = q[1] => p = q
                    /\ \A p \in posts : \E a \in gist.ledger[p[1]] :
                          a.at = p[2] /\ (a.tweet # NoTweet \/ Open(a)))
<1> DEFINE Once == /\ \A p, q \in posts : p[1] = q[1] => p = q
                   /\ \A p \in posts : \E a \in gist.ledger[p[1]] :
                         a.at = p[2] /\ (a.tweet # NoTweet \/ Open(a))
<1>1. TypeInv /\ LedgerInv /\ RouteInv => Once
  <2> SUFFICES ASSUME TypeInv, LedgerInv, RouteInv PROVE Once
    OBVIOUS
  <2>1. erased = {}
    BY DEF RouteInv, TypeInv, PubTypeOK, UnreadOK
  <2> QED BY <2>1, LedgerImplies DEF AtMostOncePerEvent, EvidenceBeforeEgress
<1> HIDE DEF Once
<1>2. Spec => []Once
  BY <1>1, LedgerHolds, RouteInit, RouteStep, PTL DEF Spec
<1> QED BY <1>2 DEF Once

-----------------------------------------------------------------------------
(*****************************************************************************)
(* Epochs retired.                                                           *)
(*****************************************************************************)

(* A platform call under way is under no epoch the document has retired. *)
RetiredInv ==
    run.pc = "send" /\ run.mode = "auto" => run.want.approval.epoch \notin gist.retired

(* A retired epoch is never forgotten, *)
LEMMA RetiredGrows ==
  ASSUME TypeInv, TypeInv', RouteInv, RouteInv', Serialized, [Next]_pubVars
  PROVE  gist.retired \subseteq gist'.retired
<1>1. CASE gist' = gist
  BY <1>1
<1>2. CASE Written
  BY <1>2 DEF Written, Apply, RouteInv, TypeInv, PatchIsMerge, Patching, MergeDocument, MergeRetired
<1>3. CASE Dashboard
  <2>1. PICK doc, request : OperationOK(doc, request) /\ Submit(doc, request) /\ UNCHANGED OutsideDash
    BY <1>3, DashboardStep DEF TypeInv, RouteInv, DashPatch, DashFail
  <2> QED BY <2>1 DEF Submit, OperationOK
<1>4. CASE Start \/ RunStep
  <2>1. CASE Start
    BY <1>1, <2>1 DEF Start, StartRun
  <2>2. CASE RunStep
    <3>1. CASE WorkStep
      BY <1>1, <3>1, WorkingEffect DEF TypeInv
    <3>2. CASE \E d \in Drafts : Claim(d)
      BY <1>1, <3>2 DEF Claim
    <3>3. CASE Merging \/ ToSend \/ Ending \/ \E phase \in {"unknown", "not_sent", "confirmed"} : BotAnswer(phase)
      BY <1>1, <1>2, <3>3 DEF Merging, ToSend, Ending, BotAnswer, Written, Patching
    <3> QED BY <2>2, <3>1, <3>2, <3>3, RunCases
  <2> QED BY <1>4, <2>1, <2>2
<1> QED BY <1>1, <1>3, <1>4 DEF Next, pubVars

(* and the claim checked the retired epochs in the very document it wrote. *)
LEMMA RetiredStep ==
  ASSUME TypeInv, RouteInv, RouteInv', ClaimAuthority, RetiredInv, Serialized, [Next]_pubVars
  PROVE  RetiredInv'
<1>1. CASE run'.pc # "send"
  BY <1>1 DEF RetiredInv
<1>2. CASE UNCHANGED <<gist, run>>
  BY <1>2 DEF RetiredInv
<1>3. CASE ToSend
  <2>1. gist' = MergeDocument(gist, mem) /\ run.pc = "claimPatch" /\ patch.base = gist
        /\ run' = [run EXCEPT !.pc = "send"]
    BY <1>3 DEF ToSend, Apply, RouteInv, TypeInv, PatchIsMerge, Patching
  <2>2. ClaimOK
    BY <2>1, ClaimState DEF TypeInv, Claiming
  <2>3. run'.mode = run.mode /\ run'.want = run.want
    BY <2>1, <2>2 DEF ClaimOK
  <2>4. run.mode = "auto" => run.want.approval.epoch \notin mem.retired /\ run.want.approval.epoch \notin gist.retired
    BY <2>1 DEF ClaimAuthority, Claiming
  <2> QED BY <2>1, <2>3, <2>4 DEF RetiredInv, MergeDocument, MergeRetired
<1>4. CASE Dashboard
  <2>1. PICK doc, request : OperationOK(doc, request) /\ Submit(doc, request) /\ UNCHANGED OutsideDash
    BY <1>4, DashboardStep DEF TypeInv, RouteInv, DashPatch, DashFail
  <2> QED BY <1>1, <2>1 DEF Submit, OutsideDash
<1>5. CASE Start
  BY <1>1, <1>5 DEF Start, StartRun
<1>6. CASE WorkStep
  BY <1>1, <1>6, WorkingEffect DEF TypeInv, WorkEffect
<1>7. CASE \E d \in Drafts : Claim(d)
  BY <1>1, <1>7, Claimed DEF TypeInv, ClaimEffect
<1>8. CASE Merging
  BY <1>1, <1>8 DEF Merging, RouteInv
<1>9. CASE Ending \/ \E phase \in {"unknown", "not_sent", "confirmed"} : BotAnswer(phase)
  BY <1>1, <1>9 DEF Ending, IdleRun, Saving, BotAnswer, AnswerEffect
<1> QED BY <1>2, <1>3, <1>4, <1>5, <1>6, <1>7, <1>8, <1>9, RunCases DEF Next, pubVars

(* Through the serialized route an epoch once retired in the shared document *)
(* never again authorizes an automatic platform call.                        *)
THEOREM RetiredStaysRetired ==
  ASSUME Serialized
  PROVE  Spec => RetiredForGood
<1> DEFINE I == AuthoritySafe /\ RouteInv /\ RetiredInv
<1> SUFFICES ASSUME NEW epoch \in Epochs
             PROVE  Spec => [](epoch \in gist.retired => []~SendsUnder(epoch))
  BY DEF RetiredForGood
<1> DEFINE R == epoch \in gist.retired
           S == SendsUnder(epoch)
<1>1. Init => I
  BY TypeInit, LedgerInit, AuthorityInit, RouteInit DEF AuthoritySafe, RetiredInv, Init, IdleRun
<1>2. I /\ [Next]_pubVars => I'
  BY TypeStep, LedgerStep, ClaimAuthorityStep, DashAuthorityStep, AuthorityStep, RouteStep, RetiredStep
     DEF AuthoritySafe
<1>3. I /\ I' /\ [Next]_pubVars /\ R => R'
  BY RetiredGrows DEF AuthoritySafe
<1>4. I /\ R => ~S
  BY DEF RetiredInv, SendsUnder
<1> HIDE DEF I, R, S
<1>5. Spec => [](R => []~S)
  BY <1>1, <1>2, <1>3, <1>4, PTL DEF Spec
<1> QED BY <1>5 DEF R, S

-----------------------------------------------------------------------------
(*****************************************************************************)
(* The refinement of the outbox, event by event.                             *)
(*****************************************************************************)

(* The three fates of an attempt in the document. *)
NotSent(a) == a.tweet = NoTweet /\ ~Open(a)

OpenAt(S) == {a.at : a \in {x \in S : Open(x)}}
SentAt(S) == {a.at : a \in {x \in S : x.tweet # NoTweet}}
NotSentAt(S) == {a.at : a \in {x \in S : NotSent(x)}}

(* What a write that admits nothing makes of the attempts of an event. *)
Settled(A, B, P) ==
    /\ OpenAt(A) \cap SentAt(A) = {}
    /\ SentAt(A) \subseteq SentAt(B)
    /\ SentAt(B) \subseteq SentAt(A) \cup (OpenAt(A) \cap P)
    /\ NotSentAt(A) \subseteq NotSentAt(B)
    /\ NotSentAt(B) \cap (SentAt(A) \cup P) = {}
    /\ OpenAt(B) = OpenAt(A) \ (SentAt(B) \cup NotSentAt(B))

(* And one that admits the attempt n. *)
Admitted(A, B, P, n) ==
    /\ OpenAt(A) = {} /\ SentAt(A) = {} /\ n \notin NotSentAt(A)
    /\ NotSentAt(A) \cap P = {}
    /\ OpenAt(B) = {n} /\ SentAt(B) = {} /\ NotSentAt(B) = NotSentAt(A)

(* The fate of a row, by its phase. *)
LEMMA ByPhase ==
  ASSUME NEW a \in Attempt
  PROVE  /\ (Open(a) <=> a.phase \in {"submitted", "unknown"})
         /\ (a.tweet # NoTweet <=> a.phase = "confirmed")
         /\ (NotSent(a) <=> a.phase = "not_sent")
         /\ a.phase \in {"submitted", "unknown", "not_sent", "confirmed"}
BY RankOf DEF Open, NotSent, Phases

(* The rows of an event, by the attempt they are about. *)
LEMMA AtSets ==
  ASSUME NEW S, S \in SUBSET Attempt, NEW p
  PROVE  /\ (p \in OpenAt(S) <=> \E a \in S : a.at = p /\ a.phase \in {"submitted", "unknown"})
         /\ (p \in SentAt(S) <=> \E a \in S : a.at = p /\ a.phase = "confirmed")
         /\ (p \in NotSentAt(S) <=> \E a \in S : a.at = p /\ a.phase = "not_sent")
<1>1. p \in OpenAt(S) <=> \E a \in S : a.at = p /\ Open(a)
  BY DEF OpenAt
<1>2. p \in SentAt(S) <=> \E a \in S : a.at = p /\ a.tweet # NoTweet
  BY DEF SentAt
<1>3. p \in NotSentAt(S) <=> \E a \in S : a.at = p /\ NotSent(a)
  BY DEF NotSentAt
<1> QED BY <1>1, <1>2, <1>3, ByPhase

(* One row for each attempt: its three fates exclude each other. *)
LEMMA OneFate ==
  ASSUME NEW S, S \in SUBSET Attempt, OneRow(S), NEW P, NEW n, \A a \in S : Recorded(a, P, n)
  PROVE  /\ OpenAt(S) \cap SentAt(S) = {} /\ OpenAt(S) \cap NotSentAt(S) = {}
         /\ SentAt(S) \subseteq P /\ NotSentAt(S) \cap P = {}
BY AtSets DEF OneRow, Recorded

(* A merge only settles attempts: by receipt, or by proof of no post. *)
LEMMA MergeSettles ==
  ASSUME NEW G, NEW M, NEW P, NEW n, EventOK(G, M, P, n)
  PROVE  Settled(G, MergeAttempts(G, M), P)
<1> DEFINE B == MergeAttempts(G, M)
           S == G \cup M
<1>1. G \in SUBSET Attempt /\ M \in SUBSET Attempt /\ \A a \in S : Recorded(a, P, n)
  BY DEF EventOK, Recorded, RowAt
<1>2. EventOK(B, M, P, n)
  BY MergeOK
<1>3. B \in SUBSET Attempt /\ OneRow(B) /\ \A b \in B : Recorded(b, P, n)
  BY <1>2 DEF EventOK, Recorded, RowAt
<1>4. \A b \in B : \E x \in S : x.at = b.at /\ x.phase = b.phase
  <2> SUFFICES ASSUME NEW b \in B PROVE \E x \in S : x.at = b.at /\ x.phase = b.phase
    OBVIOUS
  <2>1. PICK a \in G \cup M : b \in Attempt /\ SameAttempt(a, b) /\ a.phase = b.phase /\ a.tweet = b.tweet
                /\ ~Outranked(a, G \cup M) /\ b = KeepCancellation(a, G \cup M)
    BY <1>1, MergedRow
  <2> QED BY <2>1, SameAt
<1>5. \A a \in S : \E x \in S : \E b \in B :
         x.at = a.at /\ b.at = a.at /\ b.phase = x.phase /\ AttemptRank(x) >= AttemptRank(a)
  <2> SUFFICES ASSUME NEW a \in S
               PROVE \E x \in S : \E b \in B :
         x.at = a.at /\ b.at = a.at /\ b.phase = x.phase /\ AttemptRank(x) >= AttemptRank(a)
    OBVIOUS
  <2>1. PICK x \in G \cup M : \E b \in MergeAttempts(G, M) :
             /\ SameAttempt(a, x) /\ SameAttempt(x, b) /\ b.phase = x.phase /\ b.tweet = x.tweet
             /\ AttemptRank(x) >= AttemptRank(a) /\ b.at = a.at
             /\ ~Outranked(x, G \cup M)
    BY <1>1, KeptAt
  <2> QED BY <2>1, SameAt
<1>6. \A a \in S : Live(a) => \E g \in G : g.at = a.at /\ g.phase # "not_sent"
  BY DEF EventOK, Live, LiveAt
<1> HIDE DEF B
<1>7. \A a \in S : a \in Attempt
  BY <1>1
<1>8. SentAt(G) \subseteq SentAt(B)
  <2> SUFFICES ASSUME NEW p \in SentAt(G) PROVE p \in SentAt(B)
    OBVIOUS
  <2>1. PICK a \in G : a.at = p /\ a.phase = "confirmed"
    BY <1>1, AtSets
  <2>2. PICK x \in S : \E b \in B :
         x.at = a.at /\ b.at = a.at /\ b.phase = x.phase /\ AttemptRank(x) >= AttemptRank(a)
    BY <1>5, <2>1
  <2>3. x.phase = "confirmed"
    BY <1>7, <2>1, <2>2, RankOf DEF Phases
  <2> QED BY <1>3, <2>1, <2>2, <2>3, AtSets
<1>9. SentAt(B) \subseteq SentAt(G) \cup (OpenAt(G) \cap P)
  <2> SUFFICES ASSUME NEW p \in SentAt(B) PROVE p \in SentAt(G) \cup (OpenAt(G) \cap P)
    OBVIOUS
  <2>1. PICK b \in B : b.at = p /\ b.phase = "confirmed"
    BY <1>3, AtSets
  <2>2. p \in P
    BY <1>3, <2>1 DEF Recorded
  <2>3. PICK g \in G : g.at = p /\ g.phase # "not_sent"
    BY <1>4, <1>6, <2>1 DEF Live
  <2> QED BY <1>1, <2>2, <2>3, AtSets, ByPhase
<1>10. NotSentAt(G) \subseteq NotSentAt(B)
  <2> SUFFICES ASSUME NEW p \in NotSentAt(G) PROVE p \in NotSentAt(B)
    OBVIOUS
  <2>1. PICK a \in G : a.at = p /\ a.phase = "not_sent"
    BY <1>1, AtSets
  <2>2. PICK x \in S : \E b \in B :
         x.at = a.at /\ b.at = a.at /\ b.phase = x.phase /\ AttemptRank(x) >= AttemptRank(a)
    BY <1>5, <2>1
  <2>3. x.phase \in {"not_sent", "confirmed"}
    BY <1>7, <2>1, <2>2, RankOf DEF Phases
  <2>4. p \notin P /\ (x.phase = "confirmed" => p \in P)
    BY <1>1, <2>1, <2>2 DEF Recorded
  <2> QED BY <1>3, <2>1, <2>2, <2>3, <2>4, AtSets
<1>11. NotSentAt(B) \cap (SentAt(G) \cup P) = {}
  BY <1>3, <1>8, OneFate
<1>12. OpenAt(B) \subseteq OpenAt(G)
  <2> SUFFICES ASSUME NEW p \in OpenAt(B) PROVE p \in OpenAt(G)
    OBVIOUS
  <2>1. PICK b \in B : b.at = p /\ b.phase \in {"submitted", "unknown"}
    BY <1>3, AtSets
  <2>2. PICK g \in G : g.at = p /\ g.phase # "not_sent"
    BY <1>4, <1>6, <2>1 DEF Live
  <2>3. p \notin SentAt(G)
    <3>1. OpenAt(B) \cap SentAt(B) = {}
      BY <1>3, OneFate
    <3> QED BY <1>8, <3>1
  <2>4. g.phase # "confirmed"
    BY <1>1, <2>2, <2>3, AtSets
  <2>5. g.phase \in {"submitted", "unknown"}
    BY <1>1, <2>2, <2>4, ByPhase
  <2> QED BY <1>1, <2>2, <2>5, AtSets
<1>13. \A p \in OpenAt(G) : p \in OpenAt(B) \cup SentAt(B) \cup NotSentAt(B)
  <2> SUFFICES ASSUME NEW p \in OpenAt(G) PROVE p \in OpenAt(B) \cup SentAt(B) \cup NotSentAt(B)
    OBVIOUS
  <2>1. PICK b \in B : b.at = p
    BY <1>1, <1>5, AtSets
  <2> QED BY <1>3, <2>1, AtSets, ByPhase
<1>14. OpenAt(B) \cap SentAt(B) = {} /\ OpenAt(B) \cap NotSentAt(B) = {}
  BY <1>3, OneFate
<1>15. OpenAt(G) \cap SentAt(G) = {}
  <2>1. OneRow(G) /\ \A a \in G : Recorded(a, P, n)
    BY <1>1 DEF EventOK
  <2> QED BY <1>1, <2>1, OneFate
<1> QED BY <1>8, <1>9, <1>10, <1>11, <1>12, <1>13, <1>14, <1>15 DEF Settled, B

LEMMA SameSettles ==
  ASSUME NEW G, NEW P, NEW n, EventOK(G, {}, P, n)
  PROVE  Settled(G, G, P)
<1>1. G \in SUBSET Attempt /\ OneRow(G) /\ \A a \in G : Recorded(a, P, n)
  BY DEF EventOK, Recorded, RowAt
<1> QED BY <1>1, OneFate DEF Settled

(* So does a decision of the operator. *)
LEMMA OperatorSettles ==
  ASSUME NEW G, NEW P, NEW n, EventOK(G, {}, P, n), NEW B, RowsOf(P, G, B)
  PROVE  Settled(G, B, P)
<1>1. G \in SUBSET Attempt /\ OneRow(G) /\ \A a \in G : Recorded(a, P, n)
  BY DEF EventOK, Recorded, RowAt
<1>2. CASE B = G
  BY <1>2, SameSettles
<1>3. ASSUME NEW a \in G, G = {a}, a.tweet = NoTweet, B = {[a EXCEPT !.cancelled = TRUE]}
      PROVE  Settled(G, B, P)
  <2> DEFINE b == [a EXCEPT !.cancelled = TRUE]
  <2>1. a \in Attempt
    BY <1>1
  <2>2. b \in Attempt /\ b.at = a.at /\ b.phase = a.phase
    BY <2>1 DEF Attempt, ReceiptIsConfirmed
  <2> HIDE DEF b
  <2>3. B = {b} /\ B \in SUBSET Attempt
    BY <1>3, <2>2 DEF b
  <2>4. \A p : /\ (p \in OpenAt(B) <=> p \in OpenAt(G))
               /\ (p \in SentAt(B) <=> p \in SentAt(G))
               /\ (p \in NotSentAt(B) <=> p \in NotSentAt(G))
    BY <1>1, <1>3, <2>2, <2>3, AtSets
  <2>5. OpenAt(B) = OpenAt(G) /\ SentAt(B) = SentAt(G) /\ NotSentAt(B) = NotSentAt(G)
    BY <2>4
  <2> QED BY <2>5, SameSettles DEF Settled
<1>4. ASSUME NEW a \in G, G = {a}, a.tweet = NoTweet, Live(a), a.at \in P,
             B = {[a EXCEPT !.tweet = a.at, !.phase = "confirmed"]}
      PROVE  Settled(G, B, P)
  <2> DEFINE b == [a EXCEPT !.tweet = a.at, !.phase = "confirmed"]
  <2>1. a \in Attempt /\ a.phase \in {"submitted", "unknown"} /\ a.at # 0
    BY <1>1, <1>4, ByPhase DEF Live, Recorded, RowAt
  <2>2. b.at = a.at /\ b.phase = "confirmed" /\ b.tweet = a.at
        /\ b \in [intent : Nat \cup Drafts, at : Nat, rev : Nat, text : Texts, phase : Phases,
                   tweet : Nat, cancelled : BOOLEAN]
    BY <2>1 DEF Attempt, Phases
  <2>3. b \in Attempt
    BY <2>1, <2>2 DEF Attempt, ReceiptIsConfirmed, NoTweet
  <2> HIDE DEF b
  <2>4. B = {b} /\ B \in SUBSET Attempt
    BY <1>4, <2>3 DEF b
  <2>5. \A p : /\ (p \in OpenAt(G) <=> p = a.at)
               /\ p \notin SentAt(G) /\ p \notin NotSentAt(G)
               /\ (p \in SentAt(B) <=> p = a.at)
               /\ p \notin OpenAt(B) /\ p \notin NotSentAt(B)
    BY <1>1, <1>4, <2>1, <2>2, <2>4, AtSets
  <2> QED BY <1>4, <2>5 DEF Settled
<1> QED BY <1>2, <1>3, <1>4 DEF RowsOf

(* The merge of a claim over the entry it was checked against admits it. *)
LEMMA ClaimAdmits ==
  ASSUME NEW G, NEW M, NEW P, NEW n \in Nat, PendingOK(G, M, P, n), \A a \in G : ~Live(a)
  PROVE  Admitted(G, MergeAttempts(G, M), P, n)
<1> DEFINE B == MergeAttempts(G, M)
<1>1. PICK r \in M : M = {r} /\ ClaimRow(r, n)
  BY DEF PendingOK
<1>2. SendingOK(B, M, P, n)
  BY ClaimMerged
<1>3. /\ G \in SUBSET Attempt /\ (\A a \in G : a.phase = "not_sent" /\ a.at # n)
      /\ OneRow(G) /\ (\A a \in G : Recorded(a, P, n))
      /\ M \in SUBSET Attempt /\ r.at = n /\ r.phase = "submitted"
  BY <1>1 DEF PendingOK, EventOK, Recorded, RowAt, ClaimRow, Live
<1>4. B \in SUBSET Attempt
  BY <1>2 DEF SendingOK, EventOK, Recorded, RowAt
<1>10. G \in SUBSET Attempt /\ M \in SUBSET Attempt
  BY <1>3
<1>5. \A b \in B : \E x \in G \cup M : x.at = b.at /\ x.phase = b.phase
  <2> SUFFICES ASSUME NEW b \in B PROVE \E x \in G \cup M : x.at = b.at /\ x.phase = b.phase
    OBVIOUS
  <2>1. PICK a \in G \cup M :
             /\ SameAttempt(a, b) /\ a.phase = b.phase /\ a.tweet = b.tweet
             /\ ~Outranked(a, G \cup M)
             /\ b = KeepCancellation(a, G \cup M)
    BY <1>10, MergedRow
  <2>2. a.at = b.at
    BY <2>1, SameAt
  <2> QED BY <2>1, <2>2
<1>6. \A a \in G \cup M : \E b \in B : b.at = a.at /\ b.phase = a.phase
  <2> SUFFICES ASSUME NEW a \in G \cup M PROVE \E b \in B : b.at = a.at /\ b.phase = a.phase
    OBVIOUS
  <2>1. PICK x \in G \cup M : \E b \in MergeAttempts(G, M) :
             /\ SameAttempt(a, x) /\ SameAttempt(x, b) /\ b.phase = x.phase /\ b.tweet = x.tweet
             /\ AttemptRank(x) >= AttemptRank(a) /\ b.at = a.at
             /\ ~Outranked(x, G \cup M)
    BY <1>10, KeptAt
  <2>2. x.at = a.at
    BY <2>1, SameAt
  <2>3. x.phase = a.phase
    BY <1>1, <1>3, <2>2
  <2> QED BY <2>1, <2>3
<1> HIDE DEF B
<1>7. \A p : /\ p \notin OpenAt(G) /\ p \notin SentAt(G) /\ p \notin SentAt(B)
             /\ (p \in OpenAt(B) <=> p = n)
             /\ (p \in NotSentAt(B) <=> p \in NotSentAt(G))
  <2> SUFFICES ASSUME NEW p PROVE /\ p \notin OpenAt(G) /\ p \notin SentAt(G) /\ p \notin SentAt(B)
             /\ (p \in OpenAt(B) <=> p = n)
             /\ (p \in NotSentAt(B) <=> p \in NotSentAt(G))
    OBVIOUS
  <2>1. p \notin OpenAt(G) /\ p \notin SentAt(G)
    BY <1>3, AtSets
  <2>2. p \notin SentAt(B)
    BY <1>1, <1>3, <1>4, <1>5, AtSets
  <2>3. p \in OpenAt(B) <=> p = n
    BY <1>1, <1>3, <1>4, <1>5, <1>6, AtSets
  <2>4. p \in NotSentAt(B) <=> p \in NotSentAt(G)
    BY <1>1, <1>3, <1>4, <1>5, <1>6, AtSets
  <2> QED BY <2>1, <2>2, <2>3, <2>4
<1>8. n \notin NotSentAt(G)
  BY <1>3, AtSets
<1>9. NotSentAt(G) \cap P = {}
  BY <1>3, OneFate
<1> QED BY <1>7, <1>8, <1>9 DEF Admitted, B

(* The same, as pairs of an event and an attempt. *)
OpenIn(doc) == {w \in Events \X Nat : w[2] \in OpenAt(doc.ledger[w[1]])}
SentIn(doc) == {w \in Events \X Nat : w[2] \in SentAt(doc.ledger[w[1]])}
NotSentIn(doc) == {w \in Events \X Nat : w[2] \in NotSentAt(doc.ledger[w[1]])}

(* The refinement mapping's sets, by event. *)
LEMMA Durable ==
  ASSUME NEW doc, NEW n, DocAt(doc, n)
  PROVE  /\ OpenIn(doc) = UNION {{<<e, a.at>> : a \in {x \in doc.ledger[e] : Open(x)}} : e \in Events}
         /\ SentIn(doc) = UNION {{<<e, a.at>> : a \in {x \in doc.ledger[e] : x.tweet # NoTweet}} : e \in Events}
         /\ NotSentIn(doc) = UNION {{<<e, a.at>> : a \in {x \in doc.ledger[e] : x.tweet = NoTweet /\ ~Open(x)}} : e \in Events}
<1>1. \A e \in Events : \A a \in doc.ledger[e] : a.at \in Nat
  BY DEF DocAt, RowAt, Attempt
<1>2. ASSUME NEW e \in Events, NEW p
      PROVE  /\ (p \in OpenAt(doc.ledger[e]) <=> \E a \in doc.ledger[e] : Open(a) /\ p = a.at)
             /\ (p \in SentAt(doc.ledger[e]) <=> \E a \in doc.ledger[e] : a.tweet # NoTweet /\ p = a.at)
             /\ (p \in NotSentAt(doc.ledger[e]) <=> \E a \in doc.ledger[e] : a.tweet = NoTweet /\ ~Open(a) /\ p = a.at)
  BY DEF OpenAt, SentAt, NotSentAt, NotSent
<1>3. OpenIn(doc) = UNION {{<<e, a.at>> : a \in {x \in doc.ledger[e] : Open(x)}} : e \in Events}
  BY <1>1, <1>2 DEF OpenIn
<1>4. SentIn(doc) = UNION {{<<e, a.at>> : a \in {x \in doc.ledger[e] : x.tweet # NoTweet}} : e \in Events}
  BY <1>1, <1>2 DEF SentIn
<1>5. NotSentIn(doc) = UNION {{<<e, a.at>> : a \in {x \in doc.ledger[e] : x.tweet = NoTweet /\ ~Open(x)}} : e \in Events}
  BY <1>1, <1>2 DEF NotSentIn
<1> QED BY <1>3, <1>4, <1>5

-----------------------------------------------------------------------------
(* The writes of Publication, event by event, are writes of the outbox. *)
LEMMA PairsOf ==
  ASSUME NEW doc, NEW e \in Events, NEW p \in Nat
  PROVE  /\ (<<e, p>> \in OpenIn(doc) <=> p \in OpenAt(doc.ledger[e]))
         /\ (<<e, p>> \in SentIn(doc) <=> p \in SentAt(doc.ledger[e]))
         /\ (<<e, p>> \in NotSentIn(doc) <=> p \in NotSentAt(doc.ledger[e]))
BY DEF OpenIn, SentIn, NotSentIn

LEMMA PostsAt ==
  ASSUME NEW e, NEW p
  PROVE  p \in PostsOf(e) <=> \E w \in posts : w[1] = e /\ w[2] = p
BY DEF PostsOf

LEMMA PostPairs ==
  ASSUME posts \subseteq Events \X Nat, NEW e \in Events, NEW p \in Nat
  PROVE  <<e, p>> \in posts <=> p \in PostsOf(e)
<1>1. ASSUME NEW w \in posts, w[1] = e, w[2] = p PROVE w = <<e, p>>
  BY <1>1
<1> QED BY <1>1, PostsAt

(* Attempts recorded lie in the bounds of the outbox. *)
LEMMA InBounds ==
  ASSUME NEW doc, NEW n \in 0..MaxAttempts, DocAt(doc, n)
  PROVE  /\ OpenIn(doc) \subseteq Events \X (1..MaxAttempts)
         /\ SentIn(doc) \subseteq Events \X (1..MaxAttempts)
         /\ NotSentIn(doc) \subseteq Events \X (1..MaxAttempts)
<1>1. \A e \in Events : \A a \in doc.ledger[e] : a.at \in 1..MaxAttempts
  BY PublicationAssumption DEF DocAt, RowAt, Attempt
<1> QED BY <1>1 DEF OpenIn, SentIn, NotSentIn, OpenAt, SentAt, NotSentAt

(* Settling event by event is one Settle of the outbox, *)
LEMMA SettlesAll ==
  ASSUME NEW A, NEW B, posts \subseteq Events \X Nat,
         \A e \in Events : Settled(A.ledger[e], B.ledger[e], PostsOf(e))
  PROVE  /\ SentIn(B) \cap OpenIn(A) \subseteq OpenIn(A) \cap posts
         /\ NotSentIn(B) \cap (SentIn(A) \cup posts) = {}
         /\ SentIn(B) = SentIn(A) \cup (SentIn(B) \cap OpenIn(A))
         /\ NotSentIn(B) = NotSentIn(A) \cup NotSentIn(B)
         /\ OpenIn(B) = OpenIn(A) \ ((SentIn(B) \cap OpenIn(A)) \cup NotSentIn(B))
<1>1. ASSUME NEW w \in Events \X Nat
      PROVE  /\ w \in SentIn(B) => w \in SentIn(A) \/ (w \in OpenIn(A) /\ w \in posts)
             /\ w \in SentIn(A) => w \in SentIn(B) /\ w \notin OpenIn(A)
             /\ w \in NotSentIn(B) => w \notin SentIn(A) /\ w \notin posts
             /\ w \in NotSentIn(A) => w \in NotSentIn(B)
             /\ (w \in OpenIn(B) <=> w \in OpenIn(A) /\ w \notin SentIn(B) /\ w \notin NotSentIn(B))
  <2>1. PICK e \in Events, p \in Nat : w = <<e, p>>
    OBVIOUS
  <2>2. Settled(A.ledger[e], B.ledger[e], PostsOf(e))
    OBVIOUS
  <2>3. \A doc : /\ (w \in OpenIn(doc) <=> p \in OpenAt(doc.ledger[e]))
                 /\ (w \in SentIn(doc) <=> p \in SentAt(doc.ledger[e]))
                 /\ (w \in NotSentIn(doc) <=> p \in NotSentAt(doc.ledger[e]))
    BY <2>1 DEF OpenIn, SentIn, NotSentIn
  <2>4. w \in posts <=> p \in PostsOf(e)
    BY <2>1, PostPairs
  <2>5. /\ p \in SentAt(B.ledger[e]) => p \in SentAt(A.ledger[e]) \/ (p \in OpenAt(A.ledger[e]) /\ p \in PostsOf(e))
        /\ p \in SentAt(A.ledger[e]) => p \in SentAt(B.ledger[e]) /\ p \notin OpenAt(A.ledger[e])
        /\ p \in NotSentAt(B.ledger[e]) => p \notin SentAt(A.ledger[e]) /\ p \notin PostsOf(e)
        /\ p \in NotSentAt(A.ledger[e]) => p \in NotSentAt(B.ledger[e])
        /\ (p \in OpenAt(B.ledger[e]) <=>
              p \in OpenAt(A.ledger[e]) /\ p \notin SentAt(B.ledger[e]) /\ p \notin NotSentAt(B.ledger[e]))
    BY <2>2 DEF Settled
  <2> QED BY <2>3, <2>4, <2>5
<1>2. /\ OpenIn(A) \subseteq Events \X Nat /\ SentIn(A) \subseteq Events \X Nat /\ NotSentIn(A) \subseteq Events \X Nat
      /\ OpenIn(B) \subseteq Events \X Nat /\ SentIn(B) \subseteq Events \X Nat /\ NotSentIn(B) \subseteq Events \X Nat
  BY DEF OpenIn, SentIn, NotSentIn
<1>3. SentIn(B) \cap OpenIn(A) \subseteq OpenIn(A) \cap posts
  <2> SUFFICES ASSUME NEW w \in SentIn(B) \cap OpenIn(A) PROVE w \in posts
    OBVIOUS
  <2> QED BY <1>1, <1>2
<1>4. NotSentIn(B) \cap (SentIn(A) \cup posts) = {}
  BY <1>1, <1>2
<1>5. SentIn(B) = SentIn(A) \cup (SentIn(B) \cap OpenIn(A))
  BY <1>1, <1>2
<1>6. NotSentIn(B) = NotSentIn(A) \cup NotSentIn(B)
  BY <1>1, <1>2
<1>7. OpenIn(B) = OpenIn(A) \ ((SentIn(B) \cap OpenIn(A)) \cup NotSentIn(B))
  BY <1>1, <1>2
<1> QED BY <1>3, <1>4, <1>5, <1>6, <1>7

(* and admitting at one event, settling at the others, one Admit. *)
LEMMA AdmitsOne ==
  ASSUME NEW A, NEW B, posts \subseteq Events \X Nat, NEW c \in Events, NEW n \in Nat,
         Admitted(A.ledger[c], B.ledger[c], PostsOf(c), n),
         \A e \in Events \ {c} : Settled(A.ledger[e], B.ledger[e], PostsOf(e))
  PROVE  /\ SentIn(B) \cap OpenIn(A) \subseteq OpenIn(A) \cap posts
         /\ NotSentIn(B) \cap (SentIn(A) \cup posts) = {}
         /\ SentIn(B) = SentIn(A) \cup (SentIn(B) \cap OpenIn(A))
         /\ NotSentIn(B) = NotSentIn(A) \cup NotSentIn(B)
         /\ OpenIn(B) = (OpenIn(A) \ ((SentIn(B) \cap OpenIn(A)) \cup NotSentIn(B))) \cup {<<c, n>>}
         /\ <<c, n>> \notin OpenIn(A) \cup SentIn(A) \cup NotSentIn(A) \cup NotSentIn(B)
         /\ \A w \in OpenIn(A) \cup SentIn(A) : w[1] # c
<1>1. ASSUME NEW w \in Events \X Nat
      PROVE  /\ w \in SentIn(B) => w \in SentIn(A) \/ (w \in OpenIn(A) /\ w \in posts)
             /\ w \in SentIn(A) => w \in SentIn(B) /\ w \notin OpenIn(A)
             /\ w \in NotSentIn(B) => w \notin SentIn(A) /\ w \notin posts
             /\ w \in NotSentIn(A) => w \in NotSentIn(B)
             /\ (w \in OpenIn(B) <=> w = <<c, n>> \/ (w \in OpenIn(A) /\ w \notin SentIn(B) /\ w \notin NotSentIn(B)))
  <2>1. PICK e \in Events, p \in Nat : w = <<e, p>>
    OBVIOUS
  <2>4. \A doc : /\ (w \in OpenIn(doc) <=> p \in OpenAt(doc.ledger[e]))
                 /\ (w \in SentIn(doc) <=> p \in SentAt(doc.ledger[e]))
                 /\ (w \in NotSentIn(doc) <=> p \in NotSentAt(doc.ledger[e]))
    BY <2>1 DEF OpenIn, SentIn, NotSentIn
  <2>5. w \in posts <=> p \in PostsOf(e)
    BY <2>1, PostPairs
  <2>6. w = <<c, n>> <=> e = c /\ p = n
    BY <2>1
  <2>2. CASE e = c
    BY <2>2, <2>4, <2>5, <2>6 DEF Admitted
  <2>3. CASE e # c
    <3>1. Settled(A.ledger[e], B.ledger[e], PostsOf(e))
      BY <2>3
    <3>2. /\ p \in SentAt(B.ledger[e]) => p \in SentAt(A.ledger[e]) \/ (p \in OpenAt(A.ledger[e]) /\ p \in PostsOf(e))
          /\ p \in SentAt(A.ledger[e]) => p \in SentAt(B.ledger[e]) /\ p \notin OpenAt(A.ledger[e])
          /\ p \in NotSentAt(B.ledger[e]) => p \notin SentAt(A.ledger[e]) /\ p \notin PostsOf(e)
          /\ p \in NotSentAt(A.ledger[e]) => p \in NotSentAt(B.ledger[e])
          /\ (p \in OpenAt(B.ledger[e]) <=>
                p \in OpenAt(A.ledger[e]) /\ p \notin SentAt(B.ledger[e]) /\ p \notin NotSentAt(B.ledger[e]))
      BY <3>1 DEF Settled
    <3> QED BY <2>3, <3>2, <2>4, <2>5, <2>6
  <2> QED BY <2>2, <2>3
<1>2. /\ OpenIn(A) \subseteq Events \X Nat /\ SentIn(A) \subseteq Events \X Nat /\ NotSentIn(A) \subseteq Events \X Nat
      /\ OpenIn(B) \subseteq Events \X Nat /\ SentIn(B) \subseteq Events \X Nat /\ NotSentIn(B) \subseteq Events \X Nat
  BY DEF OpenIn, SentIn, NotSentIn
<1>3. SentIn(B) \cap OpenIn(A) \subseteq OpenIn(A) \cap posts
  <2> SUFFICES ASSUME NEW w \in SentIn(B) \cap OpenIn(A) PROVE w \in posts
    OBVIOUS
  <2> QED BY <1>1, <1>2
<1>4. NotSentIn(B) \cap (SentIn(A) \cup posts) = {}
  BY <1>1, <1>2
<1>5. SentIn(B) = SentIn(A) \cup (SentIn(B) \cap OpenIn(A))
  BY <1>1, <1>2
<1>6. NotSentIn(B) = NotSentIn(A) \cup NotSentIn(B)
  BY <1>1, <1>2
<1>7. OpenIn(B) = (OpenIn(A) \ ((SentIn(B) \cap OpenIn(A)) \cup NotSentIn(B))) \cup {<<c, n>>}
  <2> DEFINE t == <<c, n>>
  <2>1. t \in Events \X Nat
    OBVIOUS
  <2>2. \A w \in Events \X Nat : (w \in OpenIn(B) <=>
           w = t \/ (w \in OpenIn(A) /\ w \notin SentIn(B) /\ w \notin NotSentIn(B)))
    BY <1>1
  <2> HIDE DEF t
  <2>3. OpenIn(B) = (OpenIn(A) \ ((SentIn(B) \cap OpenIn(A)) \cup NotSentIn(B))) \cup {t}
    BY <1>2, <2>1, <2>2
  <2> QED BY <2>3 DEF t
<1>8. <<c, n>> \notin OpenIn(A) \cup SentIn(A) \cup NotSentIn(A) \cup NotSentIn(B)
  <2>1. n \notin OpenAt(A.ledger[c]) /\ n \notin SentAt(A.ledger[c]) /\ n \notin NotSentAt(A.ledger[c])
        /\ n \notin NotSentAt(B.ledger[c])
    BY DEF Admitted
  <2> QED BY <2>1 DEF OpenIn, SentIn, NotSentIn
<1>9. ASSUME NEW w \in OpenIn(A) \cup SentIn(A) PROVE w[1] # c
  <2>1. PICK e \in Events, p \in Nat : w = <<e, p>>
    BY <1>2
  <2> QED BY <2>1, PairsOf DEF Admitted
<1> QED BY <1>3, <1>4, <1>5, <1>6, <1>7, <1>8, <1>9

(* The document once a bot's merge, over what it read, has reached it. *)
LEMMA WriteSettles ==
  ASSUME TypeInv, LedgerOK, Written, ~lost'
  PROVE  \A e \in Events :
           IF run.pc = "claimPatch" /\ e = ClaimedEvent
           THEN Admitted(gist.ledger[e], gist'.ledger[e], PostsOf(e), attempts)
           ELSE Settled(gist.ledger[e], gist'.ledger[e], PostsOf(e))
<1>1. gist = patch.base /\ gist' = MergeDocument(gist, mem) /\ run.pc \in Patching
  BY DEF Written, Apply, TypeInv, PatchIsMerge, Patching
<1>2. \A e \in Events : gist'.ledger[e] = MergeAttempts(gist.ledger[e], mem.ledger[e])
  BY <1>1 DEF MergeDocument
<1>3. ASSUME NEW e \in Events, run.pc = "claimPatch", e = ClaimedEvent
      PROVE  Admitted(gist.ledger[e], gist'.ledger[e], PostsOf(e), attempts)
  <2>1. PendingOK(gist.ledger[e], mem.ledger[e], PostsOf(e), attempts) /\ \A a \in gist.ledger[e] : ~Live(a)
    BY <1>1, <1>3 DEF LedgerOK, LedgerAt, ClaimPending, Claiming
  <2>2. attempts \in Nat
    BY PublicationAssumption DEF TypeInv, PubTypeOK
  <2> QED BY <1>2, <2>1, <2>2, ClaimAdmits
<1>4. ASSUME NEW e \in Events, ~(run.pc = "claimPatch" /\ e = ClaimedEvent)
      PROVE  Settled(gist.ledger[e], gist'.ledger[e], PostsOf(e))
  <2>1. EventOK(gist.ledger[e], mem.ledger[e], PostsOf(e), attempts)
    BY <1>1, <1>4, EventsOK DEF ClaimPending, Patching
  <2> QED BY <1>2, <2>1, MergeSettles
<1> QED BY <1>3, <1>4

(* An operation of the serialized route, between two runs. *)
LEMMA OperationSettles ==
  ASSUME TypeInv, LedgerOK, run.pc = "idle", NEW doc, NEW request, OperationOK(doc, request)
  PROVE  \A e \in Events : Settled(gist.ledger[e], doc.ledger[e], PostsOf(e))
<1> SUFFICES ASSUME NEW e \in Events PROVE Settled(gist.ledger[e], doc.ledger[e], PostsOf(e))
  OBVIOUS
<1>1. EventOK(gist.ledger[e], {}, PostsOf(e), attempts)
  BY EventsOK, ReadOK DEF ClaimPending
<1>2. RowsOf(PostsOf(e), gist.ledger[e], doc.ledger[e])
  BY DEF OperationOK
<1> QED BY <1>1, <1>2, OperatorSettles

-----------------------------------------------------------------------------
(* The steps of the outbox. *)
LEMMA MapsTo ==
  ASSUME TypeInv
  PROVE  /\ DurableAttempts(Open) = OpenIn(gist)
         /\ DurableAttempts(LAMBDA a : a.tweet # NoTweet) = SentIn(gist)
         /\ DurableAttempts(LAMBDA a : a.tweet = NoTweet /\ ~Open(a)) = NotSentIn(gist)
BY Durable DEF DurableAttempts, TypeInv, PubTypeOK

LEMMA MapsToLater ==
  ASSUME TypeInv'
  PROVE  /\ DurableAttempts(Open)' = OpenIn(gist')
         /\ DurableAttempts(LAMBDA a : a.tweet # NoTweet)' = SentIn(gist')
         /\ DurableAttempts(LAMBDA a : a.tweet = NoTweet /\ ~Open(a))' = NotSentIn(gist')
<1>1. DocAt(gist', attempts')
  BY DEF TypeInv, PubTypeOK
<1> QED BY <1>1, Durable DEF DurableAttempts

(* Leaving the state between claim and call is the outbox sending. *)
LEMMA SendMaps ==
  ASSUME TypeInv, run.pc = "send", run'.pc # "send", gist' = gist,
         posts' \in {posts, posts \cup {<<ClaimedEvent, mem.drafts[run.draft].attemptAt>>}}
  PROVE  Outbox!Next
<1> DEFINE a == <<EventOf[run.draft], mem.drafts[run.draft].attemptAt>>
<1>1. Outbox!Send(a)
  BY DEF Outbox!Send, DurableAttempts, ClaimedEvent
<1>2. a \in Events \X (1..MaxAttempts)
  <2>1. run.pc \in Claiming /\ PubTypeOK
    BY DEF Claiming, TypeInv
  <2>2. EventOf[run.draft] \in Events /\ mem.drafts[run.draft].attemptAt = attempts /\ attempts \in Nat \ {0}
    BY <2>1, ClaimState
  <2>3. attempts \in 1..MaxAttempts
    BY <2>1, <2>2, PublicationAssumption DEF PubTypeOK
  <2> QED BY <2>2, <2>3
<1> QED BY <1>1, <1>2 DEF Outbox!Next, Outbox!Attempts

LEMMA RecordMaps ==
  ASSUME TypeInv, TypeInv', run.pc # "send", run'.pc # "send", posts' = posts,
         \A e \in Events : Settled(gist.ledger[e], gist'.ledger[e], PostsOf(e))
  PROVE  Outbox!Next
<1> DEFINE C == SentIn(gist') \cap OpenIn(gist)
           N == NotSentIn(gist')
<1>1. posts \subseteq Events \X Nat
  BY PublicationAssumption DEF TypeInv, PubTypeOK
<1>2. /\ C \subseteq OpenIn(gist) \cap posts
      /\ N \cap (SentIn(gist) \cup posts) = {}
      /\ SentIn(gist') = SentIn(gist) \cup C
      /\ NotSentIn(gist') = NotSentIn(gist) \cup N
      /\ OpenIn(gist') = OpenIn(gist) \ (C \cup N)
  BY <1>1, SettlesAll
<1>3. N \subseteq Events \X (1..MaxAttempts)
  BY InBounds DEF TypeInv, PubTypeOK
<1> HIDE DEF C, N
<1>4. Outbox!Record(C, N)
  BY <1>2, <1>3, MapsTo, MapsToLater DEF Outbox!Record, Outbox!Settle, Outbox!Attempts
<1>5. C \in SUBSET DurableAttempts(Open) /\ N \in SUBSET (Events \X (1..MaxAttempts))
  BY <1>2, <1>3, MapsTo
<1> QED BY <1>4, <1>5 DEF Outbox!Next, Outbox!Attempts

LEMMA AdmitMaps ==
  ASSUME TypeInv, TypeInv', run.pc = "claimPatch", posts' = posts,
         Admitted(gist.ledger[ClaimedEvent], gist'.ledger[ClaimedEvent], PostsOf(ClaimedEvent), attempts),
         \A e \in Events \ {ClaimedEvent} : Settled(gist.ledger[e], gist'.ledger[e], PostsOf(e)),
         run'.pc = "send" => run'.draft = run.draft /\ mem' = mem
  PROVE  Outbox!Next
<1> DEFINE a == <<ClaimedEvent, attempts>>
           C == SentIn(gist') \cap OpenIn(gist)
           N == NotSentIn(gist')
<1>1. posts \subseteq Events \X Nat /\ attempts \in 0..MaxAttempts
  BY PublicationAssumption DEF TypeInv, PubTypeOK
<1>2. ClaimedEvent \in Events /\ mem.drafts[run.draft].attemptAt = attempts /\ attempts \in 1..MaxAttempts
      /\ attempts \in Nat
  <2>1. run.pc \in Claiming /\ PubTypeOK
    BY DEF Claiming, TypeInv
  <2>2. EventOf[run.draft] \in Events /\ mem.drafts[run.draft].attemptAt = attempts /\ attempts \in Nat \ {0}
    BY <2>1, ClaimState
  <2> QED BY <1>1, <2>2, PublicationAssumption DEF ClaimedEvent
<1> PICK c \in Events : c = ClaimedEvent
  BY <1>2
<1>3. /\ C \subseteq OpenIn(gist) \cap posts
      /\ N \cap (SentIn(gist) \cup posts) = {}
      /\ SentIn(gist') = SentIn(gist) \cup C
      /\ NotSentIn(gist') = NotSentIn(gist) \cup N
      /\ OpenIn(gist') = (OpenIn(gist) \ (C \cup N)) \cup {a}
      /\ a \notin OpenIn(gist) \cup SentIn(gist) \cup NotSentIn(gist) \cup N
      /\ \A w \in OpenIn(gist) \cup SentIn(gist) : w[1] # a[1]
  <2>1. a[1] = c /\ a = <<c, attempts>>
    OBVIOUS
  <2>2. Admitted(gist.ledger[c], gist'.ledger[c], PostsOf(c), attempts)
        /\ \A e \in Events \ {c} : Settled(gist.ledger[e], gist'.ledger[e], PostsOf(e))
    OBVIOUS
  <2> HIDE DEF a
  <2> QED BY <1>1, <1>2, <2>1, <2>2, AdmitsOne
<1>4. N \subseteq Events \X (1..MaxAttempts) /\ a \in Events \X (1..MaxAttempts)
  BY <1>2, InBounds DEF TypeInv, PubTypeOK
<1>5. (IF run'.pc = "send" THEN {<<EventOf[run'.draft], mem'.drafts[run'.draft].attemptAt>>} ELSE {}) \in {{}, {a}}
  BY <1>2 DEF ClaimedEvent
<1> HIDE DEF C, N, a
<1>6. Outbox!Admit(a, C, N)
  BY <1>3, <1>4, <1>5, MapsTo, MapsToLater
     DEF Outbox!Admit, Outbox!Settle, Outbox!Attempts, Outbox!SameEvent
<1>7. C \in SUBSET DurableAttempts(Open) /\ N \in SUBSET (Events \X (1..MaxAttempts))
  BY <1>3, <1>4, MapsTo
<1> QED BY <1>4, <1>6, <1>7 DEF Outbox!Next, Outbox!Attempts

(* Steps that touch neither document nor platform are invisible. *)
LEMMA StutterMaps ==
  ASSUME gist' = gist, posts' = posts, run.pc # "send", run'.pc # "send"
  PROVE  UNCHANGED Outbox!outboxVars
BY DEF Outbox!outboxVars, DurableAttempts

LEMMA SameMaps ==
  ASSUME UNCHANGED <<gist, posts, run, mem>>
  PROVE  UNCHANGED Outbox!outboxVars
BY DEF Outbox!outboxVars, DurableAttempts

-----------------------------------------------------------------------------
(* Each kind of step, in the outbox. *)
OutboxStep == [Outbox!Next]_Outbox!outboxVars

LEMMA WrittenMaps ==
  ASSUME TypeInv, TypeInv', LedgerOK, Written, ~lost', posts' = posts,
         run'.pc = "send" => run.pc = "claimPatch" /\ run'.draft = run.draft /\ mem' = mem
  PROVE  Outbox!Next
<1>1. run.pc \in Patching
  BY DEF Written
<1>2. CASE run.pc = "claimPatch"
  <2>1. ClaimedEvent \in Events
    BY <1>2, ClaimState DEF ClaimedEvent, TypeInv, Claiming
  <2> PICK c \in Events : c = ClaimedEvent
    BY <2>1
  <2>2. Admitted(gist.ledger[ClaimedEvent], gist'.ledger[ClaimedEvent], PostsOf(ClaimedEvent), attempts)
    BY <1>2, <2>1, WriteSettles
  <2>3. \A e \in Events \ {ClaimedEvent} : Settled(gist.ledger[e], gist'.ledger[e], PostsOf(e))
    BY WriteSettles
  <2> QED BY <1>2, <2>2, <2>3, AdmitMaps
<1>3. CASE run.pc = "savePatch"
  <2>1. \A e \in Events : Settled(gist.ledger[e], gist'.ledger[e], PostsOf(e))
    BY <1>3, WriteSettles
  <2> QED BY <1>3, <2>1, RecordMaps
<1> QED BY <1>1, <1>2, <1>3 DEF Patching

LEMMA AnswerMaps ==
  ASSUME TypeInv, TypeInv', LedgerOK, ~lost', NEW phase, BotAnswer(phase)
  PROVE  OutboxStep
<1>1. run'.pc \in {"work", "save"} /\ run.pc \in Claiming
  BY DEF BotAnswer, AnswerEffect
<1>2. CASE run.pc = "send"
  <2>1. gist' = gist /\ posts' \in {posts, posts \cup {<<ClaimedEvent, mem.drafts[run.draft].attemptAt>>}}
    BY <1>2 DEF BotAnswer, Written, Patching
  <2> QED BY <1>1, <1>2, <2>1, SendMaps DEF OutboxStep
<1>3. CASE run.pc # "send"
  <2>1. posts' = posts
    BY <1>3 DEF BotAnswer
  <2>2. CASE Written
    BY <1>1, <2>1, <2>2, WrittenMaps DEF OutboxStep
  <2>3. CASE UNCHANGED <<gist, Unread>>
    BY <1>1, <1>3, <2>1, <2>3, StutterMaps DEF OutboxStep
  <2> QED BY <2>2, <2>3 DEF BotAnswer
<1> QED BY <1>2, <1>3

LEMMA EndingMaps ==
  ASSUME TypeInv, TypeInv', LedgerOK, ~lost', Ending
  PROVE  OutboxStep
<1>1. run'.pc \in {"idle", "save"} /\ posts' = posts
  BY DEF Ending, IdleRun, Saving
<1>2. CASE Written
  BY <1>1, <1>2, WrittenMaps DEF OutboxStep
<1>3. CASE UNCHANGED <<gist, Unread>> /\ run.pc = "send"
  BY <1>1, <1>3, SendMaps DEF OutboxStep
<1>4. CASE UNCHANGED <<gist, Unread>> /\ run.pc # "send"
  BY <1>1, <1>4, StutterMaps DEF OutboxStep
<1> QED BY <1>2, <1>3, <1>4 DEF Ending

LEMMA ToSendMaps ==
  ASSUME TypeInv, TypeInv', LedgerOK, ~lost', ToSend
  PROVE  OutboxStep
<1>1. Written /\ posts' = posts /\ mem' = mem /\ run.pc = "claimPatch" /\ run' = [run EXCEPT !.pc = "send"]
  BY DEF ToSend, Written, Patching
<1>2. ClaimOK
  BY <1>1, ClaimState DEF TypeInv, Claiming
<1>3. run'.draft = run.draft
  BY <1>1, <1>2 DEF ClaimOK
<1> QED BY <1>1, <1>3, WrittenMaps DEF OutboxStep

LEMMA DashboardMaps ==
  ASSUME Serialized, TypeInv, TypeInv', RouteInv, LedgerOK, Dashboard
  PROVE  OutboxStep
<1>1. PICK doc, request : OperationOK(doc, request) /\ Submit(doc, request) /\ UNCHANGED OutsideDash
  BY DashboardStep DEF TypeInv, RouteInv, DashPatch, DashFail
<1>2. run.pc = "idle" /\ run'.pc = "idle" /\ gist' = doc /\ posts' = posts
  BY <1>1 DEF Submit, OutsideDash
<1>3. \A e \in Events : Settled(gist.ledger[e], gist'.ledger[e], PostsOf(e))
  BY <1>1, <1>2, OperationSettles
<1> QED BY <1>2, <1>3, RecordMaps DEF OutboxStep

LEMMA OutboxSteps ==
  ASSUME Serialized, TypeInv, TypeInv', RouteInv, RouteInv', LedgerOK, [Next]_pubVars
  PROVE  OutboxStep
<1>0. ~lost /\ ~lost'
  BY DEF RouteInv
<1>1. CASE Start
  <2>1. run.pc = "idle" /\ run'.pc = "work" /\ gist' = gist /\ posts' = posts
    BY <1>1 DEF Start, StartRun
  <2> QED BY <2>1, StutterMaps DEF OutboxStep
<1>2. CASE WorkStep
  <2>1. run.pc = "work" /\ run'.pc # "send" /\ gist' = gist /\ posts' = posts
    BY <1>2, WorkingEffect DEF TypeInv, WorkEffect
  <2> QED BY <2>1, StutterMaps DEF OutboxStep
<1>3. CASE \E d \in Drafts : Claim(d)
  <2>1. run.pc = "work" /\ run'.pc = "claim"
    BY <1>3, Claimed DEF TypeInv, ClaimEffect
  <2>2. gist' = gist /\ posts' = posts
    BY <1>3 DEF Claim
  <2> QED BY <2>1, <2>2, StutterMaps DEF OutboxStep
<1>4. CASE Merging
  <2>1. run.pc \in {"claim", "save"} /\ run'.pc \in {"claimPatch", "savePatch"} /\ gist' = gist /\ posts' = posts
    <3>1. "pc" \in DOMAIN run
      BY DEF RouteInv
    <3> QED BY <1>4, <3>1 DEF Merging
  <2> QED BY <2>1, StutterMaps DEF OutboxStep
<1>5. CASE \E phase \in {"unknown", "not_sent", "confirmed"} : BotAnswer(phase)
  BY <1>0, <1>5, AnswerMaps
<1>6. CASE UNCHANGED pubVars
  BY <1>6, SameMaps DEF pubVars, OutboxStep
<1> QED BY <1>0, <1>1, <1>2, <1>3, <1>4, <1>5, <1>6, RunCases, ToSendMaps, EndingMaps, DashboardMaps DEF Next

LEMMA OutboxStart == Init => Outbox!Init
BY DEF Init, EmptyDocument, IdleRun, Outbox!Init, DurableAttempts

(* Through the serialized route publication implements the write-first      *)
(* outbox: every step of the bot, the dashboard and X is a step of it.     *)
THEOREM PublicationImplementsOutbox ==
  ASSUME Serialized
  PROVE  Spec => ImplementsOutbox
<1> DEFINE I == TypeInv /\ LedgerInv /\ RouteInv
<1>1. Init => I /\ Outbox!Init
  BY TypeInit, LedgerInit, RouteInit, OutboxStart
<1>2. I /\ [Next]_pubVars => I'
  BY TypeStep, LedgerStep, RouteStep
<1>3. I /\ I' /\ [Next]_pubVars => [Outbox!Next]_Outbox!outboxVars
  BY OutboxSteps, WholeLedger DEF RouteInv, OutboxStep
<1> HIDE DEF I
<1>4. Spec => Outbox!Init /\ [][Outbox!Next]_Outbox!outboxVars
  BY <1>1, <1>2, <1>3, PTL DEF Spec
<1> QED BY <1>4 DEF ImplementsOutbox, Outbox!Spec
=============================================================================
