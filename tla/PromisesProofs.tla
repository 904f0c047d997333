--------------------------- MODULE PromisesProofs ---------------------------
(***************************************************************************)
(* What the two abstract specifications promise follows from their steps,  *)
(* for any constants: the write-first outbox publishes at most once; of    *)
(* operators' requests one wins per view, and closed requests stay closed. *)
(***************************************************************************)
EXTENDS DeliveryOutbox, OperatorDecisions, TLAPS

-----------------------------------------------------------------------------
(* DeliveryOutbox.                                                         *)

(* A process in flight holds a durable attempt it has not yet made, and an *)
(* attempt never has two durable outcomes.                                 *)
FlightIsOpen == flight \subseteq open \ posts

OneOutcome == open \cap sent = {} /\ open \cap notSent = {} /\ sent \cap notSent = {}

OutboxInv ==
    /\ OutboxTypeOK
    /\ FlightIsOpen
    /\ OneOutcome
    /\ NothingForgotten
    /\ OneLiveAttempt

(* A new attempt joins the live ones of other events only. *)
LEMMA AdmitKeepsInv ==
    ASSUME OutboxInv, NEW a \in Attempts, NEW C \in SUBSET open, NEW N \in SUBSET Attempts,
           Admit(a, C, N)
    PROVE  OutboxInv'
<1>1. /\ open' = (open \ (C \cup N)) \cup {a}
      /\ sent' = sent \cup C
      /\ notSent' = notSent \cup N
      /\ posts' = posts
      /\ flight' = {} \/ flight' = {a}
      /\ C \subseteq open \cap posts
      /\ N \subseteq Attempts \ (sent \cup posts \cup flight)
      /\ a \notin open \cup sent \cup notSent \cup N
      /\ \A b \in (open \ N) \cup sent : ~SameEvent(a, b)
  BY DEF Admit, Settle
<1>2. OutboxTypeOK'
  BY <1>1 DEF OutboxInv, OutboxTypeOK
<1>3. a \notin posts
  BY <1>1 DEF OutboxInv, NothingForgotten
<1>4. FlightIsOpen'
  BY <1>1, <1>3 DEF FlightIsOpen
<1>5. OneOutcome'
  BY <1>1 DEF OutboxInv, OneOutcome
<1>6. NothingForgotten'
  BY <1>1, <1>3 DEF OutboxInv, NothingForgotten, OneOutcome
<1>7. OneLiveAttempt'
  <2> SUFFICES ASSUME NEW b \in open' \cup sent', NEW c \in open' \cup sent', SameEvent(b, c)
               PROVE  b = c
    BY DEF OneLiveAttempt, SameEvent
  <2>1. \A x \in open' \cup sent' : x = a \/ x \in (open \ N) \cup sent
    BY <1>1
  <2>2. CASE b = a /\ c # a
    BY <2>1, <2>2, <1>1
  <2>3. CASE c = a /\ b # a
    BY <2>1, <2>3, <1>1 DEF SameEvent
  <2>4. CASE b # a /\ c # a
    BY <2>1, <2>4 DEF OutboxInv, OneLiveAttempt
  <2> QED BY <2>2, <2>3, <2>4
<1> QED BY <1>2, <1>4, <1>5, <1>6, <1>7 DEF OutboxInv

(* Settling attempts only moves them out of the open ones. *)
LEMMA RecordKeepsInv ==
    ASSUME OutboxInv, NEW C \in SUBSET open, NEW N \in SUBSET Attempts, Record(C, N)
    PROVE  OutboxInv'
<1>1. /\ open' = open \ (C \cup N)
      /\ sent' = sent \cup C
      /\ notSent' = notSent \cup N
      /\ posts' = posts
      /\ flight' = flight
      /\ C \subseteq open \cap posts
      /\ N \subseteq Attempts \ (sent \cup posts \cup flight)
  BY DEF Record, Settle
<1>2. OutboxTypeOK'
  BY <1>1 DEF OutboxInv, OutboxTypeOK
<1>3. FlightIsOpen'
  BY <1>1 DEF OutboxInv, FlightIsOpen
<1>4. OneOutcome'
  BY <1>1 DEF OutboxInv, OneOutcome
<1>5. NothingForgotten'
  BY <1>1 DEF OutboxInv, NothingForgotten, OneOutcome
<1>6. OneLiveAttempt'
  <2>1. open' \cup sent' \subseteq open \cup sent
    BY <1>1
  <2> QED BY <2>1 DEF OutboxInv, OneLiveAttempt, SameEvent
<1> QED BY <1>2, <1>3, <1>4, <1>5, <1>6 DEF OutboxInv

LEMMA SendKeepsInv ==
    ASSUME OutboxInv, NEW a \in Attempts, Send(a)
    PROVE  OutboxInv'
<1>1. /\ a \in flight
      /\ flight' = flight \ {a}
      /\ posts' = posts \/ posts' = posts \cup {a}
      /\ open' = open
      /\ sent' = sent
      /\ notSent' = notSent
  BY DEF Send
<1>2. OutboxTypeOK'
  BY <1>1 DEF OutboxInv, OutboxTypeOK
<1>3. FlightIsOpen'
  BY <1>1 DEF OutboxInv, FlightIsOpen
<1>4. OneOutcome'
  BY <1>1 DEF OutboxInv, OneOutcome
<1>5. a \in open \ notSent
  BY <1>1 DEF OutboxInv, FlightIsOpen, OneOutcome
<1>6. NothingForgotten'
  BY <1>1, <1>5 DEF OutboxInv, NothingForgotten
<1>7. OneLiveAttempt'
  BY <1>1 DEF OutboxInv, OneLiveAttempt, SameEvent
<1> QED BY <1>2, <1>3, <1>4, <1>6, <1>7 DEF OutboxInv

(* Every reachable state of the outbox satisfies the inductive invariant. *)
THEOREM OutboxInvariant == Spec => []OutboxInv
<1>1. Init => OutboxInv
  BY DEF Init, OutboxInv, OutboxTypeOK, FlightIsOpen, OneOutcome, NothingForgotten,
         OneLiveAttempt
<1>2. OutboxInv /\ [Next]_outboxVars => OutboxInv'
  <2> SUFFICES ASSUME OutboxInv, [Next]_outboxVars PROVE OutboxInv'
    OBVIOUS
  <2>1. ASSUME NEW a \in Attempts, NEW C \in SUBSET open, NEW N \in SUBSET Attempts,
               Admit(a, C, N)
        PROVE  OutboxInv'
    BY <2>1, AdmitKeepsInv
  <2>2. ASSUME NEW C \in SUBSET open, NEW N \in SUBSET Attempts, Record(C, N)
        PROVE  OutboxInv'
    BY <2>2, RecordKeepsInv
  <2>3. ASSUME NEW a \in Attempts, Send(a) PROVE OutboxInv'
    BY <2>3, SendKeepsInv
  <2>4. CASE UNCHANGED outboxVars
    BY <2>4 DEF outboxVars, OutboxInv, OutboxTypeOK, FlightIsOpen, OneOutcome,
                NothingForgotten, OneLiveAttempt, SameEvent
  <2> QED BY <2>1, <2>2, <2>3, <2>4 DEF Next
<1> QED BY <1>1, <1>2, PTL DEF Spec

(* An event is never published twice, whatever crashes, silent answers and *)
(* failed writes do: what was published is live, and one attempt is live.  *)
THEOREM AtMostOnceDelivery == Spec => []AtMostOnce
<1>1. OutboxInv => AtMostOnce
  BY DEF OutboxInv, NothingForgotten, OneLiveAttempt, AtMostOnce
<1> QED BY <1>1, OutboxInvariant, PTL

(* A published attempt is never forgotten, nor recorded as not sent. *)
THEOREM PublishedIsRecorded == Spec => []NothingForgotten
<1>1. OutboxInv => NothingForgotten
  BY DEF OutboxInv
<1> QED BY <1>1, OutboxInvariant, PTL

-----------------------------------------------------------------------------
(* OperatorDecisions.                                                      *)

(* Each request that took effect left its copies behind for good. *)
WinnersInv ==
    /\ \A d \in Drafts : Versioned(copy[d])
    /\ \A r \in applied : \A d \in DOMAIN r.views :
          d \in Drafts /\ Versioned(r.views[d]) /\ copy[d].dec > r.views[d].dec
    /\ OneWinnerPerView

LEMMA StepKeepsWinners == ASSUME WinnersInv, DecisionNext PROVE WinnersInv'
<1> DEFINE new == applied' \ applied
<1>1. \A r \in new : \A d \in DOMAIN r.views :
         d \in Drafts /\ Versioned(r.views[d]) /\ copy[d] = r.views[d] /\ copy'[d].dec > r.views[d].dec
  BY DEF WinnersInv, DecisionNext, TakesEffect, MovesOn
<1>2. \A d \in Drafts : copy'[d] = copy[d] \/ MovesOn(copy[d], copy'[d])
  BY DEF DecisionNext, TakesEffect
<1>3. \A d \in Drafts : Versioned(copy'[d]) /\ copy'[d].dec >= copy[d].dec
  BY <1>2 DEF WinnersInv, MovesOn, Versioned
<1>4. \A s \in applied : \A d \in DOMAIN s.views :
         d \in Drafts /\ Versioned(s.views[d]) /\ copy[d].dec > s.views[d].dec
  BY DEF WinnersInv
<1>5. \A s \in applied : \A d \in DOMAIN s.views : copy'[d].dec > s.views[d].dec
  BY <1>3, <1>4 DEF WinnersInv, Versioned
<1>6. \A s \in applied' : \A d \in DOMAIN s.views :
         d \in Drafts /\ Versioned(s.views[d]) /\ copy'[d].dec > s.views[d].dec
  BY <1>1, <1>4, <1>5
<1>7. \A r \in new : \A s \in applied : \A d \in DOMAIN r.views \cap DOMAIN s.views : r.views[d] # s.views[d]
  BY <1>1, <1>4 DEF Versioned
<1>8. \A r, s \in new : r # s => \A d \in DOMAIN r.views \cap DOMAIN s.views : r.views[d] # s.views[d]
  BY DEF DecisionNext
<1>9. \A r, s \in applied : r # s => \A d \in DOMAIN r.views \cap DOMAIN s.views : r.views[d] # s.views[d]
  BY DEF WinnersInv, OneWinnerPerView
<1>10. OneWinnerPerView'
  <2> SUFFICES ASSUME NEW r \in applied', NEW s \in applied', r # s,
                      NEW d \in DOMAIN r.views \cap DOMAIN s.views
               PROVE  r.views[d] # s.views[d]
    BY DEF OneWinnerPerView
  <2>1. CASE r \in applied /\ s \in applied
    BY <2>1, <1>9
  <2>2. CASE r \in new /\ s \in new
    BY <2>2, <1>8
  <2>3. CASE r \in new /\ s \in applied
    BY <2>3, <1>7
  <2>4. CASE r \in applied /\ s \in new
    BY <2>4, <1>7
  <2> QED BY <2>1, <2>2, <2>3, <2>4
<1> QED BY <1>3, <1>6, <1>10 DEF WinnersInv

LEMMA WinnersNextInv == WinnersInv /\ [DecisionNext]_decisionVars => WinnersInv'
<1> SUFFICES ASSUME WinnersInv, [DecisionNext]_decisionVars PROVE WinnersInv'
  OBVIOUS
<1>1. CASE UNCHANGED decisionVars
  BY <1>1 DEF WinnersInv, OneWinnerPerView, decisionVars
<1> QED BY <1>1, StepKeepsWinners

(* Of the requests made from one view of a draft at most one takes effect.  *)
THEOREM OneWinner == DecisionSpec => []OneWinnerPerView
<1>1. DecisionInit => WinnersInv
  BY DEF DecisionInit, WinnersInv, OneWinnerPerView
<1>2. WinnersInv => OneWinnerPerView
  BY DEF WinnersInv
<1> QED BY <1>1, <1>2, WinnersNextInv, PTL DEF DecisionSpec

(* A request that was closed without effect never takes effect.             *)
THEOREM ClosedForGood == DecisionSpec => []ClosedStaysClosed
<1>1. DecisionInit => ClosedStaysClosed
  BY DEF DecisionInit, ClosedStaysClosed
<1>2. ClosedStaysClosed /\ [DecisionNext]_decisionVars => ClosedStaysClosed'
  BY DEF ClosedStaysClosed, DecisionNext, TakesEffect, decisionVars
<1> QED BY <1>1, <1>2, PTL DEF DecisionSpec
=============================================================================
