--------------------------- MODULE DeliveryOutbox ---------------------------
(***************************************************************************)
(* What publication promises, without drafts, approvals or documents: the  *)
(* write-first outbox of src/orchestrator/posting.py and                   *)
(* src/posting/outbox_outcome.py.  A platform call happens only after its  *)
(* intent is durable; an intent of an event is admitted only when every    *)
(* earlier attempt of the event is durably known not to have been sent;    *)
(* and a silent outcome stays open until evidence settles it.              *)
(***************************************************************************)
EXTENDS Integers, FiniteSets

CONSTANTS Events, Numbers    \* an attempt is an event and a number

Attempts == Events \X Numbers

VARIABLES
    open,       \* durable attempts that may have reached the platform
    sent,       \* durable attempts with a receipt
    notSent,    \* durable attempts proven not to have been sent
    flight,     \* attempts whose process is still to make the platform call
    posts       \* what the platform published

outboxVars == <<open, sent, notSent, flight, posts>>

OutboxTypeOK ==
    /\ open \subseteq Attempts
    /\ sent \subseteq Attempts
    /\ notSent \subseteq Attempts
    /\ flight \subseteq Attempts
    /\ posts \subseteq Attempts

SameEvent(a, b) == a[1] = b[1]

Init ==
    /\ open = {}
    /\ sent = {}
    /\ notSent = {}
    /\ flight = {}
    /\ posts = {}

(* One durable write: attempts C turn out posted, attempts N not.  An       *)
(* attempt whose intent never became durable may be recorded as not sent.  *)
Settle(C, N) ==
    /\ C \subseteq open \cap posts
    /\ N \subseteq Attempts \ (sent \cup posts \cup flight)
    /\ sent' = sent \cup C
    /\ notSent' = notSent \cup N

(* The same kind of write admits a new attempt a; the process that made it *)
(* may learn that it is durable (and go on to the platform) or may not.    *)
Admit(a, C, N) ==
    /\ flight = {}
    /\ a \notin open \cup sent \cup notSent \cup N
    /\ \A b \in (open \ N) \cup sent : ~SameEvent(a, b)
    /\ Settle(C, N)
    /\ open' = (open \ (C \cup N)) \cup {a}
    /\ flight' \in {{}, {a}}
    /\ UNCHANGED posts

Record(C, N) ==
    /\ Settle(C, N)
    /\ open' = open \ (C \cup N)
    /\ UNCHANGED <<flight, posts>>

(* The platform call is made, and publishes or not, whatever is answered.  *)
Send(a) ==
    /\ a \in flight
    /\ flight' = flight \ {a}
    /\ posts' \in {posts, posts \cup {a}}
    /\ UNCHANGED <<open, sent, notSent>>

Next ==
    \/ \E a \in Attempts, C \in SUBSET open, N \in SUBSET Attempts : Admit(a, C, N)
    \/ \E C \in SUBSET open, N \in SUBSET Attempts : Record(C, N)
    \/ \E a \in Attempts : Send(a)

Spec == Init /\ [][Next]_outboxVars

-----------------------------------------------------------------------------
(* Properties.                                                             *)

(* Each event is published at most once, however often it is attempted.    *)
AtMostOnce == \A a, b \in posts : SameEvent(a, b) => a = b

(* Whatever the platform published is durably open or has its receipt:     *)
(* a published attempt is never recorded as not sent.                      *)
NothingForgotten == posts \subseteq (open \cup sent) \ notSent

(* At most one attempt of an event may still be, or has been, published.   *)
OneLiveAttempt == \A a, b \in open \cup sent : SameEvent(a, b) => a = b
=============================================================================
