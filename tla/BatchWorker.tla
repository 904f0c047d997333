----------------------------- MODULE BatchWorker -----------------------------
(***************************************************************************)
(* Paid batch submission over the spending journal: the fenced journal of  *)
(* src/commands/batch_worker_journal.py (one authority transaction per     *)
(* operation, so one action each), the worker processes that drive it      *)
(* (src/two_bot/batch_transport.py) and the provider.  A worker leases the *)
(* job, asks for the job's one grant, submits, retains the provider's      *)
(* answer and adopts the batch it names; any call may fail or lose its     *)
(* answer, any worker may die, and leases run out meanwhile.               *)
(*                                                                         *)
(* Leases and the spending journal share one clock here: its unit is a     *)
(* lease's, and allowances are left to SpendJournal's own runs.            *)
(***************************************************************************)
EXTENDS SpendJournal

CONSTANTS
    Workers,        \* worker processes
    OwnerOf,        \* the owner name each one leases under
    Batches,        \* provider batch identifiers
    Garbage,        \* answers no batch identifier can be read from
    LeaseTime,      \* LEASE_SECONDS
    UsefulUntil,    \* the plans' useful_until, less their minimum window
    MaxLeases,      \* MAX_LEASES
    MaxReceipts     \* MAX_RECEIPTS

ASSUME BatchAssumption ==
    /\ LeaseTime \in Nat \ {0}
    /\ UsefulUntil \in Nat
    /\ MaxLeases \in Nat
    /\ MaxReceipts \in Nat
    /\ Batches \cap Garbage = {}
    /\ None \notin Intents
    /\ None \notin Batches \cup Garbage

VARIABLES
    batch,      \* the journal's rows of each job
    worked,     \* MAX(recorded_at) over the worker journal
    work,       \* each worker's progress through submit_batch_once
    created     \* what the provider created: pairs of a job and a batch

batchVars == <<batch, worked, work, created, limits, rec, latest, grants>>

Job == [intent : Intents \cup {None}, registered : Nat, \* batch_jobs
        fence : Nat, owner : {OwnerOf[w] : w \in Workers} \cup {None},
        expires : Nat,                          \* batch_worker_leases, the last one
        grant : Nat,                            \* batch_worker_submissions: its fence, or 0
        doubted : BOOLEAN,                      \* batch_worker_uncertainties
        acks : SUBSET (Batches \cup Garbage),   \* batch_worker_acks
        adopted : Batches \cup {None}]          \* batch_worker_adoptions

Unregistered == [intent |-> None, registered |-> 0, fence |-> 0, owner |-> None, expires |-> 0, grant |-> 0,
                 doubted |-> FALSE, acks |-> {}, adopted |-> None]

Steps == {"idle", "leased", "granted", "answered", "retained", "doubt"}

Attempt == [pc : Steps, job : Jobs \cup {None}, fence : Nat,
            receipt : Batches \cup Garbage \cup {None}]

Resting == [pc |-> "idle", job |-> None, fence |-> 0, receipt |-> None]

BatchInit ==
    /\ Init
    /\ batch = [j \in Jobs |-> Unregistered]
    /\ worked = 0
    /\ work = [w \in Workers |-> Resting]
    /\ created = {}

-----------------------------------------------------------------------------
(* The journal's operations on job j at time now.                          *)

Reservation(j) == rec[batch[j].intent]

WorkerClock(j, now) ==
    /\ batch[j].intent # None
    /\ now \in worked..MaxDay
    /\ now >= batch[j].registered

LeaseActive(j, now) == batch[j].fence > 0 /\ now < batch[j].expires

(* _owner: the caller holds the current lease, and it has not run out. *)
Owns(j, owner, fence, now) ==
    /\ batch[j].fence = fence
    /\ batch[j].owner = owner
    /\ LeaseActive(j, now)

(* _uncertain: the doubt reaches the spending journal in the same step. *)
DoubtSpending(j, now) ==
    IF Reservation(j).state = "dispatched"
    THEN Uncertain(batch[j].intent, now)
    ELSE UNCHANGED spendVars

(* reserve asked for an intent that already holds exactly this. *)
ReservedAlready(i, j, amount, now) ==
    /\ ClockAdvances(now)
    /\ Configured
    /\ rec[i].state = "reserved"
    /\ rec[i].job = j
    /\ rec[i].reserve = amount
    /\ UNCHANGED spendVars

(* batch_journal.register: the job and its spending hold, in one transaction. *)
Register(j, i, amount, now) ==
    /\ batch[j].intent = None
    /\ now < UsefulUntil
    /\ \A k \in Jobs : batch[k].intent # i
    /\ Reserve(i, j, amount, now) \/ ReservedAlready(i, j, amount, now)
    /\ batch' = [batch EXCEPT ![j] = [@ EXCEPT !.intent = i, !.registered = now]]
    /\ UNCHANGED worked

(* Mutant of Acquire: a lease that ran out is renewed under its old fence. *)
MutantRenew(j, owner, now) ==
    /\ WorkerClock(j, now)
    /\ LeaseActive(j, now) => batch[j].owner = owner
    /\ batch' = [batch EXCEPT ![j].fence = IF @ = 0 THEN 1 ELSE @, ![j].owner = owner,
                              ![j].expires = now + LeaseTime]
    /\ worked' = now
    /\ UNCHANGED spendVars

(* acquire: the same owner keeps a lease that still runs; otherwise the next *)
(* fence, and an unadopted submission of an earlier one becomes uncertain.   *)
Acquire(j, owner, now) ==
    /\ WorkerClock(j, now)
    /\ \/ /\ LeaseActive(j, now)
          /\ batch[j].owner = owner
          /\ UNCHANGED <<batch, worked, spendVars>>
       \/ LET doubt == batch[j].grant # 0 /\ batch[j].adopted = None
          IN  /\ ~LeaseActive(j, now)
              /\ batch[j].fence < MaxLeases
              /\ batch' = [batch EXCEPT ![j] = [@ EXCEPT
                            !.fence = batch[j].fence + 1, !.owner = owner,
                            !.expires = now + LeaseTime,
                            !.doubted = batch[j].doubted \/ doubt]]
              /\ worked' = now
              /\ IF doubt THEN DoubtSpending(j, now) ELSE UNCHANGED spendVars

(* Mutant of Begin: a new fence is granted a submission of its own. *)
MutantGrantPerFence(j, owner, fence, now) ==
    /\ WorkerClock(j, now)
    /\ Owns(j, owner, fence, now)
    /\ now < UsefulUntil
    /\ batch[j].grant # fence
    /\ IF batch[j].grant = 0 THEN Dispatch(batch[j].intent, now) ELSE UNCHANGED spendVars
    /\ batch' = [batch EXCEPT ![j] = [@ EXCEPT !.grant = fence]]
    /\ worked' = now

(* begin: the one grant of the job, together with the reservation's dispatch. *)
Begin(j, owner, fence, now) ==
    /\ WorkerClock(j, now)
    /\ Owns(j, owner, fence, now)
    /\ now < UsefulUntil
    /\ batch[j].grant = 0
    /\ Dispatch(batch[j].intent, now)
    /\ batch' = [batch EXCEPT ![j] = [@ EXCEPT !.grant = fence]]
    /\ worked' = now

(* Mutant of RecordDoubt: the doubt stays in the worker journal. *)
MutantDoubtUnshared(j, owner, fence, now) ==
    /\ WorkerClock(j, now)
    /\ Owns(j, owner, fence, now)
    /\ batch[j].grant # 0
    /\ batch[j].adopted = None
    /\ batch' = [batch EXCEPT ![j] = [@ EXCEPT !.doubted = TRUE]]
    /\ worked' = now
    /\ UNCHANGED spendVars

(* uncertain. *)
RecordDoubt(j, owner, fence, now) ==
    /\ WorkerClock(j, now)
    /\ Owns(j, owner, fence, now)
    /\ batch[j].grant # 0
    /\ batch[j].adopted = None
    /\ DoubtSpending(j, now)
    /\ batch' = [batch EXCEPT ![j] = [@ EXCEPT !.doubted = TRUE]]
    /\ worked' = IF batch[j].doubted THEN worked ELSE now

(* observe_ack: no lease is needed, only the grant; every answer is kept. *)
ObserveAck(j, receipt, now) ==
    /\ WorkerClock(j, now)
    /\ batch[j].grant # 0
    /\ \/ receipt \in batch[j].acks /\ UNCHANGED <<batch, worked>>
       \/ /\ receipt \notin batch[j].acks
          /\ Cardinality(batch[j].acks) < MaxReceipts
          /\ batch' = [batch EXCEPT ![j] = [@ EXCEPT !.acks = batch[j].acks \cup {receipt}]]
          /\ worked' = now
    /\ UNCHANGED spendVars

Named(j) == batch[j].acks \cap Batches

(* Mutant of Conflict: only the job's own answers are compared. *)
MutantConflictWithinJob(j) == Cardinality(Named(j)) > 1

(* _conflict: two batches named for the job, or one named for another job too. *)
Conflict(j) ==
    \/ Cardinality(Named(j)) > 1
    \/ \E k \in Jobs \ {j} : Named(j) \cap Named(k) # {}

(* Mutant of Adopt: any retained answer is taken for a batch identifier. *)
MutantAdoptAnswer(j, owner, fence, receipt, now) ==
    /\ WorkerClock(j, now)
    /\ Owns(j, owner, fence, now)
    /\ ~Conflict(j)
    /\ receipt \in batch[j].acks
    /\ batch[j].adopted = None
    /\ batch' = [batch EXCEPT ![j] = [@ EXCEPT !.adopted = receipt]]
    /\ worked' = now
    /\ UNCHANGED spendVars

(* adopt: for good, and a batch identifier is adopted by one job only. *)
Adopt(j, owner, fence, receipt, now) ==
    /\ WorkerClock(j, now)
    /\ Owns(j, owner, fence, now)
    /\ ~Conflict(j)
    /\ receipt \in Named(j)
    /\ batch[j].adopted \in {None, receipt}
    /\ \A k \in Jobs \ {j} : batch[k].adopted # receipt
    /\ batch' = [batch EXCEPT ![j] = [@ EXCEPT !.adopted = receipt]]
    /\ worked' = IF batch[j].adopted = None THEN now ELSE worked
    /\ UNCHANGED spendVars

(* _view, of a registered job. *)
View(j, now) ==
    LET b == batch[j]
    IN  CASE b.grant = 0 /\ Reservation(j).state = "reserved" -> "reserved"
          [] b.grant = 0 /\ Reservation(j).state # "reserved" -> "reservation_unavailable"
          [] b.grant # 0 /\ Conflict(j)                       -> "acknowledgment_conflict"
          [] b.grant # 0 /\ ~Conflict(j) /\ b.adopted # None  -> "submitted"
          [] OTHER -> IF b.doubted \/ b.fence # b.grant \/ now >= b.expires
                      THEN "submission_uncertain" ELSE "submitting"

-----------------------------------------------------------------------------
(* A worker's attempt (_attempt_once).  Every step may lose the answer of   *)
(* the authority or the provider; only what was confirmed is acted on.     *)

At(w, pc) == work[w].pc = pc

Go(w, pc) == work' = [work EXCEPT ![w] = [@ EXCEPT !.pc = pc]]

Stop(w) == work' = [work EXCEPT ![w] = Resting]

Journal == <<batch, worked, spendVars>>

(* Also the lease of a collector (collect_batch_once), which then stops. *)
Lease(w, j, now) ==
    /\ At(w, "idle")
    /\ Acquire(j, OwnerOf[w], now)
    /\ work' = [work EXCEPT ![w] = [pc |-> "leased", job |-> j, fence |-> batch'[j].fence,
                                    receipt |-> None]]
    /\ UNCHANGED created

(* A grant whose confirmation is lost is never used: the attempt is doubted. *)
AskGrant(w, now) ==
    /\ At(w, "leased")
    /\ \/ /\ Begin(work[w].job, OwnerOf[w], work[w].fence, now)
          /\ Go(w, "granted") \/ Go(w, "doubt")
       \/ /\ UNCHANGED Journal                  \* refused, or granted before
          /\ Go(w, "doubt") \/ Stop(w)
    /\ UNCHANGED created

(* The provider creates a batch or not, and answers legibly or not, or not at all. *)
Submit(w) ==
    /\ At(w, "granted")
    /\ \/ \E b \in Batches \ {c[2] : c \in created} :
             /\ created' = created \cup {<<work[w].job, b>>}
             /\ \/ \E r \in Garbage \cup {b} :
                      work' = [work EXCEPT ![w] = [@ EXCEPT !.pc = "answered", !.receipt = r]]
                \/ Go(w, "doubt")
       \/ UNCHANGED created /\ Go(w, "doubt")
    /\ UNCHANGED Journal

Retain(w, now) ==
    LET j == work[w].job
    IN  /\ At(w, "answered")
        /\ \/ /\ ObserveAck(j, work[w].receipt, now)
              /\ IF batch'[j].acks \cap Garbage # {} THEN Go(w, "doubt") ELSE Go(w, "retained")
           \/ UNCHANGED Journal /\ Go(w, "doubt")
        /\ UNCHANGED created

Accept(w, now) ==
    /\ At(w, "retained")
    /\ \/ Adopt(work[w].job, OwnerOf[w], work[w].fence, work[w].receipt, now)
       \/ UNCHANGED Journal
    /\ Stop(w)
    /\ UNCHANGED created

(* _uncertain of the transport; after the lease is gone it only reports. *)
Doubt(w, now) ==
    /\ At(w, "doubt")
    /\ \/ RecordDoubt(work[w].job, OwnerOf[w], work[w].fence, now)
       \/ UNCHANGED Journal
    /\ Stop(w)
    /\ UNCHANGED created

Die(w) ==
    /\ ~At(w, "idle")
    /\ Stop(w)
    /\ UNCHANGED <<Journal, created>>

-----------------------------------------------------------------------------
(* Everyone else: jobs are registered, retained answers are filed late or   *)
(* under the wrong job, the current owner reconciles, and the spending      *)
(* journal is used directly.                                               *)

LateAck(j, receipt, now) ==
    /\ receipt \in Garbage \cup {c[2] : c \in created}
    /\ ObserveAck(j, receipt, now)
    /\ UNCHANGED <<work, created>>

Reconcile(w, j, now) ==
    /\ At(w, "idle")
    /\ \E receipt \in batch[j].acks : Adopt(j, OwnerOf[w], batch[j].fence, receipt, now)
    /\ UNCHANGED <<work, created>>

Prepare(j, i, amount, now) ==
    /\ Register(j, i, amount, now)
    /\ UNCHANGED <<work, created>>

Spending ==
    /\ Next
    /\ UNCHANGED <<batch, worked, work, created>>

BatchNext ==
    \/ \E now \in 0..MaxDay :
        \/ \E w \in Workers :
            \/ AskGrant(w, now)
            \/ Retain(w, now)
            \/ Accept(w, now)
            \/ Doubt(w, now)
            \/ \E j \in Jobs : Lease(w, j, now) \/ Reconcile(w, j, now)
        \/ \E j \in Jobs :
            \/ \E receipt \in Batches \cup Garbage : LateAck(j, receipt, now)
            \/ \E i \in Intents, amount \in Amounts : Prepare(j, i, amount, now)
    \/ \E w \in Workers : Submit(w) \/ Die(w)
    \/ Spending

BatchSpec == BatchInit /\ [][BatchNext]_batchVars

-----------------------------------------------------------------------------
(* Properties.                                                             *)

BatchTypeOK ==
    /\ SpendTypeOK
    /\ batch \in [Jobs -> Job]
    /\ \A j \in Jobs : Cardinality(batch[j].acks) <= MaxReceipts
    /\ worked \in 0..MaxDay
    /\ created \subseteq Jobs \X Batches
    /\ work \in [Workers -> Attempt]

(* Through lost grants, dead workers and leases that change hands, the      *)
(* provider creates at most one batch for a job, and a job with a batch, or *)
(* with a worker about to submit one, has its money charged for good.       *)
CreatedOnceAndCharged ==
    /\ \A c, d \in created : c[1] = d[1] => c = d
    /\ \A w \in Workers : At(w, "granted") => \A c \in created : c[1] # work[w].job
    /\ \A j \in {c[1] : c \in created} \cup {work[w].job : w \in {v \in Workers : At(v, "granted")}} :
          Reservation(j).state \in {"dispatched", "uncertain", "settled"}

(* The two journals agree: an attempt the worker journal holds in doubt is  *)
(* no longer plainly dispatched in the spending journal.                    *)
DoubtIsShared ==
    \A j \in Jobs :
        /\ batch[j].doubted => Reservation(j).state \in {"uncertain", "settled"}
        /\ /\ batch[j].grant # 0
           /\ batch[j].fence # batch[j].grant
           /\ Reservation(j).state = "dispatched"
           => batch[j].adopted # None

(* The batch a job reports is no evidence of another job.                   *)
ReportedIsUndisputed ==
    \A j, k \in Jobs :
        j # k /\ batch[j].intent # None /\ View(j, worked) = "submitted"
            => batch[j].adopted \notin batch[k].acks

Standing(view) ==
    CASE view = "reserved"                -> 0
      [] view = "submitting"              -> 1
      [] view = "submission_uncertain"    -> 2
      [] view = "submitted"               -> 3
      [] view = "acknowledgment_conflict" -> 4
      [] view = "reservation_unavailable" -> 5

(* What a job reports at any time is never taken back at a later one: an    *)
(* attempt once in doubt is not in progress again, a disputed or reported   *)
(* batch not open again, and a dead reservation never submits.              *)
ViewNeverGoesBack ==
    [][\A j \in Jobs, t \in worked..MaxDay, u \in worked'..MaxDay :
          batch[j].intent # None /\ t <= u =>
              /\ Standing(View(j, t)) <= Standing(View(j, u)')
              /\ View(j, t) = "submitted" => batch'[j].adopted = batch[j].adopted]_batchVars
=============================================================================
