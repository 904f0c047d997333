--------------------------- MODULE CandidateChecks ---------------------------
(***************************************************************************)
(* From a batch's downloaded results to one candidate's required checks:   *)
(* the result journal (src/commands/batch_result_journal.py), the check    *)
(* journal (check_journal.py), the retained observations                   *)
(* (check_execution_journal.py) and the processes that run one check each  *)
(* (src/two_bot/check_executor.py).  Every journal operation is a          *)
(* transaction; between two of a process others act, its lease may run     *)
(* out, further results may be retained, and it may stop.                  *)
(*                                                                         *)
(* One job and one candidate of it.  Whether its batch is confirmed is the *)
(* batch worker's business (BatchWorker): here it is, until it conflicts.  *)
(* Left out: the journals' capacities, changed bytes of a stored record    *)
(* and requests or reservations a caller makes up (all refused), and the   *)
(* spending journal's days (SpendJournal).                                 *)
(***************************************************************************)
EXTENDS Integers, FiniteSets, SequencesExt

CONSTANTS
    Executors,      \* processes of execute_check_once
    Owners, OwnerOf,    \* lease owners, and each process's owner name
    Files,          \* downloads of the batch's results
    MeaningOf,      \* what a complete, consistent one says; None for any other
    Views,          \* what a caller may take for current: evidence, memory, drafts
    Fitting,        \* the ones whose context is the one the job was planned in
    Allowance,      \* paid checks the spending journal has room for
    LeaseTime,      \* LEASE_SECONDS
    ReadBudget,     \* READ_BUDGET_SECONDS and its socket timeouts
    DayLength,      \* ticks per UTC day
    UsefulUntil,    \* the plan's useful_until
    MaxTime         \* bound of the clock

None == "none"

ASSUME ChecksAssumption ==
    /\ OwnerOf \in [Executors -> Owners] /\ None \notin Owners \cup Files \cup Views
    /\ IsFiniteSet(Files) /\ DOMAIN MeaningOf = Files
    /\ Fitting \subseteq Views
    /\ Allowance \in Nat /\ LeaseTime \in Nat \ {0} /\ ReadBudget \in Nat
    /\ DayLength \in Nat \ {0} /\ UsefulUntil \in Nat /\ MaxTime \in Nat

VARIABLES
    now,
    submitted,      \* the worker journal names one provider batch for the job
    lease,          \* the job's last lease
    receipts,       \* batch_result_receipts: the retained files
    choice,         \* batch_result_choices
    packet,         \* check_sets: what the candidate's checks are about
    grant,          \* check_attempts: each stage's one attempt
    charged,        \* paid stages dispatched in the spending journal
    observed,       \* check_observations: each stage's retained answer
    verdict,        \* check_receipts: each stage's disposition
    run,            \* each process's progress
    calls           \* history: how often each stage was executed

journalVars == <<lease, receipts, choice, packet, grant, charged, observed, verdict>>
checksVars == <<now, submitted, journalVars, run, calls>>

STAGES == <<"deterministic", "safety", "fact_check", "critic">>
Stages == ToSet(STAGES)
Paid == Stages \ {"deterministic"}

Before(s) == {t \in Stages : \E i, j \in DOMAIN STAGES : t = STAGES[i] /\ s = STAGES[j] /\ i < j}

(* "failed" is an error or an unavailable answer. *)
Answers == {"pass", "reject", "failed"}
Dispositions == {"passed", "rejected", "failed", "stale"}
Steps == {"idle", "leased", "ready", "granted", "calling", "answered", "finishing"}

NoPacket == [meaning |-> None, view |-> None, day |-> 0]
NoGrant == [owner |-> None, fence |-> 0]
Resting == [pc |-> "idle", stage |-> None, view |-> None, fence |-> 0, expires |-> 0, answer |-> None]

Meanings == {MeaningOf[f] : f \in Files} \ {None}

ChecksInit ==
    /\ now = 0 /\ submitted = TRUE
    /\ lease = [owner |-> None, fence |-> 0, expires |-> 0]
    /\ receipts = {} /\ choice = None /\ packet = NoPacket
    /\ grant = [s \in Stages |-> NoGrant] /\ charged = {}
    /\ observed = [s \in Stages |-> None] /\ verdict = [s \in Stages |-> None]
    /\ run = [e \in Executors |-> Resting]
    /\ calls = [s \in Stages |-> 0]

-----------------------------------------------------------------------------
(* The result journal.                                                     *)

Today == now \div DayLength

Owns(owner, fence) == fence > 0 /\ lease.owner = owner /\ lease.fence = fence /\ now < lease.expires

(* Mutant of Said: only what was chosen counts. *)
MutantSaidByChoice == {MeaningOf[f] : f \in {choice} \ {None}}

(* What the retained files, and the one chosen before, say in all.  While  *)
(* the worker journal's evidence conflicts no file says anything.          *)
Said == {MeaningOf[f] : f \in {g \in receipts : submitted}} \cup {MeaningOf[f] : f \in {choice} \ {None}}

Disputed == Cardinality(Said \ {None}) > 1

(* evaluate: the file's candidate, if it may be checked. *)
Eligible(f, owner, fence, view) ==
    /\ f \in receipts /\ MeaningOf[f] # None
    /\ submitted /\ ~Disputed
    /\ Owns(owner, fence)
    /\ view \in Fitting
    /\ now < UsefulUntil

(* Mutant of Chosen: the file reviewed last is the choice. *)
MutantLastReviewed(f) == IF submitted /\ MeaningOf[f] # None THEN f ELSE choice

(* review: the first usable file is chosen for good. *)
Chosen(f) ==
    IF choice = None /\ submitted /\ MeaningOf[f] # None /\ ~Disputed THEN f ELSE choice

(* Anyone may retain what was downloaded, lease or not. *)
Record(f) ==
    /\ receipts' = receipts \cup {f}
    /\ UNCHANGED <<now, submitted, lease, choice, packet, grant, charged, observed, verdict, run, calls>>

Review(f, owner, fence) ==
    /\ f \in receipts
    /\ Owns(owner, fence)
    /\ choice' = Chosen(f)
    /\ UNCHANGED <<now, submitted, lease, receipts, packet, grant, charged, observed, verdict, run, calls>>

(* batch_worker_journal acquire: the same owner keeps a lease that runs.    *)
Acquired(owner) ==
    IF lease.fence > 0 /\ now < lease.expires THEN lease
    ELSE [owner |-> owner, fence |-> lease.fence + 1, expires |-> now + LeaseTime]

MayAcquire(owner) == lease.fence > 0 /\ now < lease.expires => lease.owner = owner

Acquire(owner) ==
    /\ MayAcquire(owner)
    /\ lease' = Acquired(owner)
    /\ UNCHANGED <<now, submitted, receipts, choice, packet, grant, charged, observed, verdict, run, calls>>

-----------------------------------------------------------------------------
(* The check journal.                                                      *)

(* intake, of the candidate that file f holds; the same one again changes   *)
(* nothing, another one is refused.                                        *)
Intake(f, owner, fence, view) ==
    /\ Eligible(f, owner, fence, view)
    /\ packet = NoPacket
    /\ packet' = [meaning |-> MeaningOf[f], view |-> view, day |-> Today]
    /\ choice' = Chosen(f)
    /\ UNCHANGED <<now, submitted, lease, receipts, grant, charged, observed, verdict, run, calls>>

(* _current: the packet still is what may be checked, for this caller. *)
Current(owner, fence, view) ==
    /\ packet # NoPacket
    /\ view = packet.view
    /\ choice # None
    /\ Eligible(choice, owner, fence, view)
    /\ MeaningOf[choice] = packet.meaning
    /\ Today = packet.day

StageStatus(s) ==
    IF grant[s] = NoGrant THEN "pending" ELSE IF verdict[s] = None THEN "unresolved" ELSE verdict[s]

(* The first stage that has not passed, if any. *)
NextStage == {s \in Stages : StageStatus(s) # "passed" /\ \A t \in Before(s) : StageStatus(t) = "passed"}

(* Mutant of MayBegin: whoever holds the lease is granted an attempt. *)
MutantBeginAgain(s, owner, fence, view) ==
    /\ Current(owner, fence, view)
    /\ \A t \in Before(s) : StageStatus(t) = "passed"
    /\ s \in Paid => Cardinality(charged) < Allowance

(* begin grants a stage's only attempt; a paid one is reserved and          *)
(* dispatched with it.                                                     *)
MayBegin(s, owner, fence, view) ==
    /\ Current(owner, fence, view)
    /\ grant[s] = NoGrant
    /\ \A t \in Before(s) : StageStatus(t) = "passed"
    /\ s \in Paid => Cardinality(charged) < Allowance

(* Mutant of Begun: the attempt is recorded, its money is not. *)
MutantBegunUncharged(s, owner, fence) ==
    /\ grant' = [grant EXCEPT ![s] = [owner |-> owner, fence |-> fence]]
    /\ UNCHANGED charged

Begun(s, owner, fence) ==
    /\ grant' = [grant EXCEPT ![s] = [owner |-> owner, fence |-> fence]]
    /\ charged' = charged \cup ({s} \cap Paid)

Disposition(s, view) ==
    IF ~Current(grant[s].owner, grant[s].fence, view) THEN "stale"
    ELSE CASE observed[s] = "pass"   -> "passed"
           [] observed[s] = "reject" -> "rejected"
           [] OTHER                  -> observed[s]

(* Mutant of Complete: the last receipt stands. *)
MutantCompleteAgain(s, view) == verdict' = [verdict EXCEPT ![s] = Disposition(s, view)]

(* complete: the first receipt stands; the same one again changes nothing. *)
Complete(s, view) ==
    verdict' = [verdict EXCEPT ![s] = IF @ = None THEN Disposition(s, view) ELSE @]

-----------------------------------------------------------------------------
(* execute_check_once.                                                     *)

Proceed(e, update) == run' = [run EXCEPT ![e] = update]
Step(e, pc) == Proceed(e, [run[e] EXCEPT !.pc = pc])
Stop(e) == Proceed(e, Resting)

Identified(e) == Current(OwnerOf[e], run[e].fence, run[e].view)

(* _window_available *)
WindowOpen(e) ==
    \A deadline \in {run[e].expires, UsefulUntil, (packet.day + 1) * DayLength} : deadline - now > ReadBudget

WindowFits(e) == run[e].stage \in Paid => WindowOpen(e)

Lease(e, view) ==
    /\ run[e].pc = "idle" /\ packet # NoPacket
    /\ MayAcquire(OwnerOf[e])
    /\ lease' = Acquired(OwnerOf[e])
    /\ Proceed(e, [Resting EXCEPT !.pc = "leased", !.view = view,
                                  !.fence = lease'.fence, !.expires = lease'.expires])
    /\ UNCHANGED <<now, submitted, receipts, choice, packet, grant, charged, observed, verdict, calls>>

(* It takes up the first stage that has not passed: to begin it, or to end  *)
(* what another process began; else there is nothing to do, or no way.      *)
TakeUp(e, s) ==
    /\ run[e].pc = "leased"
    /\ Identified(e)
    /\ s \in NextStage
    /\ StageStatus(s) \in {"pending", "unresolved"}
    /\ Proceed(e, [run[e] EXCEPT !.stage = s,
                                 !.pc = IF StageStatus(s) = "pending" THEN "ready" ELSE "finishing"])
    /\ UNCHANGED <<now, submitted, journalVars, calls>>

(* A grant whose answer is lost is not used. *)
Begin(e) ==
    /\ run[e].pc = "ready"
    /\ WindowFits(e)
    /\ MayBegin(run[e].stage, OwnerOf[e], run[e].fence, run[e].view)
    /\ Begun(run[e].stage, OwnerOf[e], run[e].fence)
    /\ Step(e, "granted") \/ Stop(e)
    /\ UNCHANGED <<now, submitted, lease, receipts, choice, packet, observed, verdict, calls>>

Recheck(e) ==
    /\ run[e].pc = "granted"
    /\ Identified(e)
    /\ Step(e, "calling")
    /\ UNCHANGED <<now, submitted, journalVars, calls>>

Call(e, answer) ==
    /\ run[e].pc = "calling"
    /\ run[e].stage = "deterministic" => answer \in {"pass", "reject"}
    /\ WindowFits(e)
    /\ calls' = [calls EXCEPT ![run[e].stage] = @ + 1]
    /\ Proceed(e, [run[e] EXCEPT !.pc = "answered", !.answer = answer])
    /\ UNCHANGED <<now, submitted, journalVars>>

Observe(e) ==
    /\ run[e].pc = "answered"
    /\ observed[run[e].stage] \in {None, run[e].answer}
    /\ observed' = [observed EXCEPT ![run[e].stage] = run[e].answer]
    /\ Proceed(e, [run[e] EXCEPT !.pc = "finishing", !.answer = None])
    /\ UNCHANGED <<now, submitted, lease, receipts, choice, packet, grant, charged, verdict, calls>>

(* _finish, under the identity the stage was begun with. *)
Finish(e) ==
    /\ run[e].pc = "finishing"
    /\ observed[run[e].stage] # None
    /\ Complete(run[e].stage, run[e].view)
    /\ Stop(e)
    /\ UNCHANGED <<now, submitted, lease, receipts, choice, packet, grant, charged, observed, calls>>

(* It reports what it cannot do, or its process stops. *)
Die(e) ==
    /\ run[e].pc # "idle"
    /\ Stop(e)
    /\ UNCHANGED <<now, submitted, journalVars, calls>>

-----------------------------------------------------------------------------
Tick ==
    /\ now < MaxTime
    /\ now' = now + 1
    /\ UNCHANGED <<submitted, journalVars, run, calls>>

(* A late acknowledgment names another batch: the job's is in conflict. *)
AckConflict ==
    /\ submitted
    /\ submitted' = FALSE
    /\ UNCHANGED <<now, journalVars, run, calls>>

Held == {[owner |-> o, fence |-> n] : o \in Owners, n \in 1..lease.fence}

ChecksNext ==
    \/ Tick \/ AckConflict
    \/ \E o \in Owners : Acquire(o)
    \/ \E f \in Files : Record(f)
    \/ \E f \in Files, h \in Held : Review(f, h.owner, h.fence)
    \/ \E f \in Files, h \in Held, v \in Views : Intake(f, h.owner, h.fence, v)
    \/ \E e \in Executors :
          \/ \E v \in Views : Lease(e, v)
          \/ \E s \in Stages : TakeUp(e, s)
          \/ Begin(e) \/ Recheck(e)
          \/ \E answer \in Answers : Call(e, answer)
          \/ Observe(e) \/ Finish(e)
          \/ Die(e)

ChecksSpec == ChecksInit /\ [][ChecksNext]_checksVars

-----------------------------------------------------------------------------
ChecksTypeOK ==
    /\ now \in 0..MaxTime /\ submitted \in BOOLEAN
    /\ lease.owner \in Owners \cup {None} /\ lease.fence \in Nat /\ lease.expires \in Nat
    /\ receipts \subseteq Files /\ choice \in receipts \cup {None}
    /\ packet = NoPacket \/ (packet.meaning \in Meanings /\ packet.view \in Fitting /\ packet.day \in Nat)
    /\ \A s \in Stages :
          /\ grant[s] = NoGrant \/ grant[s] \in Held
          /\ observed[s] \in Answers \cup {None}
          /\ verdict[s] \in Dispositions \cup {None}
          /\ calls[s] \in Nat
    /\ charged = {s \in Paid : grant[s] # NoGrant}
    /\ \A e \in Executors : run[e].pc \in Steps /\ run[e].stage \in Stages \cup {None}

(* However many processes run, stop, lose answers and take over: a stage is *)
(* executed at most once, a paid one only on money charged for it, and none *)
(* before everything required ahead of it has passed.                       *)
ExecutedOnceInOrder ==
    \A s \in Stages : calls[s] > 0 =>
        /\ calls[s] = 1
        /\ s \in Paid => s \in charged
        /\ \A t \in Before(s) : verdict[t] = "passed"

(* The checks are about what the chosen file says, though files may be      *)
(* retained, reviewed and chosen in any order.                              *)
ChecksAreOfTheChoice == packet # NoPacket => choice # None /\ MeaningOf[choice] = packet.meaning

RecordKept ==
    /\ choice # None => choice' = choice
    /\ packet # NoPacket => packet' = packet
    /\ \A s \in Stages :
          /\ grant[s] # NoGrant => grant'[s] = grant[s]
          /\ observed[s] # None => observed'[s] = observed[s]
          /\ verdict[s] # None => verdict'[s] = verdict[s]

(* What is recorded stays: a later file does not replace the choice, a      *)
(* recovered answer does not replace a verdict, a stale one above all.      *)
RecordedStays == [][RecordKept]_checksVars

OnSoundEvidence(s) ==
    /\ submitted
    /\ \A f, g \in receipts : None \in {MeaningOf[f], MeaningOf[g]} \/ MeaningOf[f] = MeaningOf[g]
    /\ Today = packet.day
    /\ grant'[s] = [owner |-> lease.owner, fence |-> lease.fence]

BeginsOrPasses(s) == (verdict'[s] # verdict[s] /\ verdict'[s] = "passed") \/ grant'[s] # grant[s]

(* No stage begins or passes once two complete files disagree or the batch  *)
(* is in conflict, on another day than the candidate's, or under a lease    *)
(* that another process took over since the stage began.                    *)
NothingOnDisputedEvidence ==
    [][\A s \in Stages : BeginsOrPasses(s) => OnSoundEvidence(s)]_checksVars
=============================================================================
