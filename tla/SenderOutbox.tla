---------------------------- MODULE SenderOutbox ----------------------------
(***************************************************************************)
(* The durable sender outbox of dashboard/lib/gist-sender-outbox.js: an     *)
(* approval applied by the serialized consumer writes an entry, and every  *)
(* drain (runSenderOutbox) reconciles the entries with the ledger and with *)
(* the runs GitHub shows, then dispatches what is due, one journaled POST  *)
(* at a time.  Drains and the manual_tweet runs they start share one       *)
(* concurrency group (bot.yml): one of them runs, one run is pending.      *)
(*                                                                         *)
(* The route serves only while its record in the Gist and the repository    *)
(* variable both say serialized and the job has the route's credential;     *)
(* otherwise approvals are not applied and drains leave the outbox alone.   *)
(*                                                                         *)
(* Each intent stands for the approval of one draft of its own event.  (An  *)
(* approval on the direct route, after a rollback, is under a new intent,   *)
(* which never enters the outbox.)                                          *)
(***************************************************************************)
EXTENDS Integers, Sequences, FiniteSets, FiniteSetsExt

CONSTANTS
    Intents,            \* publish intents
    MaxActive,          \* OUTBOX_MAX_ACTIVE
    MaxAttempts,        \* OUTBOX_MAX_ATTEMPTS
    MaxDispatches,      \* MAX_DISPATCHES_PER_DRAIN
    MaxActivation,      \* bound: activations of the route
    MaxFaults           \* bound: failed writes, and drains that die

VARIABLES
    outbox,         \* the entries of the results file
    order,          \* the order they were inserted in
    mode,           \* what the route's record says
    activation,     \* its last activation
    config,         \* what the jobs' environment says: legacy, refused (serialized, without
                    \* the route's credential) or serialized
    approved,       \* intents whose draft the state still approves under them
    ledger,         \* the publish_ledger row of each intent
    runs,           \* the manual_tweet runs, in the order GitHub created them
    drain,          \* the process of a drain
    faults

soVars == <<outbox, order, mode, activation, config, approved, ledger, runs, drain, faults>>

NoRun == 0

Terminal == {"completed", "superseded", "sender_refused", "sender_finished_without_claim",
             "exhausted", "route_generation_changed"}

Active == {"queued", "dispatching", "dispatched", "uncertain", "failed", "claimed"}

EntryRecord ==
    [state : {"absent"} \cup Active \cup Terminal, attempts : 0..MaxAttempts,
     run : Nat, activation : 0..MaxActivation]

Absent == [state |-> "absent", attempts |-> 0, run |-> NoRun, activation |-> 0]

(* finishing: the sender's job of the run is over, its last drain is not.     *)
(* inFlight: its process is gone, but its claim's PATCH may still be applied. *)
(* settled: RUN_SETTLE_MS have passed since the run ended.                    *)
RunRecord ==
    [intent : Intents, attempt : 0..MaxAttempts, status : {"pending", "running", "finishing", "completed"},
     cancelled : BOOLEAN, inFlight : BOOLEAN, settled : BOOLEAN]

Idle == [pc |-> "idle"]

Init ==
    /\ outbox = [i \in Intents |-> Absent]
    /\ order = <<>>
    /\ mode = "legacy" /\ activation = 0
    /\ config = "legacy"
    /\ approved = {}
    /\ ledger = [i \in Intents |-> "none"]
    /\ runs = <<>>
    /\ drain = Idle
    /\ faults = 0

RunsOf(i) == {r \in DOMAIN runs : runs[r].intent = i}

Fault == faults < MaxFaults /\ faults' = faults + 1

(* routeActive, under the credential that routeCredentialCode asks for. *)
RouteServes == mode = "serialized" /\ config = "serialized"

-----------------------------------------------------------------------------
(* Reconciling an entry (planOutbox), on the state read and the runs seen.  *)

(* ledgerEvidence. *)
LedgerEvidence(i) ==
    CASE ledger[i] = "confirmed" -> "completed"
      [] ledger[i] = "not_sent"  -> "sender_refused"
      [] ledger[i] = "submitted" -> "claimed"
      [] OTHER                   -> "none"

(* observeRuns: by the run's id, or else by its title since the attempt: a   *)
(* run still going before a completed one, then the newest.                  *)
Observed(i, entry) ==
    LET titled == {r \in RunsOf(i) : runs[r].attempt >= entry.attempts}
        live   == {r \in titled : runs[r].status # "completed"}
    IN  IF entry.run # NoRun THEN entry.run
        ELSE Max({NoRun} \cup (IF live # {} THEN live ELSE titled))

To(entry, state) == [entry EXCEPT !.state = state]

(* Mutant of Judge: a cancelled run is judged before it settled. *)
MutantJudgeAtOnce(entry, r) ==
    LET found == [entry EXCEPT !.run = r]
    IN  CASE runs[r].status # "completed" ->
                 IF entry.state = "dispatched" THEN entry ELSE To(found, "dispatched")
          [] runs[r].status = "completed" /\ runs[r].cancelled -> To(found, "failed")
          [] OTHER -> To(found, "sender_finished_without_claim")

(* An entry in flight whose run r was seen. *)
Judge(entry, r) ==
    LET found == [entry EXCEPT !.run = r]
    IN  CASE runs[r].status # "completed" ->
                 IF entry.state = "dispatched" THEN entry ELSE To(found, "dispatched")
          [] runs[r].status = "completed" /\ runs[r].cancelled ->
                 IF runs[r].settled THEN To(found, "failed") ELSE entry
          [] OTHER -> To(found, "sender_finished_without_claim")

(* Mutant of Interrupted: an attempt whose outcome was not journaled waits. *)
MutantStillDispatching(entry) == entry

(* A POST that a drain journaled and did not survive. *)
Interrupted(entry) == IF entry.state = "dispatching" THEN To(entry, "uncertain") ELSE entry

(* Tried often enough. *)
GiveUp(entry) ==
    IF entry.state \in {"queued", "failed"} /\ entry.attempts >= MaxAttempts
    THEN To(entry, "exhausted")
    ELSE entry

(* An approval that is current and has no claim yet.  unseen: the run of a    *)
(* dispatched entry was not visible for six hours.                            *)
Pursue(entry, r, unseen) ==
    GiveUp(CASE entry.state \in {"dispatched", "uncertain"} /\ r # NoRun  -> Judge(entry, r)
             [] entry.state = "dispatched" /\ r = NoRun /\ unseen        -> To(entry, "uncertain")
             [] OTHER                                                    -> entry)

Reconciled(i, seen, unseen) ==
    LET entry == outbox[i]
        r     == IF i \in seen THEN Observed(i, entry) ELSE NoRun
    IN  IF entry.state \notin Active THEN entry
        ELSE IF entry.activation # activation THEN To(entry, "route_generation_changed")
        ELSE IF LedgerEvidence(i) # "none" THEN To(entry, LedgerEvidence(i))
        ELSE IF i \notin approved THEN To(entry, "superseded")
        ELSE Pursue(Interrupted(entry), r, i \in unseen)

-----------------------------------------------------------------------------
(* A drain (runSenderOutbox).  A write that fails, applied or not, ends it.  *)
(* It asks for the route once, before it plans.                             *)

Persist(doc, next) ==
    \/ outbox' = doc /\ drain' = next /\ UNCHANGED faults
    \/ Fault /\ outbox' \in {outbox, doc} /\ drain' = Idle

Route == <<mode, activation, config>>

Outside == <<order, Route, approved, ledger>>

Due(doc) == {i \in Intents : doc[i].state \in {"queued", "failed"}}

(* i was inserted before j. *)
Before(i, j) ==
    \E m, n \in DOMAIN order : m < n /\ order[m] = i /\ order[n] = j

(* Those of the due entries this drain gets to. *)
FirstOf(due) == {i \in due : Cardinality({j \in due : Before(j, i)}) < MaxDispatches}

(* Any lookup may fail, or not show the run yet. *)
LookupTargets == {i \in Intents : outbox[i].state \in {"dispatching", "dispatched", "uncertain"}}

Plan ==
    /\ drain.pc = "idle"
    /\ RouteServes
    /\ order # <<>>
    /\ \E seen \in SUBSET LookupTargets : \E unseen \in SUBSET (LookupTargets \ seen) :
          LET doc == [i \in Intents |-> Reconciled(i, seen, unseen)]
          IN  Persist(doc, [pc |-> "next", doc |-> doc, todo |-> FirstOf(Due(doc))])
    /\ UNCHANGED <<Outside, runs>>

(* Mutant of StartAttempt: the attempt is not counted. *)
MutantStartUncounted(entry) == [entry EXCEPT !.state = "dispatching", !.run = NoRun]

StartAttempt(entry) ==
    [entry EXCEPT !.state = "dispatching", !.attempts = @ + 1, !.run = NoRun]

(* `dispatching` is durable before the POST. *)
Journal ==
    /\ drain.pc = "next"
    /\ \E i \in drain.todo :
          /\ \A j \in drain.todo : ~Before(j, i)
          /\ LET doc == [drain.doc EXCEPT ![i] = StartAttempt(@)]
             IN  Persist(doc, [pc |-> "post", doc |-> doc, todo |-> drain.todo \ {i}, item |-> i])
    /\ UNCHANGED <<Outside, runs>>

(* GitHub accepts: the new run takes the group's one pending place. *)
Enqueued(i, attempt) ==
    Append([r \in DOMAIN runs |-> IF runs[r].status = "pending"
                                  THEN [runs[r] EXCEPT !.status = "completed", !.cancelled = TRUE]
                                  ELSE runs[r]],
           [intent |-> i, attempt |-> attempt, status |-> "pending",
            cancelled |-> FALSE, inFlight |-> FALSE, settled |-> FALSE])

Answer(state, run) ==
    LET i == drain.item
        entry == [drain.doc[i] EXCEPT !.state = state, !.run = run]
    IN  drain' = [pc |-> "record", doc |-> [drain.doc EXCEPT ![i] = entry],
                  todo |-> drain.todo, item |-> i]

(* dispatchSender: the answer names the run, or not, or is lost; 4xx is a refusal. *)
Post ==
    /\ drain.pc = "post"
    /\ \/ /\ runs' = Enqueued(drain.item, drain.doc[drain.item].attempts)
          /\ \/ Answer("dispatched", Len(runs) + 1)
             \/ Answer("dispatched", NoRun)
             \/ Answer("uncertain", NoRun)
       \/ /\ \E state \in {"failed", "uncertain"} : Answer(state, NoRun)
          /\ UNCHANGED runs
    /\ UNCHANGED <<outbox, faults, Outside>>

Record ==
    /\ drain.pc = "record"
    /\ Persist(drain.doc, [pc |-> "next", doc |-> drain.doc, todo |-> drain.todo])
    /\ UNCHANGED <<Outside, runs>>

EndDrain ==
    /\ drain.pc = "next"
    /\ drain.todo = {}
    /\ drain' = Idle
    /\ UNCHANGED <<outbox, faults, Outside, runs>>

Die ==
    /\ drain.pc # "idle"
    /\ Fault
    /\ drain' = Idle
    /\ UNCHANGED <<outbox, Outside, runs>>

DrainStep == Plan \/ Journal \/ Post \/ Record \/ EndDrain

-----------------------------------------------------------------------------
(* The consumer's commands, in the same job before the outbox step.        *)

(* An approval and its entry are one PATCH. *)
Approve(i) ==
    /\ drain.pc = "idle"
    /\ RouteServes
    /\ outbox[i] = Absent
    /\ Cardinality({j \in Intents : outbox[j].state \in Active}) < MaxActive
    /\ outbox' = [outbox EXCEPT ![i] = [Absent EXCEPT !.state = "queued", !.activation = activation]]
    /\ order' = Append(order, i)
    /\ approved' = approved \cup {i}
    /\ UNCHANGED <<Route, ledger, runs, drain, faults>>

(* Rejected, edited or cancelled, which an unresolved claim forbids. *)
Withdraw(i) ==
    /\ drain.pc = "idle"
    /\ i \in approved
    /\ ledger[i] = "none"
    /\ approved' = approved \ {i}
    /\ UNCHANGED <<outbox, order, Route, ledger, runs, drain, faults>>

RouteOnly == UNCHANGED <<outbox, order, approved, ledger, runs, drain, faults>>

(* Root changes the repository variable, or its secrets. *)
Configure ==
    /\ config' \in {"legacy", "refused", "serialized"} \ {config}
    /\ UNCHANGED <<mode, activation>>
    /\ RouteOnly

(* Activated, or for a newer generation activated again. *)
Activate ==
    /\ drain.pc = "idle"
    /\ config = "serialized"
    /\ activation < MaxActivation
    /\ mode' = "serialized" /\ activation' = activation + 1
    /\ UNCHANGED config
    /\ RouteOnly

(* The rollback, once the variable says so; no credential is asked for. *)
Deactivate ==
    /\ drain.pc = "idle"
    /\ config = "legacy"
    /\ mode = "serialized"
    /\ mode' = "legacy"
    /\ UNCHANGED <<activation, config>>
    /\ RouteOnly

-----------------------------------------------------------------------------
(* The manual_tweet runs.                                                  *)

Update(r, run) ==
    /\ runs' = [runs EXCEPT ![r] = run]
    /\ UNCHANGED <<outbox, order, Route, drain, faults>>

StartRun(r) ==
    /\ runs[r].status = "pending"
    /\ drain.pc = "idle"
    /\ \A q \in DOMAIN runs : runs[q].status \notin {"running", "finishing"}
    /\ Update(r, [runs[r] EXCEPT !.status = "running"])
    /\ UNCHANGED <<approved, ledger>>

(* run_manual_tweet: a claim and its outcome, or a refusal that may take the *)
(* approval back, or a process that dies with the claim's PATCH on its way.  *)
SenderJob(r) ==
    LET i == runs[r].intent
        done == [runs[r] EXCEPT !.status = "finishing"]
    IN  /\ runs[r].status = "running"
        /\ drain.pc = "idle"
        /\ \/ /\ Update(r, done)
              /\ approved' \in {approved, approved \ {i}}
              /\ UNCHANGED ledger
           \/ /\ i \in approved
              /\ ledger[i] = "none"
              /\ \/ /\ Update(r, done)
                    /\ \E phase \in {"submitted", "confirmed", "not_sent"} :
                          ledger' = [ledger EXCEPT ![i] = phase]
                    /\ approved' = approved \ {i}
                 \/ /\ Update(r, [done EXCEPT !.inFlight = TRUE])
                    /\ UNCHANGED <<approved, ledger>>

(* Any run may also be cancelled: an operator, or another workflow that takes *)
(* the pending place.                                                        *)
EndRun(r) ==
    /\ runs[r].status # "completed"
    /\ drain.pc = "idle" \/ runs[r].status = "pending"
    /\ \E cancelled \in BOOLEAN :
          /\ runs[r].status = "pending" => cancelled
          /\ Update(r, [runs[r] EXCEPT !.status = "completed", !.cancelled = cancelled])
    /\ UNCHANGED <<approved, ledger>>

(* The PATCH a dead process left behind is applied, or never. *)
Land(r) ==
    LET i == runs[r].intent
    IN  /\ runs[r].inFlight
        /\ Update(r, [runs[r] EXCEPT !.inFlight = FALSE])
        /\ \/ UNCHANGED ledger
           \/ ledger[i] = "none" /\ ledger' = [ledger EXCEPT ![i] = "submitted"]
        /\ UNCHANGED approved

(* RUN_SETTLE_MS later: what was on its way has arrived. *)
Settle(r) ==
    /\ runs[r].status = "completed"
    /\ ~runs[r].inFlight
    /\ ~runs[r].settled
    /\ Update(r, [runs[r] EXCEPT !.settled = TRUE])
    /\ UNCHANGED <<approved, ledger>>

RunStep(r) == StartRun(r) \/ SenderJob(r) \/ EndRun(r) \/ Land(r) \/ Settle(r)

Next ==
    \/ DrainStep
    \/ Die
    \/ Configure \/ Activate \/ Deactivate
    \/ \E i \in Intents : Approve(i) \/ Withdraw(i)
    \/ \E r \in DOMAIN runs : RunStep(r)

Spec == Init /\ [][Next]_soVars

-----------------------------------------------------------------------------
(* Properties.                                                             *)

CanClaim(r) == runs[r].status # "completed" \/ runs[r].inFlight

(* A dispatch is repeated, or given up, only when nothing of the earlier ones *)
(* can still publish: no run of the intent is waiting or working, no claim is *)
(* recorded or on its way.  Through lost answers, dead drains and cancelled   *)
(* runs an uncertain dispatch is never blindly resent.                        *)
Unsent(i) == ledger[i] = "none" /\ \A r \in RunsOf(i) : ~CanClaim(r)

NoBlindResend ==
    /\ \A i \in Intents : outbox[i].state \in {"queued", "failed", "exhausted"} => Unsent(i)
    /\ drain.pc = "post" => Unsent(drain.item)

(* Every run GitHub was asked for is an attempt the entry had counted before, *)
(* whichever drains died: an intent starts MaxAttempts runs at most.          *)
RunsAreJournaled ==
    \A i \in Intents : Cardinality(RunsOf(i)) <= outbox[i].attempts

(* The group's jobs are scheduled again and again, and each drains. *)
FairSpec == Spec /\ WF_soVars(DrainStep)

(* Once the route serves for good, nothing waits for ever: a queued or failed *)
(* entry, or one whose drain died in mid-dispatch, is dispatched, exposed as   *)
(* uncertain, or ends, also when it was left behind by a rollback and the next *)
(* activation.  (While the route does not serve, entries wait: a drain then    *)
(* neither plans nor writes.)                                                  *)
Waiting(i) == outbox[i].state \in {"queued", "failed", "dispatching"}

EveryEntryMovesOn == <>[]RouteServes => \A i \in Intents : Waiting(i) ~> ~Waiting(i)
=============================================================================
