---------------------------- MODULE CommandRoute ----------------------------
(***************************************************************************)
(* The serialized command route.  A dashboard command, sealed for the      *)
(* route's current activation, is dispatched to gist-commands.yml, whose   *)
(* admit job keeps it as an artifact of its run.  A drain (the inbox scan  *)
(* of scripts/gist_command_inbox.py, then consume-gist-commands.mjs over   *)
(* dashboard/lib/gist-command-consumer.js) runs inside the theheat-bot     *)
(* concurrency group, so one at a time: it fetches the artifacts, applies  *)
(* the commands and records their results in one PATCH of the state Gist,  *)
(* applies feedback commands one PATCH of the feedback Gist each, deletes  *)
(* the artifacts whose results a fresh read shows, and records the runs it *)
(* is done with.  Any write may fail, applied or not, and any drain die.   *)
(*                                                                         *)
(* Left out: what keeps a command pending whatever the drain does (missing *)
(* keys or credentials, a full results file), envelopes that do not open,  *)
(* ids used twice, delivery reconciliations, and the sender step (module   *)
(* SenderOutbox).  Two commands are never requested at the same instant.   *)
(***************************************************************************)
EXTENDS Integers, Sequences, FiniteSets

CONSTANTS
    Drafts,
    Scripts,        \* what may be commanded, in order: kinds, and the drafts they are about
    Resubmitted,    \* commands that may be dispatched twice
    Lifetime,       \* days from a command's request to its expiry
    Horizon,        \* SCAN_HORIZON: days a run is looked at after its creation
    Retention,      \* RESULT_RETENTION_MS: days a result is kept after the expiry
    MaxPerDrain,    \* MAX_COMMANDS_PER_DRAIN
    MaxRuns, MaxDay, MaxFaults                  \* bounds

Asks == [kind : {"draft", "feedback", "activate", "deactivate"}, targets : SUBSET Drafts]

(* A result is kept longer (3 days) than a run it may be of is looked at     *)
(* (24 h 15 min), which was created before the command expired.              *)
ASSUME RouteAssumption ==
    /\ {Lifetime, MaxPerDrain} \subseteq Nat \ {0}
    /\ {Horizon, Retention, MaxRuns, MaxDay, MaxFaults} \subseteq Nat
    /\ Horizon <= Retention + 1
    /\ IsFiniteSet(Scripts) /\ Scripts \subseteq Seq(Asks)
    /\ \A s \in Scripts : \A k \in DOMAIN s : s[k].kind = "draft" <=> s[k].targets # {}

VARIABLES
    day,
    variable,   \* the repository variable THEHEAT_GIST_WRITE_ROUTE
    commands,   \* what was sealed, in the order of requested_at
    runs,       \* the runs of gist-commands.yml, by command and dispatch
    gist,       \* the state Gist: draft revisions, route record, results file
    feedback,   \* the feedback Gist
    drain,      \* the process of a drain
    faults

routeVars == <<day, variable, commands, runs, gist, feedback, drain, faults>>

Ids == UNION {DOMAIN s : s \in Scripts}

Runs == (Ids \X {1}) \cup (Resubmitted \X {2})

CommandOf(r) == r[1]

(* taken and ended are history: the commands that took effect in the Gist,  *)
(* and those recorded as refused.                                           *)
Store == [results |-> [c \in Ids |-> "none"], taken |-> {}, ended |-> {}]

Idle == [pc |-> "idle"]

Init ==
    /\ day = 0 /\ variable = "serialized"
    /\ commands = <<>> /\ runs = [r \in Runs |-> [stage |-> "absent", created |-> 0]]
    /\ gist = [results |-> Store.results, taken |-> {}, ended |-> {}, settled |-> {},
               dec |-> [d \in Drafts |-> 0], route |-> [mode |-> "serialized", activation |-> 0]]
    /\ feedback = Store
    /\ drain = Idle
    /\ faults = 0

Fault == faults < MaxFaults /\ faults' = faults + 1

(* As the job of a drain, or else the dashboard, has it. *)
RouteActive(route, configured) == configured = "serialized" /\ route.mode = "serialized"

-----------------------------------------------------------------------------
(* Outside the group: operators, root, and the admit jobs.                 *)

Outside(changed) == UNCHANGED <<gist, feedback, drain, faults>> /\ changed

(* (A drain reads its clock once, before it consumes.) *)
Tick ==
    /\ day < MaxDay /\ drain.pc # "feedback"
    /\ day' = day + 1
    /\ Outside(UNCHANGED <<variable, commands, runs>>)

IsControl(kind) == kind \in {"activate", "deactivate"}

ModeOf(kind) == IF kind = "activate" THEN "serialized" ELSE "legacy"

(* A dashboard command is bound to the copies its operator sees and to the  *)
(* active route.  Root changes the variable, then seals its route control.  *)
Seal(script) ==
    LET id == Len(commands) + 1
        ask == script[id]
    IN  /\ id \in DOMAIN script /\ day + Lifetime <= MaxDay
        /\ \A k \in DOMAIN commands : commands[k].ask = script[k]
        /\ IF IsControl(ask.kind) THEN variable' = ModeOf(ask.kind) /\ variable' # variable
                                  ELSE RouteActive(gist.route, variable) /\ UNCHANGED variable
        /\ commands' = Append(commands,
              [id |-> id, ask |-> ask,
               views |-> [d \in ask.targets |-> [rev |-> 0, dec |-> gist.dec[d]]],
               activation |-> gist.route.activation, expires |-> day + Lifetime])
        /\ Outside(UNCHANGED <<day, runs>>)

Expired(c) == commands[c].expires <= day

Stage(r, stage) ==
    /\ runs' = [runs EXCEPT ![r].stage = stage]
    /\ Outside(UNCHANGED <<day, variable, commands>>)

(* submitCommand, or the same bytes again after a lost answer.  (An expired *)
(* command would be refused at admission.)                                  *)
Dispatch(r) ==
    /\ CommandOf(r) \in DOMAIN commands /\ ~Expired(CommandOf(r))
    /\ runs[r].stage = "absent" /\ (r[2] = 2 => runs[<<r[1], 1>>].stage # "absent")
    /\ Cardinality({q \in Runs : runs[q].stage # "absent"}) < MaxRuns
    /\ runs' = [runs EXCEPT ![r] = [stage |-> "dispatched", created |-> day]]
    /\ Outside(UNCHANGED <<day, variable, commands>>)

(* The admit job keeps the command, unless it expired... *)
Admit(r) ==
    /\ runs[r].stage = "dispatched" /\ ~Expired(CommandOf(r))
    /\ Stage(r, "live")

(* ...or the run ends without it: refused, failed, cancelled.               *)
Refuse(r) == runs[r].stage = "dispatched" /\ Stage(r, "over")

-----------------------------------------------------------------------------
(* The effect of commands on the documents.                                *)

(* Mutant of RouteApplies: any active route will do. *)
MutantAnyActivation(c, route) == RouteActive(route, drain.variable)

(* routeApplyCode: active, under the activation the command was sealed for. *)
RouteApplies(c, route) ==
    RouteActive(route, drain.variable) /\ route.activation = commands[c].activation

Passes(c, route) == ~Expired(c) /\ (IsControl(commands[c].ask.kind) \/ RouteApplies(c, route))

(* applyDraftUpdate: every target is still the copy its operator saw. *)
Matches(c, dec) == \A d \in DOMAIN commands[c].views : dec[d] = commands[c].views[d].dec

(* applyRouteControl: the variable agrees, and something changes. *)
ControlApplies(kind, route) == drain.variable = ModeOf(kind) /\ route.mode # ModeOf(kind)

Record(store, c, status) ==
    [store EXCEPT !.results[c] = status,
                  !.taken = IF status = "applied" THEN @ \cup {c} ELSE @,
                  !.ended = IF status = "refused" THEN @ \cup {c} ELSE @]

(* One command, on what the earlier ones of its drain left; declined are     *)
(* those whose operation refuses for a reason of its own.                    *)
Consumed(doc, c, declined) ==
    LET k == commands[c]
        applies == /\ Passes(c, doc.route) /\ c \notin declined
                   /\ IF IsControl(k.ask.kind) THEN ControlApplies(k.ask.kind, doc.route)
                                           ELSE Matches(c, doc.dec)
        new == IF IsControl(k.ask.kind)
               THEN [doc EXCEPT !.route = [mode |-> ModeOf(k.ask.kind), activation |-> c]]
               ELSE [doc EXCEPT !.dec = [d \in Drafts |-> IF d \in DOMAIN k.views THEN @[d] + 1 ELSE @[d]]]
    IN  IF applies THEN Record(new, c, "applied") ELSE Record(doc, c, "refused")

(* A drain takes its commands in the order they were requested. *)
InOrder(start, items, declined) ==
    LET upTo[c \in 0..Cardinality(Ids)] ==
            IF c = 0 THEN start
            ELSE IF c \in items THEN Consumed(upTo[c - 1], c, declined) ELSE upTo[c - 1]
    IN  upTo[Cardinality(Ids)]

(* Mutant of Retained: a result goes when its command can no longer apply. *)
MutantRetainLive(results) ==
    [c \in Ids |-> IF c \in DOMAIN commands /\ Expired(c) THEN "none" ELSE results[c]]

(* retainResults *)
Retained(results) ==
    [c \in Ids |-> IF c \in DOMAIN commands /\ commands[c].expires + Retention < day
                   THEN "none" ELSE results[c]]

-----------------------------------------------------------------------------
(* A drain.                                                                *)

Home(c) == IF c \in DOMAIN commands /\ commands[c].ask.kind = "feedback" THEN feedback ELSE gist

InHorizon(r) == runs[r].created + Horizon >= day

(* Mutant of Empty: a run without an artifact is done with. *)
MutantEmpty(r) == runs[r].stage # "live"

(* A run that was completed when it was listed, and has no artifact.  (One   *)
(* whose artifact was deleted may still run: settling it early hides none.)  *)
Empty(r) == runs[r].stage \in {"over", "deleted"}

(* list_runs and run_artifacts, but for the settled ones; a partial listing, *)
(* or a run or an artifact that cannot be read, shows fewer.                 *)
Fetch ==
    LET all == {r \in Runs : runs[r].stage # "absent" /\ InHorizon(r)} \ gist.settled
    IN  /\ drain.pc = "idle"
        /\ \E seen \in SUBSET all :
              /\ IF seen = all THEN UNCHANGED faults ELSE Fault
              /\ drain' = [pc |-> "fetched", variable |-> variable,
                           entries |-> {r \in seen : runs[r].stage = "live"},
                           empty |-> {r \in seen : Empty(r)}]
        /\ UNCHANGED <<day, variable, commands, runs, gist, feedback>>

(* A PATCH, or none when nothing changes.  A failed one ends the drain. *)
PatchGist(doc, next) ==
    \/ gist' = doc /\ drain' = next /\ UNCHANGED faults
    \/ doc # gist /\ Fault /\ gist' \in {gist, doc} /\ drain' = Idle

PatchFeedback(doc, next) ==
    \/ feedback' = doc /\ drain' = next /\ UNCHANGED faults
    \/ doc # feedback /\ Fault /\ feedback' \in {feedback, doc} /\ drain' = Idle

(* Mutant of Fresh: what was fetched is new. *)
MutantFresh(c) == c \in DOMAIN commands

Fresh(c) == c \in DOMAIN commands /\ Home(c).results[c] = "none"

(* What has a result already takes nothing of the budget. *)
Batch ==
    LET fresh == {c \in Ids : Fresh(c) /\ \E r \in drain.entries : CommandOf(r) = c}
    IN  {c \in fresh : Cardinality({b \in fresh : b < c}) < MaxPerDrain}

(* consumeState *)
Consume ==
    /\ drain.pc = "fetched"
    /\ LET batch == Batch
           todo  == {c \in batch : commands[c].ask.kind = "feedback"}
           kept  == [gist EXCEPT !.results = Retained(@)]
       IN  \E declined \in SUBSET (batch \ todo) :
              PatchGist(InOrder(kept, batch \ todo, declined),
                        [pc |-> "feedback", variable |-> drain.variable, todo |-> todo,
                         entries |-> drain.entries, empty |-> drain.empty])
    /\ UNCHANGED <<day, variable, commands, runs, feedback>>

(* consumeFeedback, on fresh reads of the feedback Gist and of the route. *)
ConsumeFeedback ==
    /\ drain.pc = "feedback"
    /\ drain.todo # {}
    /\ LET c == CHOOSE c \in drain.todo : \A b \in drain.todo : c <= b
           kept == [feedback EXCEPT !.results = Retained(@)]
           next == [drain EXCEPT !.todo = @ \ {c}]
       IN  IF kept.results[c] # "none" THEN drain' = next /\ UNCHANGED <<feedback, faults>>
           ELSE \E status \in IF Passes(c, gist.route) THEN {"applied", "refused"} ELSE {"refused"} :
                   PatchFeedback(Record(kept, c, status), next)
    /\ UNCHANGED <<day, variable, commands, runs, gist>>

(* Mutant of Acknowledgeable: whatever this drain fetched. *)
MutantAcknowledgeFetched(r) == TRUE

(* acknowledgeable, on a fresh read of both Gists. *)
Acknowledgeable(r) == Home(CommandOf(r)).results[CommandOf(r)] # "none"

(* acknowledgeArtifacts: any of the reads and deletions may fail.  Then      *)
(* recordSettledRuns, on a fresh read, unless it fails.                      *)
Acknowledge ==
    /\ drain.pc = "feedback"
    /\ drain.todo = {}
    /\ \E deleted \in SUBSET {r \in drain.entries : Acknowledgeable(r)} :
          /\ runs' = [r \in Runs |->
                         IF r \in deleted THEN [runs[r] EXCEPT !.stage = "deleted"] ELSE runs[r]]
          /\ gist' \in {gist, [gist EXCEPT !.settled = @ \cup deleted \cup drain.empty]}
    /\ drain' = Idle
    /\ UNCHANGED <<day, variable, commands, feedback, faults>>

Die ==
    /\ drain.pc # "idle"
    /\ Fault
    /\ drain' = Idle
    /\ UNCHANGED <<day, variable, commands, runs, gist, feedback>>

DrainStep == Fetch \/ Consume \/ ConsumeFeedback \/ Acknowledge

Next ==
    \/ Tick
    \/ \E script \in Scripts : Seal(script)
    \/ \E r \in Runs : Dispatch(r) \/ Admit(r) \/ Refuse(r)
    \/ DrainStep
    \/ Die

Spec == Init /\ [][Next]_routeVars

(* Every hourly run of the bot drains before and after its own work.  A      *)
(* DrainStep is always enabled, and drains fail at most MaxFaults times, so  *)
(* this is WF_routeVars(DrainStep), said of states, which TLC checks faster. *)
FairSpec == Spec /\ []<>(drain.pc = "idle") /\ []<>(drain.pc = "feedback")

-----------------------------------------------------------------------------
(* Properties.                                                             *)

Taken == gist.taken \cup feedback.taken
Ended == gist.ended \cup feedback.ended

(* The state's types; every recorded command has one outcome, in the Gist   *)
(* its kind belongs to.                                                     *)
RouteTypeOK ==
    /\ day \in 0..MaxDay /\ variable \in {"legacy", "serialized"} /\ faults \in 0..MaxFaults
    /\ \A r \in Runs : runs[r].stage \in {"absent", "dispatched", "live", "over", "deleted"}
    /\ gist.dec \in [Drafts -> Nat] /\ gist.settled \subseteq Runs
    /\ \A c \in Ids : \A s \in {gist, feedback} :
          s.results[c] # "none" => c \in s.taken \cup s.ended /\ s = Home(c)
    /\ \A s \in {gist, feedback} : s.taken \cap s.ended = {}

(* An artifact is deleted only when its command has a result, which stays   *)
(* for as long as results are kept; and a run that later drains leave out   *)
(* has no artifact and will never have one.                                 *)
NothingDroppedUnsettled ==
    \A r \in Runs :
        LET c == CommandOf(r)
        IN  /\ runs[r].stage = "deleted" =>
                  Home(c).results[c] # "none" \/ commands[c].expires + Retention < day
            /\ r \in gist.settled => runs[r].stage \in {"deleted", "over"}

(* A copy's rev never changes here, and a request is its sealed command. *)
Sealed(ids) == {commands[c] : c \in ids}

Copies == [d \in Drafts |-> [rev |-> 0, dec |-> gist.dec[d]]]

Decisions == INSTANCE OperatorDecisions
    WITH copy <- Copies,
         applied <- Sealed(Taken),
         closed <- Sealed(Ended)

(* What operators are promised, across dead drains, failed writes, lost     *)
(* answers, resubmissions and two Gists: a command takes effect at most     *)
(* once, whole, on exactly the copies its operator saw, and never after or  *)
(* before it is recorded as refused.                                        *)
ImplementsDecisions == Decisions!DecisionSpec

(* A rollback strands what was outstanding: a dashboard command takes effect *)
(* only while the activation it was sealed for has never ended.              *)
StrandedForGood ==
    [][\A c \in Taken' \ Taken : IsControl(commands[c].ask.kind) \/
          /\ RouteActive(gist.route, drain.variable) /\ commands[c].activation = gist.route.activation
          /\ \A k \in Taken' \ Taken : IsControl(commands[k].ask.kind) => c < k]_routeVars

(* While drains keep coming, every admitted command gets its result, unless *)
(* its run leaves the horizon first.                                        *)
Outstanding(c) ==
    /\ Home(c).results[c] = "none"
    /\ \E r \in Runs : CommandOf(r) = c /\ runs[r].stage = "live" /\ InHorizon(r)

EveryCommandSettles == \A c \in Ids : Outstanding(c) ~> ~Outstanding(c)
=============================================================================
