------------------------------ MODULE Staging ------------------------------
(***************************************************************************)
(* Stage 1 of an alerts run (src/orchestrator/scheduler.py): the main      *)
(* thread lets source runners work on private copies of the document, each *)
(* within a budget, and promotes what arrived in time.  Serial runners     *)
(* come first, each promoted before the next starts; the others share one  *)
(* base and a pool, are awaited together and promoted in declaration       *)
(* order.  A worker thread cannot be killed: it may hang, or finish and    *)
(* write its copy at any later time.                                       *)
(*                                                                         *)
(* A worker's private copy is the document of its batch with its own edits *)
(* made.  Nobody reads it before the worker stamps its completion, so one  *)
(* step makes them all, each on a day since the worker's start.  The       *)
(* history variable serial is the document the promoted workers would have *)
(* produced one after the other.                                           *)
(***************************************************************************)
EXTENDS StagedMerge

CONSTANTS
    Serial, Concurrent,     \* the runners' sources, in declaration order
    Budget,                 \* RUNNER_BUDGET_SECONDS, in ticks
    MaxWorkers,             \* MAX_WORKERS, the pool's threads
    BreakerN,               \* BREAKER_N
    Unreliable,             \* the sources whose breaker may be open
    ScriptsOf(_, _, _),     \* the edits a source may make between two days
    MaxDay,                 \* bound
    Seen                    \* the candidates log the run starts from

Sources == ToSet(Serial) \cup ToSet(Concurrent)

Keys(rows) == [i \in DOMAIN rows |-> rows[i].key]

ASSUME StagingAssumption ==
    /\ Budget \in Nat \ {0} /\ MaxWorkers \in Nat \ {0} /\ BreakerN \in Nat \ {0}
    /\ MaxDay \in Nat \ {0}
    /\ Serial \in Seq(Sources) /\ Concurrent \in Seq(Sources)
    /\ IsInjective(Serial \o Concurrent)
    /\ Unreliable \subseteq Sources
    /\ \A s \in Sources, since \in 1..MaxDay : \A until \in since..MaxDay :
          \A script \in ScriptsOf(s, since, until) :
             /\ script \in Seq(ToSet(script))
             /\ \A e \in ToSet(script) :
                   e.kind \in EditKinds /\ (e.kind = "observe" => e.day \in since..until)
    /\ Seen \in Seq(ToSet(Seen)) /\ IsInjective(Keys(Seen))
    /\ \A r \in ToSet(Seen) : r.day \in Int /\ r.day <= 1

(* All the scripts of a source, and the rows a script writes in the log. *)
ScriptsBy(s) == UNION {UNION {ScriptsOf(s, since, until) : until \in since..MaxDay} : since \in 1..MaxDay}

ErrorRows(script) == {e.row : e \in {x \in ToSet(script) : x.kind = "error"}}

(* An error row carries its source and the microsecond it was logged, so    *)
(* no two are equal; a queue row carries its source; and a run, of minutes, *)
(* is over before an event it saw leaves the window.                        *)
ASSUME RowsAssumption ==
    /\ MaxDay <= Window + 1
    /\ \A s \in Sources : \A script \in ScriptsBy(s) :
          /\ \A i, j \in DOMAIN script :
                script[i].kind = "error" /\ script[j].kind = "error" /\ script[i].row = script[j].row => i = j
          /\ \A e \in ToSet(script) : e.kind = "enqueue" => e.row[1] = s
          /\ \A t \in Sources \ {s} : \A other \in ScriptsBy(t) : ErrorRows(script) \cap ErrorRows(other) = {}

VARIABLES
    today,              \* the wall clock's day
    timeouts,           \* source_health: how many of a source's last runs timed out in a row
    main,               \* the main thread: its phase and position
    live,               \* the live document
    batch,              \* the open batch: its base, the days that bracket live edits since
    stage,              \* each source's WorkerStage and its thread
    verdict,            \* what the main thread observed of each awaited runner
    late, attached,     \* sources with late evidence: buffered, and on current_run
    serial              \* history

stagingVars ==
    <<today, timeouts, main, live, batch, stage, verdict, late, attached, serial>>

Threads == {"none", "queued", "running", "stamped", "done", "withdrawn"}
Outcomes == {"none", "returned", "raised", "timed_out"}
Fates == {"open", "promoted", "refused", "timeout"}

(* A deadline is kept as the ticks left until it; -1 is past it. *)
NoStage == [thread |-> "none", edits |-> <<>>, left |-> 0, since |-> 0, until |-> 0,
            outcome |-> "none", onTime |-> FALSE, cancelled |-> FALSE, fate |-> "open"]

BreakerOpen(s) == timeouts[s] >= BreakerN

(* The positions of the concurrent runners that are dispatched. *)
Runnable == {i \in DOMAIN Concurrent : ~BreakerOpen(Concurrent[i])}

StagingInit ==
    /\ today = 1
    /\ timeouts \in {t \in [Sources -> {0, BreakerN}] : \A s \in Sources \ Unreliable : t[s] = 0}
    /\ main = [phase |-> "serial", at |-> 1]
    /\ live = [EmptyDocument EXCEPT !.seen = Seen]
    /\ batch = [base |-> live, opened |-> today, until |-> today]
    /\ stage = [s \in Sources |-> NoStage]
    /\ verdict = [s \in Sources |-> "none"]
    /\ late = {} /\ attached = {}
    /\ serial = live

-----------------------------------------------------------------------------
(* Workers: each on its own thread, against its private copy.              *)

Pool(s) == IF s \in ToSet(Serial) THEN {s} ELSE ToSet(Concurrent)

Busy(s) == {t \in Pool(s) : stage[t].thread \in {"running", "stamped"}}

Worker(s, update) ==
    /\ stage' = [stage EXCEPT ![s] = update]
    /\ UNCHANGED <<today, timeouts, main, live, batch, verdict, attached, serial>>

(* The pool starts its tasks in the order they were submitted. *)
Start(s) ==
    /\ stage[s].thread = "queued"
    /\ Cardinality(Busy(s)) < MaxWorkers
    /\ \A i, j \in DOMAIN Concurrent :
          s = Concurrent[j] /\ i < j => stage[Concurrent[i]].thread # "queued"
    /\ Worker(s, [stage[s] EXCEPT !.thread = "running"])
    /\ UNCHANGED late

(* A call asks CancelToken.cancelled, which notices a deadline by itself. *)
Consult(s) ==
    /\ stage[s].thread = "running" /\ ~stage[s].cancelled
    /\ stage[s].left < 0
    /\ Worker(s, [stage[s] EXCEPT !.cancelled = TRUE])
    /\ UNCHANGED late

(* execute: the runner's edits, then the stamp of its finally.  A runner    *)
(* that returns has recorded its own source run.                            *)
Execute(s, outcome, script) ==
    LET row == [kind |-> "report", row |-> <<s, "ok">>]
    IN /\ stage[s].thread = "running" /\ stage[s].fate = "open"
       /\ Worker(s, [stage[s] EXCEPT
              !.thread = "stamped", !.outcome = outcome, !.onTime = stage[s].left >= 0,
              !.until = today,
              !.edits = IF outcome = "returned" THEN Append(script, row) ELSE script])
       /\ UNCHANGED late

(* Of a copy already discarded nothing is read but that its worker ended. *)
ExecuteDiscarded(s) ==
    /\ stage[s].thread = "running" /\ stage[s].fate # "open"
    /\ Worker(s, [stage[s] EXCEPT !.thread = "stamped"])
    /\ UNCHANGED late

(* Mutant of NoteLate: the worker reads the clock again. *)
MutantNoteByClock(s) ==
    /\ stage[s].thread = "stamped"
    /\ late' = IF stage[s].cancelled \/ stage[s].left < 0 THEN late \cup {s} ELSE late
    /\ Worker(s, [stage[s] EXCEPT !.thread = "done"])

(* The worker judges its lateness by the stamp and the token alone, and its *)
(* future is done.                                                          *)
NoteLate(s) ==
    /\ stage[s].thread = "stamped"
    /\ late' = IF stage[s].cancelled \/ ~stage[s].onTime THEN late \cup {s} ELSE late
    /\ Worker(s, [stage[s] EXCEPT !.thread = "done"])

WorkerStep ==
    \E s \in Sources :
        \/ Start(s)
        \/ Consult(s)
        \/ \E outcome \in Outcomes \ {"none"}, script \in ScriptsOf(s, stage[s].since, today) :
              Execute(s, outcome, script)
        \/ ExecuteDiscarded(s)
        \/ NoteLate(s)

-----------------------------------------------------------------------------
(* The main thread.                                                        *)

GoTo(phase, at) == main' = [phase |-> phase, at |-> at]

(* A source run the main thread itself records on the live objects. *)
Recorded(doc, s, what) == AddSourceRun(doc, <<s, what>>)

NewStage == [NoStage EXCEPT !.thread = "queued", !.left = Budget, !.since = today]

OpenBatch == batch' = [base |-> live, opened |-> today, until |-> today]

(* Mutant of Verdicts: a runner is waited for until it ends. *)
MutantAwaitForever(s) ==
    {v \in {IF stage[s].onTime THEN stage[s].outcome ELSE "timeout"} : stage[s].thread = "done"}

(* What _await_stage may now report of a dispatched runner.  A TimeoutError *)
(* the runner raised itself reads as the budget's.                          *)
Verdicts(s) ==
    IF stage[s].thread = "done"
    THEN {IF stage[s].onTime /\ stage[s].outcome # "timed_out" THEN stage[s].outcome ELSE "timeout"}
    ELSE {v \in {"timeout"} : stage[s].left <= 0}

Refusal(s) == stage[s].fate # "open" \/ stage[s].cancelled \/ ~stage[s].onTime

(* promote's result, of which there is none when it is refused or a conflict. *)
Promotion(s) ==
    IF Refusal(s) THEN {}
    ELSE MergeDocuments(batch.base, Replay(stage[s].edits, batch.base), live,
                        stage[s], [since |-> batch.opened, until |-> batch.until])

(* Of a settled stage its fate, its edits and its thread still matter. *)
Settled(s, fate) ==
    [NoStage EXCEPT !.thread = stage[s].thread, !.cancelled = stage[s].cancelled,
                    !.edits = stage[s].edits, !.fate = fate]

SettleTimeout(s) ==
    /\ stage' = [stage EXCEPT ![s] =
          [Settled(s, "timeout") EXCEPT !.thread = IF @ = "queued" THEN "withdrawn" ELSE @,
                                        !.cancelled = TRUE, !.edits = <<>>]]
    /\ live' = Recorded(live, s, "timeout")
    /\ serial' = Recorded(serial, s, "timeout")
    /\ UNCHANGED batch

SettleOnTime(s, observed) ==
    LET merged == Promotion(s)
        Failed(doc) == IF observed = "raised" THEN Recorded(doc, s, "failed") ELSE doc
    IN IF merged = {}
       THEN /\ stage' = [stage EXCEPT ![s] = Settled(s, "refused")]
            /\ live' = Failed(Recorded(live, s, "conflict"))
            /\ serial' = Failed(Recorded(serial, s, "conflict"))
            /\ UNCHANGED batch
       ELSE /\ stage' = [stage EXCEPT ![s] = Settled(s, "promoted")]
            /\ \E doc \in merged : live' = Failed(doc)
            /\ serial' = Failed(Replay(stage[s].edits, serial))
            /\ batch' = [batch EXCEPT !.until = Max({@, stage[s].until})]

Settle(s, observed) ==
    IF observed = "timeout" THEN SettleTimeout(s) ELSE SettleOnTime(s, observed)

Skip(s) ==
    /\ live' = Recorded(live, s, "skipped")
    /\ serial' = Recorded(serial, s, "skipped")

(* _run_one_with_budget: dispatch, then await and settle, a batch each. *)
RunSerial ==
    /\ main.phase = "serial" /\ main.at <= Len(Serial)
    /\ LET s == Serial[main.at]
       IN IF BreakerOpen(s)
          THEN Skip(s) /\ GoTo("serial", main.at + 1) /\ UNCHANGED <<batch, stage>>
          ELSE /\ OpenBatch
               /\ stage' = [stage EXCEPT ![s] = NewStage]
               /\ GoTo("waiting", main.at)
               /\ UNCHANGED <<live, serial>>
    /\ UNCHANGED <<today, timeouts, verdict, late, attached>>

SettleSerial ==
    /\ main.phase = "waiting"
    /\ LET s == Serial[main.at]
       IN \E v \in Verdicts(s) : Settle(s, v) /\ verdict' = [verdict EXCEPT ![s] = v]
    /\ GoTo("serial", main.at + 1)
    /\ UNCHANGED <<today, timeouts, late, attached>>

(* The concurrent sources that are not run. *)
Tripped == Survivors(Concurrent, DOMAIN Concurrent \ Runnable)

WithSkips(doc) ==
    [doc EXCEPT !.reports = @ \o [i \in DOMAIN Tripped |-> <<Tripped[i], "skipped">>]]

(* The breakers of all concurrent runners are asked first, then the batch opens. *)
Gate ==
    /\ main.phase = "serial" /\ main.at > Len(Serial)
    /\ live' = WithSkips(live)
    /\ serial' = WithSkips(serial)
    /\ batch' = [base |-> live', opened |-> today, until |-> today]
    /\ IF Runnable = {} THEN GoTo("closing", 1) ELSE GoTo("dispatch", Min(Runnable))
    /\ UNCHANGED <<today, timeouts, stage, verdict, late, attached>>

(* Each of the three loops visits the runnable positions in order. *)
Following(phase, next) ==
    LET later == {i \in Runnable : i > main.at}
    IN  IF later # {} THEN GoTo(phase, Min(later)) ELSE GoTo(next, Min(Runnable))

Dispatch ==
    /\ main.phase = "dispatch"
    /\ stage' = [stage EXCEPT ![Concurrent[main.at]] = NewStage]
    /\ Following("dispatch", "await")
    /\ UNCHANGED <<today, timeouts, live, batch, verdict, late, attached, serial>>

Await ==
    /\ main.phase = "await"
    /\ LET s == Concurrent[main.at]
       IN \E v \in Verdicts(s) :
             /\ verdict' = [verdict EXCEPT ![s] = v]
             /\ IF v = "timeout" THEN SettleTimeout(s) ELSE UNCHANGED <<live, batch, stage, serial>>
    /\ Following("await", "settle")
    /\ UNCHANGED <<today, timeouts, late, attached>>

(* Mutant of Settling: the last declared is settled first. *)
MutantLastFirst ==
    Concurrent[CHOOSE i \in Runnable :
        Cardinality({j \in Runnable : j > i}) = Cardinality({j \in Runnable : j < main.at})]

Settling == Concurrent[main.at]

SettleNext ==
    /\ main.phase = "settle"
    /\ IF verdict[Settling] = "timeout" THEN UNCHANGED <<live, batch, stage, serial>>
       ELSE Settle(Settling, verdict[Settling])
    /\ Following("settle", "closing")
    /\ UNCHANGED <<today, timeouts, verdict, late, attached>>

(* owner.close, then attach_late_evidence; again after the synthesis. *)
Attach(phase, next) ==
    /\ main.phase = phase
    /\ attached' = attached \cup late
    /\ late' = {}
    /\ GoTo(next, 1)
    /\ UNCHANGED <<today, timeouts, live, batch, stage, verdict, serial>>

MainStep ==
    \/ RunSerial \/ SettleSerial
    \/ Gate \/ Dispatch \/ Await \/ SettleNext
    \/ Attach("closing", "synthesis") \/ Attach("synthesis", "done")

-----------------------------------------------------------------------------
(* Time.  Nothing changes once a deadline is passed by a tick.             *)

Pending(s) == stage[s].fate = "open" /\ stage[s].thread \in {"queued", "running", "stamped"}

Tick ==
    /\ \E s \in Sources : Pending(s) /\ stage[s].left >= 0
    /\ stage' = [s \in Sources |->
                    IF Pending(s) /\ stage[s].left >= 0 THEN [stage[s] EXCEPT !.left = @ - 1] ELSE stage[s]]
    /\ UNCHANGED <<today, timeouts, main, live, batch, verdict, late, attached, serial>>

Midnight ==
    /\ today < MaxDay
    /\ today' = today + 1
    /\ UNCHANGED <<timeouts, main, live, batch, stage, verdict, late, attached, serial>>

StagingNext == WorkerStep \/ MainStep \/ Tick \/ Midnight

(* The main thread is scheduled and time passes; of the workers nothing is assumed. *)
StagingSpec ==
    /\ StagingInit /\ [][StagingNext]_stagingVars
    /\ WF_stagingVars(MainStep) /\ WF_stagingVars(Tick)

-----------------------------------------------------------------------------
StagingTypeOK ==
    /\ today \in 1..MaxDay
    /\ \A s \in Sources :
          /\ stage[s].thread \in Threads /\ stage[s].outcome \in Outcomes /\ stage[s].fate \in Fates
          /\ stage[s].left \in -1..Budget
          /\ stage[s].onTime \in BOOLEAN /\ stage[s].cancelled \in BOOLEAN
    /\ Len(live.errors) <= Cap
    /\ late \cup attached \subseteq Sources

Declared == Serial \o Concurrent

InDeclaredOrder(rows) ==
    LET rank(row) == CHOOSE i \in DOMAIN Declared : Declared[i] = row[1]
    IN  \A i, j \in DOMAIN rows : i < j => rank(rows[i]) <= rank(rows[j])

(* The live document is what the promoted runners would have produced one   *)
(* after the other, in the order of their declaration, whatever order they  *)
(* ended in: no row, count or effect is lost, doubled, out of place or a    *)
(* refused worker's.  (Of the candidates log only the keys: a               *)
(* re-observation that leaves a copy unchanged is not merged.)              *)
LiveIsSerial ==
    /\ \A part \in DOMAIN live \ {"seen"} : live[part] = serial[part]
    /\ KeysIn(live.seen) = KeysIn(serial.seen)
    /\ IsInjective(Keys(live.seen))
    /\ InDeclaredOrder(live.queue)

(* No false refusal: a runner observed in time is promoted, unless one      *)
(* promoted before it from the same base changed a field it changed too;    *)
(* so a serial runner always is.                                            *)
FieldsOf(s) == {e.field : e \in {x \in ToSet(stage[s].edits) : x.kind = "bump"}}

RefusedForCause ==
    \A s \in Sources : stage[s].fate = "refused" =>
        \E t \in ToSet(Concurrent) : stage[t].fate = "promoted" /\ FieldsOf(s) \cap FieldsOf(t) # {}

(* A worker whose work was promoted has left no late evidence, though it    *)
(* judged its lateness itself while the main thread was judging it.         *)
LateIsDiscarded == \A s \in late \cup attached : stage[s].fate # "promoted"

EverySourceReported ==
    \A s \in Sources :
        Cardinality({i \in DOMAIN live.reports : live.reports[i][1] = s})
          = IF stage[s].fate = "refused" /\ verdict[s] = "raised" THEN 2 ELSE 1

(* The stage ends even if every worker hangs, and current_run then has one  *)
(* row of every source (two of a runner that raised and was refused),       *)
(* through all merges of its list of runs.                                  *)
StageEnds == <>(main.phase = "done" /\ EverySourceReported)
=============================================================================
