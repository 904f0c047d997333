---------------------------- MODULE StagingProofs ----------------------------
(***************************************************************************)
(* Proofs about the scheduler of Stage 1, for any sources, budgets, pools, *)
(* edits and days.                                                         *)
(*                                                                         *)
(* Main thread and workers agree on who was late (StageInv).  Each judges  *)
(* alone, the worker when it notes, the main thread when it settles; what  *)
(* they share is the stamp the worker set before, which no step changes    *)
(* but the dispatch of a new stage.  The rest is that a source is          *)
(* dispatched once (MainInv) and settled only when its future was observed *)
(* done (FateOK).                                                          *)
(*                                                                         *)
(* Types and the cap of the errors log (LogsInv): of both sides of a merge *)
(* the log is a sequence within the cap, whatever the edits replayed.      *)
(*                                                                         *)
(* Refusal (CauseInv): the live document stays something that edits of the *)
(* batch's days can have made of its base (Moved), which is what the merge *)
(* of every log recognises; so a promotion fails only over a field, which  *)
(* a runner promoted from the same base changed.                           *)
(*                                                                         *)
(* Serial equivalence (SerialInv): the edits of a worker make the same     *)
(* change of whatever document they are made in (Made), and a merge makes  *)
(* just that change of the live one (MergedAsMade).  So the live document  *)
(* and the serial one stay alike (DocsOK), and the queue, to which each    *)
(* source adds in its place, rises in declaration order (QueueOK).         *)
(***************************************************************************)
EXTENDS Staging, WellFoundedInduction, FiniteSetTheorems, TLAPS

Tried == late \cup attached

StageOK(x) ==
    x = [thread |-> x.thread, edits |-> x.edits, left |-> x.left, since |-> x.since,
         until |-> x.until, outcome |-> x.outcome, onTime |-> x.onTime,
         cancelled |-> x.cancelled, fate |-> x.fate]

TypeInv ==
    /\ stage = [s \in Sources |-> stage[s]]
    /\ verdict = [s \in Sources |-> verdict[s]]
    /\ \A s \in Sources : StageOK(stage[s])
    /\ Tried \subseteq Sources

(* Source s has stage x, was observed as v, and left its evidence among tried. *)
FateOK(s, x, v, tried) ==
    /\ s \in tried => x.thread = "done"
    /\ x.fate = "promoted" => x.thread = "done" /\ s \notin tried
    /\ s \in tried /\ x.fate = "open" => x.cancelled \/ ~x.onTime
    /\ v \notin {"none", "timeout"} => x.thread = "done"
    /\ x.onTime => x.outcome # "none"

FatesInv == \A s \in Sources : FateOK(s, stage[s], verdict[s], Tried)

Undispatched(S) == \A s \in S : stage[s].thread = "none"

SerialFrom(i) == {Serial[j] : j \in {k \in DOMAIN Serial : k >= i}}

RunnableFrom(i) == {Concurrent[j] : j \in {k \in Runnable : k >= i}}

(* What of the runners is still to come, by the main thread's place. *)
MainInv ==
    /\ main.phase = "serial" =>
          main.at \in Nat \ {0} /\ Undispatched(SerialFrom(main.at) \cup RunnableFrom(1))
    /\ main.phase = "waiting" =>
          main.at \in DOMAIN Serial /\ Undispatched(SerialFrom(main.at + 1) \cup RunnableFrom(1))
    /\ main.phase = "dispatch" =>
          main.at \in Runnable /\ Undispatched(RunnableFrom(main.at))
    /\ main.phase = "await" =>
          main.at \in Runnable /\ \A i \in Runnable : i < main.at => verdict[Concurrent[i]] # "none"
    /\ main.phase = "settle" =>
          main.at \in Runnable /\ \A i \in Runnable : verdict[Concurrent[i]] # "none"

StageInv == TypeInv /\ FatesInv /\ MainInv

-----------------------------------------------------------------------------
(* The runners' lists.                                                     *)

LEMMA Lists ==
  /\ Serial \in Seq(Sources) /\ Concurrent \in Seq(Sources)
  /\ DOMAIN Serial = 1..Len(Serial) /\ Len(Serial) \in Nat
  /\ DOMAIN Concurrent = 1..Len(Concurrent) /\ Len(Concurrent) \in Nat
  /\ \A i \in DOMAIN Serial : Serial[i] \in Sources
  /\ \A i \in DOMAIN Concurrent : Concurrent[i] \in Sources
  /\ Runnable \subseteq DOMAIN Concurrent
<1>1. Serial \in Seq(Sources) /\ Concurrent \in Seq(Sources)
  BY StagingAssumption
<1> QED BY <1>1 DEF Runnable

LEMMA Distinct ==
  /\ \A i, j \in DOMAIN Serial : Serial[i] = Serial[j] => i = j
  /\ \A i, j \in DOMAIN Concurrent : Concurrent[i] = Concurrent[j] => i = j
  /\ \A i \in DOMAIN Serial, j \in DOMAIN Concurrent : Serial[i] # Concurrent[j]
<1> DEFINE all == Serial \o Concurrent
<1>1. \A i, j \in DOMAIN all : all[i] = all[j] => i = j
  BY StagingAssumption DEF IsInjective
<1>2. /\ \A i \in DOMAIN Serial : i \in DOMAIN all /\ all[i] = Serial[i]
      /\ \A i \in DOMAIN Concurrent : Len(Serial) + i \in DOMAIN all /\ all[Len(Serial) + i] = Concurrent[i]
  BY Lists
<1> HIDE DEF all
<1>3. \A i, j \in DOMAIN Serial : Serial[i] = Serial[j] => i = j
  BY <1>1, <1>2
<1>4. \A i, j \in DOMAIN Concurrent : Concurrent[i] = Concurrent[j] => i = j
  <2> TAKE i, j \in DOMAIN Concurrent
  <2> HAVE Concurrent[i] = Concurrent[j]
  <2>1. Len(Serial) + i = Len(Serial) + j
    BY <1>1, <1>2
  <2> QED BY <2>1, Lists
<1>5. \A i \in DOMAIN Serial, j \in DOMAIN Concurrent : Serial[i] # Concurrent[j]
  <2> SUFFICES ASSUME NEW i \in DOMAIN Serial, NEW j \in DOMAIN Concurrent, Serial[i] = Concurrent[j]
               PROVE  FALSE
    OBVIOUS
  <2>1. i = Len(Serial) + j
    BY <1>1, <1>2
  <2> QED BY <2>1, Lists
<1> QED BY <1>3, <1>4, <1>5

LEMMA SmallestIn ==
  ASSUME NEW S \in SUBSET Nat, S # {}
  PROVE  Min(S) \in S /\ \A i \in S : Min(S) <= i
<1> DEFINE R == OpToRel(<, Nat)
<1>1. IsWellFoundedOn(R, Nat)
  BY NatLessThanWellFounded
<1>2. \A a, b \in Nat : a < b => <<a, b>> \in R
  BY DEF OpToRel
<1> HIDE DEF R
<1>3. PICK m \in S : \A k \in S : ~(<<k, m>> \in R)
  BY <1>1, WFMin
<1>4. \A k \in S : ~(k < m)
  BY <1>2, <1>3
<1>5. \A k \in S : k \in Nat
  OBVIOUS
<1>6. \E i \in S : \A k \in S : i <= k
  BY <1>4, <1>5
<1> QED BY <1>6 DEF Min

-----------------------------------------------------------------------------
LEMMA StartOK == StagingInit => StageInv
<1> SUFFICES ASSUME StagingInit PROVE StageInv
  OBVIOUS
<1>1. /\ \A s \in Sources : stage[s] = NoStage /\ verdict[s] = "none"
      /\ main = [phase |-> "serial", at |-> 1] /\ Tried = {}
  BY DEF StagingInit, Tried
<1>2. TypeInv
  BY <1>1 DEF StagingInit, TypeInv, StageOK, NoStage
<1>3. FatesInv
  BY <1>1 DEF FatesInv, FateOK, NoStage
<1>4. MainInv
  BY <1>1, Lists DEF MainInv, Undispatched, SerialFrom, RunnableFrom, NoStage
<1> QED BY <1>2, <1>3, <1>4 DEF StageInv

-----------------------------------------------------------------------------
(* Workers.                                                                *)

(* The main thread waits: what is to come stays so. *)
LEMMA MainStays ==
  ASSUME MainInv, UNCHANGED <<main, timeouts, verdict>>,
         \A s \in Sources : stage[s].thread = "none" => stage'[s].thread = "none"
  PROVE  MainInv'
<1>1. Runnable' = Runnable
  BY DEF Runnable, BreakerOpen
<1>2. \A i : (SerialFrom(i) \cup RunnableFrom(i) \subseteq Sources) /\ RunnableFrom(i)' = RunnableFrom(i)
  BY <1>1, Lists DEF SerialFrom, RunnableFrom
<1> QED BY <1>1, <1>2, Lists DEF MainInv, Undispatched

WithStamp(x, outcome, onTime, until, edits) ==
    [x EXCEPT !.thread = "stamped", !.outcome = outcome, !.onTime = onTime,
              !.until = until, !.edits = edits]

LEMMA Stamped ==
  ASSUME NEW x, StageOK(x), NEW outcome, NEW onTime, NEW until, NEW edits
  PROVE  /\ StageOK(WithStamp(x, outcome, onTime, until, edits))
         /\ WithStamp(x, outcome, onTime, until, edits).thread = "stamped"
         /\ WithStamp(x, outcome, onTime, until, edits).fate = x.fate
         /\ WithStamp(x, outcome, onTime, until, edits).outcome = outcome
<1> DEFINE y1 == [x EXCEPT !.thread = "stamped"]
           y2 == [y1 EXCEPT !.outcome = outcome]
           y3 == [y2 EXCEPT !.onTime = onTime]
           y4 == [y3 EXCEPT !.until = until]
           y5 == [y4 EXCEPT !.edits = edits]
<1>1. StageOK(y1) /\ y1.thread = "stamped" /\ y1.fate = x.fate
  BY DEF StageOK
<1> HIDE DEF y1
<1>2. StageOK(y2) /\ y2.thread = "stamped" /\ y2.fate = x.fate /\ y2.outcome = outcome
  BY <1>1 DEF StageOK
<1> HIDE DEF y2
<1>3. StageOK(y3) /\ y3.thread = "stamped" /\ y3.fate = x.fate /\ y3.outcome = outcome
  BY <1>2 DEF StageOK
<1> HIDE DEF y3
<1>4. StageOK(y4) /\ y4.thread = "stamped" /\ y4.fate = x.fate /\ y4.outcome = outcome
  BY <1>3 DEF StageOK
<1> HIDE DEF y4
<1>5. StageOK(y5) /\ y5.thread = "stamped" /\ y5.fate = x.fate /\ y5.outcome = outcome
  BY <1>4 DEF StageOK
<1>6. y5 = WithStamp(x, outcome, onTime, until, edits)
  BY DEF y1, y2, y3, y4, WithStamp
<1> QED BY <1>5, <1>6

LEMMA Cancelled ==
  ASSUME NEW x, StageOK(x), NEW cancelled
  PROVE  LET y == [x EXCEPT !.cancelled = cancelled]
         IN  /\ StageOK(y) /\ y.thread = x.thread /\ y.fate = x.fate
             /\ y.outcome = x.outcome /\ y.onTime = x.onTime
BY DEF StageOK

(* Worker s takes its stage to x, and its evidence may be kept. *)
LEMMA WorkerKeeps ==
  ASSUME StageInv, NEW s \in Sources, NEW x, StageOK(x),
         Worker(s, x),
         stage[s].thread # "none", x.thread # "none",
         late' \in {late, late \cup {s}},
         FateOK(s, x, verdict[s], Tried')
  PROVE  StageInv'
<1>1. /\ stage' = [stage EXCEPT ![s] = x]
      /\ UNCHANGED <<main, timeouts, verdict, attached>>
  BY DEF Worker
<1>2. TypeInv'
  BY <1>1 DEF StageInv, TypeInv, StageOK, Tried
<1>3. stage'[s] = x /\ \A t \in Sources \ {s} : stage'[t] = stage[t]
  BY <1>1 DEF StageInv, TypeInv
<1>4. \A t \in Sources \ {s} : t \in Tried' <=> t \in Tried
  BY <1>1 DEF Tried
<1>5. FatesInv'
  <2> SUFFICES ASSUME NEW t \in Sources PROVE FateOK(t, stage'[t], verdict'[t], Tried')
    BY DEF FatesInv
  <2>1. CASE t = s
    BY <2>1, <1>1, <1>3
  <2>2. CASE t # s
    <3>1. FateOK(t, stage[t], verdict[t], Tried)
      BY DEF StageInv, FatesInv
    <3> QED BY <2>2, <3>1, <1>1, <1>3, <1>4 DEF FateOK
  <2> QED BY <2>1, <2>2
<1>6. MainInv'
  BY <1>1, <1>3, MainStays DEF StageInv
<1> QED BY <1>2, <1>5, <1>6 DEF StageInv

(* A worker that has not noted yet, of a stage x still open to it. *)
LEMMA BeforeNote ==
  ASSUME StageInv, NEW s \in Sources, NEW x, StageOK(x),
         Worker(s, x), UNCHANGED late,
         stage[s].thread \in {"queued", "running"}, x.thread # "none", x.fate = stage[s].fate,
         x.onTime => x.outcome # "none"
  PROVE  StageInv'
<1>1. FateOK(s, stage[s], verdict[s], Tried)
  BY DEF StageInv, FatesInv
<1>2. Tried' = Tried
  BY DEF Worker, Tried
<1>3. FateOK(s, x, verdict[s], Tried')
  BY <1>1, <1>2 DEF FateOK
<1> QED BY <1>3, WorkerKeeps

LEMMA WorkerStepOK ==
  ASSUME StageInv, WorkerStep
  PROVE  StageInv'
<1> PICK s \in Sources :
        \/ Start(s)
        \/ Consult(s)
        \/ \E outcome \in Outcomes \ {"none"}, script \in ScriptsOf(s, stage[s].since, today) :
              Execute(s, outcome, script)
        \/ ExecuteDiscarded(s)
        \/ NoteLate(s)
  BY DEF WorkerStep
<1>0. StageOK(stage[s]) /\ FateOK(s, stage[s], verdict[s], Tried)
  BY DEF StageInv, TypeInv, FatesInv
<1>1. CASE Start(s)
  <2> DEFINE x == [stage[s] EXCEPT !.thread = "running"]
  <2>1. /\ StageOK(x) /\ x.thread = "running" /\ x.fate = stage[s].fate
        /\ x.outcome = stage[s].outcome /\ x.onTime = stage[s].onTime
    BY <1>0 DEF StageOK
  <2>2. Worker(s, x) /\ UNCHANGED late /\ stage[s].thread = "queued"
    BY <1>1 DEF Start
  <2> HIDE DEF x
  <2> QED BY <1>0, <2>1, <2>2, BeforeNote DEF FateOK
<1>2. CASE Consult(s)
  <2> DEFINE x == [stage[s] EXCEPT !.cancelled = TRUE]
  <2>1. /\ StageOK(x) /\ x.thread = stage[s].thread /\ x.fate = stage[s].fate
        /\ x.outcome = stage[s].outcome /\ x.onTime = stage[s].onTime
    BY <1>0, Cancelled
  <2>2. Worker(s, x) /\ UNCHANGED late /\ stage[s].thread = "running"
    BY <1>2 DEF Consult
  <2> HIDE DEF x
  <2> QED BY <1>0, <2>1, <2>2, BeforeNote DEF FateOK
<1>3. ASSUME NEW outcome \in Outcomes \ {"none"}, NEW script, Execute(s, outcome, script)
      PROVE  StageInv'
  <2> DEFINE onTime == stage[s].left >= 0
             edits == IF outcome = "returned"
                      THEN Append(script, [kind |-> "report", row |-> <<s, "ok">>]) ELSE script
             x == WithStamp(stage[s], outcome, onTime, today, edits)
  <2>1. Worker(s, x) /\ UNCHANGED late /\ stage[s].thread = "running"
    BY <1>3 DEF Execute, WithStamp
  <2>2. StageOK(x) /\ x.thread = "stamped" /\ x.fate = stage[s].fate /\ x.outcome = outcome
    <3> HIDE DEF onTime, edits
    <3> QED BY <1>0, Stamped
  <2> HIDE DEF x
  <2> QED BY <2>1, <2>2, BeforeNote
<1>4. CASE ExecuteDiscarded(s)
  <2> DEFINE x == [stage[s] EXCEPT !.thread = "stamped"]
  <2>1. /\ StageOK(x) /\ x.thread = "stamped" /\ x.fate = stage[s].fate
        /\ x.outcome = stage[s].outcome /\ x.onTime = stage[s].onTime
    BY <1>0 DEF StageOK
  <2>2. Worker(s, x) /\ UNCHANGED late /\ stage[s].thread = "running"
    BY <1>4 DEF ExecuteDiscarded
  <2> HIDE DEF x
  <2> QED BY <1>0, <2>1, <2>2, BeforeNote DEF FateOK
<1>5. CASE NoteLate(s)
  <2> DEFINE x == [stage[s] EXCEPT !.thread = "done"]
             isLate == stage[s].cancelled \/ ~stage[s].onTime
  <2>1. /\ StageOK(x) /\ x.thread = "done" /\ x.fate = stage[s].fate
        /\ x.cancelled = stage[s].cancelled /\ x.onTime = stage[s].onTime
        /\ x.outcome = stage[s].outcome
    BY <1>0 DEF StageOK
  <2>2. /\ Worker(s, x) /\ stage[s].thread = "stamped"
        /\ late' = IF isLate THEN late \cup {s} ELSE late
    BY <1>5 DEF NoteLate
  <2>3. x.cancelled \/ ~x.onTime <=> isLate
    BY <2>1
  <2>4. s \notin Tried /\ stage[s].fate # "promoted"
    BY <1>0, <2>2 DEF FateOK
  <2>5. s \in Tried' => isLate
    BY <2>2, <2>4 DEF Worker, Tried
  <2> HIDE DEF x
  <2>6. FateOK(s, x, verdict[s], Tried')
    BY <1>0, <2>1, <2>3, <2>4, <2>5 DEF FateOK
  <2> HIDE DEF isLate
  <2>7. late' \in {late, late \cup {s}} /\ x.thread # "none" /\ stage[s].thread # "none"
    BY <2>1, <2>2
  <2> QED BY <2>1, <2>2, <2>6, <2>7, WorkerKeeps
<1> QED BY <1>1, <1>2, <1>3, <1>4, <1>5

-----------------------------------------------------------------------------
(* The main thread.                                                        *)

(* It takes the stage of s to x, and may have observed s.                  *)
LEMMA MainKeeps ==
  ASSUME StageInv, NEW s \in Sources, NEW x, StageOK(x),
         stage' = [stage EXCEPT ![s] = x],
         verdict' = [t \in Sources |-> verdict'[t]],
         \A t \in Sources \ {s} : verdict'[t] = verdict[t],
         UNCHANGED <<late, attached>>,
         FateOK(s, x, verdict'[s], Tried)
  PROVE  /\ TypeInv' /\ FatesInv'
         /\ stage'[s] = x /\ \A t \in Sources \ {s} : stage'[t] = stage[t]
<1>1. /\ stage'[s] = x /\ \A t \in Sources \ {s} : stage'[t] = stage[t]
      /\ stage' = [t \in Sources |-> stage'[t]]
  BY DEF StageInv, TypeInv
<1>2. /\ \A t \in Sources \ {s} : verdict'[t] = verdict[t]
      /\ verdict' = [t \in Sources |-> verdict'[t]]
  OBVIOUS
<1>3. TypeInv'
  BY <1>1, <1>2 DEF StageInv, TypeInv, StageOK, Tried
<1>4. FatesInv'
  <2> SUFFICES ASSUME NEW t \in Sources PROVE FateOK(t, stage'[t], verdict'[t], Tried')
    BY DEF FatesInv
  <2>0. Tried' = Tried
    BY DEF Tried
  <2>1. CASE t = s
    BY <2>0, <2>1, <1>1
  <2>2. CASE t # s
    BY <2>0, <2>2, <1>1, <1>2 DEF StageInv, FatesInv
  <2> QED BY <2>1, <2>2
<1> QED BY <1>1, <1>2, <1>3, <1>4

LEMMA ObservedBefore ==
  ASSUME StageInv, UNCHANGED verdict
  PROVE  verdict' = [t \in Sources |-> verdict'[t]] /\ \A t \in Sources : verdict'[t] = verdict[t]
BY DEF StageInv, TypeInv

LEMMA NoStageOK ==
  StageOK(NoStage) /\ NoStage.fate = "open" /\ NoStage.onTime = FALSE
BY DEF StageOK, NoStage

LEMMA Dispatched ==
  ASSUME StageInv, NEW s \in Sources, stage[s].thread = "none"
  PROVE  StageOK(NewStage) /\ NewStage.thread = "queued" /\ FateOK(s, NewStage, verdict[s], Tried)
<1> DEFINE y1 == [NoStage EXCEPT !.thread = "queued"]
           y2 == [y1 EXCEPT !.left = Budget]
           y3 == [y2 EXCEPT !.since = today]
<1>3. StageOK(y1) /\ y1.thread = "queued" /\ y1.fate = "open" /\ y1.onTime = FALSE
  BY NoStageOK DEF StageOK
<1> HIDE DEF y1
<1>4. StageOK(y2) /\ y2.thread = "queued" /\ y2.fate = "open" /\ y2.onTime = FALSE
  BY <1>3 DEF StageOK
<1> HIDE DEF y2
<1>5. StageOK(y3) /\ y3.thread = "queued" /\ y3.fate = "open" /\ y3.onTime = FALSE
  BY <1>4 DEF StageOK
<1>6. y3 = NewStage
  BY DEF y1, y2, NewStage
<1>1. /\ StageOK(NewStage) /\ NewStage.thread = "queued" /\ NewStage.fate = "open"
      /\ NewStage.onTime = FALSE
  BY <1>5, <1>6
<1>2. FateOK(s, stage[s], verdict[s], Tried)
  BY DEF StageInv, FatesInv
<1> QED BY <1>1, <1>2 DEF FateOK

LEMMA SettledShape ==
  ASSUME NEW s \in Sources, NEW fate
  PROVE  /\ StageOK(Settled(s, fate)) /\ Settled(s, fate).thread = stage[s].thread
         /\ Settled(s, fate).fate = fate /\ Settled(s, fate).onTime = FALSE
<1> DEFINE y1 == [NoStage EXCEPT !.thread = stage[s].thread]
           y2 == [y1 EXCEPT !.cancelled = stage[s].cancelled]
           y3 == [y2 EXCEPT !.edits = stage[s].edits]
           y4 == [y3 EXCEPT !.fate = fate]
<1>1. StageOK(y1) /\ y1.thread = stage[s].thread /\ y1.onTime = FALSE
  BY NoStageOK DEF StageOK
<1> HIDE DEF y1
<1>2. StageOK(y2) /\ y2.thread = stage[s].thread /\ y2.onTime = FALSE
  BY <1>1 DEF StageOK
<1> HIDE DEF y2
<1>3. StageOK(y3) /\ y3.thread = stage[s].thread /\ y3.onTime = FALSE
  BY <1>2 DEF StageOK
<1> HIDE DEF y3
<1>4. StageOK(y4) /\ y4.thread = stage[s].thread /\ y4.onTime = FALSE /\ y4.fate = fate
  BY <1>3 DEF StageOK
<1>5. y4 = Settled(s, fate)
  BY DEF y1, y2, y3, Settled
<1> QED BY <1>4, <1>5

(* A verdict is given of every runner, and but for a timeout of one done.  *)
LEMMA VerdictOf ==
  ASSUME StageInv, NEW s \in Sources, NEW v \in Verdicts(s)
  PROVE  v # "none" /\ (v # "timeout" => stage[s].thread = "done")
<1>1. FateOK(s, stage[s], verdict[s], Tried)
  BY DEF StageInv, FatesInv
<1>2. CASE stage[s].thread = "done"
  <2>1. CASE stage[s].onTime /\ stage[s].outcome # "timed_out"
    <3>1. v = stage[s].outcome
      BY <1>2, <2>1 DEF Verdicts
    <3> QED BY <1>1, <1>2, <2>1, <3>1 DEF FateOK
  <2>2. CASE ~(stage[s].onTime /\ stage[s].outcome # "timed_out")
    BY <1>2, <2>2 DEF Verdicts
  <2> QED BY <2>1, <2>2
<1>3. CASE stage[s].thread # "done"
  BY <1>3 DEF Verdicts
<1> QED BY <1>2, <1>3

(* What settling does to the stage of s, observed as v. *)
LEMMA SettleOK ==
  ASSUME StageInv, NEW s \in Sources, NEW v, v = "timeout" \/ stage[s].thread = "done",
         NEW w, w \in {v, verdict[s]},
         Settle(s, v)
  PROVE  \E x : StageOK(x) /\ stage' = [stage EXCEPT ![s] = x] /\ FateOK(s, x, w, Tried)
<1>0. FateOK(s, stage[s], verdict[s], Tried)
  BY DEF StageInv, FatesInv
<1>1. CASE v = "timeout"
  <2> DEFINE old == Settled(s, "timeout")
             thread == IF old.thread = "queued" THEN "withdrawn" ELSE old.thread
             x1 == [old EXCEPT !.thread = thread]
             x2 == [x1 EXCEPT !.cancelled = TRUE]
             x3 == [x2 EXCEPT !.edits = <<>>]
  <2>1. stage' = [stage EXCEPT ![s] = x3]
    BY <1>1 DEF Settle, SettleTimeout
  <2>2. /\ StageOK(old) /\ old.thread = stage[s].thread /\ old.fate = "timeout" /\ old.onTime = FALSE
    BY SettledShape
  <2> HIDE DEF old
  <2>3. stage[s].thread = "done" => thread = "done"
    BY <2>2
  <2> HIDE DEF thread
  <2>4. StageOK(x1) /\ x1.thread = thread /\ x1.fate = "timeout" /\ x1.onTime = FALSE
    BY <2>2 DEF StageOK
  <2> HIDE DEF x1
  <2>5. StageOK(x2) /\ x2.thread = thread /\ x2.fate = "timeout" /\ x2.onTime = FALSE
    BY <2>4, Cancelled
  <2> HIDE DEF x2
  <2>6. StageOK(x3) /\ x3.thread = thread /\ x3.fate = "timeout" /\ x3.onTime = FALSE
    BY <2>5 DEF StageOK
  <2> HIDE DEF x3
  <2>7. FateOK(s, x3, w, Tried)
    BY <1>0, <1>1, <2>3, <2>6 DEF FateOK
  <2> QED BY <2>1, <2>6, <2>7
<1>2. CASE v # "timeout"
  <2>1. \/ stage' = [stage EXCEPT ![s] = Settled(s, "refused")]
        \/ ~Refusal(s) /\ stage' = [stage EXCEPT ![s] = Settled(s, "promoted")]
    BY <1>2 DEF Settle, SettleOnTime, Promotion
  <2>2. CASE stage' = [stage EXCEPT ![s] = Settled(s, "refused")]
    <3>1. FateOK(s, Settled(s, "refused"), w, Tried)
      BY <1>0, <1>2, SettledShape DEF FateOK
    <3> QED BY <2>2, <3>1, SettledShape
  <2>3. CASE ~Refusal(s) /\ stage' = [stage EXCEPT ![s] = Settled(s, "promoted")]
    <3>1. stage[s].fate = "open" /\ ~(stage[s].cancelled \/ ~stage[s].onTime)
      BY <2>3 DEF Refusal
    <3>2. s \notin Tried
      BY <1>0, <3>1 DEF FateOK
    <3>3. FateOK(s, Settled(s, "promoted"), w, Tried)
      BY <1>0, <1>2, <3>2, SettledShape DEF FateOK
    <3> QED BY <2>3, <3>3, SettledShape
  <2> QED BY <2>1, <2>2, <2>3
<1> QED BY <1>1, <1>2

(* The main thread moved on; who may be dispatched is as before. *)
LEMMA Loops ==
  ASSUME UNCHANGED timeouts
  PROVE  /\ Runnable' = Runnable /\ Runnable \subseteq Nat \ {0}
         /\ \A i : SerialFrom(i) \subseteq Sources /\ RunnableFrom(i) \subseteq Sources
         /\ \A i : RunnableFrom(i)' = RunnableFrom(i)
         /\ \A i \in Runnable : Concurrent[i] \in Sources
<1>1. Runnable' = Runnable
  BY DEF Runnable, BreakerOpen
<1> QED BY <1>1, Lists DEF SerialFrom, RunnableFrom

LEMMA RunSerialOK == StageInv /\ RunSerial => StageInv'
<1> SUFFICES ASSUME StageInv, RunSerial PROVE StageInv'
  OBVIOUS
<1> DEFINE s == Serial[main.at]
<1>0. /\ main.phase = "serial" /\ main.at \in Nat \ {0} /\ main.at \in DOMAIN Serial
      /\ Undispatched(SerialFrom(main.at) \cup RunnableFrom(1))
      /\ UNCHANGED <<timeouts, verdict, late, attached>>
      /\ s \in Sources
  BY Lists DEF RunSerial, StageInv, MainInv
<1>1. CASE BreakerOpen(s)
  <2>1. UNCHANGED stage /\ main' = [phase |-> "serial", at |-> main.at + 1]
    BY <1>1 DEF RunSerial, GoTo
  <2>2. SerialFrom(main.at + 1) \subseteq SerialFrom(main.at)
    BY <1>0, Lists DEF SerialFrom
  <2>4. \A t \in SerialFrom(main.at + 1) \cup RunnableFrom(1) : stage'[t].thread = "none"
    BY <1>0, <2>1, <2>2 DEF Undispatched
  <2>5. MainInv'
    BY <1>0, <2>1, <2>4, Loops DEF MainInv, Undispatched
  <2>3. TypeInv' /\ FatesInv'
    BY <1>0, <2>1 DEF StageInv, TypeInv, StageOK, FatesInv, FateOK, Tried
  <2> QED BY <2>3, <2>5 DEF StageInv
<1>2. CASE ~BreakerOpen(s)
  <2>1. stage' = [stage EXCEPT ![s] = NewStage] /\ main' = [phase |-> "waiting", at |-> main.at]
    BY <1>2 DEF RunSerial, GoTo
  <2>2. stage[s].thread = "none"
    BY <1>0 DEF Undispatched, SerialFrom
  <2>3. StageOK(NewStage) /\ FateOK(s, NewStage, verdict'[s], Tried)
    BY <1>0, <2>2, Dispatched
  <2>4. /\ TypeInv' /\ FatesInv'
        /\ \A t \in Sources \ {s} : stage'[t] = stage[t]
    BY <1>0, <2>1, <2>3, MainKeeps, ObservedBefore
  <2>5. s \notin SerialFrom(main.at + 1) \cup RunnableFrom(1)
    BY <1>0, Distinct, Lists DEF SerialFrom, RunnableFrom
  <2>6. SerialFrom(main.at + 1) \subseteq SerialFrom(main.at)
    BY <1>0, Lists DEF SerialFrom
  <2>7. MainInv'
    <3> HIDE DEF s
    <3>1. \A t \in SerialFrom(main.at + 1) \cup RunnableFrom(1) : stage'[t].thread = "none"
      BY <1>0, <2>4, <2>5, <2>6, Loops DEF Undispatched
    <3> QED BY <1>0, <2>1, <3>1, Loops DEF MainInv, Undispatched
  <2> QED BY <2>4, <2>7 DEF StageInv
<1> QED BY <1>1, <1>2

LEMMA SettleSerialOK == StageInv /\ SettleSerial => StageInv'
<1> SUFFICES ASSUME StageInv, SettleSerial PROVE StageInv'
  OBVIOUS
<1> DEFINE s == Serial[main.at]
<1>0. /\ main.phase = "waiting" /\ main.at \in DOMAIN Serial /\ main.at \in Nat
      /\ Undispatched(SerialFrom(main.at + 1) \cup RunnableFrom(1))
      /\ UNCHANGED <<timeouts, late, attached>>
      /\ s \in Sources
      /\ main' = [phase |-> "serial", at |-> main.at + 1]
  BY Lists DEF SettleSerial, StageInv, MainInv, GoTo
<1>1. PICK v \in Verdicts(s) : Settle(s, v) /\ verdict' = [verdict EXCEPT ![s] = v]
  BY DEF SettleSerial
<1> HIDE DEF s
<1>2. v # "none" /\ (v # "timeout" => stage[s].thread = "done")
  BY <1>0, VerdictOf
<1>3. verdict'[s] = v
  BY <1>0, <1>1 DEF StageInv, TypeInv
<1>4. PICK x : StageOK(x) /\ stage' = [stage EXCEPT ![s] = x] /\ FateOK(s, x, v, Tried)
  BY <1>0, <1>1, <1>2, SettleOK
<1>5. /\ TypeInv' /\ FatesInv'
      /\ \A t \in Sources \ {s} : stage'[t] = stage[t]
  <2>1. /\ verdict' = [t \in Sources |-> verdict'[t]]
        /\ \A t \in Sources \ {s} : verdict'[t] = verdict[t]
    BY <1>1 DEF StageInv, TypeInv
  <2> QED BY <1>0, <1>3, <1>4, <2>1, MainKeeps
<1>6. s \notin SerialFrom(main.at + 1) \cup RunnableFrom(1)
  BY <1>0, Distinct, Lists DEF SerialFrom, RunnableFrom, s
<1>7. MainInv'
  <2>1. \A t \in SerialFrom(main.at + 1) \cup RunnableFrom(1) : stage'[t].thread = "none"
    BY <1>0, <1>5, <1>6, Loops DEF Undispatched
  <2> QED BY <1>0, <2>1, Loops DEF MainInv, Undispatched
<1> QED BY <1>5, <1>7 DEF StageInv

LEMMA GateOK == StageInv /\ Gate => StageInv'
<1> SUFFICES ASSUME StageInv, Gate PROVE StageInv'
  OBVIOUS
<1>0. /\ Undispatched(RunnableFrom(1))
      /\ UNCHANGED <<timeouts, stage, verdict, late, attached>>
  BY DEF Gate, StageInv, MainInv, Undispatched
<1>1. TypeInv' /\ FatesInv'
  BY <1>0 DEF StageInv, TypeInv, StageOK, FatesInv, FateOK, Tried
<1>2. CASE Runnable = {}
  BY <1>1, <1>2 DEF Gate, GoTo, StageInv, MainInv
<1>3. CASE Runnable # {}
  <2>1. main' = [phase |-> "dispatch", at |-> Min(Runnable)] /\ Min(Runnable) \in Runnable
    BY <1>0, <1>3, Loops, SmallestIn DEF Gate, GoTo
  <2>2. RunnableFrom(Min(Runnable)) \subseteq RunnableFrom(1)
    BY <1>0, <2>1, Loops DEF RunnableFrom
  <2>3. Undispatched(RunnableFrom(Min(Runnable)))'
    BY <1>0, <2>2, Loops DEF Undispatched
  <2> QED BY <1>0, <1>1, <2>1, <2>3, Loops DEF StageInv, MainInv
<1> QED BY <1>2, <1>3

(* The next turn of a loop over the runners, or the loop that follows. *)
LEMMA NextTurn ==
  ASSUME UNCHANGED timeouts, main.at \in Runnable, NEW phase, NEW next, Following(phase, next)
  PROVE  /\ main'.at \in Runnable /\ Runnable' = Runnable
         /\ \/ main'.phase = phase /\ main'.at > main.at
               /\ \A i \in Runnable : i < main'.at => i <= main.at
            \/ main'.phase = next /\ (\A i \in Runnable : i <= main.at /\ ~(i < main'.at))
<1> DEFINE later == {i \in Runnable : i > main.at}
<1>0. Runnable' = Runnable /\ Runnable \subseteq Nat /\ later \subseteq Nat /\ main.at \in Nat
  BY Loops
<1>1. CASE later # {}
  <2>1. PICK n : n = Min(later)
    OBVIOUS
  <2>2. n \in later /\ \A i \in later : n <= i
    BY <1>0, <1>1, <2>1, SmallestIn
  <2>3. main'.phase = phase /\ main'.at = n
    BY <1>1, <2>1 DEF Following, GoTo
  <2>4. n \in Runnable /\ n > main.at /\ n \in Nat
    BY <1>0, <2>2
  <2>5. ASSUME NEW i \in Runnable, i < n PROVE i <= main.at
    <3>1. i \in Nat /\ i \notin later
      BY <1>0, <2>2, <2>4, <2>5
    <3> QED BY <1>0, <3>1
  <2> QED BY <1>0, <2>3, <2>4, <2>5
<1>2. CASE later = {}
  <2>1. PICK n : n = Min(Runnable)
    OBVIOUS
  <2>2. n \in Runnable /\ \A i \in Runnable : n <= i
    BY <1>0, <2>1, SmallestIn
  <2>3. main'.phase = next /\ main'.at = n
    BY <1>2, <2>1 DEF Following, GoTo
  <2>4. ASSUME NEW i \in Runnable PROVE i <= main.at /\ ~(i < n)
    <3>1. i \in Nat /\ i \notin later /\ n \in Nat /\ n <= i
      BY <1>0, <1>2, <2>2
    <3> QED BY <1>0, <3>1
  <2> QED BY <1>0, <2>2, <2>3, <2>4
<1> QED BY <1>1, <1>2

LEMMA DispatchOK == StageInv /\ Dispatch => StageInv'
<1> SUFFICES ASSUME StageInv, Dispatch PROVE StageInv'
  OBVIOUS
<1> DEFINE s == Concurrent[main.at]
<1>0. /\ main.at \in Runnable /\ Undispatched(RunnableFrom(main.at))
      /\ UNCHANGED <<timeouts, verdict, late, attached>>
      /\ stage' = [stage EXCEPT ![s] = NewStage]
      /\ Following("dispatch", "await")
  BY DEF Dispatch, StageInv, MainInv
<1>1. s \in Sources /\ stage[s].thread = "none" /\ main.at \in Nat
  BY <1>0, Loops DEF Undispatched, RunnableFrom
<1>2. StageOK(NewStage) /\ FateOK(s, NewStage, verdict'[s], Tried)
  BY <1>0, <1>1, Dispatched
<1>3. /\ TypeInv' /\ FatesInv'
      /\ \A t \in Sources \ {s} : stage'[t] = stage[t]
  <2> HIDE DEF s
  <2> QED BY <1>0, <1>1, <1>2, MainKeeps, ObservedBefore
<1>4. CASE main'.phase = "dispatch" /\ main'.at > main.at
  <2>1. main'.at \in Runnable /\ Runnable' = Runnable
    BY <1>0, NextTurn
  <2>2. RunnableFrom(main'.at) \subseteq RunnableFrom(main.at) /\ s \notin RunnableFrom(main'.at)
    BY <1>0, <1>1, <1>4, <2>1, Loops, Distinct, Lists DEF RunnableFrom
  <2>3. \A t \in RunnableFrom(main'.at) : stage'[t].thread = "none"
    BY <1>0, <1>3, <2>2, Loops DEF Undispatched
  <2>4. MainInv'
    BY <1>4, <2>1, <2>3 DEF MainInv, Undispatched, RunnableFrom
  <2> QED BY <1>3, <2>4 DEF StageInv
<1>5. CASE main'.phase = "await" /\ \A i \in Runnable : i <= main.at /\ ~(i < main'.at)
  <2>1. main'.at \in Runnable /\ Runnable' = Runnable
    BY <1>0, NextTurn
  <2>2. MainInv'
    BY <1>5, <2>1 DEF MainInv
  <2> QED BY <1>3, <2>2 DEF StageInv
<1> QED BY <1>0, <1>4, <1>5, NextTurn

LEMMA AwaitOK == StageInv /\ Await => StageInv'
<1> SUFFICES ASSUME StageInv, Await PROVE StageInv'
  OBVIOUS
<1> DEFINE s == Concurrent[main.at]
<1>0. /\ main.at \in Runnable /\ \A i \in Runnable : i < main.at => verdict[Concurrent[i]] # "none"
      /\ UNCHANGED <<timeouts, late, attached>>
      /\ Following("await", "settle")
  BY DEF Await, StageInv, MainInv
<1>1. s \in Sources /\ main.at \in Nat /\ Runnable \subseteq Nat
  BY <1>0, Loops
<1>2. PICK v \in Verdicts(s) :
         /\ verdict' = [verdict EXCEPT ![s] = v]
         /\ IF v = "timeout" THEN SettleTimeout(s) ELSE UNCHANGED <<live, batch, stage, serial>>
  BY DEF Await
<1> HIDE DEF s
<1>3. v # "none" /\ (v # "timeout" => stage[s].thread = "done") /\ verdict'[s] = v
  BY <1>1, <1>2, VerdictOf DEF StageInv, TypeInv
<1>4. PICK x : StageOK(x) /\ stage' = [stage EXCEPT ![s] = x] /\ FateOK(s, x, v, Tried)
  <2>1. CASE v = "timeout"
    BY <1>1, <1>2, <2>1, SettleOK DEF Settle
  <2>2. CASE v # "timeout"
    <3>1. FateOK(s, stage[s], v, Tried) /\ StageOK(stage[s])
      BY <1>1, <1>3, <2>2 DEF StageInv, FatesInv, TypeInv, FateOK
    <3>2. stage' = [stage EXCEPT ![s] = stage[s]]
      BY <1>1, <1>2, <2>2 DEF StageInv, TypeInv
    <3> QED BY <3>1, <3>2
  <2> QED BY <2>1, <2>2
<1>5. /\ TypeInv' /\ FatesInv'
      /\ \A t \in Sources \ {s} : verdict'[t] = verdict[t]
  <2>1. /\ verdict' = [t \in Sources |-> verdict'[t]]
        /\ \A t \in Sources \ {s} : verdict'[t] = verdict[t]
    BY <1>2 DEF StageInv, TypeInv
  <2> QED BY <1>0, <1>1, <1>3, <1>4, <2>1, MainKeeps
<1>6. \A i \in Runnable : i <= main.at => verdict'[Concurrent[i]] # "none"
  <2> SUFFICES ASSUME NEW i \in Runnable, i <= main.at PROVE verdict'[Concurrent[i]] # "none"
    OBVIOUS
  <2>1. CASE i = main.at
    BY <1>3, <2>1 DEF s
  <2>2. CASE i # main.at
    <3>1. i < main.at /\ Concurrent[i] \in Sources
      BY <1>0, <1>1, <2>2, Loops
    <3>2. CASE Concurrent[i] = s
      BY <1>3, <3>2
    <3>3. CASE Concurrent[i] # s
      BY <1>0, <1>5, <3>1, <3>3
    <3> QED BY <3>2, <3>3
  <2> QED BY <2>1, <2>2
<1>7. MainInv'
  BY <1>0, <1>6, NextTurn DEF MainInv
<1> QED BY <1>5, <1>7 DEF StageInv

LEMMA SettleNextOK == StageInv /\ SettleNext => StageInv'
<1> SUFFICES ASSUME StageInv, SettleNext PROVE StageInv'
  OBVIOUS
<1> DEFINE s == Concurrent[main.at]
<1>0. /\ main.at \in Runnable /\ \A i \in Runnable : verdict[Concurrent[i]] # "none"
      /\ UNCHANGED <<timeouts, verdict, late, attached>>
      /\ Following("settle", "closing")
      /\ IF verdict[s] = "timeout" THEN UNCHANGED <<live, batch, stage, serial>>
         ELSE Settle(s, verdict[s])
  BY DEF SettleNext, Settling, StageInv, MainInv
<1>1. s \in Sources /\ verdict[s] # "none"
  BY <1>0, Loops
<1> HIDE DEF s
<1>2. TypeInv' /\ FatesInv'
  <2>1. CASE verdict[s] = "timeout"
    BY <1>0, <2>1 DEF StageInv, TypeInv, StageOK, FatesInv, FateOK, Tried
  <2>2. CASE verdict[s] # "timeout"
    <3>1. stage[s].thread = "done"
      BY <1>1, <2>2 DEF StageInv, FatesInv, FateOK
    <3>2. PICK x : StageOK(x) /\ stage' = [stage EXCEPT ![s] = x] /\ FateOK(s, x, verdict[s], Tried)
      BY <1>0, <1>1, <2>2, <3>1, SettleOK
    <3> QED BY <1>0, <1>1, <3>2, MainKeeps, ObservedBefore
  <2> QED BY <2>1, <2>2
<1>3. MainInv'
  BY <1>0, NextTurn DEF MainInv
<1> QED BY <1>2, <1>3 DEF StageInv

LEMMA AttachOK ==
  ASSUME StageInv, NEW phase, NEW next \in {"synthesis", "done"}, Attach(phase, next)
  PROVE  StageInv'
<1>1. Tried' = Tried /\ UNCHANGED <<timeouts, stage, verdict>>
  BY DEF Attach, Tried
<1>2. TypeInv' /\ FatesInv'
  BY <1>1 DEF StageInv, TypeInv, StageOK, FatesInv, FateOK
<1>3. MainInv'
  BY DEF Attach, GoTo, MainInv
<1> QED BY <1>2, <1>3 DEF StageInv

LEMMA TickOK == StageInv /\ Tick => StageInv'
<1> SUFFICES ASSUME StageInv, Tick PROVE StageInv'
  OBVIOUS
<1>1. Tried' = Tried /\ UNCHANGED <<main, timeouts, verdict>>
  BY DEF Tick, Tried
<1>2. stage' = [s \in Sources |-> stage'[s]]
  BY DEF Tick
<1>3. \A s \in Sources :
         /\ StageOK(stage'[s]) /\ stage'[s].thread = stage[s].thread /\ stage'[s].fate = stage[s].fate
         /\ stage'[s].cancelled = stage[s].cancelled /\ stage'[s].onTime = stage[s].onTime
         /\ stage'[s].outcome = stage[s].outcome
  <2> SUFFICES ASSUME NEW s \in Sources
               PROVE  /\ StageOK(stage'[s]) /\ stage'[s].thread = stage[s].thread
                      /\ stage'[s].fate = stage[s].fate /\ stage'[s].cancelled = stage[s].cancelled
                      /\ stage'[s].onTime = stage[s].onTime /\ stage'[s].outcome = stage[s].outcome
    OBVIOUS
  <2>1. StageOK(stage[s])
    BY DEF StageInv, TypeInv
  <2>2. CASE stage'[s] = stage[s]
    BY <2>1, <2>2
  <2>3. CASE stage'[s] = [stage[s] EXCEPT !.left = stage[s].left - 1]
    BY <2>1, <2>3 DEF StageOK
  <2> QED BY <2>2, <2>3 DEF Tick
<1>4. TypeInv'
  BY <1>1, <1>2, <1>3 DEF StageInv, TypeInv, StageOK
<1>5. FatesInv'
  BY <1>1, <1>3 DEF StageInv, FatesInv, FateOK
<1>6. MainInv'
  BY <1>1, <1>3, MainStays DEF StageInv
<1> QED BY <1>4, <1>5, <1>6 DEF StageInv

LEMMA StepOK == StageInv /\ [StagingNext]_stagingVars => StageInv'
<1> SUFFICES ASSUME StageInv, [StagingNext]_stagingVars PROVE StageInv'
  OBVIOUS
<1>1. CASE WorkerStep
  BY <1>1, WorkerStepOK
<1>2. CASE MainStep
  BY <1>2, RunSerialOK, SettleSerialOK, GateOK, DispatchOK, AwaitOK, SettleNextOK, AttachOK DEF MainStep
<1>3. CASE Tick
  BY <1>3, TickOK
<1>4. CASE Midnight \/ UNCHANGED stagingVars
  <2>1. UNCHANGED <<main, timeouts, stage, verdict, late, attached>>
    BY <1>4 DEF Midnight, stagingVars
  <2>2. TypeInv' /\ FatesInv'
    BY <2>1 DEF StageInv, TypeInv, StageOK, FatesInv, FateOK, Tried
  <2>3. MainInv'
    BY <2>1, MainStays, Lists DEF StageInv
  <2> QED BY <2>2, <2>3 DEF StageInv
<1> QED BY <1>1, <1>2, <1>3, <1>4 DEF StagingNext

(* LateIsDiscarded: a worker whose work was promoted has left no late       *)
(* evidence, though the main thread (promote) and the worker (execute's     *)
(* finally) judge the deadline at different moments.                        *)
THEOREM LateNeverPromoted == StagingSpec => []LateIsDiscarded
<1>1. StageInv => LateIsDiscarded
  BY DEF StageInv, TypeInv, FatesInv, FateOK, Tried, LateIsDiscarded
<1> QED BY <1>1, StartOK, StepOK, PTL DEF StagingSpec

-----------------------------------------------------------------------------
(* The errors log.                                                         *)

(* A log of rows of whatever kind, within its cap. *)
LogOK(log) == \E R : log \in Seq(R) /\ Len(log) <= Cap

HasLog(doc) == "errors" \in DOMAIN doc /\ LogOK(doc.errors)

(* Edits of known kinds. *)
IsScript(edits) == (\E R : edits \in Seq(R)) /\ \A i \in DOMAIN edits : edits[i].kind \in EditKinds

LEMMA LastRowsOK ==
  ASSUME NEW R, NEW rows \in Seq(R)
  PROVE  LogOK(LastRows(Cap, rows))
<1> DEFINE from == Max({1, Len(rows) - Cap + 1})
<1>1. Cap \in Nat \ {0} /\ Len(rows) \in Nat
  BY MergeAssumption
<1>2. from \in {1, Len(rows) - Cap + 1} /\ from >= 1 /\ from >= Len(rows) - Cap + 1
  <2>1. \E x \in {1, Len(rows) - Cap + 1} : \A y \in {1, Len(rows) - Cap + 1} : x >= y
    <3>1. CASE Len(rows) - Cap + 1 >= 1
      BY <1>1, <3>1
    <3>2. CASE ~(Len(rows) - Cap + 1 >= 1)
      BY <1>1, <3>2
    <3> QED BY <3>1, <3>2
  <2> QED BY <2>1 DEF Max
<1> HIDE DEF from
<1>3. from \in Int
  BY <1>1, <1>2
<1>4. SubSeq(rows, from, Len(rows)) \in Seq(R)
  BY <1>1, <1>2, <1>3
<1>5. Len(SubSeq(rows, from, Len(rows))) <= Cap
  <2>1. Len(SubSeq(rows, from, Len(rows))) = IF from <= Len(rows) THEN Len(rows) - from + 1 ELSE 0
    BY <1>1, <1>2, <1>3
  <2> QED BY <2>1, <1>1, <1>2, <1>3
<1> QED BY <1>4, <1>5 DEF LogOK, LastRows, from

LEMMA AppendOK ==
  ASSUME NEW log, LogOK(log), NEW row
  PROVE  LogOK(LastRows(Cap, Append(log, row)))
<1>1. PICK R : log \in Seq(R)
  BY DEF LogOK
<1>2. Append(log, row) \in Seq(R \cup {row})
  BY <1>1
<1> QED BY <1>2, LastRowsOK

LEMMA EditKeepsLog ==
  ASSUME NEW doc, HasLog(doc), NEW e, e.kind \in EditKinds
  PROVE  HasLog(Edited(doc, e))
<1>1. CASE e.kind = "error"
  <2>1. Edited(doc, e) = [doc EXCEPT !.errors = LastRows(Cap, Append(doc.errors, e.row))]
    BY <1>1 DEF Edited, LogError
  <2>2. LogOK(LastRows(Cap, Append(doc.errors, e.row)))
    BY AppendOK DEF HasLog
  <2> QED BY <2>1, <2>2 DEF HasLog
<1>2. CASE e.kind = "observe"
  BY <1>2 DEF Edited, RecordCandidate, HasLog
<1>3. CASE e.kind = "bump"
  BY <1>3 DEF Edited, HasLog
<1>4. CASE e.kind = "enqueue"
  BY <1>4 DEF Edited, HasLog
<1>5. CASE e.kind = "defer"
  BY <1>5 DEF Edited, HasLog
<1>6. CASE e.kind = "report"
  BY <1>6 DEF Edited, AddSourceRun, HasLog
<1> QED BY <1>1, <1>2, <1>3, <1>4, <1>5, <1>6 DEF EditKinds

(* f makes the first n edits on doc. *)
Makes(f, edits, doc, n) ==
    f = [k \in 0..n |-> IF k = 0 THEN doc ELSE Edited(f[k - 1], edits[k])]

LEMMA MakesExists ==
  ASSUME NEW edits, NEW doc, NEW N \in Nat
  PROVE  \E f : Makes(f, edits, doc, N)
<1> DEFINE Bad == {n \in Nat : ~ \E f : Makes(f, edits, doc, n)}
<1>1. 0 \notin Bad
  <2> DEFINE f == [k \in 0..0 |-> doc]
  <2>1. f = [k \in 0..0 |-> IF k = 0 THEN doc ELSE Edited(f[k - 1], edits[k])]
    OBVIOUS
  <2> QED BY <2>1 DEF Makes
<1>2. ASSUME NEW n \in Nat, n \notin Bad PROVE n + 1 \notin Bad
  <2>1. PICK f : Makes(f, edits, doc, n)
    BY <1>2
  <2> DEFINE g == [k \in 0..(n + 1) |-> IF k = 0 THEN doc ELSE Edited(f[k - 1], edits[k])]
  <2>2. \A k \in 0..n : g[k] = f[k]
    BY <2>1 DEF Makes
  <2>3. \A k \in 0..(n + 1) : k # 0 => k - 1 \in 0..n
    OBVIOUS
  <2>4. g = [k \in 0..(n + 1) |-> IF k = 0 THEN doc ELSE Edited(g[k - 1], edits[k])]
    BY <2>2, <2>3
  <2> QED BY <2>4 DEF Makes
<1>3. Bad = {}
  <2> SUFFICES ASSUME Bad # {} PROVE FALSE
    OBVIOUS
  <2>1. Bad \in SUBSET Nat
    OBVIOUS
  <2> HIDE DEF Bad
  <2>2. Min(Bad) \in Bad /\ \A i \in Bad : Min(Bad) <= i
    BY <2>1, SmallestIn
  <2>3. PICK m \in Bad : \A i \in Bad : m <= i
    BY <2>2
  <2>4. m \in Nat /\ m # 0
    BY <1>1, <2>1
  <2>5. m - 1 \in Nat /\ m - 1 \notin Bad /\ (m - 1) + 1 = m
    BY <2>3, <2>4
  <2> QED BY <1>2, <2>5
<1> QED BY <1>3

LEMMA ReplayKeepsLog ==
  ASSUME NEW edits, IsScript(edits), NEW doc, HasLog(doc)
  PROVE  HasLog(Replay(edits, doc))
<1> DEFINE n == Len(edits)
           f == CHOOSE f : Makes(f, edits, doc, n)
<1>1. n \in Nat /\ DOMAIN edits = 1..n
  BY DEF IsScript
<1>2. Makes(f, edits, doc, n)
  BY <1>1, MakesExists
<1>3. Replay(edits, doc) = f[n]
  BY DEF Replay, Makes
<1> HIDE DEF n, f
<1>4. \A k \in 0..n : f[k] = IF k = 0 THEN doc ELSE Edited(f[k - 1], edits[k])
  BY <1>2 DEF Makes
<1> DEFINE Bad == {k \in 0..n : ~HasLog(f[k])}
<1>5. Bad = {}
  <2> SUFFICES ASSUME Bad # {} PROVE FALSE
    OBVIOUS
  <2>1. Bad \in SUBSET Nat
    BY <1>1
  <2>2. Min(Bad) \in Bad /\ \A i \in Bad : Min(Bad) <= i
    <3> HIDE DEF Bad
    <3> QED BY <2>1, SmallestIn
  <2> DEFINE m == Min(Bad)
  <2>3. m \in 0..n /\ ~HasLog(f[m])
    BY <2>2
  <2>4. m # 0
    BY <2>3, <1>4
  <2>5. m - 1 \in 0..n /\ m - 1 \notin Bad
    <3> HIDE DEF Bad
    <3> QED BY <1>1, <2>1, <2>2, <2>3, <2>4
  <2>6. HasLog(f[m - 1])
    BY <2>5
  <2> HIDE DEF m, Bad
  <2>7. f[m] = Edited(f[m - 1], edits[m]) /\ m \in DOMAIN edits
    BY <1>1, <1>4, <2>3, <2>4
  <2>8. edits[m].kind \in EditKinds
    BY <2>7 DEF IsScript
  <2> QED BY <2>3, <2>6, <2>7, <2>8, EditKeepsLog
<1> QED BY <1>1, <1>3, <1>5
-----------------------------------------------------------------------------
LEMMA WiderRows ==
  ASSUME NEW R, NEW S, R \subseteq S, NEW rows \in Seq(R)
  PROVE  rows \in Seq(S)
OBVIOUS

LEMMA CappedEditOK ==
  ASSUME NEW R, NEW base \in Seq(R), NEW other \in Seq(R), NEW m \in CappedEdit(base, other)
  PROVE  m.dropped \in Nat /\ m.tail \in Seq(R)
<1> DEFINE Suffix(d) == SubSeq(base, d + 1, Len(base))
           D == {d \in 0..Len(base) : IsPrefix(Suffix(d), other)}
<1>1. Len(base) \in Nat /\ Len(other) \in Nat
  OBVIOUS
<1>2. Len(base) \in D
  <2>1. Suffix(Len(base)) = <<>>
    BY <1>1
  <2>2. IsPrefix(<<>>, other)
    <3>1. SubSeq(other, 1, 0) = <<>> /\ SubSeq(<<>>, 1, 0) = <<>> /\ Len(<<>>) = 0
      BY <1>1
    <3> QED BY <1>1, <3>1 DEF IsPrefix
  <2>3. IsPrefix(Suffix(Len(base)), other)
    BY <2>1, <2>2
  <2>4. Len(base) \in 0..Len(base)
    BY <1>1
  <2> HIDE DEF Suffix
  <2> QED BY <2>3, <2>4
<1>3. D \in SUBSET Nat
  OBVIOUS
<1>4. Min(D) \in 0..Len(base)
  <2>1. \A d \in D : d \in 0..Len(base)
    OBVIOUS
  <2> HIDE DEF D
  <2> QED BY <1>2, <1>3, <2>1, SmallestIn
<1>5. m = [dropped |-> Min(D), tail |-> SubSeq(other, Len(base) - Min(D) + 1, Len(other))]
  BY DEF CappedEdit
<1> HIDE DEF D
<1>6. SubSeq(other, Len(base) - Min(D) + 1, Len(other)) \in Seq(R)
  BY <1>1, <1>4
<1> QED BY <1>4, <1>5, <1>6

LEMMA MergeCappedOK ==
  ASSUME NEW base, LogOK(base), NEW staged, LogOK(staged), NEW log, LogOK(log),
         NEW e \in MergeCapped(base, staged, log)
  PROVE  LogOK(e)
<1>1. PICK A : base \in Seq(A)
  BY DEF LogOK
<1>2. PICK B : staged \in Seq(B)
  BY DEF LogOK
<1>3. PICK C : log \in Seq(C)
  BY DEF LogOK
<1> DEFINE R == A \cup B \cup C
<1>4. base \in Seq(R) /\ staged \in Seq(R) /\ log \in Seq(R)
  BY <1>1, <1>2, <1>3, WiderRows
<1> HIDE DEF R
<1>5. CASE staged = base \/ log = base
  BY <1>5 DEF MergeCapped, Merge
<1>6. CASE staged # base /\ log # base
  <2>1. PICK m \in CappedEdit(base, staged), t \in CappedEdit(base, log) :
           e = LastRows(Cap, SubSeq(base, Max({m.dropped, t.dropped}) + 1, Len(base)) \o t.tail \o m.tail)
    <3> DEFINE Joined(m, t) == LastRows(Cap, SubSeq(base, Max({m.dropped, t.dropped}) + 1, Len(base)) \o t.tail \o m.tail)
    <3>1. MergeCapped(base, staged, log) = {Joined(m, t) : m \in CappedEdit(base, staged), t \in CappedEdit(base, log)}
      BY <1>6 DEF MergeCapped, Merge
    <3> HIDE DEF Joined
    <3>2. \E m \in CappedEdit(base, staged), t \in CappedEdit(base, log) : e = Joined(m, t)
      BY <3>1
    <3> QED BY <3>2 DEF Joined
  <2>2. m.dropped \in Nat /\ m.tail \in Seq(R) /\ t.dropped \in Nat /\ t.tail \in Seq(R)
    BY <1>4, CappedEditOK
  <2> DEFINE from == Max({m.dropped, t.dropped})
  <2>3. from \in Nat
    <3>1. \E x \in {m.dropped, t.dropped} : \A y \in {m.dropped, t.dropped} : x >= y
      <4>1. CASE m.dropped >= t.dropped
        BY <2>2, <4>1
      <4>2. CASE ~(m.dropped >= t.dropped)
        BY <2>2, <4>2
      <4> QED BY <4>1, <4>2
    <3> QED BY <2>2, <3>1 DEF Max
  <2> HIDE DEF from
  <2>4. SubSeq(base, from + 1, Len(base)) \in Seq(R)
    BY <1>4, <2>3
  <2>5. SubSeq(base, from + 1, Len(base)) \o t.tail \o m.tail \in Seq(R)
    BY <2>2, <2>4
  <2> QED BY <2>1, <2>5, LastRowsOK DEF from
<1> QED BY <1>5, <1>6

LEMMA MergeKeepsLog ==
  ASSUME NEW base, HasLog(base), NEW staged, HasLog(staged), NEW doc, HasLog(doc),
         NEW worker, NEW others, NEW merged \in MergeDocuments(base, staged, doc, worker, others)
  PROVE  HasLog(merged)
<1>1. "errors" \in DOMAIN merged /\ merged.errors \in MergeCapped(base.errors, staged.errors, doc.errors)
  <2> DEFINE Joined(e, s, f, r) ==
                [errors |-> e, seen |-> s, field |-> f, reports |-> r,
                 queue |-> doc.queue \o NewRows(base.queue, staged.queue),
                 effects |-> doc.effects \o NewRows(base.effects, staged.effects)]
  <2>1. \A e, s, f, r : "errors" \in DOMAIN Joined(e, s, f, r) /\ Joined(e, s, f, r).errors = e
    OBVIOUS
  <2>2. \E e \in MergeCapped(base.errors, staged.errors, doc.errors),
           s \in MergeWindowed(base.seen, staged.seen, doc.seen, worker, others),
           f \in MergeFields(base.field, staged.field, doc.field),
           r \in MergeGeneric(base.reports, staged.reports, doc.reports) : merged = Joined(e, s, f, r)
    <3>1. MergeDocuments(base, staged, doc, worker, others) =
             {Joined(e, s, f, r) :
                 e \in MergeCapped(base.errors, staged.errors, doc.errors),
                 s \in MergeWindowed(base.seen, staged.seen, doc.seen, worker, others),
                 f \in MergeFields(base.field, staged.field, doc.field),
                 r \in MergeGeneric(base.reports, staged.reports, doc.reports)}
      BY DEF MergeDocuments
    <3> HIDE DEF Joined
    <3> QED BY <3>1
  <2> HIDE DEF Joined
  <2> QED BY <2>1, <2>2
<1> QED BY <1>1, MergeCappedOK DEF HasLog

-----------------------------------------------------------------------------
(* Types and the cap, over the whole specification.                        *)

DetailOK(x) ==
    /\ x.thread \in Threads /\ x.outcome \in Outcomes /\ x.fate \in Fates
    /\ x.left \in -1..Budget /\ x.since \in 0..MaxDay
    /\ x.onTime \in BOOLEAN /\ x.cancelled \in BOOLEAN
    /\ IsScript(x.edits)

(* What a stage says of times by this day.                                  *)
TimeOK(x, day) ==
    /\ x.thread # "none" /\ x.fate = "open" => x.since \in 1..day
    /\ x.thread \in {"stamped", "done"} /\ x.fate = "open" =>
          /\ x.until \in x.since..day
          /\ \A i \in DOMAIN x.edits : x.edits[i].kind = "observe" => x.edits[i].day \in x.since..x.until

LogsInv ==
    /\ today \in 1..MaxDay
    /\ HasLog(live)
    /\ "base" \in DOMAIN batch /\ HasLog(batch.base)
    /\ \A s \in Sources : DetailOK(stage[s]) /\ TimeOK(stage[s], today)

LEMMA Amounts ==
  /\ MaxDay \in Nat \ {0} /\ Budget \in Nat \ {0} /\ IsScript(<<>>)
  /\ Cap \in Nat \ {0} /\ LogOK(<<>>)
<1>1. <<>> \in Seq({}) /\ DOMAIN <<>> = {} /\ Len(<<>>) = 0
  OBVIOUS
<1>2. MaxDay \in Nat \ {0} /\ Budget \in Nat \ {0} /\ Cap \in Nat \ {0}
  BY StagingAssumption, MergeAssumption
<1> QED BY <1>1, <1>2 DEF IsScript, LogOK

LEMMA NoStageDetail == StageOK(NoStage) /\ DetailOK(NoStage)
  BY NoStageOK, Amounts DEF DetailOK, NoStage, Threads, Outcomes, Fates

LEMMA LogsStart == StagingInit => LogsInv
<1> SUFFICES ASSUME StagingInit PROVE LogsInv
  OBVIOUS
<1>1. \A s \in Sources : stage[s] = NoStage
  BY DEF StagingInit
<1>2. "errors" \in DOMAIN live /\ live.errors = <<>>
  <2>1. "errors" \in DOMAIN EmptyDocument /\ EmptyDocument.errors = <<>>
    BY DEF EmptyDocument
  <2> QED BY <2>1 DEF StagingInit
<1>3. HasLog(live)
  BY <1>2, Amounts DEF HasLog
<1>4. batch = [base |-> live, opened |-> today, until |-> today] /\ today = 1
  BY DEF StagingInit
<1>5. TimeOK(NoStage, today)
  BY DEF TimeOK, NoStage
<1> QED BY <1>1, <1>3, <1>4, <1>5, NoStageDetail, Amounts DEF LogsInv

(* The stage of s becomes x, and the documents keep their logs. *)
LEMMA LogsKept ==
  ASSUME TypeInv, LogsInv, NEW s \in Sources, NEW x, DetailOK(x), TimeOK(x, today),
         stage' = [stage EXCEPT ![s] = x], today' = today,
         HasLog(live'), "base" \in DOMAIN batch', HasLog(batch'.base)
  PROVE  LogsInv'
<1>1. stage'[s] = x /\ \A t \in Sources \ {s} : stage'[t] = stage[t]
  BY DEF TypeInv
<1>2. \A t \in Sources : DetailOK(stage'[t]) /\ TimeOK(stage'[t], today')
  BY <1>1 DEF LogsInv
<1>3. today' \in 1..MaxDay
  BY DEF LogsInv
<1> QED BY <1>2, <1>3 DEF LogsInv, DetailOK, TimeOK, HasLog, LogOK, IsScript

LEMMA WorkerLogs ==
  ASSUME TypeInv, LogsInv, WorkerStep
  PROVE  LogsInv'
<1> SUFFICES ASSUME NEW s \in Sources, NEW x, Worker(s, x), DetailOK(x), TimeOK(x, today)
             PROVE  LogsInv'
  <2> PICK s \in Sources :
        \/ Start(s)
        \/ Consult(s)
        \/ \E outcome \in Outcomes \ {"none"}, script \in ScriptsOf(s, stage[s].since, today) :
              Execute(s, outcome, script)
        \/ ExecuteDiscarded(s)
        \/ NoteLate(s)
    BY DEF WorkerStep
  <2>0. StageOK(stage[s]) /\ DetailOK(stage[s]) /\ TimeOK(stage[s], today)
    BY DEF TypeInv, LogsInv
  <2>1. ASSUME NEW thread \in Threads, stage[s].thread # "none",
               stage[s].fate = "open" /\ thread \in {"stamped", "done"} => stage[s].thread \in {"stamped", "done"}
        PROVE  LET x == [stage[s] EXCEPT !.thread = thread] IN DetailOK(x) /\ TimeOK(x, today)
    <3> DEFINE x == [stage[s] EXCEPT !.thread = thread]
    <3>1. /\ x.thread = thread /\ x.since = stage[s].since /\ x.until = stage[s].until
          /\ x.edits = stage[s].edits /\ x.fate = stage[s].fate
      BY <2>0 DEF StageOK
    <3>2. DetailOK(x)
      BY <2>0 DEF StageOK, DetailOK
    <3> HIDE DEF x
    <3>3. TimeOK(x, today)
      BY <2>0, <2>1, <3>1 DEF TimeOK
    <3> QED BY <3>2, <3>3 DEF x
  <2>2. CASE Start(s) \/ ExecuteDiscarded(s) \/ NoteLate(s)
    <3>1. /\ stage[s].thread # "none"
          /\ \E thread \in Threads :
                /\ Worker(s, [stage[s] EXCEPT !.thread = thread])
                /\ stage[s].fate = "open" /\ thread \in {"stamped", "done"} =>
                      stage[s].thread \in {"stamped", "done"}
      BY <2>2 DEF Start, ExecuteDiscarded, NoteLate, Threads
    <3> QED BY <2>1, <3>1
  <2>3. CASE Consult(s)
    <3>1. Worker(s, [stage[s] EXCEPT !.cancelled = TRUE])
      BY <2>3 DEF Consult
    <3> DEFINE x == [stage[s] EXCEPT !.cancelled = TRUE]
    <3>2. DetailOK(x)
      BY <2>0 DEF StageOK, DetailOK
    <3>3. /\ x.thread = stage[s].thread /\ x.since = stage[s].since /\ x.until = stage[s].until
          /\ x.edits = stage[s].edits /\ x.fate = stage[s].fate
      BY <2>0 DEF StageOK
    <3> HIDE DEF x
    <3>4. TimeOK(x, today)
      BY <2>0, <3>3 DEF TimeOK
    <3> QED BY <3>1, <3>2, <3>4 DEF x
  <2>4. ASSUME NEW outcome \in Outcomes \ {"none"}, NEW script \in ScriptsOf(s, stage[s].since, today),
               Execute(s, outcome, script)
        PROVE  LogsInv'
    <3> DEFINE onTime == stage[s].left >= 0
               row == [kind |-> "report", row |-> <<s, "ok">>]
               edits == IF outcome = "returned" THEN Append(script, row) ELSE script
               y1 == [stage[s] EXCEPT !.thread = "stamped"]
               y2 == [y1 EXCEPT !.outcome = outcome]
               y3 == [y2 EXCEPT !.onTime = onTime]
               y4 == [y3 EXCEPT !.until = today]
               y5 == [y4 EXCEPT !.edits = edits]
    <3>0. /\ stage[s].thread = "running" /\ stage[s].fate = "open"
          /\ stage[s].since \in 1..MaxDay /\ today \in stage[s].since..MaxDay
      <4>1. stage[s].thread = "running" /\ stage[s].fate = "open"
        BY <2>4 DEF Execute
      <4>2. stage[s].since \in 1..today /\ today \in 1..MaxDay
        BY <2>0, <4>1 DEF LogsInv, TimeOK
      <4> QED BY <4>1, <4>2, Amounts
    <3>1. Worker(s, y5)
      BY <2>4 DEF Execute
    <3>9. \A i \in DOMAIN edits : edits[i].kind = "observe" => edits[i].day \in stage[s].since..today
      <4>1. script \in Seq(ToSet(script))
            /\ \A i \in DOMAIN script : script[i].kind = "observe" => script[i].day \in stage[s].since..today
        BY <3>0, StagingAssumption DEF ToSet
      <4>2. row.kind # "observe"
        OBVIOUS
      <4> HIDE DEF row
      <4> QED BY <4>1, <4>2
    <3>2. IsScript(edits)
      <4>2. script \in Seq(ToSet(script)) /\ \A e \in ToSet(script) : e.kind \in EditKinds
        BY <3>0, StagingAssumption
      <4>3. \A i \in DOMAIN script : script[i].kind \in EditKinds
        BY <4>2 DEF ToSet
      <4>4. CASE outcome = "returned"
        <5>1. edits = Append(script, row)
          BY <4>4
        <5> HIDE DEF edits
        <5>2. row.kind \in EditKinds
          BY DEF EditKinds
        <5> HIDE DEF row
        <5>3. edits \in Seq(ToSet(script) \cup {row})
          BY <4>2, <5>1
        <5>4. \A i \in DOMAIN edits : edits[i].kind \in EditKinds
          BY <4>2, <4>3, <5>1, <5>2
        <5> QED BY <5>3, <5>4 DEF IsScript
      <4>5. CASE outcome # "returned"
        <5>1. edits = script
          BY <4>5
        <5> QED BY <4>2, <4>3, <5>1 DEF IsScript
      <4> QED BY <4>4, <4>5
    <3>3. onTime \in BOOLEAN
      OBVIOUS
    <3> HIDE DEF onTime, edits
    <3>4. StageOK(y1) /\ DetailOK(y1) /\ y1.since = stage[s].since
      BY <2>0 DEF StageOK, DetailOK, Threads
    <3> HIDE DEF y1
    <3>5. StageOK(y2) /\ DetailOK(y2) /\ y2.since = stage[s].since
      BY <3>4 DEF StageOK, DetailOK
    <3> HIDE DEF y2
    <3>6. StageOK(y3) /\ DetailOK(y3) /\ y3.since = stage[s].since
      BY <3>3, <3>5 DEF StageOK, DetailOK
    <3> HIDE DEF y3
    <3>7. StageOK(y4) /\ DetailOK(y4) /\ y4.since = stage[s].since /\ y4.until = today
      BY <3>6 DEF StageOK, DetailOK
    <3> HIDE DEF y4
    <3>8. DetailOK(y5) /\ y5.since = stage[s].since /\ y5.until = today /\ y5.edits = edits
      BY <3>2, <3>7 DEF StageOK, DetailOK
    <3> HIDE DEF y5
    <3>10. TimeOK(y5, today)
      BY <3>0, <3>8, <3>9 DEF TimeOK
    <3> QED BY <3>1, <3>8, <3>10
  <2> QED BY <2>2, <2>3, <2>4
<1>1. stage' = [stage EXCEPT ![s] = x] /\ UNCHANGED <<today, live, batch>>
  BY DEF Worker
<1>2. HasLog(live') /\ "base" \in DOMAIN batch' /\ HasLog(batch'.base)
  BY <1>1 DEF LogsInv
<1> QED BY <1>1, <1>2, LogsKept

LEMMA RecordedKeeps ==
  ASSUME NEW doc, HasLog(doc), NEW s, NEW what
  PROVE  HasLog(Recorded(doc, s, what))
BY DEF Recorded, AddSourceRun, HasLog

LEMMA SkipsKeep ==
  ASSUME NEW doc, HasLog(doc)
  PROVE  HasLog(WithSkips(doc))
BY DEF WithSkips, HasLog

LEMMA NewStageDetail ==
  ASSUME today \in 1..MaxDay
  PROVE  DetailOK(NewStage) /\ TimeOK(NewStage, today)
<1> DEFINE y1 == [NoStage EXCEPT !.thread = "queued"]
           y2 == [y1 EXCEPT !.left = Budget]
           y3 == [y2 EXCEPT !.since = today]
<1>1. StageOK(y1) /\ DetailOK(y1)
  BY NoStageDetail DEF StageOK, DetailOK, Threads
<1> HIDE DEF y1
<1>2. StageOK(y2) /\ DetailOK(y2)
  BY <1>1, Amounts DEF StageOK, DetailOK
<1> HIDE DEF y2
<1>3. DetailOK(y3) /\ y3.since = today /\ y3.thread = y2.thread
  BY <1>2, Amounts DEF StageOK, DetailOK
<1>4. y3 = NewStage
  BY DEF y1, y2, NewStage
<1>5. y2.thread = "queued"
  BY DEF y1, y2, NoStage
<1> HIDE DEF y2, y3
<1>6. TimeOK(y3, today)
  BY <1>3, <1>5 DEF TimeOK
<1> QED BY <1>3, <1>4, <1>6

LEMMA SettledDetail ==
  ASSUME NEW s \in Sources, DetailOK(stage[s]), NEW fate \in Fates \ {"open"}
  PROVE  DetailOK(Settled(s, fate)) /\ TimeOK(Settled(s, fate), today)
<1> DEFINE y1 == [NoStage EXCEPT !.thread = stage[s].thread]
           y2 == [y1 EXCEPT !.cancelled = stage[s].cancelled]
           y3 == [y2 EXCEPT !.edits = stage[s].edits]
           y4 == [y3 EXCEPT !.fate = fate]
<1>1. StageOK(y1) /\ DetailOK(y1)
  BY NoStageDetail DEF StageOK, DetailOK
<1> HIDE DEF y1
<1>2. StageOK(y2) /\ DetailOK(y2)
  BY <1>1 DEF StageOK, DetailOK
<1> HIDE DEF y2
<1>3. StageOK(y3) /\ DetailOK(y3)
  BY <1>2 DEF StageOK, DetailOK
<1> HIDE DEF y3
<1>4. DetailOK(y4)
  BY <1>3 DEF StageOK, DetailOK
<1>5. y4 = Settled(s, fate)
  BY DEF y1, y2, y3, Settled
<1> QED BY <1>4, <1>5, SettledShape DEF TimeOK

(* Settling a runner, whatever was observed of it. *)
LEMMA SettleLogs ==
  ASSUME TypeInv, LogsInv, NEW s \in Sources, NEW v, Settle(s, v), today' = today
  PROVE  LogsInv'
<1>0. /\ DetailOK(stage[s]) /\ HasLog(live) /\ "base" \in DOMAIN batch /\ HasLog(batch.base)
  BY DEF LogsInv
<1>1. CASE v = "timeout"
  <2> DEFINE old == Settled(s, "timeout")
             thread == IF old.thread = "queued" THEN "withdrawn" ELSE old.thread
             x1 == [old EXCEPT !.thread = thread]
             x2 == [x1 EXCEPT !.cancelled = TRUE]
             x3 == [x2 EXCEPT !.edits = <<>>]
  <2>1. stage' = [stage EXCEPT ![s] = x3] /\ live' = Recorded(live, s, "timeout") /\ batch' = batch
    BY <1>1 DEF Settle, SettleTimeout
  <2>2. StageOK(old) /\ DetailOK(old) /\ old.fate = "timeout"
    BY <1>0, SettledShape, SettledDetail DEF Fates
  <2> HIDE DEF old
  <2>3. thread \in Threads
    BY <2>2 DEF DetailOK, Threads
  <2> HIDE DEF thread
  <2>4. StageOK(x1) /\ DetailOK(x1) /\ x1.fate = "timeout"
    BY <2>2, <2>3 DEF StageOK, DetailOK
  <2> HIDE DEF x1
  <2>5. StageOK(x2) /\ DetailOK(x2) /\ x2.fate = "timeout"
    <3>1. StageOK(x2)
      BY <2>4, Cancelled
    <3>2. /\ x2.thread = x1.thread /\ x2.outcome = x1.outcome /\ x2.fate = x1.fate
          /\ x2.left = x1.left /\ x2.since = x1.since /\ x2.onTime = x1.onTime
          /\ x2.edits = x1.edits /\ x2.cancelled = TRUE
      BY <2>4 DEF StageOK
    <3> HIDE DEF x2
    <3> QED BY <2>4, <3>1, <3>2 DEF DetailOK
  <2> HIDE DEF x2
  <2>6. DetailOK(x3) /\ x3.fate = x2.fate
    BY <2>5, Amounts DEF StageOK, DetailOK
  <2> HIDE DEF x3
  <2>7. HasLog(live')
    BY <1>0, <2>1, RecordedKeeps
  <2>8. TimeOK(x3, today)
    BY <2>5, <2>6 DEF TimeOK
  <2> QED BY <1>0, <2>1, <2>6, <2>7, <2>8, LogsKept
<1>2. CASE v # "timeout"
  <2>1. SettleOnTime(s, v)
    BY <1>2 DEF Settle
  <2>2. /\ DetailOK(Settled(s, "refused")) /\ DetailOK(Settled(s, "promoted"))
        /\ TimeOK(Settled(s, "refused"), today) /\ TimeOK(Settled(s, "promoted"), today)
    BY <1>0, SettledDetail DEF Fates
  <2> DEFINE Failed(doc) == IF v = "raised" THEN Recorded(doc, s, "failed") ELSE doc
  <2>3. ASSUME NEW doc, HasLog(doc) PROVE HasLog(Failed(doc))
    BY <2>3, RecordedKeeps
  <2>4. CASE Promotion(s) = {}
    <3>1. /\ stage' = [stage EXCEPT ![s] = Settled(s, "refused")]
          /\ live' = Failed(Recorded(live, s, "conflict")) /\ batch' = batch
      BY <2>1, <2>4 DEF SettleOnTime
    <3>2. HasLog(live')
      BY <1>0, <2>3, <3>1, RecordedKeeps
    <3> QED BY <1>0, <2>2, <3>1, <3>2, LogsKept
  <2>5. CASE Promotion(s) # {}
    <3>1. /\ stage' = [stage EXCEPT ![s] = Settled(s, "promoted")]
          /\ \E doc \in Promotion(s) : live' = Failed(doc)
          /\ batch' = [batch EXCEPT !.until = Max({@, stage[s].until})]
      BY <2>1, <2>5 DEF SettleOnTime
    <3>2. PICK doc \in Promotion(s) : live' = Failed(doc)
      BY <3>1
    <3>3. HasLog(Replay(stage[s].edits, batch.base))
      BY <1>0, ReplayKeepsLog DEF DetailOK
    <3>4. doc \in MergeDocuments(batch.base, Replay(stage[s].edits, batch.base), live,
                        stage[s], [since |-> batch.opened, until |-> batch.until])
      BY <3>2 DEF Promotion
    <3>5. HasLog(live')
      BY <1>0, <2>3, <3>2, <3>3, <3>4, MergeKeepsLog
    <3>6. "base" \in DOMAIN batch' /\ batch'.base = batch.base
      BY <1>0, <3>1
    <3> QED BY <1>0, <2>2, <3>1, <3>5, <3>6, LogsKept
  <2> QED BY <2>4, <2>5
<1> QED BY <1>1, <1>2

(* A step that changes no stage. *)
LEMMA LogsStay ==
  ASSUME LogsInv, UNCHANGED stage, today' \in today..MaxDay,
         HasLog(live'), "base" \in DOMAIN batch', HasLog(batch'.base)
  PROVE  LogsInv'
<1>1. today' \in 1..MaxDay /\ today \in 1..MaxDay /\ today <= today'
  BY Amounts DEF LogsInv
<1>2. ASSUME NEW s \in Sources PROVE TimeOK(stage[s], today')
  <2>1. TimeOK(stage[s], today) /\ stage[s].since \in 0..MaxDay
    BY DEF LogsInv, DetailOK
  <2> QED BY <1>1, <2>1 DEF TimeOK
<1>3. \A s \in Sources : DetailOK(stage'[s]) /\ TimeOK(stage'[s], today')
  BY <1>2 DEF LogsInv
<1> QED BY <1>1, <1>3 DEF LogsInv, DetailOK, TimeOK, HasLog, LogOK, IsScript

LEMMA MainLogs ==
  ASSUME StageInv, LogsInv, MainStep
  PROVE  LogsInv'
<1>0. /\ TypeInv /\ MainInv /\ today \in 1..MaxDay
      /\ HasLog(live) /\ "base" \in DOMAIN batch /\ HasLog(batch.base)
  BY DEF StageInv, LogsInv
<1>1. CASE RunSerial
  <2> DEFINE s == Serial[main.at]
  <2>1. s \in Sources /\ today' = today
    BY <1>0, <1>1, Lists DEF RunSerial, MainInv
  <2>2. CASE BreakerOpen(s)
    <3>1. live' = Recorded(live, s, "skipped") /\ UNCHANGED <<batch, stage>>
      BY <1>1, <2>2 DEF RunSerial, Skip
    <3>2. HasLog(live')
      BY <1>0, <3>1, RecordedKeeps
    <3> QED BY <1>0, <2>1, <3>1, <3>2, LogsStay
  <2>3. CASE ~BreakerOpen(s)
    <3>1. /\ batch' = [base |-> live, opened |-> today, until |-> today]
          /\ stage' = [stage EXCEPT ![s] = NewStage] /\ live' = live
      BY <1>1, <2>3 DEF RunSerial, OpenBatch
    <3>2. "base" \in DOMAIN batch' /\ batch'.base = live
      BY <3>1
    <3> HIDE DEF s
    <3> QED BY <1>0, <2>1, <3>1, <3>2, NewStageDetail, LogsKept
  <2> QED BY <2>2, <2>3
<1>2. CASE SettleSerial
  <2>1. Serial[main.at] \in Sources /\ today' = today
    BY <1>0, <1>2, Lists DEF SettleSerial, MainInv
  <2>2. \E v : Settle(Serial[main.at], v)
    BY <1>2 DEF SettleSerial
  <2> QED BY <1>0, <2>1, <2>2, SettleLogs
<1>3. CASE Gate
  <2>1. /\ live' = WithSkips(live) /\ UNCHANGED <<stage, today>>
        /\ batch' = [base |-> live', opened |-> today, until |-> today]
    BY <1>3 DEF Gate
  <2>2. HasLog(live')
    BY <1>0, <2>1, SkipsKeep
  <2>3. "base" \in DOMAIN batch' /\ batch'.base = live'
    BY <2>1
  <2> QED BY <1>0, <2>1, <2>2, <2>3, LogsStay
<1>4. CASE Dispatch
  <2> DEFINE s == Concurrent[main.at]
  <2>1. /\ stage' = [stage EXCEPT ![s] = NewStage] /\ UNCHANGED <<today, live, batch>>
        /\ s \in Sources
    BY <1>0, <1>4, Lists DEF Dispatch, MainInv
  <2> HIDE DEF s
  <2> QED BY <1>0, <2>1, NewStageDetail, LogsKept
<1>5. CASE Await
  <2> DEFINE s == Concurrent[main.at]
  <2>1. s \in Sources /\ today' = today
    BY <1>0, <1>5, Lists DEF Await, MainInv
  <2>2. SettleTimeout(s) \/ UNCHANGED <<live, batch, stage>>
    BY <1>5 DEF Await
  <2> HIDE DEF s
  <2>3. CASE SettleTimeout(s)
    <3>1. Settle(s, "timeout")
      BY <2>3 DEF Settle
    <3> QED BY <1>0, <2>1, <3>1, SettleLogs
  <2>4. CASE UNCHANGED <<live, batch, stage>>
    BY <1>0, <2>1, <2>4, LogsStay
  <2> QED BY <2>2, <2>3, <2>4
<1>6. CASE SettleNext
  <2>1. Settling \in Sources /\ today' = today
    BY <1>0, <1>6, Lists DEF SettleNext, Settling, MainInv
  <2>2. Settle(Settling, verdict[Settling]) \/ UNCHANGED <<live, batch, stage>>
    BY <1>6 DEF SettleNext
  <2>3. CASE UNCHANGED <<live, batch, stage>>
    BY <1>0, <2>1, <2>3, LogsStay
  <2> QED BY <1>0, <2>1, <2>2, <2>3, SettleLogs
<1>7. CASE Attach("closing", "synthesis") \/ Attach("synthesis", "done")
  <2>1. UNCHANGED <<today, live, batch, stage>>
    BY <1>7 DEF Attach
  <2> QED BY <1>0, <2>1, LogsStay
<1> QED BY <1>1, <1>2, <1>3, <1>4, <1>5, <1>6, <1>7 DEF MainStep

LEMMA LogsStep == StageInv /\ LogsInv /\ [StagingNext]_stagingVars => LogsInv'
<1> SUFFICES ASSUME StageInv, LogsInv, [StagingNext]_stagingVars PROVE LogsInv'
  OBVIOUS
<1>0. /\ TypeInv /\ today \in 1..MaxDay
      /\ HasLog(live) /\ "base" \in DOMAIN batch /\ HasLog(batch.base)
  BY DEF StageInv, LogsInv
<1>1. CASE WorkerStep
  BY <1>0, <1>1, WorkerLogs
<1>2. CASE MainStep
  BY <1>2, MainLogs
<1>3. CASE Tick
  <2>1. /\ UNCHANGED <<today, live, batch>>
        /\ stage' = [s \in Sources |->
              IF Pending(s) /\ stage[s].left >= 0 THEN [stage[s] EXCEPT !.left = @ - 1] ELSE stage[s]]
    BY <1>3 DEF Tick
  <2>2. \A s \in Sources : DetailOK(stage'[s]) /\ TimeOK(stage'[s], today)
    <3> SUFFICES ASSUME NEW s \in Sources PROVE DetailOK(stage'[s]) /\ TimeOK(stage'[s], today)
      OBVIOUS
    <3>0. StageOK(stage[s]) /\ DetailOK(stage[s]) /\ TimeOK(stage[s], today)
      BY <1>0 DEF TypeInv, LogsInv
    <3>1. CASE stage'[s] = stage[s]
      BY <3>0, <3>1
    <3>2. CASE stage[s].left >= 0 /\ stage'[s] = [stage[s] EXCEPT !.left = stage[s].left - 1]
      <4>1. stage[s].left - 1 \in -1..Budget
        BY <3>0, <3>2, Amounts DEF DetailOK
      <4> DEFINE x == [stage[s] EXCEPT !.left = stage[s].left - 1]
      <4>2. DetailOK(x)
        BY <3>0, <4>1 DEF StageOK, DetailOK
      <4>3. /\ x.thread = stage[s].thread /\ x.since = stage[s].since /\ x.until = stage[s].until
            /\ x.edits = stage[s].edits /\ x.fate = stage[s].fate
        BY <3>0 DEF StageOK
      <4> HIDE DEF x
      <4>4. TimeOK(x, today)
        BY <3>0, <4>3 DEF TimeOK
      <4> QED BY <3>2, <4>2, <4>4 DEF x
    <3> QED BY <2>1, <3>1, <3>2
  <2> QED BY <1>0, <2>1, <2>2 DEF LogsInv, DetailOK, TimeOK, HasLog, LogOK, IsScript
<1>4. CASE Midnight \/ UNCHANGED stagingVars
  <2>1. UNCHANGED <<live, batch, stage>> /\ today' \in today..MaxDay
    BY <1>0, <1>4, Amounts DEF Midnight, stagingVars
  <2> QED BY <1>0, <2>1, LogsStay
<1> QED BY <1>1, <1>2, <1>3, <1>4 DEF StagingNext

(* StagingTypeOK: stages, threads and budgets keep their types, and the     *)
(* errors log its cap, through any edits and any merge of two sides that    *)
(* both filled it.                                                          *)
THEOREM StagesTyped == StagingSpec => []StagingTypeOK
<1>1. StageInv /\ LogsInv => StagingTypeOK
  BY DEF StageInv, TypeInv, Tried, LogsInv, DetailOK, HasLog, LogOK, StagingTypeOK
<1> QED BY <1>1, StartOK, StepOK, LogsStart, LogsStep, PTL DEF StagingSpec

-----------------------------------------------------------------------------
(* Recursion over positions.                                               *)

LEMMA UpTo ==
  ASSUME NEW N \in Nat, NEW S, 0 \in S, \A n \in 0..N : n \in S /\ n + 1 \in 0..N => n + 1 \in S
  PROVE  \A n \in 0..N : n \in S
<1> DEFINE Bad == {n \in 0..N : n \notin S}
<1>1. SUFFICES ASSUME Bad # {} PROVE FALSE
  OBVIOUS
<1>2. Bad \in SUBSET Nat
  OBVIOUS
<1>3. PICK m \in Bad : \A i \in Bad : m <= i
  <2> HIDE DEF Bad
  <2> QED BY <1>1, <1>2, SmallestIn
<1>4. m \in 0..N /\ m # 0 /\ m \notin S
  OBVIOUS
<1>5. m - 1 \in 0..N /\ (m - 1) + 1 = m
  BY <1>4
<1>6. m - 1 \in Bad
  BY <1>4, <1>5
<1> HIDE DEF Bad
<1> QED BY <1>3, <1>4, <1>5, <1>6

(* c has, at n, what Survivors picks of the first n rows. *)
PickOne(before, rows, at, i) == IF i \in at THEN Append(before, rows[i]) ELSE before

Picks(c, rows, at, n) ==
    c = [i \in 0..n |-> IF i = 0 THEN <<>> ELSE PickOne(c[i - 1], rows, at, i)]

LEMMA PicksExists ==
  ASSUME NEW rows, NEW at, NEW N \in Nat
  PROVE  \E c : Picks(c, rows, at, N)
<1> DEFINE Good == {n \in Nat : \E c : Picks(c, rows, at, n)}
<1>1. 0 \in Good
  <2> DEFINE c == [i \in 0..0 |-> <<>>]
  <2>1. c = [i \in 0..0 |-> IF i = 0 THEN <<>> ELSE PickOne(c[i - 1], rows, at, i)]
    OBVIOUS
  <2> QED BY <2>1 DEF Picks
<1>2. ASSUME NEW n \in Nat, n \in Good PROVE n + 1 \in Good
  <2>1. PICK c : Picks(c, rows, at, n)
    BY <1>2
  <2> DEFINE d == [i \in 0..(n + 1) |-> IF i = 0 THEN <<>> ELSE PickOne(c[i - 1], rows, at, i)]
  <2>2. \A i \in 0..n : d[i] = c[i]
    BY <2>1 DEF Picks
  <2>3. \A i \in 0..(n + 1) : i # 0 => i - 1 \in 0..n
    OBVIOUS
  <2>4. d = [i \in 0..(n + 1) |-> IF i = 0 THEN <<>> ELSE PickOne(d[i - 1], rows, at, i)]
    BY <2>2, <2>3
  <2>5. Picks(d, rows, at, n + 1)
    BY <2>4 DEF Picks
  <2> HIDE DEF d
  <2> QED BY <2>5
<1>3. \A n \in 0..N : n \in Good
  <2> HIDE DEF Good
  <2>1. \A n \in 0..N : n \in Good /\ n + 1 \in 0..N => n + 1 \in Good
    BY <1>2
  <2> QED BY <1>1, <2>1, UpTo
<1> QED BY <1>3

DistinctKeys(rows) == \A i, j \in DOMAIN rows : rows[i].key = rows[j].key => i = j

(* s is what at picks of the first n rows. *)
PickedOK(s, rows, at, n) ==
    /\ \A p \in DOMAIN s : \E i \in 1..n : i \in at /\ s[p] = rows[i]
    /\ \A i \in 1..n : i \in at => \E p \in DOMAIN s : s[p] = rows[i]
    /\ DistinctKeys(rows) => DistinctKeys(s)
    /\ 1..n \subseteq at => Len(s) = n /\ \A p \in 1..n : s[p] = rows[p]

LEMMA PickedStep ==
  ASSUME NEW R, NEW rows \in Seq(R), NEW at, NEW n \in Nat, n + 1 \in DOMAIN rows,
         NEW s \in Seq(R), PickedOK(s, rows, at, n), n + 1 \in at
  PROVE  PickedOK(Append(s, rows[n + 1]), rows, at, n + 1)
<1> DEFINE t == Append(s, rows[n + 1])
<1>0. /\ Len(s) \in Nat /\ DOMAIN s = 1..Len(s) /\ DOMAIN t = 1..(Len(s) + 1)
      /\ \A p \in DOMAIN s : t[p] = s[p]
      /\ t[Len(s) + 1] = rows[n + 1] /\ Len(t) = Len(s) + 1
  OBVIOUS
<1>9. DOMAIN rows = 1..Len(rows) /\ Len(rows) \in Nat /\ 1..n \subseteq DOMAIN rows
  OBVIOUS
<1> HIDE DEF t
<1>1. \A p \in DOMAIN t : \E i \in 1..(n + 1) : i \in at /\ t[p] = rows[i]
  <2> TAKE p \in DOMAIN t
  <2>1. CASE p \in DOMAIN s
    <3>1. PICK i \in 1..n : i \in at /\ s[p] = rows[i]
      BY <2>1 DEF PickedOK
    <3> QED BY <3>1, <1>0, <2>1
  <2>2. CASE p = Len(s) + 1
    BY <1>0, <2>2
  <2> QED BY <1>0, <2>1, <2>2
<1>2. \A i \in 1..(n + 1) : i \in at => \E p \in DOMAIN t : t[p] = rows[i]
  <2> TAKE i \in 1..(n + 1)
  <2> HAVE i \in at
  <2>1. CASE i \in 1..n
    <3>1. PICK p \in DOMAIN s : s[p] = rows[i]
      BY <2>1 DEF PickedOK
    <3> QED BY <3>1, <1>0
  <2>2. CASE i = n + 1
    BY <1>0, <2>2
  <2> QED BY <2>1, <2>2
<1>3. DistinctKeys(rows) => DistinctKeys(t)
  <2> SUFFICES ASSUME DistinctKeys(rows), NEW p \in DOMAIN t, NEW q \in DOMAIN t, t[p].key = t[q].key
               PROVE  p = q
    BY DEF DistinctKeys
  <2>1. ASSUME NEW x \in DOMAIN s PROVE s[x].key # rows[n + 1].key
    <3>1. PICK i \in 1..n : i \in at /\ s[x] = rows[i]
      BY DEF PickedOK
    <3>2. i \in DOMAIN rows /\ i # n + 1
      BY <1>9
    <3> QED BY <3>1, <3>2 DEF DistinctKeys
  <2>2. DistinctKeys(s)
    BY DEF PickedOK
  <2>3. CASE p \in DOMAIN s /\ q \in DOMAIN s
    BY <1>0, <2>2, <2>3 DEF DistinctKeys
  <2>4. CASE p \in DOMAIN s /\ q = Len(s) + 1
    BY <1>0, <2>1, <2>4
  <2>5. CASE q \in DOMAIN s /\ p = Len(s) + 1
    BY <1>0, <2>1, <2>5
  <2> QED BY <1>0, <2>3, <2>4, <2>5
<1>4. 1..(n + 1) \subseteq at => Len(t) = n + 1 /\ \A p \in 1..(n + 1) : t[p] = rows[p]
  <2> HAVE 1..(n + 1) \subseteq at
  <2>1. Len(s) = n /\ \A p \in 1..n : s[p] = rows[p]
    BY DEF PickedOK
  <2> QED BY <1>0, <2>1
<1> QED BY <1>1, <1>2, <1>3, <1>4 DEF PickedOK, t

LEMMA SurvivorsOK ==
  ASSUME NEW R, NEW rows \in Seq(R), NEW at
  PROVE  Survivors(rows, at) \in Seq(R) /\ PickedOK(Survivors(rows, at), rows, at, Len(rows))
<1> DEFINE N == Len(rows)
           c == CHOOSE c : Picks(c, rows, at, N)
<1>1. N \in Nat /\ DOMAIN rows = 1..N /\ \A i \in 1..N : rows[i] \in R
  OBVIOUS
<1>2. Picks(c, rows, at, N)
  BY <1>1, PicksExists
<1>3. Survivors(rows, at) = c[N]
  BY DEF Survivors, Picks, PickOne
<1> HIDE DEF N, c
<1>4. \A i \in 0..N : c[i] = IF i = 0 THEN <<>> ELSE PickOne(c[i - 1], rows, at, i)
  BY <1>2 DEF Picks
<1> DEFINE Good == {n \in 0..N : c[n] \in Seq(R) /\ PickedOK(c[n], rows, at, n)}
<1>5. 0 \in Good
  <2>1. c[0] = <<>>
    BY <1>1, <1>4
  <2>2. <<>> \in Seq(R) /\ DOMAIN <<>> = {} /\ Len(<<>>) = 0 /\ 1..0 = {}
    OBVIOUS
  <2>3. PickedOK(<<>>, rows, at, 0)
    BY <2>2 DEF PickedOK, DistinctKeys
  <2>4. c[0] \in Seq(R) /\ PickedOK(c[0], rows, at, 0)
    BY <2>1, <2>2, <2>3
  <2> QED BY <1>1, <2>4
<1>6. ASSUME NEW n \in 0..N, n \in Good, n + 1 \in 0..N PROVE n + 1 \in Good
  <2>1. c[n] \in Seq(R) /\ PickedOK(c[n], rows, at, n) /\ n \in Nat /\ n + 1 \in DOMAIN rows
    BY <1>1, <1>6
  <2>0. c[n + 1] = PickOne(c[n], rows, at, n + 1)
    BY <1>1, <1>4, <1>6
  <2>2. CASE n + 1 \in at
    <3>1. c[n + 1] = Append(c[n], rows[n + 1])
      BY <2>0, <2>2 DEF PickOne
    <3>2. PickedOK(Append(c[n], rows[n + 1]), rows, at, n + 1)
      BY <2>1, <2>2, PickedStep
    <3>3. Append(c[n], rows[n + 1]) \in Seq(R)
      BY <1>1, <2>1
    <3> QED BY <1>6, <3>1, <3>2, <3>3
  <2>3. CASE n + 1 \notin at
    <3>1. c[n + 1] = c[n]
      BY <2>0, <2>3 DEF PickOne
    <3>2. 1..n \subseteq 1..(n + 1) /\ \A i \in 1..(n + 1) : i \in at => i \in 1..n
      BY <2>1, <2>3
    <3>3. n + 1 \in 1..(n + 1)
      BY <2>1
    <3>4. PickedOK(c[n], rows, at, n + 1)
      BY <2>1, <2>3, <3>2, <3>3 DEF PickedOK
    <3> QED BY <1>6, <2>1, <3>1, <3>4
  <2> QED BY <2>2, <2>3
<1>7. \A n \in 0..N : n \in Good
  <2> HIDE DEF Good
  <2> QED BY <1>1, <1>5, <1>6, UpTo
<1>8. N \in 0..N
  BY <1>1
<1> QED BY <1>3, <1>7, <1>8 DEF N

(* kept has, at n, the positions of base that other keeps of the first n. *)
KeepOne(before, base, other, i) ==
    IF Cardinality(before) + 1 <= Len(other) /\ other[Cardinality(before) + 1] = base[i]
    THEN before \cup {i} ELSE before

Keeps(kept, base, other, n) ==
    kept = [i \in 0..n |-> IF i = 0 THEN {} ELSE KeepOne(kept[i - 1], base, other, i)]

LEMMA KeepsExists ==
  ASSUME NEW base, NEW other, NEW N \in Nat
  PROVE  \E c : Keeps(c, base, other, N)
<1> DEFINE Good == {n \in Nat : \E c : Keeps(c, base, other, n)}
<1>1. 0 \in Good
  <2> DEFINE c == [i \in 0..0 |-> {}]
  <2>1. c = [i \in 0..0 |-> IF i = 0 THEN {} ELSE KeepOne(c[i - 1], base, other, i)]
    OBVIOUS
  <2>2. Keeps(c, base, other, 0)
    BY <2>1 DEF Keeps
  <2> HIDE DEF c
  <2> QED BY <2>2
<1>2. ASSUME NEW n \in Nat, n \in Good PROVE n + 1 \in Good
  <2>1. PICK c : Keeps(c, base, other, n)
    BY <1>2
  <2> DEFINE d == [i \in 0..(n + 1) |-> IF i = 0 THEN {} ELSE KeepOne(c[i - 1], base, other, i)]
  <2>0. \A i \in 0..n : c[i] = IF i = 0 THEN {} ELSE KeepOne(c[i - 1], base, other, i)
    BY <2>1 DEF Keeps
  <2>2. \A i \in 0..n : d[i] = c[i]
    BY <2>0
  <2>3. \A i \in 0..(n + 1) : i # 0 => i - 1 \in 0..n
    OBVIOUS
  <2>4. d = [i \in 0..(n + 1) |-> IF i = 0 THEN {} ELSE KeepOne(d[i - 1], base, other, i)]
    BY <2>2, <2>3
  <2>5. Keeps(d, base, other, n + 1)
    BY <2>4 DEF Keeps
  <2> HIDE DEF d
  <2> QED BY <2>5
<1>3. \A n \in 0..N : n \in Good
  <2> HIDE DEF Good
  <2>1. \A n \in 0..N : n \in Good /\ n + 1 \in 0..N => n + 1 \in Good
    BY <1>2
  <2> QED BY <1>1, <2>1, UpTo
<1> QED BY <1>3

(* K is what other keeps at its head of the first n rows of base. *)
KeptOK(K, base, other, n) ==
    /\ K \subseteq 1..n /\ IsFiniteSet(K) /\ Cardinality(K) \in 0..Len(other)
    /\ \A p \in 1..Cardinality(K) : \E j \in K : other[p] = base[j]
    /\ \A j \in K : \E p \in 1..Cardinality(K) : other[p] = base[j]
    /\ (\A i \in 1..n : i <= Len(other) /\ other[i] = base[i]) => K = 1..n /\ Cardinality(K) = n

LEMMA KeptStep ==
  ASSUME NEW R, NEW base \in Seq(R), NEW other \in Seq(R), NEW n \in Nat, n + 1 \in DOMAIN base,
         NEW K, KeptOK(K, base, other, n)
  PROVE  KeptOK(KeepOne(K, base, other, n + 1), base, other, n + 1)
<1> DEFINE m == Cardinality(K)
<1>0. /\ K \subseteq 1..n /\ IsFiniteSet(K) /\ m \in 0..Len(other) /\ Len(other) \in Nat
      /\ 1..n \subseteq 1..(n + 1) /\ n + 1 \notin 1..n /\ n + 1 \in 1..(n + 1)
      /\ m \in Nat
  BY DEF KeptOK
<1>1. CASE m + 1 <= Len(other) /\ other[m + 1] = base[n + 1]
  <2>1. KeepOne(K, base, other, n + 1) = K \cup {n + 1}
    BY <1>1 DEF KeepOne
  <2> DEFINE L == K \cup {n + 1}
  <2>2. IsFiniteSet(L) /\ Cardinality(L) = m + 1
    BY <1>0, FS_AddElement
  <2>3. L \subseteq 1..(n + 1) /\ m + 1 \in 0..Len(other) /\ K \subseteq L /\ n + 1 \in L
    BY <1>0, <1>1
  <2>4. \A j \in L : j \in K \/ j = n + 1
    OBVIOUS
  <2> HIDE DEF L
  <2>5. \A p \in 1..(m + 1) : \E j \in L : other[p] = base[j]
    <3> TAKE p \in 1..(m + 1)
    <3>1. CASE p = m + 1
      BY <1>1, <2>3, <3>1
    <3>2. CASE p \in 1..m
      <4>1. \E j \in K : other[p] = base[j]
        BY <3>2 DEF KeptOK
      <4> QED BY <4>1, <2>3
    <3> QED BY <1>0, <3>1, <3>2
  <2>6. \A j \in L : \E p \in 1..(m + 1) : other[p] = base[j]
    <3> TAKE j \in L
    <3>1. CASE j = n + 1
      BY <1>0, <1>1, <3>1
    <3>2. CASE j \in K
      <4>1. \E p \in 1..m : other[p] = base[j]
        BY <3>2 DEF KeptOK
      <4> QED BY <4>1, <1>0
    <3> QED BY <2>4, <3>1, <3>2
  <2>7. ASSUME \A i \in 1..(n + 1) : i <= Len(other) /\ other[i] = base[i]
        PROVE  L = 1..(n + 1) /\ m + 1 = n + 1
    <3>1. K = 1..n /\ m = n
      BY <2>7, <1>0 DEF KeptOK
    <3> QED BY <3>1, <1>0 DEF L
  <2> QED BY <2>1, <2>2, <2>3, <2>5, <2>6, <2>7 DEF KeptOK, L
<1>2. CASE ~(m + 1 <= Len(other) /\ other[m + 1] = base[n + 1])
  <2>1. KeepOne(K, base, other, n + 1) = K
    BY <1>2 DEF KeepOne
  <2>2. ~ \A i \in 1..(n + 1) : i <= Len(other) /\ other[i] = base[i]
    <3> SUFFICES ASSUME \A i \in 1..(n + 1) : i <= Len(other) /\ other[i] = base[i] PROVE FALSE
      OBVIOUS
    <3>1. m = n
      BY <1>0 DEF KeptOK
    <3> QED BY <3>1, <1>0, <1>2
  <2> QED BY <1>0, <2>1, <2>2 DEF KeptOK
<1> QED BY <1>1, <1>2

LEMMA KeptHeadOK ==
  ASSUME NEW R, NEW base \in Seq(R), NEW other \in Seq(R)
  PROVE  KeptOK(KeptHead(base, other), base, other, Len(base))
<1> DEFINE N == Len(base)
           c == CHOOSE c : Keeps(c, base, other, N)
<1>1. N \in Nat /\ DOMAIN base = 1..N /\ Len(other) \in Nat
  OBVIOUS
<1>2. Keeps(c, base, other, N)
  BY <1>1, KeepsExists
<1>3. KeptHead(base, other) = c[N]
  BY DEF KeptHead, Keeps, KeepOne
<1> HIDE DEF N, c
<1>4. \A i \in 0..N : c[i] = IF i = 0 THEN {} ELSE KeepOne(c[i - 1], base, other, i)
  BY <1>2 DEF Keeps
<1> DEFINE Good == {n \in 0..N : KeptOK(c[n], base, other, n)}
<1>5. 0 \in Good
  <2>1. c[0] = {}
    BY <1>1, <1>4
  <2>2. IsFiniteSet({}) /\ Cardinality({}) = 0 /\ 1..0 = {}
    BY FS_EmptySet
  <2>3. KeptOK({}, base, other, 0)
    BY <1>1, <2>2 DEF KeptOK
  <2>4. KeptOK(c[0], base, other, 0)
    BY <2>1, <2>3
  <2> QED BY <1>1, <2>4
<1>6. ASSUME NEW n \in 0..N, n \in Good, n + 1 \in 0..N PROVE n + 1 \in Good
  <2>1. c[n + 1] = KeepOne(c[n], base, other, n + 1)
    BY <1>1, <1>4, <1>6
  <2>2. n \in Nat /\ n + 1 \in DOMAIN base /\ KeptOK(c[n], base, other, n)
    BY <1>1, <1>6
  <2>3. KeptOK(c[n + 1], base, other, n + 1)
    BY <2>1, <2>2, KeptStep
  <2> QED BY <1>6, <2>3
<1>7. \A n \in 0..N : n \in Good
  <2> HIDE DEF Good
  <2> QED BY <1>1, <1>5, <1>6, UpTo
<1>8. N \in 0..N
  BY <1>1
<1> QED BY <1>3, <1>7, <1>8 DEF N

LEMMA RowsAfter ==
  ASSUME NEW R, NEW rows \in Seq(R), NEW k \in 0..Len(rows)
  PROVE  /\ SubSeq(rows, k + 1, Len(rows)) \in Seq(R)
         /\ Len(SubSeq(rows, k + 1, Len(rows))) = Len(rows) - k
         /\ \A q \in 1..(Len(rows) - k) : SubSeq(rows, k + 1, Len(rows))[q] = rows[k + q]
<1>1. Len(rows) \in Nat /\ k \in Nat
  OBVIOUS
<1> QED BY <1>1

LEMMA KeysOf ==
  ASSUME NEW rows, NEW x
  PROVE  x \in KeysIn(rows) <=> \E p \in DOMAIN rows : rows[p].key = x
BY DEF KeysIn, ToSet

LEMMA OneKeyEach ==
  ASSUME NEW R, NEW rows \in Seq(R), DistinctKeys(rows)
  PROVE  Cardinality(KeysIn(rows)) = Len(rows)
<1> DEFINE f == [p \in 1..Len(rows) |-> rows[p].key]
<1>1. DOMAIN rows = 1..Len(rows) /\ Len(rows) \in Nat
  OBVIOUS
<1>2. f \in Bijection(1..Len(rows), KeysIn(rows))
  <2>1. f \in [1..Len(rows) -> KeysIn(rows)]
    BY <1>1, KeysOf
  <2>2. \A x \in KeysIn(rows) : \E p \in 1..Len(rows) : f[p] = x
    BY <1>1, KeysOf
  <2>3. \A p, q \in 1..Len(rows) : f[p] = f[q] => p = q
    BY <1>1 DEF DistinctKeys
  <2> HIDE DEF f
  <2> QED BY <2>1, <2>2, <2>3 DEF Bijection, Injection, Surjection, IsInjective
<1> HIDE DEF f
<1>3. ExistsBijection(1..Len(rows), KeysIn(rows))
  BY <1>2 DEF ExistsBijection
<1>4. IsFiniteSet(1..Len(rows)) /\ Cardinality(1..Len(rows)) = Len(rows)
  BY <1>1, FS_Interval
<1> QED BY <1>3, <1>4, FS_Bijection

-----------------------------------------------------------------------------
(* The candidates log: a row of each key, none of a day after this one. *)
SeenOK(rows, day) ==
    /\ \E R : rows \in Seq(R)
    /\ DistinctKeys(rows)
    /\ \A p \in DOMAIN rows : rows[p].day \in Int /\ rows[p].day <= day

(* How observations between two days can have turned base into other: what  *)
(* is gone was too old by then, and what stayed is not older than it was.   *)
Sees(base, other, since, until) ==
    /\ SeenOK(other, until)
    /\ \A i \in DOMAIN base : base[i].day + Window >= until =>
          \E p \in DOMAIN other : other[p].key = base[i].key
    /\ \A i \in DOMAIN base, p \in DOMAIN other : other[p].key = base[i].key => base[i].day <= other[p].day
    /\ other = base \/ \A p \in DOMAIN other : other[p].day + Window >= since

LEMMA WindowIsNat == Window \in Nat
  BY MergeAssumption

LEMMA SeesItself ==
  ASSUME NEW since \in Int, NEW until \in Int, since <= until, NEW base, SeenOK(base, since)
  PROVE  Sees(base, base, since, until)
<1>1. \A p \in DOMAIN base : base[p].day \in Int /\ base[p].day <= until
  BY DEF SeenOK
<1>2. \A i, p \in DOMAIN base : base[p].key = base[i].key => base[i].day <= base[p].day
  BY <1>1 DEF SeenOK, DistinctKeys
<1> QED BY <1>1, <1>2 DEF Sees, SeenOK

LEMMA SeesWider ==
  ASSUME NEW since \in Int, NEW until \in Int, NEW since2 \in Int, NEW until2 \in Int,
         since2 <= since, until <= until2,
         NEW base, \A i \in DOMAIN base : base[i].day \in Int, NEW other, Sees(base, other, since, until)
  PROVE  Sees(base, other, since2, until2)
<1>0. Window \in Nat
  BY WindowIsNat
<1>1. \A p \in DOMAIN other : other[p].day \in Int /\ other[p].day <= until2
  BY DEF Sees, SeenOK
<1>2. \A i \in DOMAIN base : base[i].day + Window >= until2 => base[i].day + Window >= until
  BY <1>0
<1>3. SeenOK(other, until2)
  BY <1>1 DEF Sees, SeenOK
<1>4. other = base \/ \A p \in DOMAIN other : other[p].day + Window >= since2
  <2>1. CASE other = base
    BY <2>1
  <2>2. CASE other # base
    <3>1. \A p \in DOMAIN other : other[p].day + Window >= since
      BY <2>2 DEF Sees
    <3> QED BY <1>0, <1>1, <3>1
  <2> QED BY <2>1, <2>2
<1> QED BY <1>2, <1>3, <1>4 DEF Sees

(* One more observation. *)
LEMMA ObservedSees ==
  ASSUME NEW since \in Int, NEW until \in Int, NEW base, SeenOK(base, since),
         NEW other, Sees(base, other, since, until), NEW key, NEW day \in since..until
  PROVE  Sees(base, Observed(other, key, day), since, until)
<1>0. Window \in Nat /\ day \in Int
  BY WindowIsNat
<1> DEFINE at == {i \in DOMAIN other : other[i].key # key /\ other[i].day + Window >= day}
           kept == Survivors(other, at)
           row == [key |-> key, day |-> day]
           new == Observed(other, key, day)
<1>1. PICK R : other \in Seq(R)
  BY DEF Sees, SeenOK
<1>2. DOMAIN other = 1..Len(other) /\ DistinctKeys(other)
      /\ \A p \in DOMAIN other : other[p].day \in Int /\ other[p].day <= until
  BY <1>1 DEF Sees, SeenOK
<1>3. kept \in Seq(R) /\ PickedOK(kept, other, at, Len(other))
  BY <1>1, SurvivorsOK
<1>4. new = Append(kept, row)
  BY DEF Observed
<1>5. /\ \A p \in DOMAIN kept : \E i \in DOMAIN other : i \in at /\ kept[p] = other[i]
      /\ \A i \in at : \E p \in DOMAIN kept : kept[p] = other[i]
      /\ DistinctKeys(kept)
  BY <1>2, <1>3 DEF PickedOK
<1>6. row.key = key /\ row.day = day
  OBVIOUS
<1> HIDE DEF kept, row, new
<1>7. \A p \in DOMAIN kept : \E i \in DOMAIN other : /\ kept[p] = other[i] /\ other[i].key # key
                                                     /\ other[i].day + Window >= day
  BY <1>5
<1>8. \A i \in DOMAIN other : other[i].key # key /\ other[i].day + Window >= day =>
          \E p \in DOMAIN kept : kept[p] = other[i]
  BY <1>5
<1> HIDE DEF at
<1>9. /\ new \in Seq(R \cup {row})
      /\ DOMAIN new = DOMAIN kept \cup {Len(kept) + 1}
      /\ \A p \in DOMAIN kept : new[p] = kept[p]
      /\ new[Len(kept) + 1] = row
      /\ Len(kept) + 1 \notin DOMAIN kept
  BY <1>3, <1>4
<1>10. \A p \in DOMAIN new : \/ new[p] = row
                             \/ \E i \in DOMAIN other : /\ new[p] = other[i] /\ other[i].key # key
                                                        /\ other[i].day + Window >= day
  BY <1>7, <1>9
<1>11. DistinctKeys(new)
  <2> SUFFICES ASSUME NEW p \in DOMAIN new, NEW q \in DOMAIN new, new[p].key = new[q].key PROVE p = q
    BY DEF DistinctKeys
  <2>1. \A x \in DOMAIN kept : new[x].key # key
    BY <1>7, <1>9
  <2>2. CASE p \in DOMAIN kept /\ q \in DOMAIN kept
    BY <1>5, <1>9, <2>2 DEF DistinctKeys
  <2> QED BY <1>6, <1>9, <2>1, <2>2
<1>12. \A p \in DOMAIN new : new[p].day \in Int /\ new[p].day <= until /\ new[p].day + Window >= since
  BY <1>0, <1>2, <1>6, <1>10
<1>13. ASSUME NEW i \in DOMAIN base, base[i].day + Window >= until
       PROVE  \E p \in DOMAIN new : new[p].key = base[i].key
  <2>1. PICK j \in DOMAIN other : other[j].key = base[i].key /\ base[i].day <= other[j].day
    BY <1>13 DEF Sees
  <2>2. CASE other[j].key = key
    BY <1>6, <1>9, <2>1, <2>2
  <2>3. CASE other[j].key # key
    <3>1. base[i].day \in Int
      BY DEF SeenOK
    <3>2. other[j].day + Window >= day
      BY <1>0, <1>2, <1>13, <2>1, <3>1
    <3>3. PICK p \in DOMAIN kept : kept[p] = other[j]
      BY <1>8, <2>3, <3>2
    <3> QED BY <1>9, <2>1, <3>3
  <2> QED BY <2>2, <2>3
<1>14. ASSUME NEW i \in DOMAIN base, NEW p \in DOMAIN new, new[p].key = base[i].key
       PROVE  base[i].day <= new[p].day
  <2>1. CASE new[p] = row
    <3>1. base[i].day \in Int /\ base[i].day <= since
      BY DEF SeenOK
    <3> QED BY <1>0, <1>6, <2>1, <3>1
  <2>2. CASE new[p] # row
    BY <1>10, <1>14, <2>2 DEF Sees
  <2> QED BY <2>1, <2>2
<1>15. SeenOK(new, until)
  BY <1>9, <1>11, <1>12 DEF SeenOK
<1> QED BY <1>12, <1>13, <1>14, <1>15 DEF Sees, new

(* What WindowEdit recognises in other, of base. *)
IsWindowEdit(base, other, since, until, kept, tail) ==
    /\ kept \subseteq DOMAIN base
    /\ \E R : tail \in Seq(R)
    /\ DistinctKeys(tail)
    /\ \A p \in DOMAIN tail : \E q \in DOMAIN other : tail[p] = other[q]
    /\ \A i \in kept : \E q \in DOMAIN other : base[i] = other[q]
    /\ \A i \in kept : base[i].key \notin KeysIn(tail)
    /\ \A i \in DOMAIN base \ kept : base[i].key \in KeysIn(tail) \/ base[i].day + Window < until

LEMMA WindowEditFound ==
  ASSUME NEW since \in Int, NEW until \in Int, NEW base, SeenOK(base, until),
         NEW other, Sees(base, other, since, until), other # base
  PROVE  \E kept, tail :
            /\ WindowEdit(base, other, since, until) = {[kept |-> kept, tail |-> tail]}
            /\ IsWindowEdit(base, other, since, until, kept, tail)
<1>1. PICK A : base \in Seq(A)
  BY DEF SeenOK
<1>2. PICK B : other \in Seq(B)
  BY DEF Sees, SeenOK
<1> DEFINE R == A \cup B
           kept == KeptHead(base, other)
           k == Cardinality(kept)
           tail == SubSeq(other, k + 1, Len(other))
           e == [kept |-> kept, tail |-> tail]
<1>3. base \in Seq(R) /\ other \in Seq(R)
  BY <1>1, <1>2, WiderRows
<1>4. /\ DOMAIN base = 1..Len(base) /\ Len(base) \in Nat
      /\ DOMAIN other = 1..Len(other) /\ Len(other) \in Nat
  BY <1>1, <1>2
<1> HIDE DEF R
<1>5. KeptOK(kept, base, other, Len(base))
  BY <1>3, KeptHeadOK
<1>6. KeptThenAppended(base, other) = e
  BY DEF KeptThenAppended
<1> HIDE DEF kept
<1>7. /\ kept \subseteq DOMAIN base /\ k \in 0..Len(other)
      /\ \A p \in 1..k : \E j \in kept : other[p] = base[j]
      /\ \A j \in kept : \E p \in 1..k : other[p] = base[j]
  BY <1>4, <1>5 DEF KeptOK
<1> HIDE DEF k
<1>8. /\ tail \in Seq(R) /\ Len(tail) = Len(other) - k
      /\ \A q \in 1..(Len(other) - k) : tail[q] = other[k + q]
  BY <1>3, <1>7, RowsAfter
<1> HIDE DEF tail
<1>9. DOMAIN tail = 1..(Len(other) - k)
  BY <1>8
<1>10. /\ \A q \in DOMAIN tail : k + q \in DOMAIN other /\ tail[q] = other[k + q] /\ k + q \notin 1..k
       /\ \A p \in DOMAIN other : p \in 1..k \/ (p - k \in DOMAIN tail /\ tail[p - k] = other[p])
  <2>1. ASSUME NEW q \in DOMAIN tail PROVE k + q \in DOMAIN other /\ tail[q] = other[k + q] /\ k + q \notin 1..k
    BY <1>4, <1>7, <1>8, <1>9
  <2>2. ASSUME NEW p \in DOMAIN other, p \notin 1..k PROVE p - k \in DOMAIN tail /\ tail[p - k] = other[p]
    <3>1. p - k \in 1..(Len(other) - k) /\ k + (p - k) = p
      BY <1>4, <1>7, <2>2
    <3> QED BY <1>8, <1>9, <3>1
  <2> QED BY <2>1, <2>2
<1>11. DistinctKeys(other) /\ DistinctKeys(base)
  BY DEF Sees, SeenOK
<1>12. DistinctKeys(tail)
  <2> SUFFICES ASSUME NEW p \in DOMAIN tail, NEW q \in DOMAIN tail, tail[p].key = tail[q].key PROVE p = q
    BY DEF DistinctKeys
  <2>1. k + p = k + q
    BY <1>10, <1>11 DEF DistinctKeys
  <2>2. p \in Nat /\ q \in Nat /\ k \in Nat
    BY <1>7, <1>9
  <2> QED BY <2>1, <2>2
<1>13. ASSUME NEW i \in kept PROVE base[i].key \notin KeysIn(tail)
  <2> SUFFICES ASSUME base[i].key \in KeysIn(tail) PROVE FALSE
    OBVIOUS
  <2>1. PICK q \in DOMAIN tail : tail[q].key = base[i].key
    BY KeysOf
  <2>2. PICK p \in 1..k : other[p] = base[i]
    BY <1>7
  <2>3. p \in DOMAIN other
    BY <1>4, <1>7
  <2>4. p = k + q
    BY <1>10, <1>11, <2>1, <2>2, <2>3 DEF DistinctKeys
  <2> QED BY <1>10, <2>4
<1>14. ASSUME NEW i \in DOMAIN base \ kept, base[i].day + Window >= until
       PROVE  base[i].key \in KeysIn(tail)
  <2>1. PICK p \in DOMAIN other : other[p].key = base[i].key
    BY <1>14 DEF Sees
  <2>2. p \notin 1..k
    <3> SUFFICES ASSUME p \in 1..k PROVE FALSE
      OBVIOUS
    <3>1. PICK j \in kept : other[p] = base[j]
      BY <1>7
    <3> QED BY <1>7, <1>11, <2>1, <3>1 DEF DistinctKeys
  <2>3. p - k \in DOMAIN tail /\ tail[p - k].key = base[i].key
    BY <1>10, <2>1, <2>2
  <2> QED BY <2>3, KeysOf
<1>15. ASSUME NEW i \in DOMAIN base \ kept
       PROVE  base[i].key \in KeysIn(tail) \/ base[i].day + Window < until
  <2>1. base[i].day + Window \in Int
    BY WindowIsNat DEF SeenOK
  <2> QED BY <1>14, <2>1
<1>16. IsWindowEdit(base, other, since, until, kept, tail)
  <2>1. \A p \in DOMAIN tail : \E q \in DOMAIN other : tail[p] = other[q]
    BY <1>10
  <2>2. \A i \in kept : \E q \in DOMAIN other : base[i] = other[q]
    <3> TAKE i \in kept
    <3>1. PICK p \in 1..k : other[p] = base[i]
      BY <1>7
    <3>2. Len(other) \in Nat /\ k \in 0..Len(other) /\ DOMAIN other = 1..Len(other)
      BY <1>4, <1>7
    <3>3. p \in DOMAIN other
      BY <3>2
    <3> QED BY <3>1, <3>3
  <2>3. kept \subseteq DOMAIN base
    BY <1>7
  <2>4. \E S : tail \in Seq(S)
    BY <1>8
  <2>5. \A i \in kept : base[i].key \notin KeysIn(tail)
    BY <1>13
  <2>6. \A i \in DOMAIN base \ kept : base[i].key \in KeysIn(tail) \/ base[i].day + Window < until
    BY <1>15
  <2> QED BY <1>12, <2>1, <2>2, <2>3, <2>4, <2>5, <2>6, Zenon DEF IsWindowEdit
<1>17. Cardinality(KeysIn(tail)) = Len(tail)
  BY <1>8, <1>12, OneKeyEach
<1>18. \A r \in ToSet(other) : r.day + Window >= since
  BY DEF Sees, ToSet
<1>19. e.kept = kept /\ e.tail = tail
  OBVIOUS
<1> HIDE DEF e
<1>20. WindowEdit(base, other, since, until) = {e}
  BY <1>6, <1>13, <1>15, <1>17, <1>18, <1>19 DEF WindowEdit
<1> QED BY <1>16, <1>20 DEF e

(* Concatenation of rows with distinct keys. *)
IsRows(rows) == \E R : rows \in Seq(R)

Apart(a, b) == \A p \in DOMAIN a, q \in DOMAIN b : a[p].key # b[q].key

HasRows(c, a, b) ==
    /\ \A x \in DOMAIN c : (\E p \in DOMAIN a : c[x] = a[p]) \/ (\E q \in DOMAIN b : c[x] = b[q])
    /\ \A p \in DOMAIN a : \E x \in DOMAIN c : c[x] = a[p]
    /\ \A q \in DOMAIN b : \E x \in DOMAIN c : c[x] = b[q]

LEMMA RowsJoined ==
  ASSUME NEW a, IsRows(a), NEW b, IsRows(b), DistinctKeys(a), DistinctKeys(b), Apart(a, b)
  PROVE  IsRows(a \o b) /\ DistinctKeys(a \o b) /\ HasRows(a \o b, a, b)
<1>a. PICK A : a \in Seq(A)
  BY DEF IsRows
<1>b. PICK B : b \in Seq(B)
  BY DEF IsRows
<1> DEFINE R == A \cup B
           c == a \o b
<1>c. a \in Seq(R) /\ b \in Seq(R)
  BY <1>a, <1>b, WiderRows
<1> HIDE DEF R
<1>1. /\ c \in Seq(R) /\ DOMAIN a = 1..Len(a) /\ DOMAIN b = 1..Len(b) /\ DOMAIN c = 1..(Len(a) + Len(b))
      /\ Len(a) \in Nat /\ Len(b) \in Nat
      /\ \A p \in DOMAIN a : c[p] = a[p]
      /\ \A q \in DOMAIN b : c[Len(a) + q] = b[q]
  BY <1>c
<1> HIDE DEF c
<1>2. \A x \in DOMAIN c : x \in DOMAIN a \/ (x - Len(a) \in DOMAIN b /\ x = Len(a) + (x - Len(a)))
  BY <1>1
<1>3. \A q \in DOMAIN b : Len(a) + q \in DOMAIN c
  BY <1>1
<1>4. \A p \in DOMAIN a : p \in DOMAIN c
  BY <1>1
<1>5. DistinctKeys(c)
  <2> SUFFICES ASSUME NEW p \in DOMAIN c, NEW q \in DOMAIN c, c[p].key = c[q].key PROVE p = q
    BY DEF DistinctKeys
  <2>1. CASE p \in DOMAIN a /\ q \in DOMAIN a
    BY <1>1, <2>1 DEF DistinctKeys
  <2>2. CASE p \notin DOMAIN a /\ q \notin DOMAIN a
    <3>1. b[p - Len(a)] = c[p] /\ b[q - Len(a)] = c[q]
      BY <1>1, <1>2, <2>2
    <3>2. p - Len(a) = q - Len(a)
      BY <1>2, <2>2, <3>1 DEF DistinctKeys
    <3> QED BY <1>2, <2>2, <3>2
  <2>3. CASE p \in DOMAIN a /\ q \notin DOMAIN a
    BY <1>1, <1>2, <2>3 DEF Apart
  <2>4. CASE p \notin DOMAIN a /\ q \in DOMAIN a
    BY <1>1, <1>2, <2>4 DEF Apart
  <2> QED BY <2>1, <2>2, <2>3, <2>4
<1>6. \A x \in DOMAIN c : \/ \E p \in DOMAIN a : c[x] = a[p]
                          \/ \E q \in DOMAIN b : c[x] = b[q]
  <2> TAKE x \in DOMAIN c
  <2>1. CASE x \in DOMAIN a
    BY <1>1, <2>1
  <2>2. CASE x \notin DOMAIN a
    <3>1. c[x] = b[x - Len(a)] /\ x - Len(a) \in DOMAIN b
      BY <1>1, <1>2, <2>2
    <3> QED BY <3>1
  <2> QED BY <2>1, <2>2
<1>7. \A p \in DOMAIN a : \E x \in DOMAIN c : c[x] = a[p]
  BY <1>1, <1>4
<1>8. \A q \in DOMAIN b : \E x \in DOMAIN c : c[x] = b[q]
  BY <1>1, <1>3
<1> QED BY <1>1, <1>5, <1>6, <1>7, <1>8 DEF c, IsRows, HasRows

(* The windowed merge of two sides is seen from base as what both did. *)
LEMMA BothSee ==
  ASSUME NEW os \in Int, NEW ou \in Int, NEW ws \in Int, NEW wu \in Int, NEW until \in Int,
         os <= ou, os <= ws, ws <= wu, ou <= until, wu <= until,
         NEW base, SeenOK(base, os),
         NEW staged, Sees(base, staged, ws, wu), staged # base,
         NEW live1, Sees(base, live1, os, ou), live1 # base,
         NEW mk, NEW mt, IsWindowEdit(base, staged, ws, wu, mk, mt),
         NEW tk, NEW tt, IsWindowEdit(base, live1, os, ou, tk, tt)
  PROVE  Sees(base,
              Survivors(base, mk \cap tk)
                \o Survivors(tt, {i \in DOMAIN tt : tt[i].key \notin KeysIn(mt)}) \o mt,
              os, until)
<1>0. Window \in Nat
  BY WindowIsNat
<1> DEFINE at == {i \in DOMAIN tt : tt[i].key \notin KeysIn(mt)}
           a == Survivors(base, mk \cap tk)
           b == Survivors(tt, at)
           ab == a \o b
           c == ab \o mt
<1>1. PICK A : base \in Seq(A)
  BY DEF SeenOK
<1>2. PICK M : mt \in Seq(M)
  BY DEF IsWindowEdit
<1>3. PICK T : tt \in Seq(T)
  BY DEF IsWindowEdit
<1> DEFINE R == A \cup M \cup T
<1>4. base \in Seq(R) /\ mt \in Seq(R) /\ tt \in Seq(R)
  BY <1>1, <1>2, <1>3, WiderRows
<1> HIDE DEF R
<1>5. DOMAIN base = 1..Len(base) /\ DOMAIN tt = 1..Len(tt)
  BY <1>1, <1>3
<1>6. /\ \A p \in DOMAIN base : base[p].day \in Int /\ base[p].day <= os
      /\ DistinctKeys(base)
  BY DEF SeenOK
<1>7. /\ \A p \in DOMAIN mt : /\ mt[p].day \in Int /\ mt[p].day <= wu /\ mt[p].day + Window >= ws
                              /\ \A i \in DOMAIN base : mt[p].key = base[i].key => base[i].day <= mt[p].day
      /\ \A p \in DOMAIN tt : /\ tt[p].day \in Int /\ tt[p].day <= ou /\ tt[p].day + Window >= os
                              /\ \A i \in DOMAIN base : tt[p].key = base[i].key => base[i].day <= tt[p].day
  <2>1. \A p \in DOMAIN mt : /\ mt[p].day \in Int /\ mt[p].day <= wu /\ mt[p].day + Window >= ws
                             /\ \A i \in DOMAIN base : mt[p].key = base[i].key => base[i].day <= mt[p].day
    <3> TAKE p \in DOMAIN mt
    <3>1. PICK q \in DOMAIN staged : mt[p] = staged[q]
      BY DEF IsWindowEdit
    <3> QED BY <3>1 DEF Sees, SeenOK
  <2>2. \A p \in DOMAIN tt : /\ tt[p].day \in Int /\ tt[p].day <= ou /\ tt[p].day + Window >= os
                             /\ \A i \in DOMAIN base : tt[p].key = base[i].key => base[i].day <= tt[p].day
    <3> TAKE p \in DOMAIN tt
    <3>1. PICK q \in DOMAIN live1 : tt[p] = live1[q]
      BY DEF IsWindowEdit
    <3> QED BY <3>1 DEF Sees, SeenOK
  <2> QED BY <2>1, <2>2
<1>8. DistinctKeys(mt) /\ DistinctKeys(tt)
  BY DEF IsWindowEdit
<1>9. \A i \in tk : i \in DOMAIN base /\ base[i].day + Window >= os
  BY DEF IsWindowEdit, Sees
<1>10. /\ a \in Seq(R) /\ DistinctKeys(a)
       /\ \A p \in DOMAIN a : \E i \in DOMAIN base : i \in mk /\ i \in tk /\ a[p] = base[i]
       /\ \A i \in DOMAIN base : i \in mk /\ i \in tk => \E p \in DOMAIN a : a[p] = base[i]
  <2>1. a \in Seq(R) /\ PickedOK(a, base, mk \cap tk, Len(base))
    BY <1>4, SurvivorsOK
  <2> HIDE DEF a
  <2> QED BY <1>5, <1>6, <2>1 DEF PickedOK
<1>11. /\ b \in Seq(R) /\ DistinctKeys(b)
       /\ \A p \in DOMAIN b : \E i \in DOMAIN tt : tt[i].key \notin KeysIn(mt) /\ b[p] = tt[i]
       /\ \A i \in DOMAIN tt : tt[i].key \notin KeysIn(mt) => \E p \in DOMAIN b : b[p] = tt[i]
  <2>1. b \in Seq(R) /\ PickedOK(b, tt, at, Len(tt))
    BY <1>4, SurvivorsOK
  <2> HIDE DEF b
  <2> QED BY <1>5, <1>8, <2>1 DEF PickedOK
<1> HIDE DEF a, b
<1>12. Apart(a, b)
  <2> SUFFICES \A p \in DOMAIN a, q \in DOMAIN b : a[p].key # b[q].key
    BY DEF Apart
  <2> TAKE p \in DOMAIN a, q \in DOMAIN b
  <2>1. PICK i \in DOMAIN base : i \in tk /\ a[p] = base[i]
    BY <1>10
  <2>2. base[i].key \notin KeysIn(tt)
    BY <2>1 DEF IsWindowEdit
  <2>3. PICK j \in DOMAIN tt : b[q] = tt[j]
    BY <1>11
  <2> QED BY <2>1, <2>2, <2>3, KeysOf
<1>13. IsRows(ab) /\ DistinctKeys(ab) /\ HasRows(ab, a, b)
  <2>1. IsRows(a) /\ IsRows(b) /\ DistinctKeys(a) /\ DistinctKeys(b)
    BY <1>10, <1>11 DEF IsRows
  <2> QED BY <2>1, <1>12, RowsJoined
<1> HIDE DEF ab
<1>14. Apart(ab, mt)
  <2> SUFFICES \A x \in DOMAIN ab, q \in DOMAIN mt : ab[x].key # mt[q].key
    BY DEF Apart
  <2> TAKE x \in DOMAIN ab, q \in DOMAIN mt
  <2>1. mt[q].key \in KeysIn(mt)
    BY KeysOf
  <2>2. ASSUME NEW p \in DOMAIN a, ab[x] = a[p] PROVE ab[x].key \notin KeysIn(mt)
    BY <1>10, <2>2 DEF IsWindowEdit
  <2>3. ASSUME NEW p \in DOMAIN b, ab[x] = b[p] PROVE ab[x].key \notin KeysIn(mt)
    BY <1>11, <2>3
  <2> QED BY <1>13, <2>1, <2>2, <2>3 DEF HasRows
<1>15. IsRows(c) /\ DistinctKeys(c) /\ HasRows(c, ab, mt)
  <2>1. IsRows(mt) /\ DistinctKeys(mt)
    BY <1>4, <1>8 DEF IsRows
  <2> QED BY <2>1, <1>13, <1>14, RowsJoined
<1> HIDE DEF c
<1>16. \A x \in DOMAIN c : \/ \E i \in tk : c[x] = base[i]
                           \/ \E i \in DOMAIN tt : c[x] = tt[i]
                           \/ \E i \in DOMAIN mt : c[x] = mt[i]
  <2> TAKE x \in DOMAIN c
  <2>1. ASSUME NEW y \in DOMAIN ab, c[x] = ab[y]
        PROVE  (\E i \in tk : c[x] = base[i]) \/ (\E i \in DOMAIN tt : c[x] = tt[i])
    <3>1. CASE \E p \in DOMAIN a : ab[y] = a[p]
      BY <1>10, <2>1, <3>1
    <3>2. CASE \E p \in DOMAIN b : ab[y] = b[p]
      BY <1>11, <2>1, <3>2
    <3> QED BY <1>13, <3>1, <3>2 DEF HasRows
  <2> QED BY <1>15, <2>1 DEF HasRows
<1>17. \A x \in DOMAIN c : c[x].day \in Int /\ c[x].day <= until /\ c[x].day + Window >= os
  <2> TAKE x \in DOMAIN c
  <2>1. CASE \E i \in tk : c[x] = base[i]
    <3>1. PICK i \in tk : c[x] = base[i]
      BY <2>1
    <3>2. i \in DOMAIN base /\ base[i].day + Window >= os
      BY <1>9
    <3> QED BY <1>6, <3>1, <3>2
  <2>2. CASE \E i \in DOMAIN tt : c[x] = tt[i]
    BY <1>0, <1>7, <2>2
  <2>3. CASE \E i \in DOMAIN mt : c[x] = mt[i]
    BY <1>0, <1>7, <2>3
  <2> QED BY <1>16, <2>1, <2>2, <2>3
<1>18. ASSUME NEW i \in DOMAIN base, NEW x \in DOMAIN c, c[x].key = base[i].key
       PROVE  base[i].day <= c[x].day
  <2>1. CASE \E j \in tk : c[x] = base[j]
    <3>1. PICK j \in tk : c[x] = base[j]
      BY <2>1
    <3>2. j = i
      BY <1>6, <1>9, <1>18, <3>1 DEF DistinctKeys
    <3> QED BY <1>6, <3>1, <3>2
  <2>2. CASE \E j \in DOMAIN tt : c[x] = tt[j]
    BY <1>7, <1>18, <2>2
  <2>3. CASE \E j \in DOMAIN mt : c[x] = mt[j]
    BY <1>7, <1>18, <2>3
  <2> QED BY <1>16, <2>1, <2>2, <2>3
<1>19. /\ \A p \in DOMAIN a : \E x \in DOMAIN c : c[x] = a[p]
       /\ \A p \in DOMAIN b : \E x \in DOMAIN c : c[x] = b[p]
  BY <1>13, <1>15 DEF HasRows
<1>20. ASSUME NEW i \in DOMAIN base, base[i].day + Window >= until
       PROVE  \E x \in DOMAIN c : c[x].key = base[i].key
  <2>0. base[i].day + Window \in Int /\ ~(base[i].day + Window < wu) /\ ~(base[i].day + Window < ou)
    BY <1>0, <1>6, <1>20
  <2>1. CASE base[i].key \in KeysIn(mt)
    <3>1. PICK q \in DOMAIN mt : mt[q].key = base[i].key
      BY <2>1, KeysOf
    <3> QED BY <1>15, <3>1 DEF HasRows
  <2>2. CASE base[i].key \notin KeysIn(mt) /\ base[i].key \in KeysIn(tt)
    <3>1. PICK q \in DOMAIN tt : tt[q].key = base[i].key
      BY <2>2, KeysOf
    <3>2. PICK p \in DOMAIN b : b[p] = tt[q]
      BY <1>11, <2>2, <3>1
    <3> QED BY <1>19, <3>1, <3>2
  <2>3. CASE base[i].key \notin KeysIn(mt) /\ base[i].key \notin KeysIn(tt)
    <3>1. i \in mk /\ i \in tk
      BY <2>0, <2>3 DEF IsWindowEdit
    <3>2. PICK p \in DOMAIN a : a[p] = base[i]
      BY <1>10, <3>1
    <3> QED BY <1>19, <3>2
  <2> QED BY <2>1, <2>2, <2>3
<1>21. SeenOK(c, until)
  BY <1>15, <1>17 DEF SeenOK, IsRows
<1> QED BY <1>17, <1>18, <1>20, <1>21 DEF Sees, c, ab, a, b

LEMMA WindowedMerge ==
  ASSUME NEW worker, NEW others, NEW until \in Int,
         others.since \in Int, others.until \in Int, worker.since \in Int, worker.until \in Int,
         others.since <= others.until, others.since <= worker.since, worker.since <= worker.until,
         others.until <= until, worker.until <= until,
         NEW base, SeenOK(base, others.since),
         NEW staged, Sees(base, staged, worker.since, worker.until),
         NEW live1, Sees(base, live1, others.since, others.until)
  PROVE  /\ MergeWindowed(base, staged, live1, worker, others) # {}
         /\ \A e \in MergeWindowed(base, staged, live1, worker, others) : Sees(base, e, others.since, until)
<1>0. \A i \in DOMAIN base : base[i].day \in Int
  BY DEF SeenOK
<1>1. CASE staged = base
  <2>1. MergeWindowed(base, staged, live1, worker, others) = {live1}
    BY <1>1 DEF MergeWindowed, Merge
  <2>2. Sees(base, live1, others.since, until)
    BY <1>0, SeesWider
  <2> QED BY <2>1, <2>2
<1>2. CASE staged # base /\ live1 = base
  <2>1. MergeWindowed(base, staged, live1, worker, others) = {staged}
    BY <1>2 DEF MergeWindowed, Merge
  <2>2. Sees(base, staged, others.since, until)
    BY <1>0, SeesWider
  <2> QED BY <2>1, <2>2
<1>3. CASE staged # base /\ live1 # base
  <2>0. SeenOK(base, worker.until) /\ SeenOK(base, others.until)
    BY DEF SeenOK
  <2>1. PICK mk, mt : /\ WindowEdit(base, staged, worker.since, worker.until) = {[kept |-> mk, tail |-> mt]}
                      /\ IsWindowEdit(base, staged, worker.since, worker.until, mk, mt)
    BY <1>3, <2>0, WindowEditFound
  <2>2. PICK tk, tt : /\ WindowEdit(base, live1, others.since, others.until) = {[kept |-> tk, tail |-> tt]}
                      /\ IsWindowEdit(base, live1, others.since, others.until, tk, tt)
    BY <1>3, <2>0, WindowEditFound
  <2> DEFINE Both(m, t) ==
        Survivors(base, m.kept \cap t.kept)
          \o Survivors(t.tail, {i \in DOMAIN t.tail : t.tail[i].key \notin KeysIn(m.tail)}) \o m.tail
             m0 == [kept |-> mk, tail |-> mt]
             t0 == [kept |-> tk, tail |-> tt]
  <2>3. MergeWindowed(base, staged, live1, worker, others) =
          {Both(m, t) : m \in WindowEdit(base, staged, worker.since, worker.until),
                        t \in WindowEdit(base, live1, others.since, others.until)}
    BY <1>3 DEF MergeWindowed, Merge
  <2>4. Sees(base, Both(m0, t0), others.since, until)
    <3> DEFINE both == Survivors(base, mk \cap tk)
                         \o Survivors(tt, {i \in DOMAIN tt : tt[i].key \notin KeysIn(mt)}) \o mt
    <3>1. m0.kept = mk /\ m0.tail = mt /\ t0.kept = tk /\ t0.tail = tt
      OBVIOUS
    <3> HIDE DEF m0, t0
    <3>2. Both(m0, t0) = both
      BY <3>1
    <3>3. Sees(base, both, others.since, until)
      BY <1>3, <2>1, <2>2, BothSee
    <3> HIDE DEF both, Both
    <3> QED BY <3>2, <3>3
  <2> HIDE DEF Both
  <2>5. MergeWindowed(base, staged, live1, worker, others) = {Both(m0, t0)}
    BY <2>1, <2>2, <2>3
  <2> QED BY <2>4, <2>5
<1> QED BY <1>1, <1>2, <1>3

(* A log that another one begins with. *)
Begins(base, other) ==
    /\ IsRows(other) /\ Len(base) <= Len(other)
    /\ \A i \in DOMAIN base : other[i] = base[i]

LEMMA BeginsItself == ASSUME NEW base, IsRows(base) PROVE Begins(base, base)
<1>1. Len(base) \in Nat
  BY DEF IsRows
<1> QED BY <1>1 DEF Begins

LEMMA BeginsLonger ==
  ASSUME NEW base, IsRows(base), NEW other, Begins(base, other), NEW more, IsRows(more)
  PROVE  Begins(base, other \o more)
<1>1. PICK A : base \in Seq(A)
  BY DEF IsRows
<1>2. PICK B : other \in Seq(B)
  BY DEF Begins, IsRows
<1>3. PICK C : more \in Seq(C)
  BY DEF IsRows
<1> DEFINE R == A \cup B \cup C
<1>4. base \in Seq(R) /\ other \in Seq(R) /\ more \in Seq(R)
  BY <1>1, <1>2, <1>3, WiderRows
<1> HIDE DEF R
<1>5. other \o more \in Seq(R) /\ Len(base) <= Len(other \o more)
  BY <1>4 DEF Begins
<1>6. \A i \in DOMAIN base : (other \o more)[i] = base[i]
  <2> TAKE i \in DOMAIN base
  <2>1. i \in 1..Len(other) /\ other[i] = base[i]
    BY <1>4 DEF Begins
  <2> QED BY <1>4, <2>1
<1> QED BY <1>5, <1>6 DEF Begins, IsRows

(* A generic list both sides only appended to. *)
LEMMA LogShapeFound ==
  ASSUME NEW base, IsRows(base), NEW other, Begins(base, other)
  PROVE  \E tail : /\ LogShape(base, other) = {[kept |-> 1..Len(base), tail |-> tail]}
                   /\ IsRows(tail)
<1>1. PICK A : base \in Seq(A)
  BY DEF IsRows
<1>2. PICK B : other \in Seq(B)
  BY DEF Begins, IsRows
<1> DEFINE R == A \cup B
           N == Len(base)
           tail == SubSeq(other, N + 1, Len(other))
           e == [kept |-> 1..N, tail |-> tail]
<1>3. base \in Seq(R) /\ other \in Seq(R)
  BY <1>1, <1>2, WiderRows
<1> HIDE DEF R
<1>4. /\ DOMAIN base = 1..N /\ N \in Nat /\ Len(other) \in Nat /\ N <= Len(other)
      /\ \A i \in 1..N : i <= Len(other) /\ other[i] = base[i]
  BY <1>1, <1>2 DEF Begins
<1>5. KeptHead(base, other) = 1..N /\ Cardinality(KeptHead(base, other)) = N
  BY <1>3, <1>4, KeptHeadOK DEF KeptOK
<1>6. KeptThenAppended(base, other) = e
  BY <1>5 DEF KeptThenAppended
<1>7. base = <<>> \/ 1..N # {}
  <2>1. CASE N = 0
    BY <1>1, <2>1
  <2>2. CASE N # 0
    BY <1>4, <2>2
  <2> QED BY <2>1, <2>2
<1>8. IsRows(tail)
  <2>1. tail \in Seq(R)
    BY <1>3, <1>4, RowsAfter
  <2> QED BY <2>1 DEF IsRows
<1> HIDE DEF N, tail
<1>9. LogShape(base, other) = {e}
  <2>1. e.kept = 1..N
    OBVIOUS
  <2> HIDE DEF e
  <2>2. base = <<>> \/ e.kept # {}
    BY <1>7, <2>1
  <2> QED BY <1>6, <2>2 DEF LogShape
<1> QED BY <1>8, <1>9 DEF N

LEMMA WholeSurvives ==
  ASSUME NEW base, IsRows(base)
  PROVE  Begins(base, Survivors(base, 1..Len(base)))
<1>1. PICK R : base \in Seq(R)
  BY DEF IsRows
<1>2. /\ Survivors(base, 1..Len(base)) \in Seq(R)
      /\ PickedOK(Survivors(base, 1..Len(base)), base, 1..Len(base), Len(base))
  BY <1>1, SurvivorsOK
<1>3. /\ DOMAIN base = 1..Len(base) /\ Len(base) \in Nat /\ 1..Len(base) \subseteq 1..Len(base)
  BY <1>1
<1>4. /\ Len(Survivors(base, 1..Len(base))) = Len(base)
      /\ \A p \in 1..Len(base) : Survivors(base, 1..Len(base))[p] = base[p]
  BY <1>2, <1>3 DEF PickedOK
<1>5. IsRows(Survivors(base, 1..Len(base)))
  BY <1>2 DEF IsRows
<1> QED BY <1>3, <1>4, <1>5 DEF Begins

LEMMA GenericMerge ==
  ASSUME NEW base, IsRows(base), NEW staged, Begins(base, staged), NEW live1, Begins(base, live1)
  PROVE  /\ MergeGeneric(base, staged, live1) # {}
         /\ \A e \in MergeGeneric(base, staged, live1) : Begins(base, e)
<1>1. CASE staged = base \/ live1 = base
  BY <1>1 DEF MergeGeneric, Merge
<1>2. CASE staged # base /\ live1 # base
  <2>1. PICK mt : LogShape(base, staged) = {[kept |-> 1..Len(base), tail |-> mt]} /\ IsRows(mt)
    BY LogShapeFound
  <2>2. PICK tt : LogShape(base, live1) = {[kept |-> 1..Len(base), tail |-> tt]} /\ IsRows(tt)
    BY LogShapeFound
  <2> DEFINE Both(m, t) == Survivors(base, m.kept \cap t.kept) \o t.tail \o m.tail
             m0 == [kept |-> 1..Len(base), tail |-> mt]
             t0 == [kept |-> 1..Len(base), tail |-> tt]
  <2>3. MergeGeneric(base, staged, live1) =
          {Both(m, t) : m \in LogShape(base, staged), t \in LogShape(base, live1)}
    BY <1>2 DEF MergeGeneric, Merge, MergeLogs
  <2>4. Begins(base, Both(m0, t0))
    <3>1. m0.kept \cap t0.kept = 1..Len(base) /\ m0.tail = mt /\ t0.tail = tt
      OBVIOUS
    <3> HIDE DEF m0, t0
    <3>2. Both(m0, t0) = (Survivors(base, 1..Len(base)) \o tt) \o mt
      BY <3>1
    <3>3. Begins(base, Survivors(base, 1..Len(base)) \o tt)
      BY <2>2, WholeSurvives, BeginsLonger
    <3> QED BY <2>1, <3>2, <3>3, BeginsLonger
  <2> HIDE DEF Both
  <2>5. MergeGeneric(base, staged, live1) = {Both(m0, t0)}
    BY <2>1, <2>2, <2>3
  <2> QED BY <2>4, <2>5
<1> QED BY <1>1, <1>2

-----------------------------------------------------------------------------
(* The errors log: full, or nothing of base was dropped yet. *)
LogMoved(base, other) == LogOK(other) /\ (Len(other) = Cap \/ Begins(base, other))

LEMMA LastRowsAre ==
  ASSUME NEW R, NEW rows \in Seq(R)
  PROVE  /\ LastRows(Cap, rows) \in Seq(R)
         /\ Len(rows) <= Cap => LastRows(Cap, rows) = rows
         /\ Len(rows) >= Cap => Len(LastRows(Cap, rows)) = Cap
<1> DEFINE from == Max({1, Len(rows) - Cap + 1})
<1>1. Cap \in Nat \ {0} /\ Len(rows) \in Nat
  BY MergeAssumption
<1>2. from \in {1, Len(rows) - Cap + 1} /\ from >= 1 /\ from >= Len(rows) - Cap + 1
  <2>1. \E x \in {1, Len(rows) - Cap + 1} : \A y \in {1, Len(rows) - Cap + 1} : x >= y
    <3>1. CASE Len(rows) - Cap + 1 >= 1
      BY <1>1, <3>1
    <3>2. CASE ~(Len(rows) - Cap + 1 >= 1)
      BY <1>1, <3>2
    <3> QED BY <3>1, <3>2
  <2> QED BY <2>1 DEF Max
<1>3. LastRows(Cap, rows) = SubSeq(rows, from, Len(rows))
  BY DEF LastRows
<1> HIDE DEF from
<1>4. from \in Nat \ {0}
  BY <1>1, <1>2
<1>5. LastRows(Cap, rows) \in Seq(R)
  BY <1>1, <1>3, <1>4
<1>6. ASSUME Len(rows) <= Cap PROVE LastRows(Cap, rows) = rows
  <2>1. from = 1
    BY <1>1, <1>2, <1>6
  <2> QED BY <1>3, <2>1
<1>7. ASSUME Len(rows) >= Cap PROVE Len(LastRows(Cap, rows)) = Cap
  <2>1. from = Len(rows) - Cap + 1 /\ from <= Len(rows)
    BY <1>1, <1>2, <1>7
  <2>2. Len(SubSeq(rows, from, Len(rows))) = Len(rows) - from + 1
    BY <1>1, <1>4, <2>1
  <2> QED BY <1>1, <1>3, <2>1, <2>2
<1> QED BY <1>5, <1>6, <1>7

(* A log capped after more than base was written still moved from it. *)
LEMMA LastRowsMoved ==
  ASSUME NEW base, NEW rows, IsRows(rows), Len(rows) < Cap => Begins(base, rows)
  PROVE  LogMoved(base, LastRows(Cap, rows))
<1>1. PICK R : rows \in Seq(R)
  BY DEF IsRows
<1>2. Cap \in Nat /\ Len(rows) \in Nat
  BY <1>1, MergeAssumption
<1>3. LogOK(LastRows(Cap, rows))
  BY <1>1, LastRowsOK
<1>4. CASE Len(rows) >= Cap
  BY <1>1, <1>3, <1>4, LastRowsAre DEF LogMoved
<1>5. CASE Len(rows) < Cap
  BY <1>1, <1>2, <1>3, <1>5, LastRowsAre DEF LogMoved
<1> QED BY <1>2, <1>4, <1>5

LEMMA ErrorMoves ==
  ASSUME NEW base, IsRows(base), NEW log, LogMoved(base, log), NEW row
  PROVE  LogMoved(base, LastRows(Cap, Append(log, row)))
<1>1. PICK R : log \in Seq(R)
  BY DEF LogMoved, LogOK
<1>2. Append(log, row) = log \o <<row>> /\ Len(Append(log, row)) = Len(log) + 1 /\ Len(log) \in Nat
  BY <1>1
<1>3. <<row>> \in Seq({row}) /\ Append(log, row) \in Seq(R \cup {row})
  BY <1>1
<1>4. IsRows(<<row>>) /\ IsRows(Append(log, row))
  BY <1>3 DEF IsRows
<1>5. ASSUME Len(Append(log, row)) < Cap PROVE Begins(base, Append(log, row))
  <2>1. Begins(base, log)
    BY <1>2, <1>5, MergeAssumption DEF LogMoved
  <2> QED BY <1>2, <1>4, <2>1, BeginsLonger
<1> QED BY <1>4, <1>5, LastRowsMoved

LEMMA SameRows ==
  ASSUME NEW R, NEW s \in Seq(R), NEW t \in Seq(R), Len(s) = Len(t), \A q \in 1..Len(s) : s[q] = t[q]
  PROVE  s = t
<1>1. s = [q \in 1..Len(s) |-> s[q]] /\ t = [q \in 1..Len(t) |-> t[q]]
  BY SMT
<1>2. DOMAIN s = DOMAIN t /\ \A q \in DOMAIN s : s[q] = t[q]
  OBVIOUS
<1> QED BY <1>1, <1>2
LEMMA FirstRows ==
  ASSUME NEW R, NEW s \in Seq(R), NEW k \in 0..Len(s)
  PROVE  /\ SubSeq(s, 1, k) \in Seq(R) /\ Len(SubSeq(s, 1, k)) = k
         /\ \A q \in 1..k : SubSeq(s, 1, k)[q] = s[q]
  OBVIOUS
LEMMA PrefixRows ==
  ASSUME NEW R, NEW s \in Seq(R), NEW t \in Seq(R)
  PROVE  IsPrefix(s, t) <=> Len(s) <= Len(t) /\ \A q \in 1..Len(s) : s[q] = t[q]
<1>1. Len(s) \in Nat /\ Len(t) \in Nat
  OBVIOUS
<1>2. CASE Len(s) <= Len(t)
  <2> DEFINE a == SubSeq(s, 1, Len(s))
             b == SubSeq(t, 1, Len(s))
  <2>1. a \in Seq(R) /\ Len(a) = Len(s) /\ \A q \in 1..Len(s) : a[q] = s[q]
    BY <1>1, FirstRows
  <2>2. b \in Seq(R) /\ Len(b) = Len(s) /\ \A q \in 1..Len(s) : b[q] = t[q]
    BY <1>1, <1>2, FirstRows
  <2>3. IsPrefix(s, t) <=> a = b
    BY <1>2 DEF IsPrefix
  <2> HIDE DEF a, b
  <2>4. (\A q \in 1..Len(s) : s[q] = t[q]) => a = b
    BY <2>1, <2>2, SameRows
  <2> QED BY <1>2, <2>1, <2>2, <2>3, <2>4
<1>3. CASE ~(Len(s) <= Len(t))
  BY <1>3 DEF IsPrefix
<1> QED BY <1>2, <1>3

After(rows, d) == SubSeq(rows, d + 1, Len(rows))

LEMMA AfterIs ==
  ASSUME NEW R, NEW rows \in Seq(R), NEW d \in 0..Len(rows)
  PROVE  /\ After(rows, d) \in Seq(R) /\ Len(After(rows, d)) = Len(rows) - d
         /\ \A q \in 1..(Len(rows) - d) : After(rows, d)[q] = rows[d + q]
BY RowsAfter DEF After

LEMMA CappedEditFound ==
  ASSUME NEW base, LogOK(base), NEW other, LogMoved(base, other), other # base
  PROVE  \E dropped, tail :
            /\ CappedEdit(base, other) = {[dropped |-> dropped, tail |-> tail]}
            /\ dropped \in 0..Len(base) /\ IsRows(tail)
            /\ Len(other) = (Len(base) - dropped) + Len(tail)
            /\ dropped > 0 => Len(other) = Cap
<1>1. PICK A : base \in Seq(A)
  BY DEF LogOK
<1>2. PICK B : other \in Seq(B)
  BY DEF LogMoved, LogOK
<1>3. PICK R : base \in Seq(R) /\ other \in Seq(R)
  <2>1. base \in Seq(A \cup B) /\ other \in Seq(A \cup B)
    BY <1>1, <1>2, WiderRows
  <2> QED BY <2>1
<1> DEFINE D == {d \in 0..Len(base) : IsPrefix(After(base, d), other)}
<1>4. Len(base) \in Nat /\ Len(other) \in Nat /\ Len(other) <= Cap
  BY <1>3 DEF LogOK, LogMoved
<1>5. \A d \in 0..Len(base) :
        d \in D <=> Len(base) - d <= Len(other)
                    /\ \A q \in 1..(Len(base) - d) : base[d + q] = other[q]
  <2> TAKE d \in 0..Len(base)
  <2>1. /\ After(base, d) \in Seq(R) /\ Len(After(base, d)) = Len(base) - d
        /\ \A q \in 1..(Len(base) - d) : After(base, d)[q] = base[d + q]
    BY <1>3, AfterIs
  <2>2. IsPrefix(After(base, d), other) <=>
           Len(base) - d <= Len(other)
           /\ \A q \in 1..(Len(base) - d) : After(base, d)[q] = other[q]
    BY <1>3, <2>1, PrefixRows
  <2> QED BY <2>1, <2>2
<1>6. Len(base) \in D
  BY <1>4, <1>5
<1>7. D \in SUBSET Nat /\ D # {} /\ D \subseteq 0..Len(base)
  BY <1>4, <1>6
<1>8. CappedEdit(base, other) =
        LET dropped == Min(D)
            tail == SubSeq(other, Len(base) - dropped + 1, Len(other))
        IN {e \in {[dropped |-> dropped, tail |-> tail]} :
              /\ tail # <<>>
              /\ Len(other) <= Cap
              /\ dropped > 0 => Len(other) = Cap}
  BY DEF CappedEdit, After
<1> HIDE DEF D
<1>9. PICK dropped : dropped = Min(D) /\ dropped \in D /\ \A i \in D : dropped <= i
  BY <1>7, SmallestIn
<1>10. dropped \in 0..Len(base) /\ Len(base) - dropped <= Len(other)
       /\ \A q \in 1..(Len(base) - dropped) : base[dropped + q] = other[q]
  <2>1. dropped \in 0..Len(base)
    BY <1>7, <1>9
  <2> QED BY <1>5, <1>9, <2>1
<1>11. dropped > 0 => Len(other) = Cap
  <2>1. ASSUME Begins(base, other) PROVE dropped = 0
    <3>1. /\ Len(base) - 0 <= Len(other)
          /\ \A q \in 1..(Len(base) - 0) : base[0 + q] = other[q]
      BY <1>3, <2>1 DEF Begins
    <3>2. 0 \in D
      BY <1>4, <1>5, <3>1
    <3> QED BY <1>4, <1>9, <1>10, <3>2
  <2> QED BY <2>1 DEF LogMoved
<1>12. PICK tail : tail = SubSeq(other, Len(base) - dropped + 1, Len(other))
  OBVIOUS
<1>13. tail \in Seq(R) /\ Len(tail) = Len(other) - (Len(base) - dropped)
  <2>1. Len(base) - dropped \in 0..Len(other)
    BY <1>4, <1>10
  <2> QED BY <1>3, <1>12, <2>1, RowsAfter
<1>14. tail # <<>>
  <2> SUFFICES ASSUME tail = <<>> PROVE FALSE
    OBVIOUS
  <2>1. Len(other) = Len(base) - dropped
    BY <1>4, <1>10, <1>13
  <2>2. dropped = 0
    BY <1>4, <1>10, <1>11, <2>1 DEF LogOK
  <2>3. \A q \in 1..Len(base) : base[q] = other[q]
    BY <1>4, <1>10, <2>2
  <2>4. base = other
    BY <1>3, <1>4, <2>1, <2>2, <2>3, SameRows
  <2> QED BY <2>4
<1>15. CappedEdit(base, other) = {[dropped |-> dropped, tail |-> tail]}
  BY <1>4, <1>8, <1>9, <1>11, <1>12, <1>14
<1>16. Len(other) = (Len(base) - dropped) + Len(tail)
  BY <1>4, <1>10, <1>13
<1> QED BY <1>10, <1>11, <1>13, <1>15, <1>16 DEF IsRows

LEMMA GreaterOf ==
  ASSUME NEW a \in Int, NEW b \in Int
  PROVE  Max({a, b}) \in {a, b} /\ Max({a, b}) >= a /\ Max({a, b}) >= b
<1>1. \E x \in {a, b} : \A y \in {a, b} : x >= y
  <2>1. CASE a >= b
    BY <2>1
  <2>2. CASE ~(a >= b)
    BY <2>2
  <2> QED BY <2>1, <2>2
<1> QED BY <1>1 DEF Max

(* Two logs capped on their own way from the same base are merged. *)
LEMMA CappedMerge ==
  ASSUME NEW base, LogOK(base), NEW staged, LogMoved(base, staged), NEW live1, LogMoved(base, live1)
  PROVE  /\ MergeCapped(base, staged, live1) # {}
         /\ \A e \in MergeCapped(base, staged, live1) : LogMoved(base, e)
<1>1. CASE staged = base \/ live1 = base
  BY <1>1 DEF MergeCapped, Merge
<1>2. CASE staged # base /\ live1 # base
  <2>1. PICK dm, mt :
            /\ CappedEdit(base, staged) = {[dropped |-> dm, tail |-> mt]}
            /\ dm \in 0..Len(base) /\ IsRows(mt)
            /\ Len(staged) = (Len(base) - dm) + Len(mt)
            /\ dm > 0 => Len(staged) = Cap
    BY <1>2, CappedEditFound
  <2>2. PICK dt, tt :
            /\ CappedEdit(base, live1) = {[dropped |-> dt, tail |-> tt]}
            /\ dt \in 0..Len(base) /\ IsRows(tt)
            /\ Len(live1) = (Len(base) - dt) + Len(tt)
            /\ dt > 0 => Len(live1) = Cap
    BY <1>2, CappedEditFound
  <2> DEFINE Rows(m, t) == SubSeq(base, Max({m.dropped, t.dropped}) + 1, Len(base)) \o t.tail \o m.tail
             m0 == [dropped |-> dm, tail |-> mt]
             t0 == [dropped |-> dt, tail |-> tt]
  <2>3. MergeCapped(base, staged, live1) =
          {LastRows(Cap, Rows(m, t)) : m \in CappedEdit(base, staged), t \in CappedEdit(base, live1)}
    BY <1>2 DEF MergeCapped, Merge
  <2>4. PICK d : d = Max({dm, dt})
    OBVIOUS
  <2>5. Rows(m0, t0) = (After(base, d) \o tt) \o mt
    <3>1. m0.dropped = dm /\ m0.tail = mt /\ t0.dropped = dt /\ t0.tail = tt
      OBVIOUS
    <3> HIDE DEF m0, t0
    <3> QED BY <2>4, <3>1 DEF After
  <2> HIDE DEF Rows
  <2>6. MergeCapped(base, staged, live1) = {LastRows(Cap, Rows(m0, t0))}
    BY <2>1, <2>2, <2>3
  <2> HIDE DEF m0, t0
  <2>7. PICK A : base \in Seq(A)
    BY DEF LogOK
  <2>8. PICK B : tt \in Seq(B)
    BY <2>2 DEF IsRows
  <2>9. PICK C : mt \in Seq(C)
    BY <2>1 DEF IsRows
  <2>10. PICK R : base \in Seq(R) /\ tt \in Seq(R) /\ mt \in Seq(R)
    <3>1. /\ base \in Seq(A \cup B \cup C) /\ tt \in Seq(A \cup B \cup C)
          /\ mt \in Seq(A \cup B \cup C)
      BY <2>7, <2>8, <2>9, WiderRows
    <3> QED BY <3>1
  <2>11. d \in {dm, dt} /\ d \in 0..Len(base) /\ Len(base) \in Nat /\ Cap \in Nat
    <3>1. Len(base) \in Nat /\ Cap \in Nat
      BY <2>7, MergeAssumption
    <3>2. dm \in Int /\ dt \in Int
      BY <2>1, <2>2, <3>1
    <3>3. d \in {dm, dt}
      BY <2>4, <3>2, GreaterOf
    <3> QED BY <2>1, <2>2, <3>1, <3>3
  <2>12. After(base, d) \in Seq(R) /\ Len(After(base, d)) = Len(base) - d
    BY <2>10, <2>11, AfterIs
  <2>13. /\ (After(base, d) \o tt) \o mt \in Seq(R)
         /\ Len((After(base, d) \o tt) \o mt) = ((Len(base) - d) + Len(tt)) + Len(mt)
         /\ Len(tt) \in Nat /\ Len(mt) \in Nat
    BY <2>10, <2>12
  <2>14. ASSUME Len((After(base, d) \o tt) \o mt) < Cap
         PROVE  Begins(base, (After(base, d) \o tt) \o mt)
    <3>1. d = 0
      <4>1. Len(staged) \in Nat /\ Len(live1) \in Nat /\ dm \in Nat /\ dt \in Nat
        BY <2>1, <2>2, <2>11 DEF LogMoved, LogOK
      <4>2. CASE d = dm
        BY <2>1, <2>11, <2>13, <2>14, <4>1, <4>2
      <4>3. CASE d = dt
        BY <2>2, <2>11, <2>13, <2>14, <4>1, <4>3
      <4> QED BY <2>11, <4>2, <4>3
    <3>2. After(base, d) = base
      <4>1. \A q \in 1..Len(base) : After(base, 0)[q] = base[q]
        BY <2>10, <2>11, <3>1, AfterIs
      <4> QED BY <2>10, <2>11, <2>12, <3>1, <4>1, SameRows
    <3>3. IsRows(base)
      BY <2>10 DEF IsRows
    <3> QED BY <2>1, <2>2, <3>2, <3>3, BeginsItself, BeginsLonger
  <2>15. LogMoved(base, LastRows(Cap, (After(base, d) \o tt) \o mt))
    <3>1. IsRows((After(base, d) \o tt) \o mt)
      BY <2>13 DEF IsRows
    <3> QED BY <2>14, <3>1, LastRowsMoved
  <2> QED BY <2>5, <2>6, <2>15
<1> QED BY <1>1, <1>2

(* Fields of which no one was changed on both sides are merged. *)
LEMMA FieldsMerge ==
  ASSUME NEW base, NEW staged, NEW live1,
         \A k \in Fields : staged[k] = base[k] \/ live1[k] = base[k]
  PROVE  MergeFields(base, staged, live1) =
            {[k \in Fields |-> IF staged[k] = base[k] THEN live1[k] ELSE staged[k]]}
BY DEF MergeFields

-----------------------------------------------------------------------------
(* Whole documents.                                                        *)
IsDoc(doc) ==
    /\ doc = [errors |-> doc.errors, seen |-> doc.seen, field |-> doc.field,
              reports |-> doc.reports, queue |-> doc.queue, effects |-> doc.effects]
    /\ doc.field = [k \in Fields |-> doc.field[k]]

(* A document work can start from on this day. *)
IsBase(base, day) ==
    IsDoc(base) /\ LogOK(base.errors) /\ SeenOK(base.seen, day) /\ IsRows(base.reports)

(* A document that edits and merges between two days can have made of base. *)
Moved(base, doc, since, until) ==
    /\ IsDoc(doc)
    /\ LogMoved(base.errors, doc.errors)
    /\ Sees(base.seen, doc.seen, since, until)
    /\ Begins(base.reports, doc.reports)

(* Whether doc has another value of field k than base. *)
Differs(base, doc, k) == k \in Fields /\ doc.field[k] # base.field[k]

LEMMA MovedItself ==
  ASSUME NEW since \in Int, NEW until \in Int, since <= until, NEW base, IsBase(base, since)
  PROVE  Moved(base, base, since, until)
<1>1. IsRows(base.errors)
  BY DEF IsBase, LogOK, IsRows
<1> QED BY <1>1, BeginsItself, SeesItself DEF IsBase, Moved, LogMoved

LEMMA MovedIsBase ==
  ASSUME NEW since \in Int, NEW until \in Int, NEW base, NEW doc, Moved(base, doc, since, until)
  PROVE  IsBase(doc, until)
BY DEF Moved, IsBase, LogMoved, Sees, Begins

(* Further source runs recorded. *)
WithRows(doc, rows) == [doc EXCEPT !.reports = doc.reports \o rows]

LEMMA ReportMoves ==
  ASSUME NEW since \in Int, NEW until \in Int, NEW base, IsBase(base, since),
         NEW doc, Moved(base, doc, since, until), NEW rows, IsRows(rows)
  PROVE  /\ Moved(base, WithRows(doc, rows), since, until)
         /\ \A k : Differs(base, WithRows(doc, rows), k) <=> Differs(base, doc, k)
<1> DEFINE more == doc.reports \o rows
           new == [doc EXCEPT !.reports = more]
<1>1. IsDoc(doc) /\ Begins(base.reports, more)
  BY BeginsLonger DEF IsBase, Moved
<1> HIDE DEF more
<1>2. /\ new.errors = doc.errors /\ new.seen = doc.seen
      /\ new.field = doc.field /\ new.reports = more /\ IsDoc(new)
  BY <1>1 DEF IsDoc
<1> HIDE DEF new
<1>3. Moved(base, new, since, until) /\ \A k : Differs(base, new, k) <=> Differs(base, doc, k)
  BY <1>1, <1>2 DEF Moved, Differs
<1> QED BY <1>3 DEF new, more, WithRows

LEMMA OneMore ==
  ASSUME NEW rows, IsRows(rows), NEW row
  PROVE  Append(rows, row) = rows \o <<row>> /\ IsRows(<<row>>)
<1>1. PICK R : rows \in Seq(R)
  BY DEF IsRows
<1>2. Append(rows, row) = rows \o <<row>> /\ <<row>> \in Seq({row})
  BY <1>1
<1> QED BY <1>2 DEF IsRows

(* One more edit. *)
LEMMA EditMoves ==
  ASSUME NEW since \in Int, NEW until \in Int, NEW base, IsBase(base, since),
         NEW doc, Moved(base, doc, since, until),
         NEW e, e.kind \in EditKinds, e.kind = "observe" => e.day \in since..until
  PROVE  /\ Moved(base, Edited(doc, e), since, until)
         /\ \A k : Differs(doc, Edited(doc, e), k) => e.kind = "bump" /\ e.field = k
<1> DEFINE new == Edited(doc, e)
<1>0. IsDoc(doc)
  BY DEF Moved
<1>1. CASE e.kind = "error"
  <2>1. new = [doc EXCEPT !.errors = LastRows(Cap, Append(doc.errors, e.row))]
    BY <1>1 DEF Edited, LogError
  <2> HIDE DEF new
  <2>2. LogMoved(base.errors, LastRows(Cap, Append(doc.errors, e.row)))
    <3>1. IsRows(base.errors)
      BY DEF IsBase, LogOK, IsRows
    <3> QED BY <3>1, ErrorMoves DEF Moved
  <2>3. /\ new.errors = LastRows(Cap, Append(doc.errors, e.row)) /\ new.seen = doc.seen
        /\ new.field = doc.field /\ new.reports = doc.reports /\ IsDoc(new)
    BY <1>0, <2>1 DEF IsDoc
  <2>4. Moved(base, new, since, until) /\ \A k : ~Differs(doc, new, k)
    BY <2>2, <2>3 DEF Moved, Differs
  <2> QED BY <2>4 DEF new
<1>2. CASE e.kind = "observe"
  <2>1. new = [doc EXCEPT !.seen = Observed(doc.seen, e.key, e.day)]
    BY <1>2 DEF Edited, RecordCandidate
  <2> HIDE DEF new
  <2>2. Sees(base.seen, Observed(doc.seen, e.key, e.day), since, until)
    BY <1>2, ObservedSees DEF IsBase, Moved
  <2>3. /\ new.errors = doc.errors /\ new.seen = Observed(doc.seen, e.key, e.day)
        /\ new.field = doc.field /\ new.reports = doc.reports /\ IsDoc(new)
    BY <1>0, <2>1 DEF IsDoc
  <2>4. Moved(base, new, since, until) /\ \A k : ~Differs(doc, new, k)
    BY <2>2, <2>3 DEF Moved, Differs
  <2> QED BY <2>4 DEF new
<1>3. CASE e.kind = "bump"
  <2> DEFINE field == [doc.field EXCEPT ![e.field] = @ + 1]
  <2>1. new = [doc EXCEPT !.field = field]
    BY <1>0, <1>3 DEF Edited, IsDoc
  <2> HIDE DEF new
  <2>2. field = [k \in Fields |-> field[k]] /\ \A k : field[k] # doc.field[k] => k = e.field
    BY <1>0 DEF IsDoc
  <2> HIDE DEF field
  <2>3. /\ new.errors = doc.errors /\ new.seen = doc.seen
        /\ new.field = field /\ new.reports = doc.reports /\ IsDoc(new)
    BY <1>0, <2>1, <2>2 DEF IsDoc
  <2>4. Moved(base, new, since, until)
    BY <2>3 DEF Moved
  <2> QED BY <1>3, <2>2, <2>3, <2>4 DEF new, Differs
<1>4. CASE e.kind = "enqueue"
  <2>1. new = [doc EXCEPT !.queue = Append(doc.queue, e.row)]
    BY <1>4 DEF Edited
  <2> HIDE DEF new
  <2>3. /\ new.errors = doc.errors /\ new.seen = doc.seen
        /\ new.field = doc.field /\ new.reports = doc.reports /\ IsDoc(new)
    BY <1>0, <2>1 DEF IsDoc
  <2>4. Moved(base, new, since, until) /\ \A k : ~Differs(doc, new, k)
    BY <2>3 DEF Moved, Differs
  <2> QED BY <2>4 DEF new
<1>5. CASE e.kind = "defer"
  <2>1. new = [doc EXCEPT !.effects = Append(doc.effects, e.row)]
    BY <1>5 DEF Edited
  <2> HIDE DEF new
  <2>3. /\ new.errors = doc.errors /\ new.seen = doc.seen
        /\ new.field = doc.field /\ new.reports = doc.reports /\ IsDoc(new)
    BY <1>0, <2>1 DEF IsDoc
  <2>4. Moved(base, new, since, until) /\ \A k : ~Differs(doc, new, k)
    BY <2>3 DEF Moved, Differs
  <2> QED BY <2>4 DEF new
<1>6. CASE e.kind = "report"
  <2>1. new = [doc EXCEPT !.reports = Append(doc.reports, e.row)]
    BY <1>6 DEF Edited, AddSourceRun
  <2> HIDE DEF new
  <2>2. Begins(base.reports, Append(doc.reports, e.row))
    <3>1. IsRows(doc.reports) /\ IsRows(base.reports) /\ Begins(base.reports, doc.reports)
      BY DEF Moved, Begins, IsBase
    <3>2. Append(doc.reports, e.row) = doc.reports \o <<e.row>> /\ IsRows(<<e.row>>)
      BY <3>1, OneMore
    <3> QED BY <3>1, <3>2, BeginsLonger
  <2>3. /\ new.errors = doc.errors /\ new.seen = doc.seen
        /\ new.field = doc.field /\ new.reports = Append(doc.reports, e.row) /\ IsDoc(new)
    BY <1>0, <2>1 DEF IsDoc
  <2>4. Moved(base, new, since, until) /\ \A k : ~Differs(doc, new, k)
    BY <2>2, <2>3 DEF Moved, Differs
  <2> QED BY <2>4 DEF new
<1> QED BY <1>1, <1>2, <1>3, <1>4, <1>5, <1>6 DEF EditKinds

(* A script: its edits, their kinds, and the days observations are of. *)
IsWork(edits, since, until) ==
    /\ \E R : edits \in Seq(R)
    /\ \A i \in DOMAIN edits :
          edits[i].kind \in EditKinds /\ (edits[i].kind = "observe" => edits[i].day \in since..until)

Bumps(edits, k) == \E i \in DOMAIN edits : edits[i].kind = "bump" /\ edits[i].field = k

LEMMA ReplayMoves ==
  ASSUME NEW since \in Int, NEW until \in Int, since <= until, NEW base, IsBase(base, since),
         NEW edits, IsWork(edits, since, until)
  PROVE  /\ Moved(base, Replay(edits, base), since, until)
         /\ \A k : Differs(base, Replay(edits, base), k) => Bumps(edits, k)
<1> DEFINE N == Len(edits)
           f == CHOOSE f : Makes(f, edits, base, N)
<1>1. N \in Nat /\ DOMAIN edits = 1..N
  BY DEF IsWork
<1>2. Makes(f, edits, base, N)
  BY <1>1, MakesExists
<1>3. Replay(edits, base) = f[N]
  BY DEF Replay, Makes
<1> HIDE DEF N, f
<1>4. \A k \in 0..N : f[k] = IF k = 0 THEN base ELSE Edited(f[k - 1], edits[k])
  BY <1>2 DEF Makes
<1> DEFINE Good(n) == /\ Moved(base, f[n], since, until)
                      /\ \A k : Differs(base, f[n], k) => Bumps(edits, k)
           G == {n \in 0..N : Good(n)}
<1>5. 0 \in G
  <2>1. f[0] = base /\ 0 \in 0..N
    BY <1>1, <1>4
  <2>2. Good(0)
    BY <2>1, MovedItself DEF Differs
  <2> QED BY <2>1, <2>2
<1>6. ASSUME NEW n \in 0..N, n \in G, n + 1 \in 0..N PROVE n + 1 \in G
  <2>1. Good(n)
    BY <1>6
  <2>2. n + 1 \in DOMAIN edits /\ f[n + 1] = Edited(f[n], edits[n + 1])
    <3>1. n + 1 # 0 /\ (n + 1) - 1 = n
      BY <1>1
    <3> QED BY <1>1, <1>4, <1>6, <3>1
  <2>3. /\ edits[n + 1].kind \in EditKinds
        /\ edits[n + 1].kind = "observe" => edits[n + 1].day \in since..until
    BY <2>2 DEF IsWork
  <2>4. /\ Moved(base, f[n + 1], since, until)
        /\ \A k : Differs(f[n], f[n + 1], k) => edits[n + 1].kind = "bump" /\ edits[n + 1].field = k
    BY <2>1, <2>2, <2>3, EditMoves
  <2>5. ASSUME NEW k, Differs(base, f[n + 1], k) PROVE Bumps(edits, k)
    <3>1. Differs(base, f[n], k) \/ Differs(f[n], f[n + 1], k)
      BY <2>5 DEF Differs
    <3> QED BY <2>1, <2>2, <2>4, <3>1 DEF Bumps
  <2> QED BY <1>6, <2>4, <2>5
<1> HIDE DEF G
<1>7. N \in G
  <2>1. \A n \in 0..N : n \in G
    BY <1>1, <1>5, <1>6, UpTo
  <2> QED BY <1>1, <2>1
<1> QED BY <1>3, <1>7 DEF G

(* A worker's copy is merged unless a field differs on both sides. *)
LEMMA DocumentsMerge ==
  ASSUME NEW worker, NEW others, NEW until \in Int,
         others.since \in Int, others.until \in Int, worker.since \in Int, worker.until \in Int,
         others.since <= others.until, others.since <= worker.since, worker.since <= worker.until,
         others.until <= until, worker.until <= until,
         NEW base, IsBase(base, others.since),
         NEW staged, Moved(base, staged, worker.since, worker.until),
         NEW doc, Moved(base, doc, others.since, others.until)
  PROVE  /\ MergeDocuments(base, staged, doc, worker, others) = {} =>
               \E k \in Fields : Differs(base, staged, k) /\ Differs(base, doc, k)
         /\ \A merged \in MergeDocuments(base, staged, doc, worker, others) :
               /\ Moved(base, merged, others.since, until)
               /\ \A k : Differs(base, merged, k) => Differs(base, staged, k) \/ Differs(base, doc, k)
<1> DEFINE E == MergeCapped(base.errors, staged.errors, doc.errors)
           S == MergeWindowed(base.seen, staged.seen, doc.seen, worker, others)
           F == MergeFields(base.field, staged.field, doc.field)
           R == MergeGeneric(base.reports, staged.reports, doc.reports)
           queue == doc.queue \o NewRows(base.queue, staged.queue)
           effects == doc.effects \o NewRows(base.effects, staged.effects)
           Joined(e, s, f, r) == [errors |-> e, seen |-> s, field |-> f, reports |-> r,
                                  queue |-> queue, effects |-> effects]
           both == [k \in Fields |-> IF staged.field[k] = base.field[k] THEN doc.field[k] ELSE staged.field[k]]
<1>1. MergeDocuments(base, staged, doc, worker, others) =
         {Joined(e, s, f, r) : e \in E, s \in S, f \in F, r \in R}
  BY DEF MergeDocuments
<1>2. E # {} /\ \A e \in E : LogMoved(base.errors, e)
  BY CappedMerge DEF IsBase, Moved
<1>3. S # {} /\ \A s \in S : Sees(base.seen, s, others.since, until)
  BY WindowedMerge DEF IsBase, Moved
<1>4. R # {} /\ \A r \in R : Begins(base.reports, r)
  BY GenericMerge DEF IsBase, Moved
<1>5. (\A f \in F : f = both) /\ (F = {} => \E k \in Fields : Differs(base, staged, k) /\ Differs(base, doc, k))
  BY DEF MergeFields, Differs
<1>6. \A e, s, f, r :
        /\ Joined(e, s, f, r).errors = e /\ Joined(e, s, f, r).seen = s
        /\ Joined(e, s, f, r).field = f /\ Joined(e, s, f, r).reports = r
        /\ f = [k \in Fields |-> f[k]] => IsDoc(Joined(e, s, f, r))
  BY DEF IsDoc
<1>7. both = [k \in Fields |-> both[k]]
      /\ \A k \in Fields : both[k] # base.field[k] => staged.field[k] # base.field[k] \/ doc.field[k] # base.field[k]
  OBVIOUS
<1> HIDE DEF E, S, F, R, Joined, both, queue, effects
<1>8. MergeDocuments(base, staged, doc, worker, others) = {} => F = {}
  <2> SUFFICES ASSUME F # {} PROVE MergeDocuments(base, staged, doc, worker, others) # {}
    OBVIOUS
  <2>1. PICK e \in E, s \in S, f \in F, r \in R : TRUE
    BY <1>2, <1>3, <1>4
  <2>2. Joined(e, s, f, r) \in MergeDocuments(base, staged, doc, worker, others)
    BY <1>1
  <2> QED BY <2>2
<1>9. ASSUME NEW merged \in MergeDocuments(base, staged, doc, worker, others)
      PROVE  /\ Moved(base, merged, others.since, until)
             /\ \A k : Differs(base, merged, k) => Differs(base, staged, k) \/ Differs(base, doc, k)
  <2>1. PICK e \in E, s \in S, f \in F, r \in R : merged = Joined(e, s, f, r)
    BY <1>1
  <2>2. /\ merged.errors = e /\ merged.seen = s /\ merged.field = both /\ merged.reports = r
        /\ IsDoc(merged)
    BY <1>5, <1>6, <1>7, <2>1
  <2> QED BY <1>2, <1>3, <1>4, <1>7, <2>1, <2>2 DEF Moved, Differs
<1> QED BY <1>5, <1>8, <1>9

-----------------------------------------------------------------------------
(* Why a runner is refused.                                                *)

(* A stage still open, and observed as v: what its flags say of the time. *)
FlagsOK(x, v) ==
    /\ x.thread = "none" => x.fate = "open" /\ ~x.cancelled
    /\ x.fate = "open" =>
          /\ x.thread # "withdrawn"
          /\ x.thread = "queued" => ~x.cancelled /\ ~x.onTime
          /\ x.thread = "running" => ~x.onTime /\ (x.cancelled => x.left < 0)
          /\ x.thread \in {"stamped", "done"} /\ x.onTime => ~x.cancelled
          /\ v \notin {"none", "timeout"} => x.thread = "done" /\ x.onTime

FlagsInv == \A s \in Sources : FlagsOK(stage[s], verdict[s])

(* Runner s works on the base of the open batch and is not settled. *)
Awaited(s) == stage[s].thread # "none" /\ stage[s].fate = "open" /\ batch.opened <= stage[s].since

OpenInv ==
    /\ main.phase = "waiting" => Awaited(Serial[main.at])
    /\ main.phase = "dispatch" => \A i \in Runnable : i < main.at => Awaited(Concurrent[i])
    /\ main.phase = "await" =>
          \A i \in Runnable : i >= main.at \/ verdict[Concurrent[i]] # "timeout" => Awaited(Concurrent[i])
    /\ main.phase = "settle" =>
          \A i \in Runnable : i >= main.at /\ verdict[Concurrent[i]] # "timeout" => Awaited(Concurrent[i])

(* The live document is what edits of the batch's days made of its base. *)
BatchOK(b, doc, day) ==
    /\ b = [base |-> b.base, opened |-> b.opened, until |-> b.until]
    /\ b.opened \in 1..day /\ b.until \in b.opened..day
    /\ IsBase(b.base, b.opened)
    /\ Moved(b.base, doc, b.opened, b.until)

BatchInv == BatchOK(batch, live, today)

PromotedWith(k) == \E t \in ToSet(Concurrent) : stage[t].fate = "promoted" /\ Bumps(stage[t].edits, k)

(* While a runner may be settled, only promoted ones changed the fields. *)
BlameInv ==
    main.phase \in {"waiting", "dispatch", "await", "settle"} =>
       \A k : Differs(batch.base, live, k) => PromotedWith(k)

RefusedInv ==
    \A s \in Sources : stage[s].fate = "refused" => \E k : Bumps(stage[s].edits, k) /\ PromotedWith(k)

CauseInv == FlagsInv /\ OpenInv /\ BatchInv /\ BlameInv /\ RefusedInv

-----------------------------------------------------------------------------
LEMMA RecordMoves ==
  ASSUME NEW since \in Int, NEW until \in Int, NEW base, IsBase(base, since),
         NEW doc, Moved(base, doc, since, until), NEW s, NEW what
  PROVE  /\ Moved(base, Recorded(doc, s, what), since, until)
         /\ \A k : Differs(base, Recorded(doc, s, what), k) <=> Differs(base, doc, k)
<1> DEFINE row == <<s, what>>
<1>1. IsRows(doc.reports)
  BY DEF Moved, Begins
<1>2. Append(doc.reports, row) = doc.reports \o <<row>> /\ IsRows(<<row>>)
  <2> HIDE DEF row
  <2> QED BY <1>1, OneMore
<1>3. Recorded(doc, s, what) = WithRows(doc, <<row>>)
  BY <1>2 DEF Recorded, AddSourceRun, WithRows
<1> HIDE DEF row
<1> QED BY <1>2, <1>3, ReportMoves

LEMMA SkipsMove ==
  ASSUME NEW since \in Int, NEW until \in Int, NEW base, IsBase(base, since),
         NEW doc, Moved(base, doc, since, until)
  PROVE  Moved(base, WithSkips(doc), since, until)
<1> DEFINE rows == [i \in DOMAIN Tripped |-> <<Tripped[i], "skipped">>]
<1>1. Tripped \in Seq(Sources)
  BY Lists, SurvivorsOK DEF Tripped
<1>2. rows \in Seq(Sources \X {"skipped"})
  BY <1>1
<1>3. WithSkips(doc) = WithRows(doc, rows)
  BY DEF WithSkips, WithRows
<1> HIDE DEF rows
<1>4. IsRows(rows)
  BY <1>2 DEF IsRows
<1> QED BY <1>3, <1>4, ReportMoves

LEMMA SeenAtFirst == SeenOK(Seen, 1)
<1>1. Seen \in Seq(ToSet(Seen)) /\ IsInjective(Keys(Seen)) /\ \A r \in ToSet(Seen) : r.day \in Int /\ r.day <= 1
  BY StagingAssumption
<1>2. DistinctKeys(Seen)
  <2>1. DOMAIN Keys(Seen) = DOMAIN Seen /\ \A i \in DOMAIN Seen : Keys(Seen)[i] = Seen[i].key
    BY DEF Keys
  <2> QED BY <1>1, <2>1 DEF IsInjective, DistinctKeys
<1>3. \A p \in DOMAIN Seen : Seen[p] \in ToSet(Seen)
  BY DEF ToSet
<1> QED BY <1>1, <1>2, <1>3 DEF SeenOK

LEMMA CauseStart == StagingInit => CauseInv
<1> SUFFICES ASSUME StagingInit PROVE CauseInv
  OBVIOUS
<1>1. /\ \A s \in Sources : stage[s] = NoStage /\ verdict[s] = "none"
      /\ main.phase = "serial" /\ today = 1
      /\ batch = [base |-> live, opened |-> today, until |-> today]
      /\ live = [EmptyDocument EXCEPT !.seen = Seen]
  BY DEF StagingInit
<1>2. /\ live.errors = <<>> /\ live.seen = Seen /\ live.reports = <<>> /\ IsDoc(live)
  BY <1>1 DEF EmptyDocument, IsDoc
<1>3. IsRows(<<>>)
  <2>1. <<>> \in Seq({})
    OBVIOUS
  <2> QED BY <2>1 DEF IsRows
<1>4. IsBase(live, 1)
  BY <1>2, <1>3, Amounts, SeenAtFirst DEF IsBase
<1>5. BatchInv
  <2>1. Moved(live, live, 1, 1)
    BY <1>4, MovedItself
  <2> QED BY <1>1, <1>4, <2>1 DEF BatchInv, BatchOK
<1>6. FlagsInv /\ RefusedInv
  BY <1>1 DEF FlagsInv, FlagsOK, NoStage, RefusedInv
<1>7. OpenInv /\ BlameInv
  BY <1>1 DEF OpenInv, BlameInv
<1> QED BY <1>5, <1>6, <1>7 DEF CauseInv

-----------------------------------------------------------------------------
(* Workers and time: a stage keeps its fate, and once settled its edits. *)
Quiet(x, y) ==
    /\ y.fate = x.fate /\ y.since = x.since
    /\ x.fate # "open" => y.edits = x.edits
    /\ x.thread # "none" => y.thread # "none"

LEMMA QuietKeeps ==
  ASSUME MainInv, CauseInv, FlagsInv', UNCHANGED <<main, timeouts, verdict, live, batch>>,
         today \in Int, today' \in Int, today <= today',
         \A s \in Sources : Quiet(stage[s], stage'[s])
  PROVE  CauseInv'
<1>1. Runnable' = Runnable
  BY DEF Runnable, BreakerOpen
<1>2. \A s \in Sources : Awaited(s) => Awaited(s)'
  BY DEF Awaited, Quiet
<1>3. OpenInv'
  <2>1. main.phase = "waiting" => Serial[main.at] \in Sources
    BY Lists DEF MainInv
  <2>2. \A i \in Runnable : Concurrent[i] \in Sources
    BY Lists
  <2> QED BY <1>1, <1>2, <2>1, <2>2 DEF CauseInv, OpenInv
<1>4. BatchInv'
  BY DEF CauseInv, BatchInv, BatchOK
<1>5. \A t \in Sources : stage'[t].fate = stage[t].fate
                         /\ (stage[t].fate # "open" => stage'[t].edits = stage[t].edits)
  BY DEF Quiet
<1>6. \A k : PromotedWith(k) => PromotedWith(k)'
  <2>1. ToSet(Concurrent) \subseteq Sources
    BY DEF Sources
  <2> QED BY <1>5, <2>1 DEF PromotedWith
<1>7. BlameInv'
  BY <1>6 DEF CauseInv, BlameInv
<1>8. RefusedInv'
  BY <1>5, <1>6 DEF CauseInv, RefusedInv
<1> QED BY <1>3, <1>4, <1>7, <1>8 DEF CauseInv

LEMMA WorkerQuiet ==
  ASSUME StageInv, CauseInv, today \in Int, NEW s \in Sources, NEW y, Worker(s, y),
         FlagsOK(y, verdict[s]), Quiet(stage[s], y)
  PROVE  CauseInv'
<1>1. /\ stage' = [stage EXCEPT ![s] = y]
      /\ UNCHANGED <<today, timeouts, main, live, batch, verdict>>
  BY DEF Worker
<1>2. stage'[s] = y /\ \A t \in Sources \ {s} : stage'[t] = stage[t]
  BY <1>1 DEF StageInv, TypeInv
<1>3. FlagsInv'
  BY <1>1, <1>2 DEF CauseInv, FlagsInv
<1>4. \A t \in Sources : Quiet(stage[t], stage'[t])
  <2> TAKE t \in Sources
  <2>1. CASE t = s
    BY <1>2, <2>1
  <2>2. CASE t # s
    BY <1>2, <2>2 DEF Quiet
  <2> QED BY <2>1, <2>2
<1> QED BY <1>1, <1>3, <1>4, QuietKeeps DEF StageInv

LEMMA WorkerCause ==
  ASSUME StageInv, CauseInv, LogsInv, WorkerStep
  PROVE  CauseInv'
<1> PICK s \in Sources :
        \/ Start(s)
        \/ Consult(s)
        \/ \E outcome \in Outcomes \ {"none"}, script \in ScriptsOf(s, stage[s].since, today) :
              Execute(s, outcome, script)
        \/ ExecuteDiscarded(s)
        \/ NoteLate(s)
  BY DEF WorkerStep
<1>0. /\ StageOK(stage[s]) /\ FlagsOK(stage[s], verdict[s]) /\ today \in Int
      /\ stage[s].left \in Int /\ FateOK(s, stage[s], verdict[s], Tried)
  BY DEF StageInv, TypeInv, FatesInv, CauseInv, FlagsInv, LogsInv, DetailOK
<1>1. CASE Start(s)
  <2> DEFINE y == [stage[s] EXCEPT !.thread = "running"]
  <2>1. Worker(s, y) /\ stage[s].thread = "queued"
    BY <1>1 DEF Start
  <2>2. /\ y.thread = "running" /\ y.fate = stage[s].fate /\ y.since = stage[s].since
        /\ y.edits = stage[s].edits /\ y.cancelled = stage[s].cancelled /\ y.onTime = stage[s].onTime
    BY <1>0 DEF StageOK
  <2> HIDE DEF y
  <2>3. FlagsOK(y, verdict[s]) /\ Quiet(stage[s], y)
    BY <1>0, <2>1, <2>2 DEF FlagsOK, Quiet
  <2> QED BY <1>0, <2>1, <2>3, WorkerQuiet
<1>2. CASE Consult(s)
  <2> DEFINE y == [stage[s] EXCEPT !.cancelled = TRUE]
  <2>1. Worker(s, y) /\ stage[s].thread = "running" /\ stage[s].left < 0
    BY <1>2 DEF Consult
  <2>2. /\ y.thread = stage[s].thread /\ y.fate = stage[s].fate /\ y.since = stage[s].since
        /\ y.edits = stage[s].edits /\ y.left = stage[s].left /\ y.onTime = stage[s].onTime
    BY <1>0 DEF StageOK
  <2> HIDE DEF y
  <2>3. FlagsOK(y, verdict[s]) /\ Quiet(stage[s], y)
    BY <1>0, <2>1, <2>2 DEF FlagsOK, Quiet
  <2> QED BY <1>0, <2>1, <2>3, WorkerQuiet
<1>3. ASSUME NEW outcome \in Outcomes \ {"none"}, NEW script, Execute(s, outcome, script)
      PROVE  CauseInv'
  <2> DEFINE onTime == stage[s].left >= 0
             edits == IF outcome = "returned"
                      THEN Append(script, [kind |-> "report", row |-> <<s, "ok">>]) ELSE script
             y1 == [stage[s] EXCEPT !.thread = "stamped"]
             y2 == [y1 EXCEPT !.outcome = outcome]
             y3 == [y2 EXCEPT !.onTime = onTime]
             y4 == [y3 EXCEPT !.until = today]
             y == [y4 EXCEPT !.edits = edits]
  <2>1. Worker(s, y) /\ stage[s].thread = "running" /\ stage[s].fate = "open"
    BY <1>3 DEF Execute
  <2> HIDE DEF edits
  <2>2. /\ y.thread = "stamped" /\ y.fate = stage[s].fate /\ y.since = stage[s].since
        /\ y.cancelled = stage[s].cancelled /\ y.onTime = onTime
    <3> HIDE DEF onTime
    <3>1. /\ StageOK(y1) /\ y1.thread = "stamped" /\ y1.fate = stage[s].fate /\ y1.since = stage[s].since
          /\ y1.cancelled = stage[s].cancelled
      BY <1>0 DEF StageOK
    <3> HIDE DEF y1
    <3>2. /\ StageOK(y2) /\ y2.thread = "stamped" /\ y2.fate = stage[s].fate /\ y2.since = stage[s].since
          /\ y2.cancelled = stage[s].cancelled
      BY <3>1 DEF StageOK
    <3> HIDE DEF y2
    <3>3. /\ StageOK(y3) /\ y3.thread = "stamped" /\ y3.fate = stage[s].fate /\ y3.since = stage[s].since
          /\ y3.cancelled = stage[s].cancelled /\ y3.onTime = onTime
      BY <3>2 DEF StageOK
    <3> HIDE DEF y3
    <3>4. /\ StageOK(y4) /\ y4.thread = "stamped" /\ y4.fate = stage[s].fate /\ y4.since = stage[s].since
          /\ y4.cancelled = stage[s].cancelled /\ y4.onTime = onTime
      BY <3>3 DEF StageOK
    <3> HIDE DEF y4
    <3> QED BY <3>4 DEF StageOK
  <2> HIDE DEF y
  <2>3. FlagsOK(y, verdict[s]) /\ Quiet(stage[s], y)
    <3>1. onTime => ~stage[s].cancelled
      BY <1>0, <2>1 DEF FlagsOK
    <3> HIDE DEF onTime
    <3> QED BY <1>0, <2>1, <2>2, <3>1 DEF FlagsOK, Quiet
  <2> QED BY <1>0, <2>1, <2>3, WorkerQuiet
<1>4. CASE ExecuteDiscarded(s)
  <2> DEFINE y == [stage[s] EXCEPT !.thread = "stamped"]
  <2>1. Worker(s, y) /\ stage[s].thread = "running" /\ stage[s].fate # "open"
    BY <1>4 DEF ExecuteDiscarded
  <2>2. /\ y.thread = "stamped" /\ y.fate = stage[s].fate /\ y.since = stage[s].since
        /\ y.edits = stage[s].edits
    BY <1>0 DEF StageOK
  <2> HIDE DEF y
  <2>3. FlagsOK(y, verdict[s]) /\ Quiet(stage[s], y)
    BY <1>0, <2>1, <2>2 DEF FlagsOK, Quiet
  <2> QED BY <1>0, <2>1, <2>3, WorkerQuiet
<1>5. CASE NoteLate(s)
  <2> DEFINE y == [stage[s] EXCEPT !.thread = "done"]
  <2>1. Worker(s, y) /\ stage[s].thread = "stamped"
    BY <1>5 DEF NoteLate
  <2>2. /\ y.thread = "done" /\ y.fate = stage[s].fate /\ y.since = stage[s].since
        /\ y.edits = stage[s].edits /\ y.cancelled = stage[s].cancelled /\ y.onTime = stage[s].onTime
    BY <1>0 DEF StageOK
  <2> HIDE DEF y
  <2>3. FlagsOK(y, verdict[s]) /\ Quiet(stage[s], y)
    BY <1>0, <2>1, <2>2 DEF FlagsOK, Quiet
  <2> QED BY <1>0, <2>1, <2>3, WorkerQuiet
<1> QED BY <1>1, <1>2, <1>3, <1>4, <1>5

LEMMA TickCause ==
  ASSUME StageInv, CauseInv, LogsInv, Tick
  PROVE  CauseInv'
<1>1. UNCHANGED <<today, timeouts, main, live, batch, verdict>> /\ today \in Int
  BY DEF Tick, LogsInv
<1>2. ASSUME NEW s \in Sources
      PROVE  FlagsOK(stage'[s], verdict[s]) /\ Quiet(stage[s], stage'[s])
  <2>0. /\ StageOK(stage[s]) /\ FlagsOK(stage[s], verdict[s]) /\ stage[s].left \in Int
    BY DEF StageInv, TypeInv, CauseInv, FlagsInv, LogsInv, DetailOK
  <2>1. CASE stage'[s] = stage[s]
    BY <2>0, <2>1 DEF Quiet
  <2>2. CASE stage'[s] = [stage[s] EXCEPT !.left = stage[s].left - 1]
    <3>1. /\ stage'[s].thread = stage[s].thread /\ stage'[s].fate = stage[s].fate
          /\ stage'[s].since = stage[s].since /\ stage'[s].edits = stage[s].edits
          /\ stage'[s].cancelled = stage[s].cancelled /\ stage'[s].onTime = stage[s].onTime
          /\ stage'[s].left = stage[s].left - 1
      BY <2>0, <2>2 DEF StageOK
    <3> QED BY <2>0, <3>1 DEF FlagsOK, Quiet
  <2> QED BY <2>1, <2>2 DEF Tick
<1>3. FlagsInv'
  BY <1>1, <1>2 DEF FlagsInv
<1> QED BY <1>1, <1>2, <1>3, QuietKeeps DEF StageInv

LEMMA NothingCause ==
  ASSUME StageInv, CauseInv, LogsInv, UNCHANGED <<main, timeouts, verdict, live, batch, stage>>,
         today' \in Int, today <= today'
  PROVE  CauseInv'
<1>1. FlagsInv' /\ today \in Int /\ \A s \in Sources : Quiet(stage[s], stage'[s])
  BY DEF CauseInv, FlagsInv, LogsInv, Quiet
<1> QED BY <1>1, QuietKeeps DEF StageInv

-----------------------------------------------------------------------------
(* Settling a runner that is awaited.                                      *)

(* Runner s, settled as x: who was promoted answers for what differs now. *)
SettledFor(s, x) ==
    /\ stage' = [stage EXCEPT ![s] = x]
    /\ x.thread # "none" /\ x.fate # "open"
    /\ x.fate = "refused" => \E k : Bumps(x.edits, k) /\ PromotedWith(k)
    /\ BatchInv' /\ batch'.opened = batch.opened
    /\ \A k : Differs(batch'.base, live', k) =>
          PromotedWith(k) \/ (x.fate = "promoted" /\ Bumps(x.edits, k))

LEMMA SettledEdits ==
  ASSUME NEW s \in Sources, NEW fate
  PROVE  /\ Settled(s, fate).thread = stage[s].thread /\ Settled(s, fate).fate = fate
         /\ Settled(s, fate).edits = stage[s].edits
<1> DEFINE y1 == [NoStage EXCEPT !.thread = stage[s].thread]
           y2 == [y1 EXCEPT !.cancelled = stage[s].cancelled]
           y3 == [y2 EXCEPT !.edits = stage[s].edits]
           y4 == [y3 EXCEPT !.fate = fate]
<1>1. StageOK(y1)
  BY NoStageOK DEF StageOK
<1> HIDE DEF y1
<1>2. StageOK(y2)
  BY <1>1 DEF StageOK
<1> HIDE DEF y2
<1>3. StageOK(y3) /\ y3.edits = stage[s].edits
  BY <1>2 DEF StageOK
<1> HIDE DEF y3
<1>4. y4.edits = stage[s].edits
  BY <1>3 DEF StageOK
<1>5. y4 = Settled(s, fate)
  BY DEF y1, y2, y3, Settled
<1> QED BY <1>4, <1>5, SettledShape

(* What is recorded of a runner on the live document. *)
LEMMA RecordedBatch ==
  ASSUME NEW b, NEW doc, NEW day \in Int, BatchOK(b, doc, day), NEW s, NEW what
  PROVE  /\ BatchOK(b, Recorded(doc, s, what), day)
         /\ \A k : Differs(b.base, Recorded(doc, s, what), k) <=> Differs(b.base, doc, k)
<1>1. b.opened \in Int /\ b.until \in Int
  BY DEF BatchOK
<1> QED BY <1>1, RecordMoves DEF BatchOK

LEMMA TimeoutFor ==
  ASSUME StageInv, CauseInv, LogsInv, NEW s \in Sources, Awaited(s), SettleTimeout(s), today' = today,
         main.phase \in {"waiting", "dispatch", "await", "settle"}
  PROVE  \E x : SettledFor(s, x) /\ x.fate = "timeout"
<1> DEFINE old == Settled(s, "timeout")
           thread == IF old.thread = "queued" THEN "withdrawn" ELSE old.thread
           x1 == [old EXCEPT !.thread = thread]
           x2 == [x1 EXCEPT !.cancelled = TRUE]
           x3 == [x2 EXCEPT !.edits = <<>>]
<1>1. stage' = [stage EXCEPT ![s] = x3] /\ live' = Recorded(live, s, "timeout") /\ batch' = batch
  BY DEF SettleTimeout
<1>2. StageOK(old) /\ old.thread = stage[s].thread /\ old.fate = "timeout"
  BY SettledShape
<1> HIDE DEF old
<1>3. thread # "none"
  BY <1>2 DEF Awaited
<1> HIDE DEF thread
<1>4. StageOK(x1) /\ x1.thread = thread /\ x1.fate = "timeout"
  BY <1>2 DEF StageOK
<1> HIDE DEF x1
<1>5. StageOK(x2) /\ x2.thread = thread /\ x2.fate = "timeout"
  BY <1>4, Cancelled
<1> HIDE DEF x2
<1>6. x3.thread = thread /\ x3.fate = "timeout"
  BY <1>5 DEF StageOK
<1> HIDE DEF x3
<1>7. today \in Int /\ BatchOK(batch, live, today)
  BY DEF LogsInv, CauseInv, BatchInv
<1>8. BatchInv' /\ \A k : Differs(batch.base, live', k) <=> Differs(batch.base, live, k)
  BY <1>1, <1>7, RecordedBatch DEF BatchInv
<1>9. \A k : Differs(batch.base, live', k) => PromotedWith(k)
  BY <1>8 DEF CauseInv, BlameInv
<1> QED BY <1>1, <1>3, <1>6, <1>8, <1>9 DEF SettledFor

LEMMA OnTimeFor ==
  ASSUME StageInv, CauseInv, LogsInv, NEW s \in Sources, Awaited(s), NEW v, SettleOnTime(s, v),
         stage[s].thread = "done", stage[s].onTime, today' = today,
         main.phase \in {"waiting", "dispatch", "await", "settle"}
  PROVE  \E x : SettledFor(s, x)
<1> DEFINE staged == Replay(stage[s].edits, batch.base)
           others == [since |-> batch.opened, until |-> batch.until]
           Merged == MergeDocuments(batch.base, staged, live, stage[s], others)
           Failed(doc) == IF v = "raised" THEN Recorded(doc, s, "failed") ELSE doc
           until == Max({batch.until, stage[s].until})
<1>1. /\ stage[s].fate = "open" /\ stage[s].since \in batch.opened..today
      /\ stage[s].until \in stage[s].since..today /\ today \in Nat
      /\ batch.opened \in 1..today /\ batch.until \in batch.opened..today
      /\ IsWork(stage[s].edits, stage[s].since, stage[s].until)
  <2>1. DetailOK(stage[s]) /\ TimeOK(stage[s], today) /\ today \in 1..MaxDay /\ MaxDay \in Nat
    BY Amounts DEF LogsInv
  <2>2. batch.opened \in 1..today /\ batch.until \in batch.opened..today
    BY DEF CauseInv, BatchInv, BatchOK
  <2>3. IsWork(stage[s].edits, stage[s].since, stage[s].until)
    BY <2>1 DEF Awaited, DetailOK, TimeOK, IsScript, IsWork
  <2> QED BY <2>1, <2>2, <2>3 DEF Awaited, TimeOK
<1>2. IsBase(batch.base, batch.opened) /\ Moved(batch.base, live, batch.opened, batch.until)
  BY DEF CauseInv, BatchInv, BatchOK
<1>3. /\ Moved(batch.base, staged, stage[s].since, stage[s].until)
      /\ \A k : Differs(batch.base, staged, k) => Bumps(stage[s].edits, k)
  <2>1. IsBase(batch.base, stage[s].since)
    BY <1>1, <1>2 DEF IsBase, SeenOK
  <2> QED BY <1>1, <2>1, ReplayMoves
<1> HIDE DEF staged
<1>4. until \in {batch.until, stage[s].until} /\ until >= batch.until /\ until >= stage[s].until
  BY <1>1, GreaterOf
<1> HIDE DEF until
<1>5. until \in batch.opened..today
  BY <1>1, <1>4
<1>6. others.since = batch.opened /\ others.until = batch.until
  OBVIOUS
<1>7. Promotion(s) = Merged
  <2>1. ~Refusal(s)
    BY <1>1 DEF Refusal, CauseInv, FlagsInv, FlagsOK
  <2> QED BY <2>1 DEF Promotion, staged
<1> HIDE DEF others
<1>8. /\ Merged = {} => \E k \in Fields : Differs(batch.base, staged, k) /\ Differs(batch.base, live, k)
      /\ \A doc \in Merged :
            /\ Moved(batch.base, doc, batch.opened, until)
            /\ \A k : Differs(batch.base, doc, k) => Differs(batch.base, staged, k) \/ Differs(batch.base, live, k)
  BY <1>1, <1>2, <1>3, <1>4, <1>5, <1>6, DocumentsMerge
<1> HIDE DEF Merged
<1>9. \A k : Differs(batch.base, live, k) => PromotedWith(k)
  BY DEF CauseInv, BlameInv
<1>10. ASSUME NEW b, NEW doc, BatchOK(b, doc, today)
       PROVE  /\ BatchOK(b, Failed(doc), today)
              /\ \A k : Differs(b.base, Failed(doc), k) <=> Differs(b.base, doc, k)
  <2>1. CASE v = "raised"
    <3>1. Failed(doc) = Recorded(doc, s, "failed") /\ today \in Int
      BY <1>1, <2>1
    <3> HIDE DEF Failed
    <3> QED BY <1>10, <3>1, RecordedBatch
  <2>2. CASE v # "raised"
    <3>1. Failed(doc) = doc
      BY <2>2
    <3> HIDE DEF Failed
    <3> QED BY <1>10, <3>1
  <2> QED BY <2>1, <2>2
<1>11. BatchOK(batch, live, today)
  BY DEF CauseInv, BatchInv
<1>12. CASE Merged = {}
  <2> DEFINE x == Settled(s, "refused")
  <2>1. /\ stage' = [stage EXCEPT ![s] = x]
        /\ live' = Failed(Recorded(live, s, "conflict")) /\ batch' = batch
    BY <1>7, <1>12 DEF SettleOnTime
  <2>2. x.thread = "done" /\ x.fate = "refused" /\ x.edits = stage[s].edits
    BY SettledEdits
  <2> HIDE DEF x, Failed
  <2>3. PICK k : Differs(batch.base, staged, k) /\ Differs(batch.base, live, k)
    BY <1>8, <1>12
  <2>4. Bumps(x.edits, k) /\ PromotedWith(k)
    BY <1>3, <1>9, <2>2, <2>3
  <2>5. BatchInv' /\ \A j : Differs(batch.base, live', j) <=> Differs(batch.base, live, j)
    <3> DEFINE first == Recorded(live, s, "conflict")
    <3>1. BatchOK(batch, first, today) /\ \A j : Differs(batch.base, first, j) <=> Differs(batch.base, live, j)
      BY <1>1, <1>11, RecordedBatch
    <3> HIDE DEF first
    <3>2. /\ BatchOK(batch, Failed(first), today)
          /\ \A j : Differs(batch.base, Failed(first), j) <=> Differs(batch.base, first, j)
      BY <1>10, <3>1
    <3> QED BY <2>1, <3>1, <3>2 DEF BatchInv, first
  <2> QED BY <1>9, <2>1, <2>2, <2>4, <2>5 DEF SettledFor
<1>13. CASE Merged # {}
  <2> DEFINE x == Settled(s, "promoted")
  <2>1. /\ stage' = [stage EXCEPT ![s] = x]
        /\ \E doc \in Merged : live' = Failed(doc)
        /\ batch' = [batch EXCEPT !.until = until]
    BY <1>7, <1>13 DEF SettleOnTime, until
  <2>2. x.thread = "done" /\ x.fate = "promoted" /\ x.edits = stage[s].edits
    BY SettledEdits
  <2> HIDE DEF x, Failed
  <2>3. PICK doc \in Merged : live' = Failed(doc)
    BY <2>1
  <2>4. /\ batch' = [base |-> batch'.base, opened |-> batch'.opened, until |-> batch'.until]
        /\ batch'.base = batch.base /\ batch'.opened = batch.opened /\ batch'.until = until
    BY <1>11, <2>1 DEF BatchOK
  <2>5. BatchOK(batch', doc, today)
    BY <1>1, <1>2, <1>5, <1>8, <2>4 DEF BatchOK
  <2>6. BatchInv' /\ \A k : Differs(batch.base, live', k) <=> Differs(batch.base, doc, k)
    BY <1>10, <2>3, <2>4, <2>5 DEF BatchInv
  <2>7. \A k : Differs(batch.base, live', k) => PromotedWith(k) \/ Bumps(x.edits, k)
    BY <1>3, <1>8, <1>9, <2>2, <2>6
  <2> QED BY <2>1, <2>2, <2>4, <2>6, <2>7 DEF SettledFor
<1> QED BY <1>12, <1>13

LEMMA SettledKeeps ==
  ASSUME StageInv, CauseInv, NEW s \in Sources, NEW x, SettledFor(s, x), stage[s].fate = "open",
         \A t \in Sources \ {s} : verdict'[t] = verdict[t]
  PROVE  /\ FlagsInv' /\ RefusedInv' /\ BatchInv'
         /\ \A t \in Sources \ {s} : Awaited(t) => Awaited(t)'
         /\ s \in ToSet(Concurrent) => \A k : Differs(batch'.base, live', k) => PromotedWith(k)'
<1>1. stage'[s] = x /\ \A t \in Sources \ {s} : stage'[t] = stage[t]
  BY DEF SettledFor, StageInv, TypeInv
<1>2. FlagsInv'
  <2> SUFFICES ASSUME NEW t \in Sources PROVE FlagsOK(stage'[t], verdict'[t])
    BY DEF FlagsInv
  <2>1. CASE t = s
    BY <1>1, <2>1 DEF SettledFor, FlagsOK
  <2>2. CASE t # s
    BY <1>1, <2>2 DEF CauseInv, FlagsInv
  <2> QED BY <2>1, <2>2
<1>3. ToSet(Concurrent) \subseteq Sources
  BY DEF Sources
<1>4. ASSUME NEW k, PromotedWith(k) PROVE PromotedWith(k)'
  <2>1. PICK t \in ToSet(Concurrent) : stage[t].fate = "promoted" /\ Bumps(stage[t].edits, k)
    BY <1>4 DEF PromotedWith
  <2>2. stage'[t] = stage[t]
    BY <1>1, <1>3, <2>1
  <2> QED BY <2>1, <2>2 DEF PromotedWith
<1>5. RefusedInv'
  <2> SUFFICES ASSUME NEW t \in Sources, stage'[t].fate = "refused"
               PROVE  \E k : Bumps(stage'[t].edits, k) /\ PromotedWith(k)'
    BY DEF RefusedInv
  <2>1. CASE t = s
    BY <1>1, <1>4, <2>1 DEF SettledFor
  <2>2. CASE t # s
    BY <1>1, <1>4, <2>2 DEF CauseInv, RefusedInv
  <2> QED BY <2>1, <2>2
<1>6. \A t \in Sources \ {s} : Awaited(t) => Awaited(t)'
  BY <1>1 DEF Awaited, SettledFor
<1>7. ASSUME s \in ToSet(Concurrent), NEW k, Differs(batch'.base, live', k) PROVE PromotedWith(k)'
  <2>1. CASE PromotedWith(k)
    BY <1>4, <2>1
  <2>2. CASE x.fate = "promoted" /\ Bumps(x.edits, k)
    BY <1>1, <1>7, <2>2 DEF PromotedWith
  <2> QED BY <1>7, <2>1, <2>2 DEF SettledFor
<1>8. BatchInv'
  BY DEF SettledFor
<1> QED BY <1>2, <1>5, <1>6, <1>7, <1>8

(* A runner dispatched. *)
LEMMA NewKeeps ==
  ASSUME StageInv, CauseInv, LogsInv, NEW s \in Sources, stage[s].thread = "none",
         stage' = [stage EXCEPT ![s] = NewStage], UNCHANGED <<today, verdict>>,
         batch'.opened \in Int, batch'.opened <= today
  PROVE  /\ FlagsInv' /\ RefusedInv' /\ Awaited(s)'
         /\ \A k : PromotedWith(k) => PromotedWith(k)'
         /\ batch'.opened = batch.opened => \A t \in Sources \ {s} : Awaited(t) => Awaited(t)'
<1> DEFINE y1 == [NoStage EXCEPT !.thread = "queued"]
           y2 == [y1 EXCEPT !.left = Budget]
           y3 == [y2 EXCEPT !.since = today]
<1>1. /\ stage'[s] = NewStage /\ \A t \in Sources \ {s} : stage'[t] = stage[t]
  BY DEF StageInv, TypeInv
<1>2. /\ NewStage.thread = "queued" /\ NewStage.fate = "open" /\ NewStage.since = today
      /\ ~NewStage.cancelled /\ ~NewStage.onTime
  <2>0. NoStage.cancelled = FALSE
    BY DEF NoStage
  <2>1. /\ StageOK(y1) /\ y1.thread = "queued" /\ y1.fate = "open" /\ ~y1.cancelled /\ ~y1.onTime
    BY <2>0, NoStageOK DEF StageOK
  <2> HIDE DEF y1
  <2>2. /\ StageOK(y2) /\ y2.thread = "queued" /\ y2.fate = "open" /\ ~y2.cancelled /\ ~y2.onTime
    BY <2>1 DEF StageOK
  <2> HIDE DEF y2
  <2>3. /\ y3.thread = "queued" /\ y3.fate = "open" /\ y3.since = today /\ ~y3.cancelled /\ ~y3.onTime
    BY <2>2 DEF StageOK
  <2>4. y3 = NewStage
    BY DEF y1, y2, NewStage
  <2> QED BY <2>3, <2>4
<1>3. FlagsOK(stage[s], verdict[s])
  BY DEF CauseInv, FlagsInv
<1>4. FlagsOK(NewStage, verdict[s]) /\ stage[s].fate = "open"
  BY <1>2, <1>3 DEF FlagsOK
<1>5. FlagsInv'
  BY <1>1, <1>4 DEF CauseInv, FlagsInv
<1>6. ToSet(Concurrent) \subseteq Sources
  BY DEF Sources
<1>7. ASSUME NEW k, PromotedWith(k) PROVE PromotedWith(k)'
  <2>1. PICK t \in ToSet(Concurrent) : stage[t].fate = "promoted" /\ Bumps(stage[t].edits, k)
    BY <1>7 DEF PromotedWith
  <2>2. stage'[t] = stage[t]
    BY <1>1, <1>4, <1>6, <2>1
  <2> QED BY <2>1, <2>2 DEF PromotedWith
<1>8. RefusedInv'
  <2> SUFFICES ASSUME NEW t \in Sources, stage'[t].fate = "refused"
               PROVE  \E k : Bumps(stage'[t].edits, k) /\ PromotedWith(k)'
    BY DEF RefusedInv
  <2>1. t # s
    BY <1>1, <1>2
  <2> QED BY <1>1, <1>7, <2>1 DEF CauseInv, RefusedInv
<1>9. Awaited(s)'
  BY <1>1, <1>2 DEF Awaited
<1>10. batch'.opened = batch.opened => \A t \in Sources \ {s} : Awaited(t) => Awaited(t)'
  BY <1>1 DEF Awaited
<1> QED BY <1>5, <1>7, <1>8, <1>9, <1>10

(* A batch opens on a document that moved from the last one's base. *)
LEMMA BatchOpens ==
  ASSUME NEW b, NEW day \in Int, NEW doc, BatchOK(b, doc, day), day >= 1
  PROVE  BatchOK([base |-> doc, opened |-> day, until |-> day], doc, day)
<1>1. b.opened \in Int /\ b.until \in Int /\ b.until <= day
  BY DEF BatchOK
<1>2. IsBase(doc, b.until)
  BY <1>1, MovedIsBase DEF BatchOK
<1>3. IsBase(doc, day)
  BY <1>1, <1>2 DEF IsBase, SeenOK
<1>4. Moved(doc, doc, day, day)
  BY <1>3, MovedItself
<1> QED BY <1>3, <1>4 DEF BatchOK

LEMMA VerdictOnTime ==
  ASSUME StageInv, CauseInv, NEW s \in Sources, NEW v \in Verdicts(s), v # "timeout"
  PROVE  v # "none" /\ stage[s].thread = "done" /\ stage[s].onTime
<1>1. v # "none" /\ stage[s].thread = "done"
  BY VerdictOf
<1> QED BY <1>1 DEF Verdicts

LEMMA RunSerialCause ==
  ASSUME StageInv, CauseInv, LogsInv, RunSerial
  PROVE  CauseInv'
<1> DEFINE s == Serial[main.at]
<1>0. /\ s \in Sources /\ stage[s].thread = "none" /\ main.phase = "serial"
      /\ UNCHANGED <<today, timeouts, verdict>> /\ today \in Int /\ today >= 1
      /\ BatchOK(batch, live, today)
  <2>1. main.at \in DOMAIN Serial /\ main.phase = "serial" /\ Undispatched(SerialFrom(main.at))
    BY Lists DEF RunSerial, StageInv, MainInv, Undispatched
  <2>2. s \in SerialFrom(main.at)
    BY <2>1, Lists DEF SerialFrom
  <2> QED BY <2>1, <2>2, Lists DEF RunSerial, Undispatched, LogsInv, CauseInv, BatchInv
<1>1. CASE BreakerOpen(s)
  <2>1. /\ live' = Recorded(live, s, "skipped") /\ UNCHANGED <<batch, stage>>
        /\ main'.phase = "serial"
    BY <1>1 DEF RunSerial, Skip, GoTo
  <2> HIDE DEF s
  <2>2. BatchInv'
    BY <1>0, <2>1, RecordedBatch DEF BatchInv
  <2>3. FlagsInv' /\ RefusedInv' /\ OpenInv' /\ BlameInv'
    BY <1>0, <2>1 DEF CauseInv, FlagsInv, RefusedInv, PromotedWith, OpenInv, BlameInv
  <2> QED BY <2>2, <2>3 DEF CauseInv
<1>2. CASE ~BreakerOpen(s)
  <2>1. /\ stage' = [stage EXCEPT ![s] = NewStage] /\ UNCHANGED live
        /\ batch' = [base |-> live, opened |-> today, until |-> today]
        /\ main'.phase = "waiting" /\ main'.at = main.at
    BY <1>2 DEF RunSerial, OpenBatch, GoTo
  <2>2. BatchInv'
    BY <1>0, <2>1, BatchOpens DEF BatchInv
  <2>3. batch'.opened = today /\ batch'.base = live
    BY <2>1
  <2>4. PICK r \in Sources : r = s
    BY <1>0
  <2>5. FlagsInv' /\ RefusedInv' /\ Awaited(r)'
    <3>1. stage[r].thread = "none" /\ stage' = [stage EXCEPT ![r] = NewStage]
      BY <1>0, <2>1, <2>4
    <3>2. UNCHANGED <<today, verdict>> /\ batch'.opened \in Int /\ batch'.opened <= today
      BY <1>0, <2>3
    <3> HIDE DEF s
    <3> QED BY <3>1, <3>2, NewKeeps
  <2>6. OpenInv'
    BY <2>1, <2>4, <2>5 DEF OpenInv
  <2>7. BlameInv'
    BY <2>1, <2>3 DEF BlameInv, Differs
  <2> QED BY <2>2, <2>5, <2>6, <2>7 DEF CauseInv
<1> QED BY <1>1, <1>2

LEMMA SettleSerialCause ==
  ASSUME StageInv, CauseInv, LogsInv, SettleSerial
  PROVE  CauseInv'
<1> DEFINE s == Serial[main.at]
<1>0. /\ main.phase = "waiting" /\ s \in Sources /\ Awaited(s) /\ today' = today
      /\ main'.phase = "serial"
  BY Lists DEF SettleSerial, GoTo, StageInv, MainInv, CauseInv, OpenInv
<1>1. PICK v \in Verdicts(s) : Settle(s, v) /\ verdict' = [verdict EXCEPT ![s] = v]
  BY DEF SettleSerial
<1> HIDE DEF s
<1>2. PICK x : SettledFor(s, x)
  <2>1. CASE v = "timeout"
    BY <1>0, <1>1, <2>1, TimeoutFor DEF Settle
  <2>2. CASE v # "timeout"
    BY <1>0, <1>1, <2>2, VerdictOnTime, OnTimeFor DEF Settle
  <2> QED BY <2>1, <2>2
<1>3. stage[s].fate = "open" /\ \A t \in Sources \ {s} : verdict'[t] = verdict[t]
  BY <1>0, <1>1 DEF Awaited, StageInv, TypeInv
<1>4. FlagsInv' /\ RefusedInv' /\ BatchInv'
  BY <1>0, <1>2, <1>3, SettledKeeps
<1>5. OpenInv' /\ BlameInv'
  BY <1>0 DEF OpenInv, BlameInv
<1> QED BY <1>4, <1>5 DEF CauseInv

LEMMA GateCause ==
  ASSUME StageInv, CauseInv, LogsInv, Gate
  PROVE  CauseInv'
<1>0. /\ live' = WithSkips(live) /\ UNCHANGED <<today, timeouts, stage, verdict>>
      /\ batch' = [base |-> live', opened |-> today, until |-> today]
      /\ today \in Int /\ today >= 1 /\ BatchOK(batch, live, today)
  BY DEF Gate, LogsInv, CauseInv, BatchInv
<1>1. BatchOK(batch, live', today)
  <2>1. batch.opened \in Int /\ batch.until \in Int
    BY <1>0 DEF BatchOK
  <2> QED BY <1>0, <2>1, SkipsMove DEF BatchOK
<1>2. BatchInv'
  BY <1>0, <1>1, BatchOpens DEF BatchInv
<1>3. FlagsInv' /\ RefusedInv'
  BY <1>0 DEF CauseInv, FlagsInv, RefusedInv, PromotedWith
<1>4. BlameInv'
  <2>1. batch'.base = live'
    BY <1>0
  <2> QED BY <2>1 DEF BlameInv, Differs
<1>5. OpenInv'
  <2>1. CASE Runnable = {}
    BY <2>1 DEF Gate, GoTo, OpenInv
  <2>2. CASE Runnable # {}
    <3>1. main' = [phase |-> "dispatch", at |-> Min(Runnable)]
      BY <2>2 DEF Gate, GoTo
    <3>2. PICK n : n = Min(Runnable) /\ n \in Runnable /\ \A i \in Runnable : n <= i
      BY <1>0, <2>2, Loops, SmallestIn
    <3>3. Runnable' = Runnable /\ \A i \in Runnable : ~(i < n)
      BY <1>0, <3>2, Loops
    <3> QED BY <3>1, <3>2, <3>3 DEF OpenInv
  <2> QED BY <2>1, <2>2
<1> QED BY <1>2, <1>3, <1>4, <1>5 DEF CauseInv

LEMMA DispatchCause ==
  ASSUME StageInv, CauseInv, LogsInv, Dispatch
  PROVE  CauseInv'
<1>0. PICK s \in Sources, n \in Runnable :
         /\ main.phase = "dispatch" /\ main.at = n /\ s = Concurrent[n] /\ stage[s].thread = "none"
         /\ UNCHANGED <<today, timeouts, live, batch, verdict>>
         /\ stage' = [stage EXCEPT ![s] = NewStage]
         /\ Following("dispatch", "await")
  <2>1. main.at \in Runnable /\ Undispatched(RunnableFrom(main.at))
    BY DEF Dispatch, StageInv, MainInv
  <2>2. Concurrent[main.at] \in RunnableFrom(main.at) /\ Concurrent[main.at] \in Sources
    BY <2>1, Loops, Lists DEF RunnableFrom
  <2> QED BY <2>1, <2>2 DEF Dispatch, Undispatched
<1>1. batch'.opened \in Int /\ batch'.opened <= today /\ batch'.opened = batch.opened
  BY <1>0 DEF CauseInv, BatchInv, BatchOK, LogsInv
<1>2. /\ FlagsInv' /\ RefusedInv' /\ Awaited(s)'
      /\ \A k : PromotedWith(k) => PromotedWith(k)'
      /\ \A t \in Sources \ {s} : Awaited(t) => Awaited(t)'
  BY <1>0, <1>1, NewKeeps
<1>3. BatchInv' /\ BlameInv'
  BY <1>0, <1>2 DEF CauseInv, BatchInv, BatchOK, BlameInv
<1>4. ASSUME NEW i \in Runnable, i <= n PROVE Awaited(Concurrent[i])'
  <2>1. i \in Nat /\ n \in Nat /\ Concurrent[i] \in Sources
    BY <1>0, Loops
  <2>2. CASE i = n
    BY <1>0, <1>2, <2>2
  <2>3. CASE i # n
    <3>1. Awaited(Concurrent[i])
      BY <1>0, <1>4, <2>1, <2>3 DEF CauseInv, OpenInv
    <3>2. Concurrent[i] # s
      BY <1>0, <2>3, Lists, Distinct
    <3> QED BY <1>2, <2>1, <3>1, <3>2
  <2> QED BY <2>2, <2>3
<1>5. OpenInv'
  <2>1. /\ main'.at \in Runnable /\ Runnable' = Runnable
        /\ \/ main'.phase = "dispatch" /\ \A i \in Runnable : i < main'.at => i <= n
           \/ main'.phase = "await" /\ \A i \in Runnable : i <= n
    BY <1>0, NextTurn
  <2> QED BY <1>4, <2>1 DEF OpenInv
<1> QED BY <1>2, <1>3, <1>5 DEF CauseInv

LEMMA AwaitCause ==
  ASSUME StageInv, CauseInv, LogsInv, Await
  PROVE  CauseInv'
<1>0. PICK s, n, v :
         /\ s \in Sources /\ n \in Runnable
         /\ main.phase = "await" /\ main.at = n /\ s = Concurrent[n] /\ v \in Verdicts(s)
         /\ verdict' = [verdict EXCEPT ![s] = v] /\ UNCHANGED <<today, timeouts>>
         /\ IF v = "timeout" THEN SettleTimeout(s) ELSE UNCHANGED <<live, batch, stage, serial>>
         /\ Following("await", "settle")
  <2>1. main.at \in Runnable /\ Concurrent[main.at] \in Sources
    BY Loops, Lists DEF Await, StageInv, MainInv
  <2> QED BY <2>1 DEF Await
<1>1. verdict'[s] = v /\ \A t \in Sources \ {s} : verdict'[t] = verdict[t]
  BY <1>0 DEF StageInv, TypeInv
<1>2. /\ n \in Nat /\ \A i \in Runnable : i \in Nat /\ Concurrent[i] \in Sources
      /\ \A i \in Runnable : i # n => Concurrent[i] # s
  BY <1>0, Lists, Distinct
<1>3. \A i \in Runnable : i >= n \/ verdict[Concurrent[i]] # "timeout" => Awaited(Concurrent[i])
  BY <1>0 DEF CauseInv, OpenInv
<1>4. Awaited(s)
  BY <1>0, <1>2, <1>3
<1>5. s \in Sources /\ s \in ToSet(Concurrent)
  BY <1>0, Lists DEF ToSet
<1>6. /\ FlagsInv' /\ RefusedInv' /\ BatchInv'
      /\ \A t \in Sources \ {s} : Awaited(t) => Awaited(t)'
      /\ v # "timeout" => Awaited(s)'
      /\ \A k : Differs(batch'.base, live', k) => PromotedWith(k)'
  <2>1. CASE v = "timeout"
    <3>1. PICK x : SettledFor(s, x)
      BY <1>0, <1>4, <1>5, <2>1, TimeoutFor
    <3> QED BY <1>1, <1>4, <1>5, <2>1, <3>1, SettledKeeps DEF Awaited
  <2>2. CASE v # "timeout"
    <3>1. v # "none" /\ stage[s].thread = "done" /\ stage[s].onTime
      BY <1>0, <2>2, VerdictOnTime
    <3>2. UNCHANGED <<live, batch, stage, today>>
      BY <1>0, <2>2
    <3>3. FlagsOK(stage[s], v)
      BY <1>5, <3>1 DEF CauseInv, FlagsInv, FlagsOK
    <3>4. FlagsInv'
      BY <1>1, <1>5, <3>2, <3>3 DEF CauseInv, FlagsInv
    <3>5. RefusedInv' /\ BatchInv' /\ \A t \in Sources : Awaited(t) => Awaited(t)'
      BY <3>2 DEF CauseInv, RefusedInv, PromotedWith, BatchInv, BatchOK, Awaited
    <3>6. \A k : Differs(batch'.base, live', k) => PromotedWith(k)'
      BY <1>0, <3>2 DEF CauseInv, BlameInv, PromotedWith
    <3> QED BY <1>4, <1>5, <3>4, <3>5, <3>6
  <2> QED BY <2>1, <2>2
<1>7. ASSUME NEW i \in Runnable, i > n \/ verdict'[Concurrent[i]] # "timeout"
      PROVE  Awaited(Concurrent[i])'
  <2>1. CASE i = n
    <3>1. Concurrent[i] = s /\ v # "timeout"
      BY <1>0, <1>1, <1>2, <1>7, <2>1
    <3>2. Awaited(s)'
      BY <1>6, <3>1
    <3> QED BY <3>1, <3>2
  <2>2. CASE i # n
    <3>1. Awaited(Concurrent[i])
      BY <1>1, <1>2, <1>3, <1>7, <2>2
    <3> QED BY <1>2, <1>6, <2>2, <3>1
  <2> QED BY <2>1, <2>2
<1>8. OpenInv'
  <2>1. /\ main'.at \in Runnable /\ Runnable' = Runnable
        /\ \/ main'.phase = "await" /\ main'.at > n
           \/ main'.phase = "settle"
    BY <1>0, NextTurn
  <2>2. \A i \in Runnable : i >= main'.at /\ main'.at > n => i > n
    <3>1. main'.at \in Nat /\ n \in Nat /\ \A i \in Runnable : i \in Nat
      BY <1>2, <2>1
    <3> QED BY <3>1
  <2> QED BY <1>7, <2>1, <2>2 DEF OpenInv
<1>9. BlameInv'
  BY <1>6 DEF BlameInv
<1> QED BY <1>6, <1>8, <1>9 DEF CauseInv

LEMMA SettleNextCause ==
  ASSUME StageInv, CauseInv, LogsInv, SettleNext
  PROVE  CauseInv'
<1>0. PICK s \in Sources, n \in Runnable :
         /\ main.phase = "settle" /\ main.at = n /\ s = Concurrent[n] /\ verdict[s] # "none"
         /\ UNCHANGED <<today, timeouts, verdict>>
         /\ IF verdict[s] = "timeout" THEN UNCHANGED <<live, batch, stage, serial>>
            ELSE Settle(s, verdict[s])
         /\ Following("settle", "closing")
  <2>1. main.at \in Runnable /\ Concurrent[main.at] \in Sources
    BY Loops, Lists DEF SettleNext, StageInv, MainInv
  <2>2. verdict[Concurrent[main.at]] # "none"
    BY <2>1 DEF SettleNext, StageInv, MainInv
  <2> QED BY <2>1, <2>2 DEF SettleNext, Settling
<1>1. /\ n \in Nat /\ \A i \in Runnable : i \in Nat /\ Concurrent[i] \in Sources
      /\ \A i \in Runnable : i # n => Concurrent[i] # s
  BY <1>0, Lists, Distinct
<1>2. \A i \in Runnable : i >= n /\ verdict[Concurrent[i]] # "timeout" => Awaited(Concurrent[i])
  BY <1>0 DEF CauseInv, OpenInv
<1>3. s \in ToSet(Concurrent)
  BY <1>0, Lists DEF ToSet
<1>4. /\ FlagsInv' /\ RefusedInv' /\ BatchInv'
      /\ \A t \in Sources \ {s} : Awaited(t) => Awaited(t)'
      /\ \A k : Differs(batch'.base, live', k) => PromotedWith(k)'
  <2>1. CASE verdict[s] = "timeout"
    <3>1. UNCHANGED <<live, batch, stage, today, verdict>>
      BY <1>0, <2>1
    <3>2. /\ FlagsInv' /\ RefusedInv' /\ BatchInv'
          /\ \A t \in Sources : Awaited(t) => Awaited(t)'
      BY <3>1 DEF CauseInv, FlagsInv, RefusedInv, PromotedWith, BatchInv, BatchOK, Awaited
    <3>3. \A k : Differs(batch'.base, live', k) => PromotedWith(k)'
      BY <1>0, <3>1 DEF CauseInv, BlameInv, PromotedWith
    <3> QED BY <3>2, <3>3
  <2>2. CASE verdict[s] # "timeout"
    <3>1. Awaited(s)
      BY <1>0, <1>1, <1>2, <2>2
    <3>2. stage[s].thread = "done" /\ stage[s].onTime
      BY <1>0, <2>2, <3>1 DEF CauseInv, FlagsInv, FlagsOK, Awaited
    <3>3. SettleOnTime(s, verdict[s])
      BY <1>0, <2>2 DEF Settle
    <3>4. PICK x : SettledFor(s, x)
      BY <1>0, <3>1, <3>2, <3>3, OnTimeFor
    <3>5. \A t \in Sources \ {s} : verdict'[t] = verdict[t]
      BY <1>0
    <3> QED BY <1>3, <3>1, <3>4, <3>5, SettledKeeps DEF Awaited
  <2> QED BY <2>1, <2>2
<1>5. OpenInv'
  <2>1. /\ Runnable' = Runnable
        /\ \/ main'.phase = "settle" /\ main'.at \in Runnable /\ main'.at > n
           \/ main'.phase = "closing"
    BY <1>0, NextTurn
  <2>2. ASSUME NEW i \in Runnable, main'.phase = "settle", i >= main'.at, verdict'[Concurrent[i]] # "timeout"
        PROVE  Awaited(Concurrent[i])'
    <3>1. i > n /\ i # n /\ i >= n
      <4>1. main'.at \in Nat /\ main'.at > n /\ n \in Nat /\ i \in Nat
        BY <1>1, <2>1, <2>2
      <4> QED BY <2>2, <4>1
    <3>2. Awaited(Concurrent[i])
      BY <1>0, <1>2, <2>2, <3>1
    <3> QED BY <1>1, <1>4, <3>1, <3>2
  <2> QED BY <2>1, <2>2 DEF OpenInv
<1>6. BlameInv'
  BY <1>4 DEF BlameInv
<1> QED BY <1>4, <1>5, <1>6 DEF CauseInv

LEMMA AttachCause ==
  ASSUME CauseInv, NEW phase, NEW next \in {"synthesis", "done"}, Attach(phase, next)
  PROVE  CauseInv'
<1>1. UNCHANGED <<today, timeouts, live, batch, stage, verdict>> /\ main'.phase = next
  BY DEF Attach, GoTo
<1>2. FlagsInv' /\ RefusedInv' /\ BatchInv'
  BY <1>1 DEF CauseInv, FlagsInv, RefusedInv, PromotedWith, BatchInv, BatchOK
<1>3. OpenInv' /\ BlameInv'
  BY <1>1 DEF OpenInv, BlameInv
<1> QED BY <1>2, <1>3 DEF CauseInv

LEMMA CauseStep == StageInv /\ LogsInv /\ CauseInv /\ [StagingNext]_stagingVars => CauseInv'
<1> SUFFICES ASSUME StageInv, LogsInv, CauseInv, [StagingNext]_stagingVars PROVE CauseInv'
  OBVIOUS
<1>1. CASE WorkerStep
  BY <1>1, WorkerCause
<1>2. CASE MainStep
  BY <1>2, RunSerialCause, SettleSerialCause, GateCause, DispatchCause, AwaitCause, SettleNextCause,
     AttachCause DEF MainStep
<1>3. CASE Tick
  BY <1>3, TickCause
<1>4. CASE Midnight \/ UNCHANGED stagingVars
  <2>1. UNCHANGED <<main, timeouts, verdict, live, batch, stage>> /\ today \in Int
        /\ today' \in {today, today + 1}
    BY <1>4 DEF Midnight, stagingVars, LogsInv
  <2> QED BY <2>1, NothingCause
<1> QED BY <1>1, <1>2, <1>3, <1>4 DEF StagingNext

(* RefusedForCause: the base both sides started from is what an edit of the *)
(* document can have made of it, so every merge of logs succeeds, and of    *)
(* the fields only a promoted runner of the same batch can be in the way.   *)
THEOREM NothingRefusedWithoutCause == StagingSpec => []RefusedForCause
<1>1. CauseInv => RefusedForCause
  <2> SUFFICES ASSUME RefusedInv, NEW s \in Sources, stage[s].fate = "refused"
               PROVE  \E t \in ToSet(Concurrent) :
                         stage[t].fate = "promoted" /\ FieldsOf(s) \cap FieldsOf(t) # {}
    BY DEF CauseInv, RefusedForCause
  <2>1. \A t, k : Bumps(stage[t].edits, k) => k \in FieldsOf(t)
    BY DEF Bumps, FieldsOf, ToSet
  <2>2. PICK k : Bumps(stage[s].edits, k) /\ PromotedWith(k)
    BY DEF RefusedInv
  <2>3. PICK t \in ToSet(Concurrent) : stage[t].fate = "promoted" /\ Bumps(stage[t].edits, k)
    BY <2>2 DEF PromotedWith
  <2>4. k \in FieldsOf(s) /\ k \in FieldsOf(t)
    BY <2>1, <2>2, <2>3
  <2> QED BY <2>3, <2>4
<1> QED BY <1>1, StartOK, StepOK, LogsStart, LogsStep, CauseStart, CauseStep, PTL DEF StagingSpec

-----------------------------------------------------------------------------
(* The errors log at its cap.                                              *)

(* Two logs that end alike, as far as the cap lets one see. *)
SameEnd(u, v) ==
    \A n \in 0..(Cap - 1) : /\ n < Len(u) <=> n < Len(v)
                            /\ n < Len(u) => u[Len(u) - n] = v[Len(v) - n]

LEMMA LastRowsAt ==
  ASSUME NEW R, NEW rows \in Seq(R)
  PROVE  /\ LastRows(Cap, rows) \in Seq(R)
         /\ Len(LastRows(Cap, rows)) = IF Len(rows) <= Cap THEN Len(rows) ELSE Cap
         /\ \A n \in 0..(Cap - 1) : n < Len(rows) =>
               LastRows(Cap, rows)[Len(LastRows(Cap, rows)) - n] = rows[Len(rows) - n]
<1>1. Cap \in Nat \ {0} /\ Len(rows) \in Nat
  BY MergeAssumption
<1>2. CASE Len(rows) <= Cap
  <2>1. LastRows(Cap, rows) = rows
    BY <1>2, LastRowsAre
  <2> QED BY <1>2, <2>1
<1>3. CASE ~(Len(rows) <= Cap)
  <2> DEFINE from == Len(rows) - Cap
  <2>1. from \in 0..Len(rows) /\ Len(rows) - from = Cap
    BY <1>1, <1>3
  <2>2. Max({1, Len(rows) - Cap + 1}) = from + 1
    <3>0. PICK top \in Int : top = Len(rows) - Cap + 1
      BY <1>1
    <3>1. top > 1 /\ top = from + 1
      BY <1>1, <1>3, <3>0
    <3>2. top \in {1, top} /\ \A y \in {1, top} : top >= y
      BY <3>1
    <3>3. Max({1, top}) = top
      <4>1. \A x \in {1, top} : (\A y \in {1, top} : x >= y) => x = top
        BY <3>0, <3>1
      <4> QED BY <3>2, <4>1 DEF Max
    <3> QED BY <3>0, <3>1, <3>3
  <2>3. LastRows(Cap, rows) = After(rows, from)
    BY <2>2 DEF LastRows, After
  <2> HIDE DEF from
  <2>4. /\ After(rows, from) \in Seq(R) /\ Len(After(rows, from)) = Cap
        /\ \A q \in 1..Cap : After(rows, from)[q] = rows[from + q]
    BY <2>1, AfterIs
  <2>5. ASSUME NEW n \in 0..(Cap - 1) PROVE After(rows, from)[Cap - n] = rows[Len(rows) - n]
    <3>1. Cap - n \in 1..Cap /\ from + (Cap - n) = Len(rows) - n
      BY <1>1, <2>1
    <3> QED BY <2>4, <3>1
  <2> QED BY <1>3, <2>3, <2>4, <2>5
<1> QED BY <1>2, <1>3

LEMMA EndsAlike ==
  ASSUME NEW R, NEW u \in Seq(R), NEW v \in Seq(R)
  PROVE  SameEnd(u, v) <=> LastRows(Cap, u) = LastRows(Cap, v)
<1> DEFINE a == LastRows(Cap, u)
           b == LastRows(Cap, v)
<1>1. /\ Cap \in Nat \ {0} /\ Len(u) \in Nat /\ Len(v) \in Nat
      /\ a \in Seq(R) /\ Len(a) = IF Len(u) <= Cap THEN Len(u) ELSE Cap
      /\ \A n \in 0..(Cap - 1) : n < Len(u) => a[Len(a) - n] = u[Len(u) - n]
      /\ b \in Seq(R) /\ Len(b) = IF Len(v) <= Cap THEN Len(v) ELSE Cap
      /\ \A n \in 0..(Cap - 1) : n < Len(v) => b[Len(b) - n] = v[Len(v) - n]
  BY LastRowsAt, MergeAssumption
<1> HIDE DEF a, b
<1>2. ASSUME SameEnd(u, v) PROVE a = b
  <2>1. \A n \in 0..(Cap - 1) : n < Len(u) <=> n < Len(v)
    BY <1>2 DEF SameEnd
  <2>2. Len(a) = Len(b)
    <3>1. CASE Len(u) < Cap
      <4>1. ~(Len(u) < Len(v))
        BY <1>1, <2>1, <3>1
      <4>2. ~(Len(v) < Len(u))
        BY <1>1, <2>1, <3>1
      <4> QED BY <1>1, <4>1, <4>2
    <3>2. CASE ~(Len(u) < Cap)
      <4>1. Cap - 1 < Len(v)
        BY <1>1, <2>1, <3>2
      <4> QED BY <1>1, <3>2, <4>1
    <3> QED BY <3>1, <3>2
  <2>3. ASSUME NEW q \in 1..Len(a) PROVE a[q] = b[q]
    <3>1. /\ Len(a) - q \in 0..(Cap - 1) /\ Len(a) - q < Len(u) /\ Len(a) - q < Len(v)
          /\ Len(a) - (Len(a) - q) = q /\ Len(b) - (Len(a) - q) = q
      <4>1. /\ Len(a) \in Nat /\ Len(a) <= Cap /\ Len(a) <= Len(u) /\ Len(a) <= Len(v)
            /\ q \in Nat /\ q >= 1 /\ q <= Len(a)
        BY <1>1, <2>2
      <4>2. PICK m : m = Len(a) /\ m = Len(b)
        BY <2>2
      <4>3. m - q \in 0..(Cap - 1) /\ m - q < Len(u) /\ m - q < Len(v) /\ m - (m - q) = q
        BY <1>1, <4>1, <4>2
      <4> QED BY <4>2, <4>3
    <3>2. a[q] = u[Len(u) - (Len(a) - q)]
      BY <1>1, <3>1
    <3>3. b[q] = v[Len(v) - (Len(a) - q)]
      BY <1>1, <3>1
    <3>4. u[Len(u) - (Len(a) - q)] = v[Len(v) - (Len(a) - q)]
      BY <1>2, <3>1 DEF SameEnd
    <3> QED BY <3>2, <3>3, <3>4
  <2> QED BY <1>1, <2>2, <2>3, SameRows
<1>3. ASSUME a = b PROVE SameEnd(u, v)
  <2> SUFFICES ASSUME NEW n \in 0..(Cap - 1)
               PROVE  /\ n < Len(u) <=> n < Len(v)
                      /\ n < Len(u) => u[Len(u) - n] = v[Len(v) - n]
    BY DEF SameEnd
  <2>1. n < Len(u) <=> n < Len(v)
    <3>1. n < Len(u) <=> n < Len(a)
      BY <1>1
    <3>2. n < Len(v) <=> n < Len(b)
      BY <1>1
    <3> QED BY <1>3, <3>1, <3>2
  <2>2. ASSUME n < Len(u) PROVE u[Len(u) - n] = v[Len(v) - n]
    <3>1. a[Len(a) - n] = u[Len(u) - n]
      BY <1>1, <2>2
    <3>2. b[Len(b) - n] = v[Len(v) - n]
      BY <1>1, <2>1, <2>2
    <3> QED BY <1>3, <3>1, <3>2
  <2> QED BY <2>1, <2>2
<1> QED BY <1>2, <1>3 DEF a, b

LEMMA JoinedAt ==
  ASSUME NEW R, NEW u \in Seq(R), NEW w \in Seq(R), NEW n \in Nat
  PROVE  /\ u \o w \in Seq(R) /\ Len(u \o w) = Len(u) + Len(w) /\ Len(u) \in Nat /\ Len(w) \in Nat
         /\ n < Len(w) => (u \o w)[Len(u \o w) - n] = w[Len(w) - n]
         /\ n >= Len(w) /\ n < Len(u) + Len(w) =>
               (u \o w)[Len(u \o w) - n] = u[Len(u) - (n - Len(w))]
<1>1. /\ u \o w \in Seq(R) /\ Len(u \o w) = Len(u) + Len(w) /\ Len(u) \in Nat /\ Len(w) \in Nat
  OBVIOUS
<1>2. ASSUME n < Len(w) PROVE (u \o w)[Len(u \o w) - n] = w[Len(w) - n]
  <2>1. Len(u \o w) - n \in 1..(Len(u) + Len(w)) /\ ~(Len(u \o w) - n <= Len(u))
        /\ (Len(u \o w) - n) - Len(u) = Len(w) - n
    BY <1>1, <1>2
  <2> QED BY <2>1
<1>3. ASSUME n >= Len(w), n < Len(u) + Len(w)
      PROVE  (u \o w)[Len(u \o w) - n] = u[Len(u) - (n - Len(w))]
  <2>1. Len(u \o w) - n \in 1..Len(u) /\ Len(u \o w) - n = Len(u) - (n - Len(w))
    BY <1>1, <1>3
  <2> QED BY <2>1
<1> QED BY <1>1, <1>2, <1>3

(* Logs that end alike still do with the same rows after or before them. *)
LEMMA AlikeAfter ==
  ASSUME NEW R, NEW u \in Seq(R), NEW v \in Seq(R), NEW w \in Seq(R), SameEnd(u, v)
  PROVE  SameEnd(u \o w, v \o w)
<1> SUFFICES ASSUME NEW n \in 0..(Cap - 1)
             PROVE  /\ n < Len(u \o w) <=> n < Len(v \o w)
                    /\ n < Len(u \o w) => (u \o w)[Len(u \o w) - n] = (v \o w)[Len(v \o w) - n]
  BY DEF SameEnd
<1>1. Cap \in Nat \ {0} /\ n \in Nat
  BY MergeAssumption
<1>2. /\ Len(u \o w) = Len(u) + Len(w) /\ Len(v \o w) = Len(v) + Len(w)
      /\ Len(u) \in Nat /\ Len(v) \in Nat /\ Len(w) \in Nat
  BY <1>1, JoinedAt
<1>3. CASE n < Len(w)
  <2>1. (u \o w)[Len(u \o w) - n] = w[Len(w) - n] /\ (v \o w)[Len(v \o w) - n] = w[Len(w) - n]
    BY <1>1, <1>3, JoinedAt
  <2> QED BY <1>1, <1>2, <1>3, <2>1
<1>4. CASE n >= Len(w)
  <2>1. n - Len(w) \in 0..(Cap - 1)
    BY <1>1, <1>2, <1>4
  <2>2. /\ n - Len(w) < Len(u) <=> n - Len(w) < Len(v)
        /\ n - Len(w) < Len(u) => u[Len(u) - (n - Len(w))] = v[Len(v) - (n - Len(w))]
    BY <2>1 DEF SameEnd
  <2>3. /\ n < Len(u) + Len(w) <=> n - Len(w) < Len(u)
        /\ n < Len(v) + Len(w) <=> n - Len(w) < Len(v)
    BY <1>1, <1>2
  <2>4. ASSUME n < Len(u) + Len(w)
        PROVE  (u \o w)[Len(u \o w) - n] = (v \o w)[Len(v \o w) - n]
    <3>1. (u \o w)[Len(u \o w) - n] = u[Len(u) - (n - Len(w))]
      BY <1>1, <1>4, <2>4, JoinedAt
    <3>2. (v \o w)[Len(v \o w) - n] = v[Len(v) - (n - Len(w))]
      BY <1>1, <1>4, <2>2, <2>3, <2>4, JoinedAt
    <3> QED BY <2>2, <2>3, <2>4, <3>1, <3>2
  <2> QED BY <1>2, <2>2, <2>3, <2>4
<1> QED BY <1>1, <1>2, <1>3, <1>4

LEMMA AlikeBefore ==
  ASSUME NEW R, NEW u \in Seq(R), NEW v \in Seq(R), NEW w \in Seq(R), SameEnd(u, v)
  PROVE  SameEnd(w \o u, w \o v)
<1> SUFFICES ASSUME NEW n \in 0..(Cap - 1)
             PROVE  /\ n < Len(w \o u) <=> n < Len(w \o v)
                    /\ n < Len(w \o u) => (w \o u)[Len(w \o u) - n] = (w \o v)[Len(w \o v) - n]
  BY DEF SameEnd
<1>1. Cap \in Nat \ {0} /\ n \in Nat
  BY MergeAssumption
<1>2. /\ Len(w \o u) = Len(w) + Len(u) /\ Len(w \o v) = Len(w) + Len(v)
      /\ Len(u) \in Nat /\ Len(v) \in Nat /\ Len(w) \in Nat
  BY <1>1, JoinedAt
<1>3. \A m \in 0..(Cap - 1) : /\ m < Len(u) <=> m < Len(v)
                              /\ m < Len(u) => u[Len(u) - m] = v[Len(v) - m]
  BY DEF SameEnd
<1>4. CASE n < Len(u)
  <2>1. (w \o u)[Len(w \o u) - n] = u[Len(u) - n] /\ (w \o v)[Len(w \o v) - n] = v[Len(v) - n]
    BY <1>1, <1>3, <1>4, JoinedAt
  <2>2. n < Len(v) /\ u[Len(u) - n] = v[Len(v) - n]
    BY <1>3, <1>4
  <2> QED BY <1>1, <1>2, <1>4, <2>1, <2>2
<1>5. CASE n >= Len(u)
  <2>1. Len(u) = Len(v)
    <3>1. ~(n < Len(v)) /\ Len(u) \in 0..(Cap - 1) /\ Len(v) \in 0..(Cap - 1)
      BY <1>1, <1>2, <1>3, <1>5
    <3>2. ~(Len(u) < Len(v)) /\ ~(Len(v) < Len(u))
      BY <1>2, <1>3, <3>1
    <3> QED BY <1>2, <3>2
  <2>2. ASSUME n < Len(w) + Len(u)
        PROVE  (w \o u)[Len(w \o u) - n] = (w \o v)[Len(w \o v) - n]
    <3>1. (w \o u)[Len(w \o u) - n] = w[Len(w) - (n - Len(u))]
      BY <1>1, <1>5, <2>2, JoinedAt
    <3>2. (w \o v)[Len(w \o v) - n] = w[Len(w) - (n - Len(v))]
      BY <1>1, <1>5, <2>1, <2>2, JoinedAt
    <3> QED BY <2>1, <3>1, <3>2
  <2> QED BY <1>2, <2>1, <2>2
<1> QED BY <1>1, <1>2, <1>4, <1>5

(* A log is what its last rows are; of one that fits nothing is lost. *)
(* Rows before a full log do not count. *)
LEMMA FullEnd ==
  ASSUME NEW R, NEW u \in Seq(R), NEW w \in Seq(R), Len(u) >= Cap
  PROVE  SameEnd(w \o u, u)
<1> SUFFICES ASSUME NEW n \in 0..(Cap - 1)
             PROVE  /\ n < Len(w \o u) <=> n < Len(u)
                    /\ n < Len(w \o u) => (w \o u)[Len(w \o u) - n] = u[Len(u) - n]
  BY DEF SameEnd
<1>1. Cap \in Nat \ {0} /\ n \in Nat
  BY MergeAssumption
<1>2. n < Len(u) /\ Len(w \o u) = Len(w) + Len(u) /\ Len(u) \in Nat /\ Len(w) \in Nat
  BY <1>1, JoinedAt
<1> QED BY <1>1, <1>2, JoinedAt

(* What CappedEdit recognises in other, of base. *)
IsCappedEdit(base, other, dropped, tail) ==
    /\ CappedEdit(base, other) = {[dropped |-> dropped, tail |-> tail]}
    /\ dropped \in 0..Len(base) /\ IsRows(tail)
    /\ Len(other) = (Len(base) - dropped) + Len(tail)
    /\ dropped > 0 => Len(other) = Cap
    /\ \A q \in 1..(Len(base) - dropped) : base[dropped + q] = other[q]
    /\ Len(base) - dropped <= Len(other) /\ tail = After(other, Len(base) - dropped)
    /\ \A d \in 0..Len(base) :
          Len(base) - d <= Len(other) /\ (\A q \in 1..(Len(base) - d) : base[d + q] = other[q])
             => dropped <= d

LEMMA CappedEditIs ==
  ASSUME NEW base, LogOK(base), NEW other, LogMoved(base, other), other # base
  PROVE  \E dropped, tail : IsCappedEdit(base, other, dropped, tail)
<1>1. PICK A : base \in Seq(A)
  BY DEF LogOK
<1>2. PICK B : other \in Seq(B)
  BY DEF LogMoved, LogOK
<1>3. PICK R : base \in Seq(R) /\ other \in Seq(R)
  <2>1. base \in Seq(A \cup B) /\ other \in Seq(A \cup B)
    BY <1>1, <1>2, WiderRows
  <2> QED BY <2>1
<1> DEFINE D == {d \in 0..Len(base) : IsPrefix(After(base, d), other)}
<1>4. Len(base) \in Nat /\ Len(other) \in Nat /\ Len(other) <= Cap
  BY <1>3 DEF LogOK, LogMoved
<1>5. \A d \in 0..Len(base) :
        d \in D <=> Len(base) - d <= Len(other)
                    /\ \A q \in 1..(Len(base) - d) : base[d + q] = other[q]
  <2> TAKE d \in 0..Len(base)
  <2>1. /\ After(base, d) \in Seq(R) /\ Len(After(base, d)) = Len(base) - d
        /\ \A q \in 1..(Len(base) - d) : After(base, d)[q] = base[d + q]
    BY <1>3, AfterIs
  <2>2. IsPrefix(After(base, d), other) <=>
           Len(base) - d <= Len(other)
           /\ \A q \in 1..(Len(base) - d) : After(base, d)[q] = other[q]
    BY <1>3, <2>1, PrefixRows
  <2> QED BY <2>1, <2>2
<1>6. Len(base) \in D
  BY <1>4, <1>5
<1>7. D \in SUBSET Nat /\ D # {} /\ D \subseteq 0..Len(base)
  BY <1>4, <1>6
<1>8. CappedEdit(base, other) =
        LET dropped == Min(D)
            tail == SubSeq(other, Len(base) - dropped + 1, Len(other))
        IN {e \in {[dropped |-> dropped, tail |-> tail]} :
              /\ tail # <<>>
              /\ Len(other) <= Cap
              /\ dropped > 0 => Len(other) = Cap}
  BY DEF CappedEdit, After
<1> HIDE DEF D
<1>9. PICK dropped : dropped = Min(D) /\ dropped \in D /\ \A i \in D : dropped <= i
  BY <1>7, SmallestIn
<1>10. dropped \in 0..Len(base) /\ Len(base) - dropped <= Len(other)
       /\ \A q \in 1..(Len(base) - dropped) : base[dropped + q] = other[q]
  <2>1. dropped \in 0..Len(base)
    BY <1>7, <1>9
  <2> QED BY <1>5, <1>9, <2>1
<1>11. dropped > 0 => Len(other) = Cap
  <2>1. ASSUME Begins(base, other) PROVE dropped = 0
    <3>1. /\ Len(base) - 0 <= Len(other)
          /\ \A q \in 1..(Len(base) - 0) : base[0 + q] = other[q]
      BY <1>3, <2>1 DEF Begins
    <3>2. 0 \in D
      BY <1>4, <1>5, <3>1
    <3> QED BY <1>4, <1>9, <1>10, <3>2
  <2> QED BY <2>1 DEF LogMoved
<1>12. PICK tail : tail = SubSeq(other, Len(base) - dropped + 1, Len(other))
  OBVIOUS
<1>13. tail \in Seq(R) /\ Len(tail) = Len(other) - (Len(base) - dropped)
  <2>1. Len(base) - dropped \in 0..Len(other)
    BY <1>4, <1>10
  <2> QED BY <1>3, <1>12, <2>1, RowsAfter
<1>14. tail # <<>>
  <2> SUFFICES ASSUME tail = <<>> PROVE FALSE
    OBVIOUS
  <2>1. Len(other) = Len(base) - dropped
    BY <1>4, <1>10, <1>13
  <2>2. dropped = 0
    BY <1>4, <1>10, <1>11, <2>1 DEF LogOK
  <2>3. \A q \in 1..Len(base) : base[q] = other[q]
    BY <1>4, <1>10, <2>2
  <2>4. base = other
    BY <1>3, <1>4, <2>1, <2>2, <2>3, SameRows
  <2> QED BY <2>4
<1>15. CappedEdit(base, other) = {[dropped |-> dropped, tail |-> tail]}
  BY <1>4, <1>8, <1>9, <1>11, <1>12, <1>14
<1>16. Len(other) = (Len(base) - dropped) + Len(tail)
  BY <1>4, <1>10, <1>13
<1>17. /\ tail = After(other, Len(base) - dropped) /\ IsRows(tail)
       /\ \A d \in 0..Len(base) :
             Len(base) - d <= Len(other) /\ (\A q \in 1..(Len(base) - d) : base[d + q] = other[q])
                => dropped <= d
  BY <1>5, <1>9, <1>12, <1>13 DEF After, IsRows
<1> QED BY <1>10, <1>11, <1>15, <1>16, <1>17 DEF IsCappedEdit


(* Rows none of which is there twice. *)
Uniq(rows) == \A p, q \in DOMAIN rows : rows[p] = rows[q] => p = q

(* Ends of logs, as equations. *)
LEMMA Ends ==
  ASSUME NEW R, NEW u \in Seq(R)
  PROVE  /\ LastRows(Cap, u) \in Seq(R) /\ Len(LastRows(Cap, u)) <= Cap
         /\ LastRows(Cap, LastRows(Cap, u)) = LastRows(Cap, u)
         /\ \A v \in Seq(R), w \in Seq(R) : LastRows(Cap, u) = LastRows(Cap, v) =>
               /\ LastRows(Cap, u \o w) = LastRows(Cap, v \o w)
               /\ LastRows(Cap, w \o u) = LastRows(Cap, w \o v)
         /\ \A w \in Seq(R) : Len(u) >= Cap => LastRows(Cap, w \o u) = LastRows(Cap, u)
<1>1. LastRows(Cap, u) \in Seq(R) /\ Len(LastRows(Cap, u)) <= Cap
  BY LastRowsAt, MergeAssumption
<1>2. LastRows(Cap, LastRows(Cap, u)) = LastRows(Cap, u)
  BY <1>1, LastRowsAre
<1>3. ASSUME NEW v \in Seq(R), NEW w \in Seq(R), LastRows(Cap, u) = LastRows(Cap, v)
      PROVE  /\ LastRows(Cap, u \o w) = LastRows(Cap, v \o w)
             /\ LastRows(Cap, w \o u) = LastRows(Cap, w \o v)
  <2>1. SameEnd(u, v)
    BY <1>3, EndsAlike
  <2>2. SameEnd(u \o w, v \o w) /\ SameEnd(w \o u, w \o v)
    BY <2>1, AlikeAfter, AlikeBefore
  <2>3. u \o w \in Seq(R) /\ v \o w \in Seq(R) /\ w \o u \in Seq(R) /\ w \o v \in Seq(R)
    OBVIOUS
  <2> QED BY <2>2, <2>3, EndsAlike
<1>4. ASSUME NEW w \in Seq(R), Len(u) >= Cap PROVE LastRows(Cap, w \o u) = LastRows(Cap, u)
  <2>1. SameEnd(w \o u, u) /\ w \o u \in Seq(R)
    BY <1>4, FullEnd
  <2> QED BY <2>1, EndsAlike
<1> QED BY <1>1, <1>2, <1>3, <1>4

LEMMA Joined ==
  ASSUME NEW R, NEW a \in Seq(R), NEW b \in Seq(R)
  PROVE  /\ a \o b \in Seq(R) /\ Len(a \o b) = Len(a) + Len(b) /\ DOMAIN (a \o b) = 1..(Len(a) + Len(b))
         /\ Len(a) \in Nat /\ Len(b) \in Nat /\ DOMAIN a = 1..Len(a) /\ DOMAIN b = 1..Len(b)
         /\ \A q \in 1..Len(a) : (a \o b)[q] = a[q]
         /\ \A q \in 1..Len(b) : (a \o b)[Len(a) + q] = b[q]
OBVIOUS

(* What CappedEdit recognises, when rows y were logged. *)
Logged(base, other, y, R, dropped, tail) ==
    /\ CappedEdit(base, other) = {[dropped |-> dropped, tail |-> tail]}
    /\ dropped \in 0..Len(base) /\ tail \in Seq(R)
    /\ LastRows(Cap, tail) = LastRows(Cap, y)
    /\ dropped > 0 => (Len(base) - dropped) + Len(tail) = Cap

LEMMA LoggedEdit ==
  ASSUME NEW R, NEW base \in Seq(R), Len(base) <= Cap, NEW y \in Seq(R), Uniq(base \o y),
         NEW other, other = LastRows(Cap, base \o y), other # base
  PROVE  \E dropped, tail : Logged(base, other, y, R, dropped, tail)
<1> DEFINE all == base \o y
           N == Len(all)
           e == IF N <= Cap THEN 0 ELSE N - Cap
<1>1. /\ all \in Seq(R) /\ N = Len(base) + Len(y) /\ DOMAIN all = 1..N
      /\ Len(base) \in Nat /\ Len(y) \in Nat /\ Cap \in Nat \ {0} /\ N \in Nat
      /\ \A q \in 1..Len(base) : all[q] = base[q]
      /\ \A q \in 1..Len(y) : all[Len(base) + q] = y[q]
  BY Joined, MergeAssumption
<1>2. e \in 0..N /\ (e > 0 => N - e = Cap) /\ (N - e <= Cap) /\ (e = 0 \/ e = N - Cap)
  BY <1>1
<1>3. other \in Seq(R) /\ Len(other) = N - e /\ \A q \in 1..(N - e) : other[q] = all[e + q]
  <2> HIDE DEF all
  <2>1. /\ other \in Seq(R) /\ Len(other) = IF N <= Cap THEN N ELSE Cap
        /\ \A n \in 0..(Cap - 1) : n < N => other[Len(other) - n] = all[N - n]
    <3>1. other = LastRows(Cap, all)
      BY DEF all
    <3> QED BY <1>1, <3>1, LastRowsAt
  <2>2. Len(other) = N - e
    BY <1>1, <2>1
  <2>3. ASSUME NEW q \in 1..(N - e) PROVE other[q] = all[e + q]
    <3>1. (N - e) - q \in 0..(Cap - 1) /\ (N - e) - q < N /\ Len(other) - ((N - e) - q) = q
          /\ N - ((N - e) - q) = e + q
      <4> HIDE DEF N, e
      <4> QED BY <1>1, <1>2, <2>2
    <3> HIDE DEF N, e
    <3> QED BY <2>1, <3>1
  <2> QED BY <2>1, <2>2, <2>3
<1>4. Uniq(all)
  OBVIOUS
<1> HIDE DEF all, N, e
<1>5. LogOK(base) /\ LogMoved(base, other)
  <2>1. LogOK(base)
    BY DEF LogOK
  <2>2. LogOK(other)
    BY <1>1, <1>2, <1>3 DEF LogOK
  <2>3. CASE e = 0
    <3>0. \A i \in 1..Len(base) : i \in 1..(N - e) /\ e + i = i
      BY <1>1, <2>3
    <3>1. \A i \in 1..Len(base) : other[i] = base[i]
      BY <1>1, <1>3, <3>0
    <3>2. Begins(base, other)
      BY <1>1, <1>3, <2>3, <3>1 DEF Begins, IsRows
    <3> QED BY <2>1, <2>2, <3>2 DEF LogMoved
  <2>4. CASE e # 0
    BY <1>1, <1>2, <1>3, <2>1, <2>2, <2>4 DEF LogMoved
  <2> QED BY <2>3, <2>4
<1>6. PICK dropped, tail :
        /\ CappedEdit(base, other) = {[dropped |-> dropped, tail |-> tail]}
        /\ dropped \in 0..Len(base)
        /\ Len(other) = (Len(base) - dropped) + Len(tail)
        /\ dropped > 0 => Len(other) = Cap
        /\ \A q \in 1..(Len(base) - dropped) : base[dropped + q] = other[q]
        /\ Len(base) - dropped <= Len(other) /\ tail = After(other, Len(base) - dropped)
        /\ \A d \in 0..Len(base) :
              Len(base) - d <= Len(other) /\ (\A q \in 1..(Len(base) - d) : base[d + q] = other[q])
                 => dropped <= d
  <2>1. PICK dropped, tail : IsCappedEdit(base, other, dropped, tail)
    BY <1>5, CappedEditIs
  <2> QED BY <2>1, Zenon DEF IsCappedEdit
<1>7. /\ Len(base) - dropped \in 0..Len(other)
      /\ tail \in Seq(R) /\ Len(tail) = Len(other) - (Len(base) - dropped)
      /\ \A q \in 1..Len(tail) : tail[q] = other[(Len(base) - dropped) + q]
  <2>1. Len(base) - dropped \in 0..Len(other)
    BY <1>1, <1>3, <1>6
  <2>2. PICK k \in 0..Len(other) : k = Len(base) - dropped
    BY <2>1
  <2>3. /\ After(other, k) \in Seq(R) /\ Len(After(other, k)) = Len(other) - k
        /\ \A q \in 1..(Len(other) - k) : After(other, k)[q] = other[k + q]
    <3>1. other \in Seq(R)
      BY <1>3
    <3> QED BY <3>1, AfterIs
  <2>4. tail = After(other, k)
    BY <1>6, <2>2
  <2> QED BY <2>1, <2>2, <2>3, <2>4
<1>8. dropped < Len(base) => dropped = e
  <2> HAVE dropped < Len(base)
  <2>1. 1 \in 1..(Len(base) - dropped) /\ 1 \in 1..(N - e)
    <3>1. dropped \in Nat /\ N - e \in Nat /\ Len(base) - dropped <= N - e
      BY <1>1, <1>2, <1>3, <1>6
    <3> QED BY <1>1, <3>1
  <2>2. base[dropped + 1] = all[e + 1]
    BY <1>3, <1>6, <2>1
  <2>3. dropped + 1 \in 1..Len(base) /\ dropped + 1 \in 1..N /\ e + 1 \in 1..N
    BY <1>1, <1>2, <1>6, <2>1
  <2>4. dropped + 1 = e + 1
    BY <1>1, <1>4, <2>2, <2>3 DEF Uniq
  <2> QED BY <1>1, <1>2, <1>6, <2>4
<1>9. LastRows(Cap, tail) = LastRows(Cap, y)
  <2>1. CASE e <= Len(base)
    <3>1. ASSUME NEW q \in 1..(Len(base) - e) PROVE base[e + q] = other[q]
      <4>1. q \in 1..(N - e) /\ e + q \in 1..Len(base)
        BY <1>1, <1>2, <2>1
      <4> QED BY <1>1, <1>3, <4>1
    <3>2. dropped <= e
      <4>1. e \in 0..Len(base) /\ Len(base) - e <= Len(other)
        BY <1>1, <1>2, <1>3, <2>1
      <4> QED BY <1>6, <3>1, <4>1
    <3>3. dropped = e
      BY <1>1, <1>2, <1>6, <1>8, <2>1, <3>2
    <3>4. Len(tail) = Len(y)
      BY <1>1, <1>2, <1>3, <1>7, <3>3
    <3>5. ASSUME NEW q \in 1..Len(tail) PROVE tail[q] = y[q]
      <4>1. (Len(base) - e) + q \in 1..(N - e) /\ e + ((Len(base) - e) + q) = Len(base) + q /\ q \in 1..Len(y)
        <5>1. q \in Nat /\ q >= 1 /\ q <= Len(y) /\ e \in Nat
          BY <1>1, <1>2, <3>4
        <5> QED BY <1>1, <2>1, <5>1
      <4>2. tail[q] = other[(Len(base) - e) + q]
        BY <1>7, <3>3
      <4> QED BY <1>1, <1>3, <4>1, <4>2
    <3>6. tail = y
      BY <1>7, <3>4, <3>5, SameRows
    <3> QED BY <3>6
  <2>2. CASE ~(e <= Len(base))
    <3>1. dropped = Len(base)
      BY <1>1, <1>2, <1>6, <1>8, <2>2
    <3>2. Len(tail) = Len(other) /\ \A q \in 1..Len(tail) : tail[q] = other[q]
      <4>1. \A q \in 1..Len(tail) : (Len(base) - dropped) + q = q
        BY <1>1, <1>7, <3>1
      <4> QED BY <1>1, <1>3, <1>2, <1>7, <3>1, <4>1
    <3>3. tail = other
      BY <1>3, <1>7, <3>2, SameRows
    <3>4. Len(y) >= Cap
      BY <1>1, <1>2, <2>2
    <3>5. LastRows(Cap, base \o y) = LastRows(Cap, y)
      BY <3>4, Ends
    <3>6. LastRows(Cap, LastRows(Cap, base \o y)) = LastRows(Cap, base \o y)
      BY <1>1, Ends DEF all
    <3> QED BY <3>3, <3>5, <3>6
  <2> QED BY <2>1, <2>2
<1>10. dropped > 0 => (Len(base) - dropped) + Len(tail) = Cap
  BY <1>6
<1> QED BY <1>6, <1>7, <1>9, <1>10 DEF Logged

LEMMA Thrice ==
  ASSUME NEW R, NEW a \in Seq(R), NEW b \in Seq(R), NEW c \in Seq(R)
  PROVE  (a \o b) \o c = a \o (b \o c)
<1> DEFINE u == (a \o b) \o c
           v == a \o (b \o c)
           i == Len(a)
           j == Len(b)
           k == Len(c)
<1>1. i \in Nat /\ j \in Nat /\ k \in Nat
  OBVIOUS
<1>2. a \o b \in Seq(R) /\ Len(a \o b) = i + j /\ b \o c \in Seq(R) /\ Len(b \o c) = j + k
  BY Joined
<1>3. u \in Seq(R) /\ Len(u) = i + j + k /\ v \in Seq(R) /\ Len(v) = i + j + k
  <2>1. u \in Seq(R) /\ Len(u) = Len(a \o b) + k
    BY <1>2, Joined
  <2>2. v \in Seq(R) /\ Len(v) = i + Len(b \o c)
    BY <1>2, Joined
  <2> HIDE DEF u, v
  <2> QED BY <1>1, <1>2, <2>1, <2>2
<1>4. ASSUME NEW q \in 1..i PROVE u[q] = v[q]
  <2>1. q \in 1..Len(a \o b)
    BY <1>1, <1>2
  <2>2. u[q] = (a \o b)[q]
    BY <1>2, <2>1, Joined
  <2>3. (a \o b)[q] = a[q] /\ v[q] = a[q]
    BY <1>2, Joined
  <2> QED BY <2>2, <2>3
<1>5. ASSUME NEW q \in 1..j PROVE u[i + q] = v[i + q]
  <2>1. i + q \in 1..Len(a \o b) /\ q \in 1..Len(b \o c)
    BY <1>1, <1>2
  <2>2. u[i + q] = (a \o b)[i + q]
    BY <1>2, <2>1, Joined
  <2>3. (a \o b)[i + q] = b[q]
    BY Joined
  <2>4. v[i + q] = (b \o c)[q] /\ (b \o c)[q] = b[q]
    BY <1>2, <2>1, Joined
  <2> QED BY <2>2, <2>3, <2>4
<1>6. ASSUME NEW q \in 1..k PROVE u[(i + j) + q] = v[(i + j) + q]
  <2>1. j + q \in 1..Len(b \o c) /\ (i + j) + q = i + (j + q)
    BY <1>1, <1>2
  <2>2. u[(i + j) + q] = c[q]
    BY <1>2, Joined
  <2>3. v[i + (j + q)] = (b \o c)[j + q]
    BY <1>2, <2>1, Joined
  <2>4. (b \o c)[j + q] = c[q]
    BY Joined
  <2> QED BY <2>1, <2>2, <2>3, <2>4
<1> HIDE DEF u, v, i, j, k
<1>7. ASSUME NEW q \in 1..Len(u) PROVE u[q] = v[q]
  <2>1. CASE q <= i
    BY <1>1, <1>4, <2>1
  <2>2. CASE q > i /\ q <= i + j
    <3>1. q - i \in 1..j /\ i + (q - i) = q
      BY <1>1, <2>2
    <3> QED BY <1>5, <3>1
  <2>3. CASE q > i + j
    <3>1. q - (i + j) \in 1..k /\ (i + j) + (q - (i + j)) = q
      BY <1>1, <1>3, <2>3
    <3> QED BY <1>6, <3>1
  <2> QED BY <1>1, <2>1, <2>2, <2>3
<1>8. u = v
  BY <1>3, <1>7, SameRows
<1> QED BY <1>8 DEF u, v

(* One after the other, for facts that only name it. *)
Cat(a, b) == a \o b

LEMMA CatThrice ==
  ASSUME NEW R, NEW a \in Seq(R), NEW b \in Seq(R), NEW c \in Seq(R)
  PROVE  Cat(Cat(a, b), c) = Cat(a, Cat(b, c))
BY Thrice DEF Cat

LEMMA CatEnds ==
  ASSUME NEW R, NEW u \in Seq(R), NEW w \in Seq(R)
  PROVE  /\ Cat(u, w) \in Seq(R)
         /\ Len(u) >= Cap => LastRows(Cap, Cat(w, u)) = LastRows(Cap, u)
BY Ends, Joined DEF Cat

(* A sequence in two parts. *)
LEMMA Split ==
  ASSUME NEW R, NEW base \in Seq(R), NEW d \in 0..Len(base)
  PROVE  /\ SubSeq(base, 1, d) \in Seq(R) /\ Len(SubSeq(base, 1, d)) = d
         /\ After(base, d) \in Seq(R) /\ Len(After(base, d)) = Len(base) - d
         /\ base = SubSeq(base, 1, d) \o After(base, d)
<1> DEFINE head == SubSeq(base, 1, d)
           rest == After(base, d)
<1>1. /\ head \in Seq(R) /\ Len(head) = d /\ \A q \in 1..d : head[q] = base[q]
      /\ rest \in Seq(R) /\ Len(rest) = Len(base) - d
      /\ \A q \in 1..(Len(base) - d) : rest[q] = base[d + q]
  BY FirstRows, AfterIs
<1>2. Len(base) \in Nat /\ d \in Nat /\ d <= Len(base)
  OBVIOUS
<1> HIDE DEF head, rest
<1>a. head \in Seq(R) /\ rest \in Seq(R)
  BY <1>1
<1>3. /\ head \o rest \in Seq(R) /\ Len(head \o rest) = Len(head) + Len(rest)
      /\ \A q \in 1..Len(head) : (head \o rest)[q] = head[q]
      /\ \A q \in 1..Len(rest) : (head \o rest)[Len(head) + q] = rest[q]
  BY <1>a, Joined
<1>4. Len(head \o rest) = Len(base)
  BY <1>1, <1>2, <1>3
<1>5. ASSUME NEW q \in 1..Len(base) PROVE base[q] = (head \o rest)[q]
  <2>1. CASE q <= d
    BY <1>1, <1>2, <1>3, <2>1
  <2>2. CASE ~(q <= d)
    <3>1. PICK p \in 1..(Len(base) - d) : d + p = q
      <4>1. q - d \in 1..(Len(base) - d) /\ d + (q - d) = q
        BY <1>2, <2>2
      <4> QED BY <4>1
    <3>2. rest[p] = base[d + p] /\ (head \o rest)[Len(head) + p] = rest[p]
      BY <1>1, <1>3, <3>1
    <3> QED BY <1>1, <3>1, <3>2
  <2> QED BY <2>1, <2>2
<1>6. base = head \o rest
  BY <1>3, <1>4, <1>5, SameRows
<1> QED BY <1>1, <1>6 DEF head, rest

(* A log that was written to is another one. *)
LEMMA LoggedDiffers ==
  ASSUME NEW R, NEW base \in Seq(R), Len(base) <= Cap, NEW y \in Seq(R), Uniq(base \o y),
         LastRows(Cap, base \o y) = base
  PROVE  y = <<>>
<1>1. /\ base \o y \in Seq(R) /\ Len(base \o y) = Len(base) + Len(y) /\ DOMAIN (base \o y) = 1..(Len(base) + Len(y))
      /\ Len(base) \in Nat /\ Len(y) \in Nat /\ Cap \in Nat \ {0}
      /\ \A q \in 1..Len(base) : (base \o y)[q] = base[q]
  BY Joined, MergeAssumption
<1>2. SUFFICES ASSUME Len(y) # 0 PROVE FALSE
  OBVIOUS
<1>3. /\ Len(base) = IF Len(base) + Len(y) <= Cap THEN Len(base) + Len(y) ELSE Cap
      /\ base[Len(base) - 0] = (base \o y)[(Len(base) + Len(y)) - 0]
  <2>1. 0 \in 0..(Cap - 1) /\ 0 < Len(base) + Len(y)
    BY <1>1, <1>2
  <2> QED BY <1>1, <2>1, LastRowsAt
<1>4. Len(base) \in 1..Len(base) /\ Len(base) \in 1..(Len(base) + Len(y))
      /\ Len(base) + Len(y) \in 1..(Len(base) + Len(y))
  BY <1>1, <1>2, <1>3
<1>5. (base \o y)[Len(base)] = (base \o y)[Len(base) + Len(y)]
  BY <1>1, <1>3, <1>4
<1>6. Len(base) = Len(base) + Len(y)
  BY <1>1, <1>4, <1>5 DEF Uniq
<1> QED BY <1>1, <1>2, <1>6

(* What was dropped of a full log does not count. *)
LEMMA HeadDropped ==
  ASSUME NEW R, NEW base \in Seq(R), NEW d \in 0..Len(base), NEW t \in Seq(R), NEW m \in Seq(R),
         d = 0 \/ (Len(base) - d) + Len(t) + Len(m) >= Cap
  PROVE  LastRows(Cap, (After(base, d) \o t) \o m) = LastRows(Cap, (base \o t) \o m)
<1> DEFINE head == SubSeq(base, 1, d)
           rest == After(base, d)
<1>1. /\ head \in Seq(R) /\ Len(head) = d /\ rest \in Seq(R) /\ Len(rest) = Len(base) - d
      /\ base = head \o rest
  BY Split
<1> HIDE DEF head, rest
<1>2. /\ head \in Seq(R) /\ Len(head) = d /\ rest \in Seq(R) /\ Len(rest) = Len(base) - d
  BY <1>1
<1>3. /\ rest \o t \in Seq(R) /\ Len(rest \o t) = (Len(base) - d) + Len(t)
      /\ (rest \o t) \o m \in Seq(R) /\ Len((rest \o t) \o m) = Len(rest \o t) + Len(m)
  <2>1. rest \o t \in Seq(R) /\ Len(rest \o t) = Len(rest) + Len(t)
    BY <1>2, Joined
  <2> QED BY <1>2, <2>1, Joined
<1>4. (base \o t) \o m = head \o ((rest \o t) \o m)
  <2>1. Cat(Cat(head, rest), t) = Cat(head, Cat(rest, t))
    BY <1>2, CatThrice
  <2>2. Cat(rest, t) \in Seq(R)
    BY <1>3 DEF Cat
  <2>3. Cat(Cat(head, Cat(rest, t)), m) = Cat(head, Cat(Cat(rest, t), m))
    BY <1>2, <2>2, CatThrice
  <2>4. base = Cat(head, rest)
    BY <1>1 DEF Cat
  <2>5. Cat(Cat(base, t), m) = Cat(head, Cat(Cat(rest, t), m))
    BY <2>1, <2>3, <2>4
  <2> QED BY <2>5 DEF Cat
<1>5. CASE d = 0
  <2>1. rest = base
    <3>1. Len(base) - 0 = Len(base) /\ \A q \in 1..Len(base) : base[q] = After(base, 0)[q]
      <4>1. 0 \in 0..Len(base) /\ \A q \in 1..(Len(base) - 0) : After(base, 0)[q] = base[0 + q]
        BY AfterIs
      <4> QED BY <4>1
    <3> QED BY <1>2, <1>5, <3>1, SameRows DEF rest
  <2> QED BY <2>1 DEF rest
<1>6. CASE d # 0
  <2>1. Len((rest \o t) \o m) >= Cap
    BY <1>3, <1>6
  <2>2. LastRows(Cap, head \o ((rest \o t) \o m)) = LastRows(Cap, (rest \o t) \o m)
    <3>1. Cat(rest \o t, m) \in Seq(R) /\ Len(Cat(rest \o t, m)) >= Cap
      BY <1>3, <2>1 DEF Cat
    <3>2. LastRows(Cap, Cat(head, Cat(rest \o t, m))) = LastRows(Cap, Cat(rest \o t, m))
      BY <1>2, <3>1, CatEnds
    <3> QED BY <3>2 DEF Cat
  <2> QED BY <1>4, <2>2 DEF rest
<1> QED BY <1>5, <1>6

(* The merge of two logs written to from the same base has the rows of both, *)
(* the worker's last.                                                        *)
LEMMA ErrorsMerge ==
  ASSUME NEW R, NEW base \in Seq(R), Len(base) <= Cap, NEW x \in Seq(R), NEW y \in Seq(R),
         Uniq(base \o x), Uniq(base \o y),
         NEW staged, staged = LastRows(Cap, base \o y),
         NEW log, log = LastRows(Cap, base \o x)
  PROVE  MergeCapped(base, staged, log) = {LastRows(Cap, log \o y)}
<1>0. base \o x \in Seq(R) /\ base \o y \in Seq(R) /\ log \in Seq(R) /\ staged \in Seq(R)
      /\ Cap \in Nat \ {0}
  BY Joined, Ends, MergeAssumption
<1>1. CASE staged = base
  <2>1. y = <<>>
    BY <1>1, LoggedDiffers
  <2>2. log \o y = log /\ LastRows(Cap, log) = log
    <3>1. LastRows(Cap, log) = log
      BY <1>0, Ends
    <3> QED BY <1>0, <2>1, <3>1
  <2>3. MergeCapped(base, staged, log) = {log}
    BY <1>1 DEF MergeCapped, Merge
  <2> QED BY <2>2, <2>3
<1>2. CASE staged # base /\ log = base
  <2>1. MergeCapped(base, staged, log) = {staged}
    BY <1>2 DEF MergeCapped, Merge
  <2> QED BY <1>2, <2>1
<1>3. CASE staged # base /\ log # base
  <2>a. PICK dm, mt : Logged(base, staged, y, R, dm, mt)
    BY <1>3, LoggedEdit
  <2>b. PICK dt, tt : Logged(base, log, x, R, dt, tt)
    BY <1>3, LoggedEdit
  <2>1. /\ CappedEdit(base, staged) = {[dropped |-> dm, tail |-> mt]}
        /\ dm \in 0..Len(base) /\ mt \in Seq(R)
        /\ LastRows(Cap, mt) = LastRows(Cap, y)
        /\ dm > 0 => (Len(base) - dm) + Len(mt) = Cap
    BY <2>a DEF Logged
  <2>2. /\ CappedEdit(base, log) = {[dropped |-> dt, tail |-> tt]}
        /\ dt \in 0..Len(base) /\ tt \in Seq(R)
        /\ LastRows(Cap, tt) = LastRows(Cap, x)
        /\ dt > 0 => (Len(base) - dt) + Len(tt) = Cap
    BY <2>b DEF Logged
  <2> DEFINE Rows(m, t) == SubSeq(base, Max({m.dropped, t.dropped}) + 1, Len(base)) \o t.tail \o m.tail
             m0 == [dropped |-> dm, tail |-> mt]
             t0 == [dropped |-> dt, tail |-> tt]
  <2>3. MergeCapped(base, staged, log) =
          {LastRows(Cap, Rows(m, t)) : m \in CappedEdit(base, staged), t \in CappedEdit(base, log)}
    BY <1>3 DEF MergeCapped, Merge
  <2>4. PICK d : d = Max({dm, dt})
    OBVIOUS
  <2>5. Rows(m0, t0) = (After(base, d) \o tt) \o mt
    <3>1. m0.dropped = dm /\ m0.tail = mt /\ t0.dropped = dt /\ t0.tail = tt
      OBVIOUS
    <3> HIDE DEF m0, t0
    <3> QED BY <2>4, <3>1 DEF After
  <2> HIDE DEF Rows
  <2>6. MergeCapped(base, staged, log) = {LastRows(Cap, Rows(m0, t0))}
    BY <2>1, <2>2, <2>3
  <2> HIDE DEF m0, t0
  <2>7. d \in {dm, dt} /\ d \in 0..Len(base) /\ Len(base) \in Nat
    <3>1. dm \in Int /\ dt \in Int /\ Len(base) \in Nat
      BY <2>1, <2>2
    <3> QED BY <2>1, <2>2, <2>4, <3>1, GreaterOf
  <2> DEFINE rest == After(base, d)
  <2>9. LastRows(Cap, (rest \o tt) \o mt) = LastRows(Cap, (base \o tt) \o mt)
    <3>1. d = 0 \/ (Len(base) - d) + Len(tt) + Len(mt) >= Cap
      <4>1. Len(tt) \in Nat /\ Len(mt) \in Nat
        BY <2>1, <2>2
      <4> QED BY <1>0, <2>1, <2>2, <2>7, <4>1
    <3>2. base \in Seq(R) /\ tt \in Seq(R) /\ mt \in Seq(R) /\ d \in 0..Len(base)
      BY <2>1, <2>2, <2>7
    <3> QED BY <3>1, <3>2, HeadDropped
  <2>10. LastRows(Cap, (base \o tt) \o mt) = LastRows(Cap, log \o y)
    <3>1. LastRows(Cap, base \o tt) = LastRows(Cap, base \o x)
      BY <2>2, Ends
    <3>2. LastRows(Cap, log) = LastRows(Cap, base \o tt)
      BY <1>0, <3>1, Ends
    <3>3. base \o tt \in Seq(R)
      BY <2>2, Joined
    <3> DEFINE all == base \o tt
    <3>a. all \in Seq(R) /\ LastRows(Cap, log) = LastRows(Cap, all)
      BY <3>2, <3>3
    <3> HIDE DEF all
    <3>b. LastRows(Cap, log \o mt) = LastRows(Cap, all \o mt)
      BY <1>0, <2>1, <3>a, Ends
    <3>4. LastRows(Cap, (base \o tt) \o mt) = LastRows(Cap, log \o mt)
      BY <3>b DEF all
    <3>5. LastRows(Cap, log \o mt) = LastRows(Cap, log \o y)
      BY <1>0, <2>1, Ends
    <3> QED BY <3>4, <3>5
  <2> QED BY <2>5, <2>6, <2>9, <2>10 DEF rest
<1> QED BY <1>1, <1>2, <1>3

-----------------------------------------------------------------------------
(* The candidates log, as far as the serial one is compared with it: the    *)
(* rows from before the run, and the keys seen since it began.              *)
Old(rows) == {r \in ToSet(rows) : r.day < 1}

Young(rows) == {r.key : r \in {x \in ToSet(rows) : x.day >= 1}}

(* The first n of other are rows of base, in their order. *)
InOrder(base, other, n) ==
    /\ \A q \in 1..n : \E i \in DOMAIN base : other[q] = base[i]
    /\ \A p, q \in 1..n, i, j \in DOMAIN base :
          p < q /\ other[p] = base[i] /\ other[q] = base[j] => i < j

(* What other still has from before the run stands first, as it stood in base. *)
Ordered(base, other) == \A n \in DOMAIN other : other[n].day < 1 => InOrder(base, other, n)

LEMMA RowsIn ==
  ASSUME NEW rows, NEW x
  PROVE  x \in ToSet(rows) <=> \E p \in DOMAIN rows : x = rows[p]
BY DEF ToSet

LEMMA DistinctRows == ASSUME NEW rows, DistinctKeys(rows) PROVE Uniq(rows)
BY DEF DistinctKeys, Uniq

LEMMA SurvivorsIn ==
  ASSUME NEW R, NEW rows \in Seq(R), NEW at, NEW x
  PROVE  x \in ToSet(Survivors(rows, at)) <=> \E i \in DOMAIN rows : i \in at /\ x = rows[i]
<1>1. DOMAIN rows = 1..Len(rows)
  OBVIOUS
<1>2. PICK s : s = Survivors(rows, at)
  OBVIOUS
<1>3. PickedOK(s, rows, at, Len(rows))
  BY <1>2, SurvivorsOK
<1>4. /\ \A p \in DOMAIN s : \E i \in 1..Len(rows) : i \in at /\ s[p] = rows[i]
      /\ \A i \in 1..Len(rows) : i \in at => \E p \in DOMAIN s : s[p] = rows[i]
  BY <1>3 DEF PickedOK
<1>5. x \in ToSet(s) <=> \E p \in DOMAIN s : x = s[p]
  BY RowsIn
<1> QED BY <1>1, <1>2, <1>4, <1>5

(* Picking keeps the order. *)
LEMMA SurvivorsInOrder ==
  ASSUME NEW R, NEW rows \in Seq(R), Uniq(rows), NEW at
  PROVE  InOrder(rows, Survivors(rows, at), Len(Survivors(rows, at)))
<1> DEFINE N == Len(rows)
           c == CHOOSE c : Picks(c, rows, at, N)
<1>1. N \in Nat /\ DOMAIN rows = 1..N /\ \A i \in 1..N : rows[i] \in R
  OBVIOUS
<1>2. Picks(c, rows, at, N)
  BY <1>1, PicksExists
<1>3. Survivors(rows, at) = c[N]
  BY DEF Survivors, Picks, PickOne
<1> HIDE DEF N, c
<1>4. \A i \in 0..N : c[i] = IF i = 0 THEN <<>> ELSE PickOne(c[i - 1], rows, at, i)
  BY <1>2 DEF Picks
<1> DEFINE Good == {n \in 0..N : /\ c[n] \in Seq(R)
                                 /\ InOrder(rows, c[n], Len(c[n]))
                                 /\ \A p \in 1..Len(c[n]) : \E i \in 1..n : c[n][p] = rows[i]}
<1>5. 0 \in Good
  <2>1. c[0] = <<>> /\ 0 \in 0..N
    BY <1>1, <1>4
  <2>2. <<>> \in Seq(R) /\ Len(<<>>) = 0 /\ 1..0 = {}
    OBVIOUS
  <2> QED BY <2>1, <2>2 DEF InOrder
<1>6. ASSUME NEW n \in 0..N, n \in Good, n + 1 \in 0..N PROVE n + 1 \in Good
  <2>1. PICK s : s = c[n]
    OBVIOUS
  <2>2. /\ s \in Seq(R) /\ InOrder(rows, s, Len(s)) /\ \A p \in 1..Len(s) : \E i \in 1..n : s[p] = rows[i]
    BY <1>6, <2>1
  <2>3. c[n + 1] = PickOne(s, rows, at, n + 1)
    BY <1>1, <1>4, <1>6, <2>1
  <2>4. n \in Nat /\ n + 1 \in 1..N /\ 1..n \subseteq 1..(n + 1) /\ n + 1 \in 1..(n + 1) /\ 1..n \subseteq 1..N
    BY <1>1, <1>6
  <2>5. CASE n + 1 \notin at
    BY <1>6, <2>2, <2>3, <2>4, <2>5 DEF PickOne
  <2>6. CASE n + 1 \in at
    <3>1. PICK t : t = Append(s, rows[n + 1])
      OBVIOUS
    <3>2. /\ t \in Seq(R) /\ Len(t) = Len(s) + 1 /\ Len(s) \in Nat
          /\ \A p \in 1..Len(s) : t[p] = s[p]
          /\ t[Len(s) + 1] = rows[n + 1]
      BY <1>1, <2>2, <2>4, <3>1
    <3>3. \A p \in 1..Len(t) : \E i \in 1..(n + 1) : t[p] = rows[i]
      <4> TAKE p \in 1..Len(t)
      <4>1. CASE p \in 1..Len(s)
        BY <2>2, <2>4, <3>2, <4>1
      <4>2. CASE p \notin 1..Len(s)
        BY <2>4, <3>2, <4>2
      <4> QED BY <4>1, <4>2
    <3>4. ASSUME NEW p \in 1..Len(t), NEW q \in 1..Len(t), NEW i \in 1..N, NEW j \in 1..N,
                 p < q, t[p] = rows[i], t[q] = rows[j]
          PROVE  i < j
      <4>1. p \in 1..Len(s) /\ t[p] = s[p]
        BY <3>2, <3>4
      <4>2. CASE q \in 1..Len(s)
        BY <1>1, <2>2, <3>2, <3>4, <4>1, <4>2 DEF InOrder
      <4>3. CASE q \notin 1..Len(s)
        <5>1. q = Len(s) + 1
          BY <3>2, <4>3
        <5>2. j = n + 1
          BY <1>1, <2>4, <3>2, <3>4, <5>1 DEF Uniq
        <5>3. PICK k \in 1..n : s[p] = rows[k]
          BY <2>2, <4>1
        <5>4. i = k
          BY <1>1, <2>4, <3>4, <4>1, <5>3 DEF Uniq
        <5> QED BY <2>4, <5>2, <5>3, <5>4
      <4> QED BY <4>2, <4>3
    <3>5. InOrder(rows, t, Len(t))
      BY <1>1, <2>4, <3>3, <3>4 DEF InOrder
    <3>6. c[n + 1] = t
      BY <2>3, <2>6, <3>1 DEF PickOne
    <3> QED BY <1>6, <3>2, <3>3, <3>5, <3>6
  <2> QED BY <2>5, <2>6
<1>7. N \in Good
  <2> HIDE DEF Good
  <2>1. \A n \in 0..N : n \in Good
    BY <1>1, <1>5, <1>6, UpTo
  <2> QED BY <1>1, <2>1
<1> QED BY <1>3, <1>7

(* A run is over before a row of its first day is too old. *)
LEMMA ShortRun == MaxDay <= Window + 1 /\ MaxDay \in Nat \ {0} /\ Window \in Nat
  BY RowsAssumption, StagingAssumption, MergeAssumption

(* The rows of the log, its days integers and its keys distinct. *)
IsSeen(rows) == IsRows(rows) /\ DistinctKeys(rows) /\ \A p \in DOMAIN rows : rows[p].day \in Int

LEMMA OldAre ==
  ASSUME NEW rows, NEW x
  PROVE  /\ x \in Old(rows) <=> (x.day < 1 /\ \E p \in DOMAIN rows : x = rows[p])
         /\ x \in Young(rows) <=> \E p \in DOMAIN rows : rows[p].day >= 1 /\ rows[p].key = x
<1>1. x \in Old(rows) <=> x.day < 1 /\ x \in ToSet(rows)
  BY DEF Old
<1>2. x \in Young(rows) <=> \E r \in ToSet(rows) : r.day >= 1 /\ r.key = x
  BY DEF Young
<1>3. \A y : y \in ToSet(rows) <=> \E p \in DOMAIN rows : y = rows[p]
  BY RowsIn
<1> QED BY <1>1, <1>2, <1>3

(* s has the rows that are not of this key and not too old by this day. *)
Recent(s, rows, key, day) ==
    /\ IsRows(s) /\ DistinctKeys(s) /\ InOrder(rows, s, Len(s))
    /\ \A x : (\E p \in DOMAIN s : x = s[p]) <=>
                 \E i \in DOMAIN rows : x = rows[i] /\ rows[i].key # key /\ rows[i].day + Window >= day

LEMMA ObservedRows ==
  ASSUME NEW rows, IsSeen(rows), NEW key, NEW day \in Int
  PROVE  \E s : Observed(rows, key, day) = Append(s, [key |-> key, day |-> day]) /\ Recent(s, rows, key, day)
<1> DEFINE at == {i \in DOMAIN rows : rows[i].key # key /\ rows[i].day + Window >= day}
<1>1. PICK R : rows \in Seq(R)
  BY DEF IsSeen, IsRows
<1>2. PICK s : s = Survivors(rows, at)
  OBVIOUS
<1>3. s \in Seq(R) /\ PickedOK(s, rows, at, Len(rows))
  BY <1>1, <1>2, SurvivorsOK
<1>4. Uniq(rows) /\ DistinctKeys(rows)
  BY DistinctRows DEF IsSeen
<1>5. InOrder(rows, s, Len(s))
  BY <1>1, <1>2, <1>4, SurvivorsInOrder
<1>6. IsRows(s) /\ DistinctKeys(s)
  BY <1>3, <1>4 DEF PickedOK, IsRows
<1>7. \A x : x \in ToSet(s) <=> \E i \in DOMAIN rows : i \in at /\ x = rows[i]
  BY <1>1, <1>2, SurvivorsIn
<1>8. \A x : x \in ToSet(s) <=> \E p \in DOMAIN s : x = s[p]
  BY RowsIn
<1>9. Observed(rows, key, day) = Append(s, [key |-> key, day |-> day])
  BY <1>2 DEF Observed
<1>10. ASSUME NEW x
       PROVE  (\E p \in DOMAIN s : x = s[p]) <=>
                 \E i \in DOMAIN rows : x = rows[i] /\ rows[i].key # key /\ rows[i].day + Window >= day
  BY <1>7, <1>8
<1>11. Recent(s, rows, key, day)
  BY <1>5, <1>6, <1>10 DEF Recent
<1> QED BY <1>9, <1>11

(* One more observation: its key is seen, and of the rows from before the   *)
(* run those of this key and those too old by now are gone.                 *)
LEMMA ObservedOld ==
  ASSUME NEW rows, IsSeen(rows), NEW key, NEW day \in 1..MaxDay
  PROVE  /\ IsSeen(Observed(rows, key, day))
         /\ Old(Observed(rows, key, day)) = {r \in Old(rows) : r.key # key /\ r.day + Window >= day}
         /\ Young(Observed(rows, key, day)) = Young(rows) \cup {key}
<1>0. day \in Int /\ day >= 1 /\ day <= MaxDay
  BY ShortRun
<1> DEFINE new == [key |-> key, day |-> day]
<1>1. \E s : Observed(rows, key, day) = Append(s, new) /\ Recent(s, rows, key, day)
  BY <1>0, ObservedRows
<1>2. PICK s : Observed(rows, key, day) = Append(s, new) /\ Recent(s, rows, key, day)
  BY <1>1
<1>3. PICK t : t = Append(s, new)
  OBVIOUS
<1>4. new.key = key /\ new.day = day
  OBVIOUS
<1> HIDE DEF new
<1>5. PICK R : s \in Seq(R)
  BY <1>2 DEF Recent, IsRows
<1>6. /\ IsRows(t) /\ DOMAIN t = 1..(Len(s) + 1) /\ Len(s) \in Nat /\ DOMAIN s = 1..Len(s)
      /\ \A p \in 1..Len(s) : t[p] = s[p]
      /\ t[Len(s) + 1] = new
  <2>1. t \in Seq(R \cup {new})
    BY <1>3, <1>5
  <2>2. IsRows(t)
    BY <2>1 DEF IsRows
  <2> QED BY <1>3, <1>5, <2>2
<1>7. ASSUME NEW x
      PROVE  (\E p \in DOMAIN t : x = t[p]) <=>
                x = new \/ \E i \in DOMAIN rows : x = rows[i] /\ rows[i].key # key /\ rows[i].day + Window >= day
  <2>1. (\E p \in DOMAIN t : x = t[p]) <=> x = new \/ \E p \in DOMAIN s : x = s[p]
    BY <1>6
  <2> QED BY <1>2, <2>1 DEF Recent
<1>8. IsSeen(t)
  <2>1. \A p \in DOMAIN t : t[p].day \in Int
    BY <1>0, <1>4, <1>7 DEF IsSeen
  <2>2. ASSUME NEW p \in DOMAIN s PROVE s[p].key # key
    BY <1>2 DEF Recent
  <2>3. DistinctKeys(t)
    <3> SUFFICES ASSUME NEW p \in DOMAIN t, NEW q \in DOMAIN t, t[p].key = t[q].key PROVE p = q
      BY DEF DistinctKeys
    <3>1. DistinctKeys(s)
      BY <1>2 DEF Recent
    <3>2. CASE p \in DOMAIN s /\ q \in DOMAIN s
      BY <1>6, <3>1, <3>2 DEF DistinctKeys
    <3>3. CASE p \in DOMAIN s /\ q = Len(s) + 1
      BY <1>4, <1>6, <2>2, <3>3
    <3>4. CASE q \in DOMAIN s /\ p = Len(s) + 1
      BY <1>4, <1>6, <2>2, <3>4
    <3> QED BY <1>6, <3>2, <3>3, <3>4
  <2> QED BY <1>6, <2>1, <2>3 DEF IsSeen
<1>9. Old(t) = {r \in Old(rows) : r.key # key /\ r.day + Window >= day}
  <2>1. ASSUME NEW x PROVE x \in Old(t) <=> x \in Old(rows) /\ x.key # key /\ x.day + Window >= day
    <3>1. x \in Old(t) <=> x.day < 1 /\ \E p \in DOMAIN t : x = t[p]
      BY OldAre
    <3>2. x \in Old(rows) <=> x.day < 1 /\ \E i \in DOMAIN rows : x = rows[i]
      BY OldAre
    <3>3. x = new => ~(x.day < 1)
      BY <1>0, <1>4
    <3> QED BY <1>7, <3>1, <3>2, <3>3
  <2> QED BY <2>1
<1>10. Young(t) = Young(rows) \cup {key}
  <2>1. ASSUME NEW k PROVE k \in Young(t) <=> k \in Young(rows) \/ k = key
    <3>1. k \in Young(t) <=> \E p \in DOMAIN t : t[p].day >= 1 /\ t[p].key = k
      BY OldAre
    <3>2. k \in Young(rows) <=> \E i \in DOMAIN rows : rows[i].day >= 1 /\ rows[i].key = k
      BY OldAre
    <3>3. \A i \in DOMAIN rows : rows[i].day >= 1 => rows[i].day + Window >= day
      BY <1>0, ShortRun DEF IsSeen
    <3>4. ASSUME k \in Young(t) PROVE k \in Young(rows) \/ k = key
      <4>1. PICK p \in DOMAIN t : t[p].day >= 1 /\ t[p].key = k
        BY <3>1, <3>4
      <4>2. t[p] = new \/ \E i \in DOMAIN rows : t[p] = rows[i]
        BY <1>7
      <4> QED BY <1>4, <3>2, <4>1, <4>2
    <3>5. ASSUME k = key PROVE k \in Young(t)
      <4>1. Len(s) + 1 \in DOMAIN t
        BY <1>6
      <4> QED BY <1>0, <1>4, <1>6, <3>1, <3>5, <4>1
    <3>6. ASSUME k \in Young(rows), k # key PROVE k \in Young(t)
      <4>1. PICK i \in DOMAIN rows : rows[i].day >= 1 /\ rows[i].key = k
        BY <3>2, <3>6
      <4>2. \E p \in DOMAIN t : rows[i] = t[p]
        BY <1>7, <3>3, <3>6, <4>1
      <4> QED BY <3>1, <4>1, <4>2
    <3> QED BY <3>4, <3>5, <3>6
  <2> QED BY <2>1
<1> QED BY <1>2, <1>3, <1>8, <1>9, <1>10

LEMMA ObservedOrdered ==
  ASSUME NEW base, IsSeen(base), NEW rows, IsSeen(rows), Ordered(base, rows), NEW key, NEW day \in 1..MaxDay
  PROVE  Ordered(base, Observed(rows, key, day))
<1>0. day \in Int /\ day >= 1
  BY ShortRun
<1> DEFINE new == [key |-> key, day |-> day]
<1>1. \E s : Observed(rows, key, day) = Append(s, new) /\ Recent(s, rows, key, day)
  BY <1>0, ObservedRows
<1>2. PICK s : Observed(rows, key, day) = Append(s, new) /\ Recent(s, rows, key, day)
  BY <1>1
<1>3. PICK t : t = Append(s, new)
  OBVIOUS
<1>4. new.day >= 1
  BY <1>0
<1> HIDE DEF new
<1>5. PICK R : s \in Seq(R)
  BY <1>2 DEF Recent, IsRows
<1>6. /\ DOMAIN t = 1..(Len(s) + 1) /\ Len(s) \in Nat
      /\ \A p \in 1..Len(s) : t[p] = s[p]
      /\ t[Len(s) + 1] = new
  BY <1>3, <1>5
<1>7. ASSUME NEW n \in DOMAIN t, t[n].day < 1 PROVE InOrder(base, t, n)
  <2>0. n \in 1..Len(s) /\ 1..n \subseteq 1..Len(s)
    <3>1. n # Len(s) + 1
      <4>1. new.day \in Int
        BY <1>0 DEF new
      <4> QED BY <1>4, <1>6, <1>7, <4>1
    <3> QED BY <1>6, <3>1
  <2>1. /\ \A q \in 1..Len(s) : \E i \in DOMAIN rows : s[q] = rows[i]
        /\ \A p, q \in 1..Len(s), i, j \in DOMAIN rows : p < q /\ s[p] = rows[i] /\ s[q] = rows[j] => i < j
    BY <1>2 DEF Recent, InOrder
  <2>2. PICK m \in DOMAIN rows : s[n] = rows[m]
    BY <2>0, <2>1
  <2>3. InOrder(base, rows, m)
    BY <1>6, <1>7, <2>0, <2>2 DEF Ordered
  <2>4. m \in Nat /\ DOMAIN rows = 1..Len(rows) /\ Len(rows) \in Nat
    BY DEF IsSeen, IsRows
  <2>5. ASSUME NEW q \in 1..n PROVE \E k \in 1..m : t[q] = rows[k]
    <3>1. PICK k \in DOMAIN rows : s[q] = rows[k]
      BY <2>0, <2>1
    <3>2. q = n \/ q < n
      BY <1>6, <2>0
    <3>3. k <= m
      <4>1. CASE q = n
        <5>1. Uniq(rows)
          BY DistinctRows DEF IsSeen
        <5> QED BY <2>2, <2>4, <3>1, <4>1, <5>1 DEF Uniq
      <4>2. CASE q < n
        BY <2>0, <2>1, <2>2, <2>4, <3>1, <4>2
      <4> QED BY <3>2, <4>1, <4>2
    <3> QED BY <1>6, <2>0, <2>4, <3>1, <3>3
  <2>6. \A q \in 1..n : \E i \in DOMAIN base : t[q] = base[i]
    BY <2>3, <2>5 DEF InOrder
  <2>7. ASSUME NEW p \in 1..n, NEW q \in 1..n, NEW i \in DOMAIN base, NEW j \in DOMAIN base,
               p < q, t[p] = base[i], t[q] = base[j]
        PROVE  i < j
    <3>1. PICK k \in 1..m : t[p] = rows[k]
      BY <2>5
    <3>2. PICK l \in 1..m : t[q] = rows[l]
      BY <2>5
    <3>3. k < l
      <4>1. k \in DOMAIN rows /\ l \in DOMAIN rows /\ s[p] = rows[k] /\ s[q] = rows[l]
        BY <1>6, <2>0, <2>4, <3>1, <3>2
      <4> QED BY <2>0, <2>1, <2>7, <4>1
    <3> QED BY <2>3, <2>7, <3>1, <3>2, <3>3 DEF InOrder
  <2> QED BY <2>6, <2>7 DEF InOrder
<1> QED BY <1>2, <1>3, <1>7 DEF Ordered

(* The greedy match keeps what other begins with of base, in its order. *)
LEMMA GreedyKeeps ==
  ASSUME NEW R, NEW base \in Seq(R), NEW other \in Seq(R), NEW n \in DOMAIN other, InOrder(base, other, n)
  PROVE  n <= Cardinality(KeptHead(base, other))
<1> DEFINE N == Len(base)
           c == CHOOSE c : Keeps(c, base, other, N)
<1>1. /\ N \in Nat /\ DOMAIN base = 1..N /\ Len(other) \in Nat /\ DOMAIN other = 1..Len(other)
      /\ n \in Nat /\ n >= 1 /\ n <= Len(other)
  OBVIOUS
<1>2. Keeps(c, base, other, N)
  BY <1>1, KeepsExists
<1>3. KeptHead(base, other) = c[N]
  BY DEF KeptHead, Keeps, KeepOne
<1> HIDE DEF N, c
<1>4. \A i \in 0..N : c[i] = IF i = 0 THEN {} ELSE KeepOne(c[i - 1], base, other, i)
  BY <1>2 DEF Keeps
<1>a. /\ \A q \in 1..n : \E i \in 1..N : other[q] = base[i]
      /\ \A p, q \in 1..n, i, j \in 1..N : p < q /\ other[p] = base[i] /\ other[q] = base[j] => i < j
  BY <1>1 DEF InOrder
<1> DEFINE Met(k) == \A q \in 1..n, i \in 1..k : other[q] = base[i] => q <= Cardinality(c[k])
           Good == {k \in 0..N : KeptOK(c[k], base, other, k) /\ Met(k)}
<1>5. 0 \in Good
  <2>1. c[0] = {}
    BY <1>1, <1>4
  <2>2. IsFiniteSet({}) /\ Cardinality({}) = 0 /\ 1..0 = {}
    BY FS_EmptySet
  <2>3. KeptOK({}, base, other, 0)
    BY <1>1, <2>2 DEF KeptOK
  <2>4. KeptOK(c[0], base, other, 0) /\ Met(0)
    BY <2>1, <2>2, <2>3
  <2> QED BY <1>1, <2>4
<1>6. ASSUME NEW k \in 0..N, k \in Good, k + 1 \in 0..N PROVE k + 1 \in Good
  <2>1. PICK K : K = c[k]
    OBVIOUS
  <2>2. PICK L : L = c[k + 1]
    OBVIOUS
  <2>3. L = KeepOne(K, base, other, k + 1)
    BY <1>1, <1>4, <1>6, <2>1, <2>2
  <2>4. k \in Nat /\ k + 1 \in 1..N /\ k + 1 \in DOMAIN base /\ 1..k \subseteq 1..N
        /\ KeptOK(K, base, other, k)
        /\ \A q \in 1..n, i \in 1..k : other[q] = base[i] => q <= Cardinality(K)
    BY <1>1, <1>6, <2>1
  <2>5. KeptOK(L, base, other, k + 1)
    BY <2>3, <2>4, KeptStep
  <2>6. /\ IsFiniteSet(K) /\ Cardinality(K) \in Nat /\ k + 1 \notin K
        /\ Cardinality(L) \in Nat
    <3>1. K \subseteq 1..k /\ IsFiniteSet(K) /\ Cardinality(K) \in 0..Len(other)
      BY <2>4 DEF KeptOK
    <3>2. Cardinality(L) \in 0..Len(other)
      BY <2>5 DEF KeptOK
    <3> QED BY <1>1, <2>4, <3>1, <3>2
  <2>7. L = K \/ Cardinality(L) = Cardinality(K) + 1
    <3>1. L = K \/ L = K \cup {k + 1}
      BY <2>3 DEF KeepOne
    <3>2. Cardinality(K \cup {k + 1}) = Cardinality(K) + 1
      BY <2>6, FS_AddElement
    <3> QED BY <3>1, <3>2
  <2>8. ASSUME NEW q \in 1..n, NEW i \in 1..(k + 1), other[q] = base[i] PROVE q <= Cardinality(L)
    <3>1. CASE i \in 1..k
      <4>1. q <= Cardinality(K) /\ q \in Nat
        BY <2>4, <2>8, <3>1
      <4> QED BY <2>6, <2>7, <4>1
    <3>2. CASE i \notin 1..k
      <4>1. i = k + 1
        BY <2>4, <3>2
      <4>2. CASE q <= Cardinality(K)
        BY <2>6, <2>7, <4>2
      <4>3. CASE q = Cardinality(K) + 1
        <5>1. Cardinality(K) + 1 <= Len(other) /\ other[Cardinality(K) + 1] = base[k + 1]
          BY <1>1, <2>8, <4>1, <4>3
        <5>2. L = K \cup {k + 1}
          BY <2>3, <5>1 DEF KeepOne
        <5>3. Cardinality(L) = Cardinality(K) + 1
          BY <2>6, <5>2, FS_AddElement
        <5> QED BY <2>6, <4>3, <5>3
      <4>4. CASE q > Cardinality(K) + 1
        <5>1. PICK p \in 1..n : p + 1 = q
          <6>1. q - 1 \in 1..n /\ (q - 1) + 1 = q
            BY <1>1, <2>6, <4>4
          <6> QED BY <6>1
        <5>2. PICK j \in 1..N : other[p] = base[j]
          BY <1>a
        <5>3. j < k + 1
          <6>1. p < q
            BY <5>1
          <6> QED BY <1>a, <2>4, <2>8, <4>1, <5>2, <6>1
        <5>4. j \in 1..k
          BY <1>1, <2>4, <5>3
        <5>5. p <= Cardinality(K)
          BY <2>4, <5>2, <5>4
        <5> QED BY <2>6, <4>4, <5>1, <5>5
      <4> QED BY <2>6, <4>2, <4>3, <4>4
    <3> QED BY <3>1, <3>2
  <2>9. Met(k + 1)
    BY <2>2, <2>8
  <2> QED BY <1>6, <2>2, <2>5, <2>9
<1>7. N \in Good
  <2> HIDE DEF Good
  <2>1. \A k \in 0..N : k \in Good
    BY <1>1, <1>5, <1>6, UpTo
  <2> QED BY <1>1, <2>1
<1>8. PICK i \in 1..N : other[n] = base[i]
  BY <1>1, <1>a
<1>9. Met(N) /\ n \in 1..n
  BY <1>1, <1>7
<1> HIDE DEF Good
<1> QED BY <1>3, <1>8, <1>9

(* The two parts in which a merge sees other: what it kept of base, with    *)
(* all its rows from before the run, and rows of the run.                   *)
Parts(base, other, kept, tail) ==
    /\ KeptThenAppended(base, other) = [kept |-> kept, tail |-> tail]
    /\ kept \subseteq DOMAIN base /\ IsRows(tail)
    /\ \A p \in DOMAIN tail : tail[p].day \in Int /\ tail[p].day >= 1
    /\ \A i \in DOMAIN base : base[i].day < 1 => (i \in kept <=> base[i] \in Old(other))
    /\ \A k : k \in Young(other) <=>
                 \/ \E i \in kept : base[i].day >= 1 /\ base[i].key = k
                 \/ \E p \in DOMAIN tail : tail[p].key = k

LEMMA PartsFound ==
  ASSUME NEW base, IsSeen(base), NEW other, IsSeen(other), Ordered(base, other)
  PROVE  \E kept, tail : Parts(base, other, kept, tail)
<1>1. PICK A : base \in Seq(A)
  BY DEF IsSeen, IsRows
<1>2. PICK B : other \in Seq(B)
  BY DEF IsSeen, IsRows
<1> DEFINE R == A \cup B
<1>3. base \in Seq(R) /\ other \in Seq(R)
  BY <1>1, <1>2, WiderRows
<1> HIDE DEF R
<1>4. PICK kept : kept = KeptHead(base, other)
  OBVIOUS
<1>5. PICK m : m = Cardinality(kept)
  OBVIOUS
<1>6. /\ kept \subseteq 1..Len(base) /\ m \in 0..Len(other)
      /\ \A p \in 1..m : \E j \in kept : other[p] = base[j]
      /\ \A j \in kept : \E p \in 1..m : other[p] = base[j]
  <2>1. KeptOK(kept, base, other, Len(base))
    BY <1>3, <1>4, KeptHeadOK
  <2> QED BY <1>5, <2>1 DEF KeptOK
<1>7. /\ DOMAIN base = 1..Len(base) /\ Len(base) \in Nat /\ DOMAIN other = 1..Len(other) /\ Len(other) \in Nat
      /\ m \in Nat /\ m <= Len(other)
  BY <1>3, <1>6
<1>8. PICK tail : tail = SubSeq(other, m + 1, Len(other))
  OBVIOUS
<1>9. /\ tail \in Seq(R) /\ Len(tail) = Len(other) - m /\ DOMAIN tail = 1..(Len(other) - m)
      /\ \A q \in 1..(Len(other) - m) : tail[q] = other[m + q]
  <2>1. tail \in Seq(R) /\ Len(tail) = Len(other) - m
        /\ \A q \in 1..(Len(other) - m) : tail[q] = other[m + q]
    BY <1>3, <1>6, <1>8, RowsAfter
  <2> QED BY <2>1
<1>10. \A p \in DOMAIN other : other[p].day \in Int /\ (other[p].day < 1 => p <= m)
  <2> TAKE p \in DOMAIN other
  <2>1. other[p].day \in Int
    BY DEF IsSeen
  <2>2. ASSUME other[p].day < 1 PROVE p <= m
    <3>1. InOrder(base, other, p)
      BY <2>2 DEF Ordered
    <3> QED BY <1>3, <1>4, <1>5, <3>1, GreedyKeeps
  <2> QED BY <2>1, <2>2
<1>11. \A p \in DOMAIN tail : m + p \in DOMAIN other /\ tail[p] = other[m + p] /\ ~(m + p <= m)
  BY <1>7, <1>9
<1>12. \A p \in DOMAIN tail : tail[p].day \in Int /\ tail[p].day >= 1
  <2> TAKE p \in DOMAIN tail
  <2>1. other[m + p].day \in Int /\ ~(other[m + p].day < 1)
    BY <1>10, <1>11
  <2> QED BY <1>11, <2>1
<1>13. KeptThenAppended(base, other) = [kept |-> kept, tail |-> tail]
  BY <1>4, <1>5, <1>8 DEF KeptThenAppended
<1>14. ASSUME NEW i \in DOMAIN base, base[i].day < 1 PROVE i \in kept <=> base[i] \in Old(other)
  <2>0. base[i] \in Old(other) <=> (base[i].day < 1 /\ \E p \in DOMAIN other : base[i] = other[p])
    BY OldAre
  <2>1. base[i] \in Old(other) <=> \E p \in DOMAIN other : base[i] = other[p]
    <3>1. base[i].day < 1
      BY <1>14
    <3> QED BY <2>0, <3>1, Zenon
  <2>2. ASSUME i \in kept PROVE \E p \in DOMAIN other : base[i] = other[p]
    <3>1. PICK p \in 1..m : other[p] = base[i]
      BY <1>6, <2>2
    <3>2. p \in DOMAIN other
      BY <1>7
    <3> QED BY <3>1, <3>2
  <2>3. ASSUME NEW p \in DOMAIN other, base[i] = other[p] PROVE i \in kept
    <3>1. p \in 1..m
      BY <1>7, <1>10, <1>14, <2>3
    <3>2. PICK j \in kept : other[p] = base[j]
      BY <1>6, <3>1
    <3>3. i = j
      <4>1. Uniq(base) /\ j \in DOMAIN base
        BY <1>6, <1>7, DistinctRows DEF IsSeen
      <4> QED BY <2>3, <3>2, <4>1 DEF Uniq
    <3> QED BY <3>2, <3>3
  <2> QED BY <2>1, <2>2, <2>3
<1>15. ASSUME NEW k
       PROVE  k \in Young(other) <=> \/ \E i \in kept : base[i].day >= 1 /\ base[i].key = k
                                     \/ \E p \in DOMAIN tail : tail[p].key = k
  <2>1. k \in Young(other) <=> \E p \in DOMAIN other : other[p].day >= 1 /\ other[p].key = k
    BY OldAre
  <2>2. ASSUME NEW p \in DOMAIN other, other[p].day >= 1, other[p].key = k
        PROVE  \/ \E i \in kept : base[i].day >= 1 /\ base[i].key = k
               \/ \E q \in DOMAIN tail : tail[q].key = k
    <3>1. CASE p <= m
      <4>1. p \in 1..m
        BY <1>7, <3>1
      <4> QED BY <1>6, <2>2, <4>1
    <3>2. CASE ~(p <= m)
      <4>1. p - m \in DOMAIN tail /\ m + (p - m) = p
        BY <1>7, <1>9, <3>2
      <4>2. tail[p - m] = other[p]
        BY <1>11, <4>1
      <4> QED BY <2>2, <4>1, <4>2
    <3> QED BY <3>1, <3>2
  <2>3. ASSUME NEW i \in kept, base[i].day >= 1, base[i].key = k PROVE k \in Young(other)
    <3>1. PICK p \in 1..m : other[p] = base[i]
      BY <1>6
    <3>2. p \in DOMAIN other
      BY <1>7
    <3> QED BY <2>1, <2>3, <3>1, <3>2
  <2>4. ASSUME NEW p \in DOMAIN tail, tail[p].key = k PROVE k \in Young(other)
    BY <1>11, <1>12, <2>1, <2>4
  <2> QED BY <2>1, <2>2, <2>3, <2>4
<1>16. IsRows(tail)
  BY <1>9 DEF IsRows
<1>17. kept \subseteq DOMAIN base
  BY <1>6, <1>7
<1>18. Parts(base, other, kept, tail)
  BY <1>12, <1>13, <1>14, <1>15, <1>16, <1>17 DEF Parts
<1> QED BY <1>18

LEMMA CatRows ==
  ASSUME NEW R, NEW a \in Seq(R), NEW b \in Seq(R)
  PROVE  /\ ToSet(Cat(a, b)) = ToSet(a) \cup ToSet(b)
         /\ Old(Cat(a, b)) = Old(a) \cup Old(b)
         /\ Young(Cat(a, b)) = Young(a) \cup Young(b)
<1>1. PICK c : c = Cat(a, b)
  OBVIOUS
<1>2. /\ c \in Seq(R) /\ DOMAIN c = 1..(Len(a) + Len(b)) /\ DOMAIN a = 1..Len(a) /\ DOMAIN b = 1..Len(b)
      /\ Len(a) \in Nat /\ Len(b) \in Nat
      /\ \A p \in 1..Len(a) : c[p] = a[p]
      /\ \A p \in 1..Len(b) : c[Len(a) + p] = b[p]
  BY <1>1 DEF Cat
<1>3. ASSUME NEW x PROVE x \in ToSet(c) <=> x \in ToSet(a) \/ x \in ToSet(b)
  <2>1. x \in ToSet(c) => x \in ToSet(a) \/ x \in ToSet(b)
    <3> SUFFICES ASSUME NEW p \in DOMAIN c, x = c[p] PROVE x \in ToSet(a) \/ x \in ToSet(b)
      BY RowsIn
    <3>1. CASE p \in 1..Len(a)
      BY <1>2, <3>1, RowsIn
    <3>2. CASE p \notin 1..Len(a)
      <4>1. p - Len(a) \in 1..Len(b) /\ Len(a) + (p - Len(a)) = p
        BY <1>2, <3>2
      <4>2. x = b[p - Len(a)]
        BY <1>2, <4>1
      <4> QED BY <1>2, <4>1, <4>2, RowsIn
    <3> QED BY <3>1, <3>2
  <2>2. ASSUME x \in ToSet(a) PROVE x \in ToSet(c)
    <3>1. PICK p \in 1..Len(a) : x = a[p]
      BY <1>2, <2>2, RowsIn
    <3>2. p \in DOMAIN c /\ x = c[p]
      BY <1>2, <3>1
    <3> QED BY <3>2, RowsIn
  <2>3. ASSUME x \in ToSet(b) PROVE x \in ToSet(c)
    <3>1. PICK p \in 1..Len(b) : x = b[p]
      BY <1>2, <2>3, RowsIn
    <3>2. Len(a) + p \in DOMAIN c /\ x = c[Len(a) + p]
      BY <1>2, <3>1
    <3> QED BY <3>2, RowsIn
  <2> QED BY <2>1, <2>2, <2>3
<1>4. ToSet(c) = ToSet(a) \cup ToSet(b)
  BY <1>3
<1> QED BY <1>1, <1>4 DEF Old, Young

LEMMA OrderedCat ==
  ASSUME NEW base, NEW R, NEW a \in Seq(R), Ordered(base, a), NEW b \in Seq(R),
         \A p \in DOMAIN b : b[p].day \in Int /\ b[p].day >= 1
  PROVE  Ordered(base, Cat(a, b))
<1>1. PICK c : c = Cat(a, b)
  OBVIOUS
<1>2. /\ DOMAIN c = 1..(Len(a) + Len(b)) /\ DOMAIN a = 1..Len(a) /\ DOMAIN b = 1..Len(b)
      /\ Len(a) \in Nat /\ Len(b) \in Nat
      /\ \A p \in 1..Len(a) : c[p] = a[p]
      /\ \A p \in 1..Len(b) : c[Len(a) + p] = b[p]
  BY <1>1 DEF Cat
<1>3. ASSUME NEW n \in DOMAIN c, c[n].day < 1 PROVE InOrder(base, c, n)
  <2>1. n \in 1..Len(a)
    <3> SUFFICES ASSUME n \notin 1..Len(a) PROVE FALSE
      OBVIOUS
    <3>1. n - Len(a) \in 1..Len(b) /\ Len(a) + (n - Len(a)) = n
      BY <1>2
    <3>2. c[n] = b[n - Len(a)]
      BY <1>2, <3>1
    <3> QED BY <1>2, <1>3, <3>1, <3>2
  <2>2. InOrder(base, a, n)
    BY <1>2, <1>3, <2>1 DEF Ordered
  <2>3. \A q \in 1..n : c[q] = a[q]
    BY <1>2, <2>1
  <2> QED BY <2>2, <2>3 DEF InOrder
<1>4. Ordered(base, c)
  BY <1>3 DEF Ordered
<1> QED BY <1>1, <1>4

(* A merged candidates log has of the rows from before the run what both    *)
(* sides still have, and of the keys of the run what either has.            *)
Unites(base, staged, log, merged) ==
    /\ Old(merged) = Old(staged) \cap Old(log)
    /\ Young(merged) = Young(staged) \cup Young(log)
    /\ Ordered(base, merged)

LEMMA BothUnite ==
  ASSUME NEW base, IsSeen(base), NEW staged, IsSeen(staged), NEW log, IsSeen(log),
         Old(staged) \subseteq Old(base), Young(base) \subseteq Young(staged),
         Old(log) \subseteq Old(base), Young(base) \subseteq Young(log),
         NEW mk, NEW mt, Parts(base, staged, mk, mt), NEW tk, NEW tt, Parts(base, log, tk, tt),
         NEW merged,
         merged = Cat(Cat(Survivors(base, mk \cap tk),
                          Survivors(tt, {i \in DOMAIN tt : tt[i].key \notin KeysIn(mt)})), mt)
  PROVE  Unites(base, staged, log, merged)
<1> DEFINE new == {i \in DOMAIN tt : tt[i].key \notin KeysIn(mt)}
<1>1. PICK A : base \in Seq(A)
  BY DEF IsSeen, IsRows
<1>2. PICK B : mt \in Seq(B)
  BY DEF Parts, IsRows
<1>3. PICK C : tt \in Seq(C)
  BY DEF Parts, IsRows
<1> DEFINE R == A \cup B \cup C
<1>4. base \in Seq(R) /\ mt \in Seq(R) /\ tt \in Seq(R)
  BY <1>1, <1>2, <1>3, WiderRows
<1> HIDE DEF R
<1>5. PICK a : a = Survivors(base, mk \cap tk)
  OBVIOUS
<1>6. PICK b : b = Survivors(tt, new)
  OBVIOUS
<1>7. a \in Seq(R) /\ b \in Seq(R)
  BY <1>4, <1>5, <1>6, SurvivorsOK
<1>8. PICK ab : ab = Cat(a, b)
  OBVIOUS
<1>9. ab \in Seq(R)
  BY <1>7, <1>8 DEF Cat
<1>a. PICK c : c = Cat(ab, mt)
  OBVIOUS
<1>10. merged = c
  BY <1>5, <1>6, <1>8, <1>a
<1>11. /\ Old(merged) = Old(a) \cup Old(b) \cup Old(mt)
       /\ Young(merged) = Young(a) \cup Young(b) \cup Young(mt)
  <2>1. Old(ab) = Old(a) \cup Old(b) /\ Young(ab) = Young(a) \cup Young(b)
    BY <1>7, <1>8, CatRows
  <2>2. Old(c) = Old(ab) \cup Old(mt) /\ Young(c) = Young(ab) \cup Young(mt)
    BY <1>4, <1>9, <1>a, CatRows
  <2> QED BY <1>10, <2>1, <2>2
<1>12. ASSUME NEW x PROVE x \in ToSet(a) <=> \E i \in DOMAIN base : i \in mk \cap tk /\ x = base[i]
  BY <1>4, <1>5, SurvivorsIn
<1>13. ASSUME NEW x PROVE x \in ToSet(b) <=> \E i \in DOMAIN tt : tt[i].key \notin KeysIn(mt) /\ x = tt[i]
  BY <1>4, <1>6, SurvivorsIn
<1>14. /\ mk \subseteq DOMAIN base /\ tk \subseteq DOMAIN base
       /\ \A p \in DOMAIN mt : mt[p].day \in Int /\ mt[p].day >= 1
       /\ \A p \in DOMAIN tt : tt[p].day \in Int /\ tt[p].day >= 1
       /\ \A i \in DOMAIN base : base[i].day < 1 => (i \in mk <=> base[i] \in Old(staged))
       /\ \A i \in DOMAIN base : base[i].day < 1 => (i \in tk <=> base[i] \in Old(log))
  BY DEF Parts
<1>15. ASSUME NEW k
       PROVE  /\ k \in Young(staged) <=> \/ \E i \in mk : base[i].day >= 1 /\ base[i].key = k
                                         \/ \E p \in DOMAIN mt : mt[p].key = k
              /\ k \in Young(log) <=> \/ \E i \in tk : base[i].day >= 1 /\ base[i].key = k
                                      \/ \E p \in DOMAIN tt : tt[p].key = k
  BY DEF Parts
<1>16. Old(merged) = Old(staged) \cap Old(log)
  <2>1. Old(mt) = {}
    <3>1. ASSUME NEW x, x \in Old(mt) PROVE FALSE
      <4>1. x.day < 1 /\ \E p \in DOMAIN mt : x = mt[p]
        BY <3>1, OldAre
      <4> QED BY <1>14, <4>1
    <3> QED BY <3>1
  <2>2. Old(b) = {}
    <3>1. ASSUME NEW x, x \in Old(b) PROVE FALSE
      <4>1. x.day < 1 /\ x \in ToSet(b)
        BY <3>1 DEF Old
      <4> QED BY <1>13, <1>14, <4>1
    <3> QED BY <3>1
  <2>3. ASSUME NEW x PROVE x \in Old(a) <=> x \in Old(staged) /\ x \in Old(log)
    <3>1. x \in Old(a) <=> x.day < 1 /\ x \in ToSet(a)
      BY DEF Old
    <3>2. ASSUME x \in Old(a) PROVE x \in Old(staged) /\ x \in Old(log)
      <4>1. PICK i \in DOMAIN base : i \in mk \cap tk /\ x = base[i]
        BY <1>12, <3>1, <3>2
      <4> QED BY <1>14, <3>1, <3>2, <4>1
    <3>3. ASSUME x \in Old(staged), x \in Old(log) PROVE x \in Old(a)
      <4>1. x \in Old(base)
        BY <3>3
      <4>2. x.day < 1 /\ \E i \in DOMAIN base : x = base[i]
        BY <4>1, OldAre
      <4>3. PICK i \in DOMAIN base : x = base[i]
        BY <4>2
      <4>4. i \in mk \cap tk
        BY <1>14, <3>3, <4>2, <4>3
      <4> QED BY <1>12, <3>1, <4>2, <4>3, <4>4
    <3> QED BY <3>2, <3>3
  <2>4. Old(a) = Old(staged) \cap Old(log)
    BY <2>3
  <2> QED BY <1>11, <2>1, <2>2, <2>4
<1>17. Young(merged) = Young(staged) \cup Young(log)
  <2>1. ASSUME NEW k PROVE k \in Young(a) <=> \E i \in mk \cap tk : base[i].day >= 1 /\ base[i].key = k
    <3>1. k \in Young(a) <=> \E x \in ToSet(a) : x.day >= 1 /\ x.key = k
      BY DEF Young
    <3>2. ASSUME k \in Young(a) PROVE \E i \in mk \cap tk : base[i].day >= 1 /\ base[i].key = k
      BY <1>12, <3>1, <3>2
    <3>3. ASSUME NEW i \in mk \cap tk, base[i].day >= 1, base[i].key = k PROVE k \in Young(a)
      <4>1. base[i] \in ToSet(a)
        BY <1>12, <1>14, <3>3
      <4> QED BY <3>1, <3>3, <4>1
    <3> QED BY <3>2, <3>3
  <2>2. ASSUME NEW k PROVE k \in Young(b) <=> k \notin KeysIn(mt) /\ \E p \in DOMAIN tt : tt[p].key = k
    <3>1. k \in Young(b) <=> \E x \in ToSet(b) : x.day >= 1 /\ x.key = k
      BY DEF Young
    <3>2. ASSUME k \in Young(b) PROVE k \notin KeysIn(mt) /\ \E p \in DOMAIN tt : tt[p].key = k
      BY <1>13, <3>1, <3>2
    <3>3. ASSUME k \notin KeysIn(mt), NEW p \in DOMAIN tt, tt[p].key = k PROVE k \in Young(b)
      <4>1. tt[p] \in ToSet(b)
        BY <1>13, <3>3
      <4> QED BY <1>14, <3>1, <3>3, <4>1
    <3> QED BY <3>2, <3>3
  <2>3. ASSUME NEW k
        PROVE  /\ k \in Young(mt) <=> \E p \in DOMAIN mt : mt[p].key = k
               /\ k \in KeysIn(mt) <=> \E p \in DOMAIN mt : mt[p].key = k
    <3>1. k \in Young(mt) <=> \E p \in DOMAIN mt : mt[p].day >= 1 /\ mt[p].key = k
      BY OldAre
    <3> QED BY <1>14, <3>1, KeysOf
  <2>4. ASSUME NEW i \in mk, NEW j \in tk, base[i].key = base[j].key PROVE i \in mk \cap tk /\ j \in mk \cap tk
    <3>1. DistinctKeys(base)
      BY DEF IsSeen
    <3>2. i = j
      BY <1>14, <2>4, <3>1 DEF DistinctKeys
    <3> QED BY <3>2
  <2>5. ASSUME NEW k, k \in Young(merged) PROVE k \in Young(staged) \cup Young(log)
    <3>1. CASE k \in Young(a)
      BY <1>15, <2>1, <3>1
    <3>2. CASE k \in Young(b)
      BY <1>15, <2>2, <3>2
    <3>3. CASE k \in Young(mt)
      BY <1>15, <2>3, <3>3
    <3> QED BY <1>11, <2>5, <3>1, <3>2, <3>3
  <2>6. ASSUME NEW k, \E p \in DOMAIN mt : mt[p].key = k PROVE k \in Young(merged)
    BY <1>11, <2>3, <2>6
  <2>7. ASSUME NEW k, \E p \in DOMAIN tt : tt[p].key = k PROVE k \in Young(merged)
    <3>1. CASE k \in KeysIn(mt)
      BY <2>3, <2>6, <3>1
    <3>2. CASE k \notin KeysIn(mt)
      BY <1>11, <2>2, <2>7, <3>2
    <3> QED BY <3>1, <3>2
  <2>8. ASSUME NEW k, k \in Young(staged) \cup Young(log) PROVE k \in Young(merged)
    <3>1. ASSUME NEW i \in mk \cup tk, base[i].day >= 1, base[i].key = k
          PROVE  k \in Young(staged) /\ k \in Young(log)
      <4>1. k \in Young(base) <=> \E p \in DOMAIN base : base[p].day >= 1 /\ base[p].key = k
        BY OldAre
      <4>2. k \in Young(base)
        BY <1>14, <3>1, <4>1
      <4> QED BY <4>2
    <3>2. CASE (\E p \in DOMAIN mt : mt[p].key = k) \/ (\E p \in DOMAIN tt : tt[p].key = k)
      BY <2>6, <2>7, <3>2
    <3>3. CASE ~((\E p \in DOMAIN mt : mt[p].key = k) \/ (\E p \in DOMAIN tt : tt[p].key = k))
      <4>1. PICK i \in mk \cup tk : base[i].day >= 1 /\ base[i].key = k
        BY <1>15, <2>8, <3>3
      <4>2. k \in Young(staged) /\ k \in Young(log)
        BY <3>1, <4>1
      <4>3. PICK p \in mk : base[p].day >= 1 /\ base[p].key = k
        BY <1>15, <3>3, <4>2
      <4>4. PICK q \in tk : base[q].day >= 1 /\ base[q].key = k
        BY <1>15, <3>3, <4>2
      <4>5. p \in mk \cap tk
        BY <2>4, <4>3, <4>4
      <4> QED BY <1>11, <2>1, <4>3, <4>5
    <3> QED BY <3>2, <3>3
  <2> QED BY <2>5, <2>8
<1>18. Ordered(base, merged)
  <2>1. Uniq(base)
    BY DistinctRows DEF IsSeen
  <2>2. InOrder(base, a, Len(a)) /\ DOMAIN a = 1..Len(a) /\ Len(a) \in Nat
    BY <1>4, <1>5, <1>7, <2>1, SurvivorsInOrder
  <2>3. Ordered(base, a)
    <3> SUFFICES ASSUME NEW n \in 1..Len(a) PROVE InOrder(base, a, n)
      BY <2>2 DEF Ordered
    <3>1. 1..n \subseteq 1..Len(a)
      BY <2>2
    <3> QED BY <2>2, <3>1 DEF InOrder
  <2>4. \A p \in DOMAIN b : b[p].day \in Int /\ b[p].day >= 1
    <3> TAKE p \in DOMAIN b
    <3>1. b[p] \in ToSet(b)
      BY RowsIn
    <3> QED BY <1>13, <1>14, <3>1
  <2>5. Ordered(base, ab)
    BY <1>7, <1>8, <2>3, <2>4, OrderedCat
  <2>6. Ordered(base, c)
    BY <1>4, <1>9, <1>14, <1>a, <2>5, OrderedCat
  <2> QED BY <1>10, <2>6
<1> QED BY <1>16, <1>17, <1>18 DEF Unites

LEMMA SeenMerge ==
  ASSUME NEW base, IsSeen(base), NEW staged, IsSeen(staged), NEW log, IsSeen(log),
         Old(staged) \subseteq Old(base), Young(base) \subseteq Young(staged), Ordered(base, staged),
         Old(log) \subseteq Old(base), Young(base) \subseteq Young(log), Ordered(base, log),
         NEW worker, NEW others, NEW merged \in MergeWindowed(base, staged, log, worker, others)
  PROVE  Unites(base, staged, log, merged)
<1>1. CASE staged = base
  <2>1. merged = log
    BY <1>1 DEF MergeWindowed, Merge
  <2> QED BY <1>1, <2>1 DEF Unites
<1>2. CASE staged # base /\ log = base
  <2>1. merged = staged
    BY <1>2 DEF MergeWindowed, Merge
  <2> QED BY <1>2, <2>1 DEF Unites
<1>3. CASE staged # base /\ log # base
  <2>1. PICK mk, mt : Parts(base, staged, mk, mt)
    BY PartsFound
  <2>2. PICK tk, tt : Parts(base, log, tk, tt)
    BY PartsFound
  <2> DEFINE Both(m, t) ==
        Survivors(base, m.kept \cap t.kept)
          \o Survivors(t.tail, {i \in DOMAIN t.tail : t.tail[i].key \notin KeysIn(m.tail)}) \o m.tail
             m0 == [kept |-> mk, tail |-> mt]
             t0 == [kept |-> tk, tail |-> tt]
  <2>3. MergeWindowed(base, staged, log, worker, others) =
          {Both(m, t) : m \in WindowEdit(base, staged, worker.since, worker.until),
                        t \in WindowEdit(base, log, others.since, others.until)}
    BY <1>3 DEF MergeWindowed, Merge
  <2>4. /\ WindowEdit(base, staged, worker.since, worker.until) \subseteq {m0}
        /\ WindowEdit(base, log, others.since, others.until) \subseteq {t0}
    <3>1. KeptThenAppended(base, staged) = m0 /\ KeptThenAppended(base, log) = t0
      BY <2>1, <2>2 DEF Parts
    <3> HIDE DEF m0, t0
    <3> QED BY <3>1 DEF WindowEdit
  <2>5. Both(m0, t0) = Cat(Cat(Survivors(base, mk \cap tk),
                               Survivors(tt, {i \in DOMAIN tt : tt[i].key \notin KeysIn(mt)})), mt)
    <3>1. m0.kept = mk /\ m0.tail = mt /\ t0.kept = tk /\ t0.tail = tt
      OBVIOUS
    <3> HIDE DEF m0, t0
    <3> QED BY <3>1 DEF Cat
  <2> HIDE DEF Both
  <2>6. merged = Both(m0, t0)
    BY <2>3, <2>4
  <2> HIDE DEF m0, t0
  <2> QED BY <2>1, <2>2, <2>5, <2>6, BothUnite
<1> QED BY <1>1, <1>2, <1>3

-----------------------------------------------------------------------------
(* What a worker's edits make of any document they are made in.            *)
LEMMA CommonRows ==
  ASSUME NEW a, IsRows(a), NEW b, IsRows(b), NEW c, IsRows(c)
  PROVE  \E R : a \in Seq(R) /\ b \in Seq(R) /\ c \in Seq(R)
<1>1. PICK A : a \in Seq(A)
  BY DEF IsRows
<1>2. PICK B : b \in Seq(B)
  BY DEF IsRows
<1>3. PICK C : c \in Seq(C)
  BY DEF IsRows
<1>4. a \in Seq(A \cup B \cup C) /\ b \in Seq(A \cup B \cup C) /\ c \in Seq(A \cup B \cup C)
  BY <1>1, <1>2, <1>3, WiderRows
<1> QED BY <1>4

LEMMA OneRow == ASSUME NEW x PROVE IsRows(<<x>>) /\ IsRows(<<>>)
<1>1. <<x>> \in Seq({x}) /\ <<>> \in Seq({x})
  OBVIOUS
<1> QED BY <1>1 DEF IsRows

LEMMA CatIs ==
  ASSUME NEW a, IsRows(a), NEW b, IsRows(b)
  PROVE  IsRows(Cat(a, b)) /\ Cat(a, <<>>) = a /\ Cat(<<>>, a) = a /\ Len(Cat(a, b)) = Len(a) + Len(b)
<1>1. PICK R : a \in Seq(R) /\ b \in Seq(R)
  BY CommonRows
<1>2. a \o b \in Seq(R) /\ a \o <<>> = a /\ <<>> \o a = a /\ Len(a \o b) = Len(a) + Len(b)
  BY <1>1
<1> QED BY <1>2 DEF IsRows, Cat

LEMMA CatAgain ==
  ASSUME NEW a, IsRows(a), NEW b, IsRows(b), NEW c, IsRows(c)
  PROVE  /\ IsRows(Cat(b, c)) /\ Cat(Cat(a, b), c) = Cat(a, Cat(b, c))
         /\ LastRows(Cap, Cat(LastRows(Cap, Cat(a, b)), c)) = LastRows(Cap, Cat(a, Cat(b, c)))
<1>1. PICK R : a \in Seq(R) /\ b \in Seq(R) /\ c \in Seq(R)
  BY CommonRows
<1>2. Cat(Cat(a, b), c) = Cat(a, Cat(b, c))
  BY <1>1, CatThrice
<1>3. IsRows(Cat(b, c))
  BY CatIs
<1>4. PICK u : u = Cat(a, b)
  OBVIOUS
<1>5. u \in Seq(R)
  BY <1>1, <1>4 DEF Cat
<1>6. PICK l : l = LastRows(Cap, u)
  OBVIOUS
<1>7. l \in Seq(R) /\ LastRows(Cap, l) = LastRows(Cap, u)
  BY <1>5, <1>6, Ends
<1>8. LastRows(Cap, l \o c) = LastRows(Cap, u \o c)
  BY <1>1, <1>5, <1>7, Ends
<1>9. LastRows(Cap, Cat(l, c)) = LastRows(Cap, Cat(u, c))
  BY <1>8 DEF Cat
<1> QED BY <1>2, <1>3, <1>4, <1>6, <1>9

LEMMA CatOne ==
  ASSUME NEW a, IsRows(a), NEW x
  PROVE  Append(a, x) = Cat(a, <<x>>)
<1>1. Append(a, x) = a \o <<x>>
  BY OneMore
<1> QED BY <1>1 DEF Cat

(* A change: the rows appended to each list, what each field grew by, and   *)
(* of the candidates log the keys seen and the days of the observations.    *)
IsChange(c) ==
    /\ IsRows(c.errors) /\ IsRows(c.reports) /\ IsRows(c.queue) /\ IsRows(c.effects)
    /\ \A k \in Fields : c.field[k] \in Int

(* Of the rows from before the run, what is left after these observations. *)
Left(rows, c) == {r \in Old(rows) : r.key \notin c.keys /\ \A d \in c.days : r.day + Window >= d}

IsTyped(doc) ==
    /\ IsDoc(doc)
    /\ IsRows(doc.errors) /\ IsRows(doc.reports) /\ IsRows(doc.queue) /\ IsRows(doc.effects)
    /\ Len(doc.errors) <= Cap
    /\ IsSeen(doc.seen)
    /\ \A k \in Fields : doc.field[k] \in Int

Changed(doc, c, new) ==
    /\ new.errors = LastRows(Cap, Cat(doc.errors, c.errors))
    /\ new.reports = Cat(doc.reports, c.reports)
    /\ new.queue = Cat(doc.queue, c.queue)
    /\ new.effects = Cat(doc.effects, c.effects)
    /\ \A k \in Fields : new.field[k] = doc.field[k] + c.field[k]
    /\ Old(new.seen) = Left(doc.seen, c)
    /\ Young(new.seen) = Young(doc.seen) \cup c.keys

NoChange == [errors |-> <<>>, reports |-> <<>>, queue |-> <<>>, effects |-> <<>>,
             field |-> [k \in Fields |-> 0], keys |-> {}, days |-> {}]

Extended(c, e) ==
    [errors |-> IF e.kind = "error" THEN Cat(c.errors, <<e.row>>) ELSE c.errors,
     reports |-> IF e.kind = "report" THEN Cat(c.reports, <<e.row>>) ELSE c.reports,
     queue |-> IF e.kind = "enqueue" THEN Cat(c.queue, <<e.row>>) ELSE c.queue,
     effects |-> IF e.kind = "defer" THEN Cat(c.effects, <<e.row>>) ELSE c.effects,
     field |-> [k \in Fields |-> IF e.kind = "bump" /\ e.field = k THEN c.field[k] + 1 ELSE c.field[k]],
     keys |-> IF e.kind = "observe" THEN c.keys \cup {e.key} ELSE c.keys,
     days |-> IF e.kind = "observe" THEN c.days \cup {e.day} ELSE c.days]

LEMMA NothingChanged ==
  ASSUME NEW doc, IsTyped(doc)
  PROVE  IsChange(NoChange) /\ Changed(doc, NoChange, doc)
<1>1. IsChange(NoChange)
  <2>1. IsRows(<<>>)
    BY OneRow
  <2>2. /\ NoChange.errors = <<>> /\ NoChange.reports = <<>> /\ NoChange.queue = <<>>
        /\ NoChange.effects = <<>> /\ \A k \in Fields : NoChange.field[k] = 0
    BY DEF NoChange
  <2> QED BY <2>1, <2>2 DEF IsChange
<1>2. PICK c : c = NoChange
  OBVIOUS
<1>3. /\ c.errors = <<>> /\ c.reports = <<>> /\ c.queue = <<>> /\ c.effects = <<>>
      /\ c.keys = {} /\ c.days = {} /\ \A k \in Fields : c.field[k] = 0
  BY <1>2 DEF NoChange
<1>4. Cat(doc.errors, <<>>) = doc.errors /\ Cat(doc.reports, <<>>) = doc.reports
      /\ Cat(doc.queue, <<>>) = doc.queue /\ Cat(doc.effects, <<>>) = doc.effects
  BY CatIs DEF IsTyped
<1>5. LastRows(Cap, doc.errors) = doc.errors
  BY LastRowsAre DEF IsTyped, IsRows
<1>6. Left(doc.seen, c) = Old(doc.seen)
  BY <1>3 DEF Left
<1>7. \A k \in Fields : doc.field[k] = doc.field[k] + c.field[k]
  BY <1>3 DEF IsTyped
<1>8. Changed(doc, c, doc)
  BY <1>3, <1>4, <1>5, <1>6, <1>7 DEF Changed
<1> QED BY <1>1, <1>2, <1>8

(* An edit changes one part of the document. *)
LEMMA EditedParts ==
  ASSUME NEW doc, IsDoc(doc), NEW e, e.kind \in EditKinds, NEW new, new = Edited(doc, e)
  PROVE  /\ IsDoc(new)
         /\ new.errors = IF e.kind = "error" THEN LastRows(Cap, Append(doc.errors, e.row)) ELSE doc.errors
         /\ new.seen = IF e.kind = "observe" THEN Observed(doc.seen, e.key, e.day) ELSE doc.seen
         /\ new.reports = IF e.kind = "report" THEN Append(doc.reports, e.row) ELSE doc.reports
         /\ new.queue = IF e.kind = "enqueue" THEN Append(doc.queue, e.row) ELSE doc.queue
         /\ new.effects = IF e.kind = "defer" THEN Append(doc.effects, e.row) ELSE doc.effects
         /\ \A k \in Fields : new.field[k] = IF e.kind = "bump" /\ e.field = k THEN doc.field[k] + 1 ELSE doc.field[k]
<1>1. CASE e.kind = "error"
  <2>1. PICK log : log = LastRows(Cap, Append(doc.errors, e.row))
    OBVIOUS
  <2>2. new = [doc EXCEPT !.errors = log]
    BY <1>1, <2>1 DEF Edited, LogError
  <2> QED BY <1>1, <2>1, <2>2 DEF IsDoc
<1>2. CASE e.kind = "observe"
  <2>1. PICK log : log = Observed(doc.seen, e.key, e.day)
    OBVIOUS
  <2>2. new = [doc EXCEPT !.seen = log]
    BY <1>2, <2>1 DEF Edited, RecordCandidate
  <2> QED BY <1>2, <2>1, <2>2 DEF IsDoc
<1>3. CASE e.kind = "bump"
  <2>1. PICK field : field = [doc.field EXCEPT ![e.field] = @ + 1]
    OBVIOUS
  <2>2. new = [doc EXCEPT !.field = field]
    BY <1>3, <2>1 DEF Edited, IsDoc
  <2>3. /\ field = [k \in Fields |-> field[k]]
        /\ \A k \in Fields : field[k] = IF e.field = k THEN doc.field[k] + 1 ELSE doc.field[k]
    BY <2>1 DEF IsDoc
  <2> QED BY <1>3, <2>2, <2>3 DEF IsDoc
<1>4. CASE e.kind = "enqueue"
  <2>1. PICK log : log = Append(doc.queue, e.row)
    OBVIOUS
  <2>2. new = [doc EXCEPT !.queue = log]
    BY <1>4, <2>1 DEF Edited
  <2> QED BY <1>4, <2>1, <2>2 DEF IsDoc
<1>5. CASE e.kind = "defer"
  <2>1. PICK log : log = Append(doc.effects, e.row)
    OBVIOUS
  <2>2. new = [doc EXCEPT !.effects = log]
    BY <1>5, <2>1 DEF Edited
  <2> QED BY <1>5, <2>1, <2>2 DEF IsDoc
<1>6. CASE e.kind = "report"
  <2>1. PICK log : log = Append(doc.reports, e.row)
    OBVIOUS
  <2>2. new = [doc EXCEPT !.reports = log]
    BY <1>6, <2>1 DEF Edited, AddSourceRun
  <2> QED BY <1>6, <2>1, <2>2 DEF IsDoc
<1> QED BY <1>1, <1>2, <1>3, <1>4, <1>5, <1>6 DEF EditKinds

LEMMA EditTyped ==
  ASSUME NEW doc, IsTyped(doc), NEW e, e.kind \in EditKinds, e.kind = "observe" => e.day \in 1..MaxDay,
         NEW new, new = Edited(doc, e)
  PROVE  IsTyped(new)
<1>1. IsRows(new.errors) /\ Len(new.errors) <= Cap
  <2>1. CASE e.kind = "error"
    <3>1. PICK a : a = Append(doc.errors, e.row)
      OBVIOUS
    <3>2. IsRows(a)
      <4>1. IsRows(doc.errors)
        BY DEF IsTyped
      <4>2. a = Cat(doc.errors, <<e.row>>)
        BY <3>1, <4>1, CatOne
      <4>3. IsRows(<<e.row>>)
        BY OneRow
      <4> QED BY <4>1, <4>2, <4>3, CatIs
    <3>3. PICK R : a \in Seq(R)
      BY <3>2 DEF IsRows
    <3>4. LastRows(Cap, a) \in Seq(R) /\ Len(LastRows(Cap, a)) <= Cap
      BY <3>3, Ends
    <3>5. new.errors = LastRows(Cap, a)
      BY <2>1, <3>1, EditedParts DEF IsTyped
    <3> QED BY <3>4, <3>5 DEF IsRows
  <2>2. CASE e.kind # "error"
    BY <2>2, EditedParts DEF IsTyped
  <2> QED BY <2>1, <2>2
<1>2. ASSUME NEW rows, IsRows(rows) PROVE IsRows(Append(rows, e.row))
  <2>1. Append(rows, e.row) = Cat(rows, <<e.row>>)
    BY <1>2, CatOne
  <2>2. IsRows(<<e.row>>)
    BY OneRow
  <2> QED BY <1>2, <2>1, <2>2, CatIs
<1>3. IsRows(new.reports) /\ IsRows(new.queue) /\ IsRows(new.effects)
  BY <1>2, EditedParts DEF IsTyped
<1>4. IsSeen(new.seen)
  BY ObservedOld, EditedParts DEF IsTyped
<1>5. \A k \in Fields : new.field[k] \in Int
  BY EditedParts DEF IsTyped
<1>6. IsDoc(new)
  BY EditedParts DEF IsTyped
<1> QED BY <1>1, <1>3, <1>4, <1>5, <1>6 DEF IsTyped

LEMMA EditExtends ==
  ASSUME NEW c, IsChange(c), NEW e, e.kind \in EditKinds, NEW more, more = Extended(c, e)
  PROVE  IsChange(more)
<1>1. /\ more.errors = IF e.kind = "error" THEN Cat(c.errors, <<e.row>>) ELSE c.errors
      /\ more.reports = IF e.kind = "report" THEN Cat(c.reports, <<e.row>>) ELSE c.reports
      /\ more.queue = IF e.kind = "enqueue" THEN Cat(c.queue, <<e.row>>) ELSE c.queue
      /\ more.effects = IF e.kind = "defer" THEN Cat(c.effects, <<e.row>>) ELSE c.effects
      /\ \A k \in Fields : more.field[k] = IF e.kind = "bump" /\ e.field = k THEN c.field[k] + 1 ELSE c.field[k]
  BY DEF Extended
<1>2. ASSUME NEW rows, IsRows(rows) PROVE IsRows(Cat(rows, <<e.row>>))
  <2>1. IsRows(<<e.row>>)
    BY OneRow
  <2> QED BY <1>2, <2>1, CatIs
<1>3. \A k \in Fields : more.field[k] \in Int
  BY <1>1 DEF IsChange
<1> QED BY <1>1, <1>2, <1>3 DEF IsChange

(* One edit more, of a document so changed. *)
LEMMA EditChanges ==
  ASSUME NEW doc, IsTyped(doc), NEW c, IsChange(c), NEW now, IsTyped(now), Changed(doc, c, now),
         NEW e, e.kind \in EditKinds, e.kind = "observe" => e.day \in 1..MaxDay,
         NEW more, more = Extended(c, e), NEW new, new = Edited(now, e)
  PROVE  Changed(doc, more, new)
<1>1. /\ more.errors = IF e.kind = "error" THEN Cat(c.errors, <<e.row>>) ELSE c.errors
      /\ more.reports = IF e.kind = "report" THEN Cat(c.reports, <<e.row>>) ELSE c.reports
      /\ more.queue = IF e.kind = "enqueue" THEN Cat(c.queue, <<e.row>>) ELSE c.queue
      /\ more.effects = IF e.kind = "defer" THEN Cat(c.effects, <<e.row>>) ELSE c.effects
      /\ \A k \in Fields : more.field[k] = IF e.kind = "bump" /\ e.field = k THEN c.field[k] + 1 ELSE c.field[k]
      /\ more.keys = IF e.kind = "observe" THEN c.keys \cup {e.key} ELSE c.keys
      /\ more.days = IF e.kind = "observe" THEN c.days \cup {e.day} ELSE c.days
  BY DEF Extended
<1>2. /\ new.errors = IF e.kind = "error" THEN LastRows(Cap, Append(now.errors, e.row)) ELSE now.errors
      /\ new.seen = IF e.kind = "observe" THEN Observed(now.seen, e.key, e.day) ELSE now.seen
      /\ new.reports = IF e.kind = "report" THEN Append(now.reports, e.row) ELSE now.reports
      /\ new.queue = IF e.kind = "enqueue" THEN Append(now.queue, e.row) ELSE now.queue
      /\ new.effects = IF e.kind = "defer" THEN Append(now.effects, e.row) ELSE now.effects
      /\ \A k \in Fields : new.field[k] = IF e.kind = "bump" /\ e.field = k THEN now.field[k] + 1 ELSE now.field[k]
  BY EditedParts DEF IsTyped
<1>3. /\ now.errors = LastRows(Cap, Cat(doc.errors, c.errors))
      /\ now.reports = Cat(doc.reports, c.reports)
      /\ now.queue = Cat(doc.queue, c.queue)
      /\ now.effects = Cat(doc.effects, c.effects)
      /\ \A k \in Fields : now.field[k] = doc.field[k] + c.field[k]
      /\ Old(now.seen) = Left(doc.seen, c)
      /\ Young(now.seen) = Young(doc.seen) \cup c.keys
  BY DEF Changed
<1>4. ASSUME NEW a, IsRows(a), NEW b, IsRows(b), IsRows(Cat(a, b))
      PROVE  Append(Cat(a, b), e.row) = Cat(a, Cat(b, <<e.row>>))
  <2>1. IsRows(<<e.row>>)
    BY OneRow
  <2>2. Append(Cat(a, b), e.row) = Cat(Cat(a, b), <<e.row>>)
    BY <1>4, CatOne
  <2> QED BY <1>4, <2>1, <2>2, CatAgain
<1>5. /\ IsRows(doc.reports) /\ IsRows(c.reports) /\ IsRows(now.reports)
      /\ IsRows(doc.queue) /\ IsRows(c.queue) /\ IsRows(now.queue)
      /\ IsRows(doc.effects) /\ IsRows(c.effects) /\ IsRows(now.effects)
      /\ IsRows(doc.errors) /\ IsRows(c.errors) /\ IsRows(now.errors)
  BY DEF IsTyped, IsChange
<1>6. new.reports = Cat(doc.reports, more.reports)
  <2>1. Append(now.reports, e.row) = Cat(doc.reports, Cat(c.reports, <<e.row>>))
    BY <1>3, <1>4, <1>5
  <2> QED BY <1>1, <1>2, <1>3, <2>1
<1>7. new.queue = Cat(doc.queue, more.queue)
  <2>1. Append(now.queue, e.row) = Cat(doc.queue, Cat(c.queue, <<e.row>>))
    BY <1>3, <1>4, <1>5
  <2> QED BY <1>1, <1>2, <1>3, <2>1
<1>8. new.effects = Cat(doc.effects, more.effects)
  <2>1. Append(now.effects, e.row) = Cat(doc.effects, Cat(c.effects, <<e.row>>))
    BY <1>3, <1>4, <1>5
  <2> QED BY <1>1, <1>2, <1>3, <2>1
<1>9. new.errors = LastRows(Cap, Cat(doc.errors, more.errors))
  <2>1. CASE e.kind = "error"
    <3>1. IsRows(<<e.row>>)
      BY OneRow
    <3>2. Append(now.errors, e.row) = Cat(now.errors, <<e.row>>)
      BY <1>5, CatOne
    <3>3. LastRows(Cap, Cat(LastRows(Cap, Cat(doc.errors, c.errors)), <<e.row>>))
             = LastRows(Cap, Cat(doc.errors, Cat(c.errors, <<e.row>>)))
      BY <1>5, <3>1, CatAgain
    <3> QED BY <1>1, <1>2, <1>3, <2>1, <3>2, <3>3
  <2>2. CASE e.kind # "error"
    BY <1>1, <1>2, <1>3, <2>2
  <2> QED BY <2>1, <2>2
<1>10. \A k \in Fields : new.field[k] = doc.field[k] + more.field[k]
  <2> TAKE k \in Fields
  <2>1. doc.field[k] \in Int /\ c.field[k] \in Int
    BY DEF IsTyped, IsChange
  <2> QED BY <1>1, <1>2, <1>3, <2>1
<1>11. Old(new.seen) = Left(doc.seen, more) /\ Young(new.seen) = Young(doc.seen) \cup more.keys
  <2>1. CASE e.kind = "observe"
    <3>1. /\ Old(new.seen) = {r \in Old(now.seen) : r.key # e.key /\ r.day + Window >= e.day}
          /\ Young(new.seen) = Young(now.seen) \cup {e.key}
      BY <1>2, <2>1, ObservedOld DEF IsTyped
    <3>2. more.keys = c.keys \cup {e.key} /\ more.days = c.days \cup {e.day}
      BY <1>1, <2>1
    <3>3. Young(new.seen) = Young(doc.seen) \cup more.keys
      BY <1>3, <3>1, <3>2
    <3>4. {r \in Left(doc.seen, c) : r.key # e.key /\ r.day + Window >= e.day} = Left(doc.seen, more)
      BY <3>2 DEF Left
    <3> QED BY <1>3, <3>1, <3>3, <3>4
  <2>2. CASE e.kind # "observe"
    <3>1. new.seen = now.seen /\ more.keys = c.keys /\ more.days = c.days
      BY <1>1, <1>2, <2>2
    <3>2. Left(doc.seen, more) = Left(doc.seen, c)
      BY <3>1 DEF Left
    <3> QED BY <1>3, <3>1, <3>2
  <2> QED BY <2>1, <2>2
<1> QED BY <1>6, <1>7, <1>8, <1>9, <1>10, <1>11 DEF Changed

-----------------------------------------------------------------------------
(* The error rows of a source. *)
ErrorsOf(s) == UNION {ErrorRows(script) : script \in ScriptsBy(s)}

(* The edits of a worker of s. *)
Own(s, edits) ==
    /\ IsRows(edits)
    /\ \A i \in DOMAIN edits :
          /\ edits[i].kind \in EditKinds
          /\ edits[i].kind = "observe" => edits[i].day \in 1..MaxDay
          /\ edits[i].kind = "enqueue" => edits[i].row[1] = s
          /\ edits[i].kind = "error" => edits[i].row \in ErrorsOf(s)
    /\ \A i, j \in DOMAIN edits :
          edits[i].kind = "error" /\ edits[j].kind = "error" /\ edits[i].row = edits[j].row => i = j

(* The change has the rows of the first n edits. *)
Holds(c, edits, n) ==
    /\ \A p \in DOMAIN c.errors :
          \E i \in 1..n : edits[i].kind = "error" /\ c.errors[p] = edits[i].row
    /\ \A p \in DOMAIN c.queue :
          \E i \in 1..n : edits[i].kind = "enqueue" /\ c.queue[p] = edits[i].row
    /\ Uniq(c.errors)

LEMMA MoreRows ==
  ASSUME NEW a, IsRows(a), NEW x, NEW new, new = Cat(a, <<x>>)
  PROVE  /\ \A p \in DOMAIN new : new[p] = x \/ (p \in DOMAIN a /\ new[p] = a[p])
         /\ Uniq(a) /\ (\A p \in DOMAIN a : a[p] # x) => Uniq(new)
<1>1. PICK R : a \in Seq(R)
  BY DEF IsRows
<1>2. new = Append(a, x)
  BY CatOne
<1>3. /\ DOMAIN new = 1..(Len(a) + 1) /\ DOMAIN a = 1..Len(a) /\ Len(a) \in Nat
      /\ \A p \in 1..Len(a) : new[p] = a[p]
      /\ new[Len(a) + 1] = x
  BY <1>1, <1>2
<1>4. \A p \in DOMAIN new : p = Len(a) + 1 \/ (p \in DOMAIN a /\ new[p] = a[p])
  BY <1>3
<1>5. \A p \in DOMAIN new : new[p] = x \/ (p \in DOMAIN a /\ new[p] = a[p])
  BY <1>3, <1>4
<1>6. ASSUME Uniq(a), \A p \in DOMAIN a : a[p] # x, NEW p \in DOMAIN new, NEW q \in DOMAIN new, new[p] = new[q]
      PROVE  p = q
  <2>1. CASE p \in DOMAIN a /\ q \in DOMAIN a
    BY <1>3, <1>6, <2>1 DEF Uniq
  <2>2. CASE p \in DOMAIN a /\ q = Len(a) + 1
    BY <1>3, <1>6, <2>2
  <2>3. CASE q \in DOMAIN a /\ p = Len(a) + 1
    BY <1>3, <1>6, <2>3
  <2> QED BY <1>4, <2>1, <2>2, <2>3
<1> QED BY <1>5, <1>6 DEF Uniq

LEMMA HoldsMore ==
  ASSUME NEW s, NEW edits, Own(s, edits), NEW n \in Nat, n + 1 \in DOMAIN edits,
         NEW c, IsChange(c), Holds(c, edits, n), NEW more, more = Extended(c, edits[n + 1])
  PROVE  Holds(more, edits, n + 1)
<1> DEFINE e == edits[n + 1]
<1>1. /\ more.errors = IF e.kind = "error" THEN Cat(c.errors, <<e.row>>) ELSE c.errors
      /\ more.queue = IF e.kind = "enqueue" THEN Cat(c.queue, <<e.row>>) ELSE c.queue
  BY DEF Extended
<1>2. 1..n \subseteq 1..(n + 1) /\ n + 1 \in 1..(n + 1) /\ 1..n \subseteq DOMAIN edits
  <2>1. DOMAIN edits = 1..Len(edits) /\ Len(edits) \in Nat
    BY DEF Own, IsRows
  <2> QED BY <2>1
<1>3. IsRows(c.errors) /\ IsRows(c.queue)
  BY DEF IsChange
<1>4. \A p \in DOMAIN more.queue :
         \E i \in 1..(n + 1) : edits[i].kind = "enqueue" /\ more.queue[p] = edits[i].row
  <2>1. \A p \in DOMAIN c.queue :
           \E i \in 1..(n + 1) : edits[i].kind = "enqueue" /\ c.queue[p] = edits[i].row
    BY <1>2 DEF Holds
  <2>2. CASE e.kind = "enqueue"
    <3>1. \A p \in DOMAIN more.queue : more.queue[p] = e.row \/ (p \in DOMAIN c.queue /\ more.queue[p] = c.queue[p])
      <4>1. more.queue = Cat(c.queue, <<e.row>>)
        BY <1>1, <2>2
      <4> QED BY <1>3, <4>1, MoreRows
    <3> QED BY <1>2, <2>1, <2>2, <3>1
  <2>3. CASE e.kind # "enqueue"
    BY <1>1, <2>1, <2>3
  <2> QED BY <2>2, <2>3
<1>5. /\ \A p \in DOMAIN more.errors :
            \E i \in 1..(n + 1) : edits[i].kind = "error" /\ more.errors[p] = edits[i].row
      /\ Uniq(more.errors)
  <2>0. Uniq(c.errors)
    BY DEF Holds
  <2>1. \A p \in DOMAIN c.errors :
           \E i \in 1..n : edits[i].kind = "error" /\ c.errors[p] = edits[i].row
    BY DEF Holds
  <2>2. CASE e.kind = "error"
    <3>1. more.errors = Cat(c.errors, <<e.row>>)
      BY <1>1, <2>2
    <3>2. \A p \in DOMAIN c.errors : c.errors[p] # e.row
      <4> SUFFICES ASSUME NEW p \in DOMAIN c.errors, c.errors[p] = e.row PROVE FALSE
        OBVIOUS
      <4>1. PICK i \in 1..n : edits[i].kind = "error" /\ c.errors[p] = edits[i].row
        BY <2>1
      <4>2. i = n + 1
        BY <1>2, <2>2, <4>1 DEF Own
      <4> QED BY <4>2
    <3>3. /\ \A p \in DOMAIN more.errors : more.errors[p] = e.row \/ (p \in DOMAIN c.errors /\ more.errors[p] = c.errors[p])
          /\ Uniq(more.errors)
      BY <1>3, <2>0, <3>1, <3>2, MoreRows
    <3>4. \A p \in DOMAIN c.errors :
             \E i \in 1..(n + 1) : edits[i].kind = "error" /\ c.errors[p] = edits[i].row
      BY <1>2, <2>1
    <3> QED BY <1>2, <2>2, <3>3, <3>4
  <2>3. CASE e.kind # "error"
    BY <1>1, <1>2, <2>0, <2>1, <2>3
  <2> QED BY <2>2, <2>3
<1> QED BY <1>4, <1>5 DEF Holds

(* A worker's edits make one change of whatever document they are made in. *)
Made(s, edits, doc, new, doc2, new2, c) ==
    /\ IsChange(c) /\ Changed(doc, c, new) /\ Changed(doc2, c, new2)
    /\ IsTyped(new) /\ IsTyped(new2) /\ Ordered(doc.seen, new.seen)
    /\ Holds(c, edits, Len(edits))

LEMMA OrderedItself == ASSUME NEW rows, IsSeen(rows) PROVE Ordered(rows, rows)
<1>1. DOMAIN rows = 1..Len(rows) /\ Len(rows) \in Nat /\ Uniq(rows)
  BY DistinctRows DEF IsSeen, IsRows
<1>2. ASSUME NEW n \in DOMAIN rows PROVE InOrder(rows, rows, n)
  <2>1. 1..n \subseteq DOMAIN rows
    BY <1>1
  <2>2. \A q \in 1..n : \E i \in DOMAIN rows : rows[q] = rows[i]
    BY <2>1
  <2>3. ASSUME NEW p \in 1..n, NEW q \in 1..n, NEW i \in DOMAIN rows, NEW j \in DOMAIN rows,
               p < q, rows[p] = rows[i], rows[q] = rows[j]
        PROVE  i < j
    <3>1. p = i /\ q = j
      BY <1>1, <2>1, <2>3 DEF Uniq
    <3> QED BY <2>3, <3>1
  <2> QED BY <2>2, <2>3 DEF InOrder
<1> QED BY <1>2 DEF Ordered

LEMMA EditsMake ==
  ASSUME NEW s, NEW edits, Own(s, edits), NEW doc, IsTyped(doc), NEW doc2, IsTyped(doc2)
  PROVE  \E c : Made(s, edits, doc, Replay(edits, doc), doc2, Replay(edits, doc2), c)
<1> DEFINE N == Len(edits)
           f == CHOOSE f : Makes(f, edits, doc, N)
           g == CHOOSE g : Makes(g, edits, doc2, N)
<1>1. N \in Nat /\ DOMAIN edits = 1..N
  BY DEF Own, IsRows
<1>2. Makes(f, edits, doc, N) /\ Makes(g, edits, doc2, N)
  BY <1>1, MakesExists
<1>3. Replay(edits, doc) = f[N] /\ Replay(edits, doc2) = g[N]
  BY DEF Replay, Makes
<1> HIDE DEF N, f, g
<1>4. \A k \in 0..N : /\ f[k] = IF k = 0 THEN doc ELSE Edited(f[k - 1], edits[k])
                      /\ g[k] = IF k = 0 THEN doc2 ELSE Edited(g[k - 1], edits[k])
  BY <1>2 DEF Makes
<1> DEFINE So(c, n) == /\ IsChange(c) /\ Changed(doc, c, f[n]) /\ Changed(doc2, c, g[n])
                       /\ IsTyped(f[n]) /\ IsTyped(g[n]) /\ Ordered(doc.seen, f[n].seen)
                       /\ Holds(c, edits, n)
           G == {n \in 0..N : \E c : So(c, n)}
<1>5. 0 \in G
  <2>1. f[0] = doc /\ g[0] = doc2 /\ 0 \in 0..N
    BY <1>1, <1>4
  <2>2. IsChange(NoChange) /\ Changed(doc, NoChange, doc) /\ Changed(doc2, NoChange, doc2)
    BY NothingChanged
  <2>3. Ordered(doc.seen, doc.seen)
    BY OrderedItself DEF IsTyped
  <2>4. Holds(NoChange, edits, 0)
    <3>1. NoChange.errors = <<>> /\ NoChange.queue = <<>>
      BY DEF NoChange
    <3>2. DOMAIN <<>> = {}
      OBVIOUS
    <3> QED BY <3>1, <3>2 DEF Holds, Uniq
  <2>5. So(NoChange, 0)
    BY <2>1, <2>2, <2>3, <2>4
  <2> QED BY <2>1, <2>5
<1>6. ASSUME NEW n \in 0..N, n \in G, n + 1 \in 0..N PROVE n + 1 \in G
  <2>1. PICK c : So(c, n)
    BY <1>6
  <2>2. /\ n \in Nat /\ n + 1 \in DOMAIN edits
        /\ f[n + 1] = Edited(f[n], edits[n + 1]) /\ g[n + 1] = Edited(g[n], edits[n + 1])
    <3>1. n + 1 # 0 /\ (n + 1) - 1 = n
      BY <1>1
    <3> QED BY <1>1, <1>4, <1>6, <3>1
  <2>3. /\ edits[n + 1].kind \in EditKinds
        /\ edits[n + 1].kind = "observe" => edits[n + 1].day \in 1..MaxDay
    BY <2>2 DEF Own
  <2>4. PICK more : more = Extended(c, edits[n + 1])
    OBVIOUS
  <2>5. IsChange(more)
    BY <2>1, <2>3, <2>4, EditExtends
  <2>6. Changed(doc, more, f[n + 1]) /\ Changed(doc2, more, g[n + 1])
    BY <2>1, <2>2, <2>3, <2>4, EditChanges
  <2>7. IsTyped(f[n + 1]) /\ IsTyped(g[n + 1])
    BY <2>1, <2>2, <2>3, EditTyped
  <2>8. Ordered(doc.seen, f[n + 1].seen)
    <3>1. f[n + 1].seen = IF edits[n + 1].kind = "observe"
                          THEN Observed(f[n].seen, edits[n + 1].key, edits[n + 1].day) ELSE f[n].seen
      BY <2>1, <2>2, <2>3, EditedParts DEF IsTyped
    <3>2. IsSeen(doc.seen) /\ IsSeen(f[n].seen) /\ Ordered(doc.seen, f[n].seen)
      BY <2>1 DEF IsTyped
    <3> QED BY <2>3, <3>1, <3>2, ObservedOrdered
  <2>9. Holds(more, edits, n + 1)
    BY <2>1, <2>2, <2>4, HoldsMore
  <2>10. So(more, n + 1)
    BY <2>5, <2>6, <2>7, <2>8, <2>9
  <2> QED BY <1>6, <2>10
<1> HIDE DEF G
<1>7. N \in G
  <2>1. \A n \in 0..N : n \in G
    BY <1>1, <1>5, <1>6, UpTo
  <2> QED BY <1>1, <2>1
<1>8. PICK c : So(c, N)
  BY <1>7 DEF G
<1>9. Made(s, edits, doc, f[N], doc2, g[N], c)
  BY <1>8 DEF Made, N
<1> QED BY <1>3, <1>9

-----------------------------------------------------------------------------
(* What a merge makes of the live document is what the worker's edits make  *)
(* of it.                                                                   *)
LEMMA ErrorsMerged ==
  ASSUME NEW base, IsRows(base), Len(base) <= Cap, NEW x, IsRows(x), NEW y, IsRows(y),
         Uniq(Cat(base, x)), Uniq(Cat(base, y)),
         NEW staged, staged = LastRows(Cap, Cat(base, y)), NEW log, log = LastRows(Cap, Cat(base, x)),
         NEW merged \in MergeCapped(base, staged, log)
  PROVE  merged = LastRows(Cap, Cat(log, y))
<1>1. PICK R : base \in Seq(R) /\ x \in Seq(R) /\ y \in Seq(R)
  BY CommonRows
<1>2. MergeCapped(base, staged, log) = {LastRows(Cap, log \o y)}
  <2>1. Uniq(base \o x) /\ Uniq(base \o y) /\ staged = LastRows(Cap, base \o y) /\ log = LastRows(Cap, base \o x)
    BY DEF Cat
  <2> QED BY <1>1, <2>1, ErrorsMerge
<1> QED BY <1>2 DEF Cat

LEMMA AfterBegins ==
  ASSUME NEW base, IsRows(base), NEW other, Begins(base, other)
  PROVE  /\ IsRows(After(other, Len(base))) /\ other = Cat(base, After(other, Len(base)))
         /\ LogShape(base, other) = {[kept |-> 1..Len(base), tail |-> After(other, Len(base))]}
<1>1. PICK A : base \in Seq(A)
  BY DEF IsRows
<1>2. PICK B : other \in Seq(B)
  BY DEF Begins, IsRows
<1> DEFINE R == A \cup B
           N == Len(base)
<1>3. base \in Seq(R) /\ other \in Seq(R)
  BY <1>1, <1>2, WiderRows
<1> HIDE DEF R
<1>4. /\ DOMAIN base = 1..N /\ N \in Nat /\ Len(other) \in Nat /\ N <= Len(other) /\ N \in 0..Len(other)
      /\ \A i \in 1..N : i <= Len(other) /\ other[i] = base[i]
  BY <1>1, <1>2 DEF Begins
<1>5. IsRows(After(other, N)) /\ other = Cat(base, After(other, N))
  <2>1. /\ After(other, N) \in Seq(R) /\ SubSeq(other, 1, N) \in Seq(R) /\ Len(SubSeq(other, 1, N)) = N
        /\ other = SubSeq(other, 1, N) \o After(other, N)
    BY <1>3, <1>4, Split
  <2>2. \A q \in 1..N : SubSeq(other, 1, N)[q] = other[q]
    BY <1>3, <1>4, FirstRows
  <2>3. SubSeq(other, 1, N) = base
    <3>1. PICK h : h = SubSeq(other, 1, N)
      OBVIOUS
    <3>2. h \in Seq(R) /\ Len(h) = Len(base) /\ \A q \in 1..Len(h) : h[q] = base[q]
      BY <1>4, <2>1, <2>2, <3>1
    <3>3. h = base
      BY <1>3, <3>2, SameRows
    <3> QED BY <3>1, <3>3
  <2> QED BY <2>1, <2>3 DEF Cat, IsRows
<1>6. KeptHead(base, other) = 1..N /\ Cardinality(KeptHead(base, other)) = N
  BY <1>3, <1>4, KeptHeadOK DEF KeptOK
<1> DEFINE e == [kept |-> 1..N, tail |-> After(other, N)]
<1>7. KeptThenAppended(base, other) = e
  BY <1>6 DEF KeptThenAppended, After
<1>8. base = <<>> \/ 1..N # {}
  <2>1. CASE N = 0
    BY <1>1, <2>1
  <2>2. CASE N # 0
    BY <1>4, <2>2
  <2> QED BY <2>1, <2>2
<1>9. LogShape(base, other) = {e}
  <2>1. e.kept = 1..N
    OBVIOUS
  <2> HIDE DEF e, N
  <2>2. base = <<>> \/ e.kept # {}
    BY <1>8, <2>1
  <2> QED BY <1>7, <2>2 DEF LogShape
<1> QED BY <1>5, <1>9

LEMMA AllSurvive == ASSUME NEW base, IsRows(base) PROVE Survivors(base, 1..Len(base)) = base
<1>1. PICK R : base \in Seq(R)
  BY DEF IsRows
<1>2. PICK s : s = Survivors(base, 1..Len(base))
  OBVIOUS
<1>3. s \in Seq(R) /\ PickedOK(s, base, 1..Len(base), Len(base))
  BY <1>1, <1>2, SurvivorsOK
<1>4. Len(base) \in Nat /\ 1..Len(base) \subseteq 1..Len(base)
  BY <1>1
<1>5. Len(s) = Len(base) /\ \A p \in 1..Len(base) : s[p] = base[p]
  BY <1>3, <1>4 DEF PickedOK
<1>6. s = base
  BY <1>1, <1>3, <1>5, SameRows
<1> QED BY <1>2, <1>6

(* After a list, and the rows that follow it there. *)
LEMMA AfterCat ==
  ASSUME NEW base, IsRows(base), NEW z, IsRows(z)
  PROVE  /\ Begins(base, Cat(base, z)) /\ After(Cat(base, z), Len(base)) = z
         /\ NewRows(base, Cat(base, z)) = z
         /\ Cat(base, z) = base => z = <<>>
<1>1. PICK R : base \in Seq(R) /\ z \in Seq(R)
  BY CommonRows
<1>2. PICK w : w = Cat(base, z)
  OBVIOUS
<1>3. /\ w \in Seq(R) /\ Len(w) = Len(base) + Len(z) /\ Len(base) \in Nat /\ Len(z) \in Nat
      /\ \A q \in 1..Len(base) : w[q] = base[q]
      /\ \A q \in 1..Len(z) : w[Len(base) + q] = z[q]
  BY <1>1, <1>2 DEF Cat
<1>4. Begins(base, w)
  <2>1. DOMAIN base = 1..Len(base) /\ Len(base) <= Len(w)
    BY <1>1, <1>3
  <2> QED BY <1>3, <2>1 DEF Begins, IsRows
<1>5. After(w, Len(base)) = z
  <2>1. PICK t : t = After(w, Len(base))
    OBVIOUS
  <2>2. Len(base) \in 0..Len(w) /\ Len(w) - Len(base) = Len(z)
    BY <1>3
  <2>3. t \in Seq(R) /\ Len(t) = Len(z) /\ \A q \in 1..Len(z) : t[q] = w[Len(base) + q]
    BY <1>3, <2>1, <2>2, AfterIs
  <2>4. t = z
    BY <1>1, <1>3, <2>3, SameRows
  <2> QED BY <2>1, <2>4
<1>6. NewRows(base, w) = z
  BY <1>5 DEF NewRows, After
<1>7. ASSUME w = base PROVE z = <<>>
  BY <1>1, <1>3, <1>7
<1> QED BY <1>2, <1>4, <1>5, <1>6, <1>7

LEMMA ReportsMerged ==
  ASSUME NEW base, IsRows(base), NEW log, Begins(base, log), NEW z, IsRows(z),
         NEW staged, staged = Cat(base, z), NEW merged \in MergeGeneric(base, staged, log)
  PROVE  merged = Cat(log, z)
<1>0. IsRows(log)
  BY DEF Begins
<1>1. CASE staged = base
  <2>1. merged = log
    BY <1>1 DEF MergeGeneric, Merge
  <2>2. z = <<>>
    BY <1>1, AfterCat
  <2>3. Cat(log, <<>>) = log
    BY <1>0, CatIs
  <2> QED BY <2>1, <2>2, <2>3
<1>2. CASE staged # base /\ log = base
  BY <1>2 DEF MergeGeneric, Merge
<1>3. CASE staged # base /\ log # base
  <2>1. Begins(base, staged) /\ After(staged, Len(base)) = z
    BY AfterCat
  <2>2. PICK t : t = After(log, Len(base))
    OBVIOUS
  <2>3. IsRows(t) /\ log = Cat(base, t)
    BY <2>2, AfterBegins
  <2> DEFINE Both(a, b) == Survivors(base, a.kept \cap b.kept) \o b.tail \o a.tail
             m0 == [kept |-> 1..Len(base), tail |-> z]
             t0 == [kept |-> 1..Len(base), tail |-> t]
  <2>4. LogShape(base, staged) = {m0} /\ LogShape(base, log) = {t0}
    BY <2>1, <2>2, AfterBegins
  <2>5. MergeGeneric(base, staged, log) =
          {Both(a, b) : a \in LogShape(base, staged), b \in LogShape(base, log)}
    BY <1>3 DEF MergeGeneric, Merge, MergeLogs
  <2>6. Both(m0, t0) = Cat(Cat(base, t), z)
    <3>1. m0.kept \cap t0.kept = 1..Len(base) /\ m0.tail = z /\ t0.tail = t
      OBVIOUS
    <3>2. Survivors(base, 1..Len(base)) = base
      BY AllSurvive
    <3> HIDE DEF m0, t0
    <3>3. Both(m0, t0) = base \o t \o z
      BY <3>1, <3>2
    <3> QED BY <3>3 DEF Cat
  <2> HIDE DEF Both, m0, t0
  <2>7. merged = Both(m0, t0)
    BY <2>4, <2>5
  <2> QED BY <2>3, <2>6, <2>7
<1> QED BY <1>1, <1>2, <1>3

(* Documents that differ at most in when an event of the run was seen. *)
Alike(doc, doc2) ==
    /\ doc.errors = doc2.errors /\ doc.reports = doc2.reports /\ doc.queue = doc2.queue
    /\ doc.effects = doc2.effects /\ doc.field = doc2.field
    /\ Old(doc.seen) = Old(doc2.seen) /\ Young(doc.seen) = Young(doc2.seen)

(* doc is what promoted workers made of base; x are the error rows of theirs. *)
Since(base, doc, x) ==
    /\ IsRows(x) /\ Uniq(Cat(base.errors, x)) /\ doc.errors = LastRows(Cap, Cat(base.errors, x))
    /\ Begins(base.reports, doc.reports)
    /\ Old(doc.seen) \subseteq Old(base.seen) /\ Young(base.seen) \subseteq Young(doc.seen)
    /\ Ordered(base.seen, doc.seen)

LEMMA MergedAsMade ==
  ASSUME NEW base, IsTyped(base), NEW doc, IsTyped(doc), NEW doc2, IsTyped(doc2), Alike(doc, doc2),
         NEW x, Since(base, doc, x),
         NEW s, NEW edits, NEW staged, NEW new2, NEW c, Made(s, edits, base, staged, doc2, new2, c),
         Uniq(Cat(base.errors, c.errors)), Uniq(Cat(Cat(base.errors, x), c.errors)),
         NEW worker, NEW others, NEW merged \in MergeDocuments(base, staged, doc, worker, others),
         IsSeen(merged.seen)
  PROVE  /\ IsTyped(merged) /\ Alike(merged, new2) /\ Since(base, merged, Cat(x, c.errors))
         /\ merged.queue = Cat(doc.queue, c.queue)
<1>0. /\ IsChange(c) /\ Changed(base, c, staged) /\ Changed(doc2, c, new2)
      /\ IsTyped(staged) /\ IsTyped(new2) /\ Ordered(base.seen, staged.seen)
  BY DEF Made
<1> DEFINE E == MergeCapped(base.errors, staged.errors, doc.errors)
           S == MergeWindowed(base.seen, staged.seen, doc.seen, worker, others)
           F == MergeFields(base.field, staged.field, doc.field)
           R == MergeGeneric(base.reports, staged.reports, doc.reports)
           queue == doc.queue \o NewRows(base.queue, staged.queue)
           effects == doc.effects \o NewRows(base.effects, staged.effects)
           JoinedBy(e, l, f, r) == [errors |-> e, seen |-> l, field |-> f, reports |-> r,
                                    queue |-> queue, effects |-> effects]
<1>1. MergeDocuments(base, staged, doc, worker, others) =
         {JoinedBy(e, l, f, r) : e \in E, l \in S, f \in F, r \in R}
  BY DEF MergeDocuments
<1>2. \A e, l, f, r :
        /\ JoinedBy(e, l, f, r).errors = e /\ JoinedBy(e, l, f, r).seen = l
        /\ JoinedBy(e, l, f, r).field = f /\ JoinedBy(e, l, f, r).reports = r
        /\ f = [k \in Fields |-> f[k]] => IsDoc(JoinedBy(e, l, f, r))
  BY DEF IsDoc
<1>a. \A e, l, f, r : JoinedBy(e, l, f, r).queue = queue /\ JoinedBy(e, l, f, r).effects = effects
  OBVIOUS
<1> HIDE DEF E, S, F, R, JoinedBy, queue, effects
<1>3. PICK e \in E, l \in S, f \in F, r \in R : merged = JoinedBy(e, l, f, r)
  BY <1>1
<1>4. /\ merged.errors = e /\ merged.seen = l /\ merged.field = f /\ merged.reports = r
      /\ merged.queue = queue /\ merged.effects = effects
      /\ f = [k \in Fields |-> f[k]] => IsDoc(merged)
  BY <1>2, <1>3, <1>a
<1>5. /\ IsRows(base.errors) /\ Len(base.errors) <= Cap /\ IsRows(x) /\ IsRows(c.errors)
      /\ IsRows(base.reports) /\ IsRows(c.reports)
      /\ IsRows(base.queue) /\ IsRows(c.queue) /\ IsRows(base.effects) /\ IsRows(c.effects)
  BY <1>0 DEF IsTyped, IsChange, Since
<1>6. e = LastRows(Cap, Cat(doc.errors, c.errors))
  <2>1. staged.errors = LastRows(Cap, Cat(base.errors, c.errors))
    BY <1>0 DEF Changed
  <2>2. doc.errors = LastRows(Cap, Cat(base.errors, x)) /\ Uniq(Cat(base.errors, x))
    BY DEF Since
  <2>3. e \in MergeCapped(base.errors, staged.errors, doc.errors)
    BY DEF E
  <2> QED BY <1>5, <2>1, <2>2, <2>3, ErrorsMerged
<1>7. r = Cat(doc.reports, c.reports)
  <2>1. staged.reports = Cat(base.reports, c.reports)
    BY <1>0 DEF Changed
  <2>2. Begins(base.reports, doc.reports)
    BY DEF Since
  <2>3. r \in MergeGeneric(base.reports, staged.reports, doc.reports)
    BY DEF R
  <2> QED BY <1>5, <2>1, <2>2, <2>3, ReportsMerged
<1>8. queue = Cat(doc.queue, c.queue) /\ effects = Cat(doc.effects, c.effects)
  <2>1. staged.queue = Cat(base.queue, c.queue) /\ staged.effects = Cat(base.effects, c.effects)
    BY <1>0 DEF Changed
  <2>2. NewRows(base.queue, staged.queue) = c.queue /\ NewRows(base.effects, staged.effects) = c.effects
    BY <1>5, <2>1, AfterCat
  <2> QED BY <2>2 DEF queue, effects, Cat
<1>9. f = [k \in Fields |-> f[k]] /\ \A k \in Fields : f[k] = doc.field[k] + c.field[k]
  <2>1. /\ f = [k \in Fields |-> IF staged.field[k] = base.field[k] THEN doc.field[k] ELSE staged.field[k]]
        /\ \A k \in Fields : staged.field[k] = base.field[k] \/ doc.field[k] = base.field[k]
    BY DEF F, MergeFields
  <2>2. \A k \in Fields : /\ staged.field[k] = base.field[k] + c.field[k]
                          /\ base.field[k] \in Int /\ doc.field[k] \in Int /\ c.field[k] \in Int
    BY <1>0 DEF Changed, IsTyped, IsChange
  <2>3. ASSUME NEW k \in Fields PROVE f[k] = doc.field[k] + c.field[k]
    <3>1. f[k] = IF staged.field[k] = base.field[k] THEN doc.field[k] ELSE staged.field[k]
      BY <2>1
    <3>2. /\ staged.field[k] = base.field[k] + c.field[k]
          /\ base.field[k] \in Int /\ doc.field[k] \in Int /\ c.field[k] \in Int
          /\ staged.field[k] = base.field[k] \/ doc.field[k] = base.field[k]
      BY <2>1, <2>2
    <3>3. CASE staged.field[k] = base.field[k]
      <4>1. c.field[k] = 0
        BY <3>2, <3>3
      <4> QED BY <3>1, <3>2, <3>3, <4>1
    <3>4. CASE staged.field[k] # base.field[k]
      BY <3>1, <3>2, <3>4
    <3> QED BY <3>3, <3>4
  <2> QED BY <2>1, <2>3
<1>10. /\ doc.errors = doc2.errors /\ doc.reports = doc2.reports /\ doc.queue = doc2.queue
       /\ doc.effects = doc2.effects /\ doc.field = doc2.field
       /\ Old(doc.seen) = Old(doc2.seen) /\ Young(doc.seen) = Young(doc2.seen)
  BY DEF Alike
<1>11. /\ new2.errors = LastRows(Cap, Cat(doc2.errors, c.errors)) /\ new2.reports = Cat(doc2.reports, c.reports)
       /\ new2.queue = Cat(doc2.queue, c.queue) /\ new2.effects = Cat(doc2.effects, c.effects)
       /\ \A k \in Fields : new2.field[k] = doc2.field[k] + c.field[k]
       /\ Old(new2.seen) = Left(doc2.seen, c) /\ Young(new2.seen) = Young(doc2.seen) \cup c.keys
  BY <1>0 DEF Changed
<1>12. f = new2.field
  <2>1. new2.field = [k \in Fields |-> new2.field[k]]
    BY <1>0 DEF IsTyped, IsDoc
  <2>2. \A k \in Fields : f[k] = new2.field[k]
    BY <1>9, <1>10, <1>11
  <2>3. [k \in Fields |-> f[k]] = [k \in Fields |-> new2.field[k]]
    BY <2>2
  <2> QED BY <1>9, <2>1, <2>3
<1>13. /\ Old(doc.seen) \subseteq Old(base.seen) /\ Young(base.seen) \subseteq Young(doc.seen)
       /\ Ordered(base.seen, doc.seen)
  BY DEF Since
<1>14. Old(staged.seen) = Left(base.seen, c) /\ Young(staged.seen) = Young(base.seen) \cup c.keys
  BY <1>0 DEF Changed
<1>15. Unites(base.seen, staged.seen, doc.seen, l)
  <2>1. IsSeen(base.seen) /\ IsSeen(staged.seen) /\ IsSeen(doc.seen)
    BY <1>0 DEF IsTyped
  <2>2. Old(staged.seen) \subseteq Old(base.seen) /\ Young(base.seen) \subseteq Young(staged.seen)
    BY <1>14 DEF Left
  <2>3. l \in MergeWindowed(base.seen, staged.seen, doc.seen, worker, others)
    BY DEF S
  <2> QED BY <1>0, <1>13, <2>1, <2>2, <2>3, SeenMerge
<1>16. Old(l) = Left(doc.seen, c)
  <2>1. Old(l) = Left(base.seen, c) \cap Old(doc.seen)
    BY <1>14, <1>15 DEF Unites
  <2> QED BY <1>13, <2>1 DEF Left
<1>17. Young(l) = Young(doc.seen) \cup c.keys
  BY <1>13, <1>14, <1>15 DEF Unites
<1>18. Alike(merged, new2)
  <2>1. Left(doc.seen, c) = Left(doc2.seen, c)
    BY <1>10 DEF Left
  <2> QED BY <1>4, <1>6, <1>7, <1>8, <1>10, <1>11, <1>12, <1>16, <1>17, <2>1 DEF Alike
<1>19. IsTyped(merged)
  <2>1. /\ IsRows(new2.errors) /\ IsRows(new2.reports) /\ IsRows(new2.queue) /\ IsRows(new2.effects)
        /\ Len(new2.errors) <= Cap /\ \A k \in Fields : new2.field[k] \in Int
    BY <1>0 DEF IsTyped
  <2>2. /\ merged.errors = new2.errors /\ merged.reports = new2.reports /\ merged.queue = new2.queue
        /\ merged.effects = new2.effects /\ merged.field = new2.field
    BY <1>18 DEF Alike
  <2>3. IsDoc(merged)
    BY <1>4, <1>9
  <2> QED BY <2>1, <2>2, <2>3 DEF IsTyped
<1>20. Since(base, merged, Cat(x, c.errors))
  <2>1. /\ IsRows(Cat(x, c.errors))
        /\ Cat(Cat(base.errors, x), c.errors) = Cat(base.errors, Cat(x, c.errors))
        /\ LastRows(Cap, Cat(LastRows(Cap, Cat(base.errors, x)), c.errors))
              = LastRows(Cap, Cat(base.errors, Cat(x, c.errors)))
    BY <1>5, CatAgain
  <2>2. doc.errors = LastRows(Cap, Cat(base.errors, x))
    BY DEF Since
  <2>3. merged.errors = LastRows(Cap, Cat(base.errors, Cat(x, c.errors)))
    BY <1>4, <1>6, <2>1, <2>2
  <2>4. Uniq(Cat(base.errors, Cat(x, c.errors)))
    BY <2>1
  <2>5. Begins(base.reports, merged.reports)
    <3>1. Begins(base.reports, doc.reports)
      BY DEF Since
    <3>2. Begins(base.reports, doc.reports \o c.reports)
      BY <1>5, <3>1, BeginsLonger
    <3> QED BY <1>4, <1>7, <3>2 DEF Cat
  <2>6. /\ Old(merged.seen) \subseteq Old(base.seen) /\ Young(base.seen) \subseteq Young(merged.seen)
        /\ Ordered(base.seen, merged.seen)
    <3>1. Old(l) \subseteq Old(base.seen) /\ Young(base.seen) \subseteq Young(l) /\ Ordered(base.seen, l)
      BY <1>13, <1>15, <1>16, <1>17 DEF Unites, Left
    <3> QED BY <1>4, <3>1
  <2> QED BY <2>1, <2>3, <2>4, <2>5, <2>6 DEF Since
<1> QED BY <1>4, <1>8, <1>18, <1>19, <1>20

-----------------------------------------------------------------------------
(* The two documents: live, and serial.                                    *)

(* x are the error rows of doc since base, and workers of S logged them all. *)
SinceBy(base, doc, x, S) ==
    /\ Since(base, doc, x)
    /\ \A p \in DOMAIN Cat(base.errors, x) : \E t \in S : Cat(base.errors, x)[p] \in ErrorsOf(t)

SomeSince(base, doc, S) == \E x : SinceBy(base, doc, x, S)

DocsOK(base, doc, doc2, S) ==
    /\ IsTyped(base) /\ IsTyped(doc) /\ IsTyped(doc2) /\ Alike(doc, doc2)
    /\ SomeSince(base, doc, S)

LEMMA TypedReports ==
  ASSUME NEW doc, IsTyped(doc), NEW rows, IsRows(rows), NEW new, new = WithRows(doc, rows)
  PROVE  /\ IsTyped(new) /\ new.reports = Cat(doc.reports, rows)
         /\ new.errors = doc.errors /\ new.seen = doc.seen /\ new.field = doc.field
         /\ new.queue = doc.queue /\ new.effects = doc.effects
<1>1. PICK more : more = Cat(doc.reports, rows)
  OBVIOUS
<1>2. new = [doc EXCEPT !.reports = more]
  BY <1>1 DEF WithRows, Cat
<1>3. IsDoc(doc)
  BY DEF IsTyped
<1>4. /\ new.errors = doc.errors /\ new.seen = doc.seen /\ new.field = doc.field
      /\ new.queue = doc.queue /\ new.effects = doc.effects /\ new.reports = more /\ IsDoc(new)
  BY <1>2, <1>3 DEF IsDoc
<1>5. IsRows(more)
  BY <1>1, CatIs DEF IsTyped
<1> QED BY <1>1, <1>4, <1>5 DEF IsTyped

LEMMA ReportedDocs ==
  ASSUME NEW base, NEW doc, NEW doc2, NEW S, DocsOK(base, doc, doc2, S), NEW rows, IsRows(rows),
         NEW new, new = WithRows(doc, rows), NEW new2, new2 = WithRows(doc2, rows)
  PROVE  DocsOK(base, new, new2, S) /\ new.queue = doc.queue
<1>1. IsTyped(base) /\ IsTyped(doc) /\ IsTyped(doc2) /\ Alike(doc, doc2) /\ SomeSince(base, doc, S)
  BY DEF DocsOK
<1>2. /\ IsTyped(new) /\ new.reports = Cat(doc.reports, rows)
      /\ new.errors = doc.errors /\ new.seen = doc.seen /\ new.field = doc.field
      /\ new.queue = doc.queue /\ new.effects = doc.effects
  BY <1>1, TypedReports
<1>3. /\ IsTyped(new2) /\ new2.reports = Cat(doc2.reports, rows)
      /\ new2.errors = doc2.errors /\ new2.seen = doc2.seen /\ new2.field = doc2.field
      /\ new2.queue = doc2.queue /\ new2.effects = doc2.effects
  BY <1>1, TypedReports
<1>4. Alike(new, new2)
  BY <1>1, <1>2, <1>3 DEF Alike
<1>5. PICK x : SinceBy(base, doc, x, S)
  BY <1>1 DEF SomeSince
<1>6. Begins(base.reports, new.reports)
  <2>1. Begins(base.reports, doc.reports) /\ IsRows(base.reports)
    BY <1>1, <1>5 DEF SinceBy, Since, IsTyped
  <2> QED BY <1>2, <2>1, BeginsLonger DEF Cat
<1>7. SinceBy(base, new, x, S)
  BY <1>2, <1>5, <1>6 DEF SinceBy, Since
<1> QED BY <1>1, <1>2, <1>3, <1>4, <1>7 DEF DocsOK, SomeSince

LEMMA RecordedDocs ==
  ASSUME NEW base, NEW doc, NEW doc2, NEW S, DocsOK(base, doc, doc2, S), NEW s, NEW what
  PROVE  /\ DocsOK(base, Recorded(doc, s, what), Recorded(doc2, s, what), S)
         /\ Recorded(doc, s, what).queue = doc.queue
<1>1. PICK row : row = <<s, what>>
  OBVIOUS
<1>2. IsRows(doc.reports) /\ IsRows(doc2.reports) /\ IsRows(<<row>>)
  BY OneRow DEF DocsOK, IsTyped
<1>3. Append(doc.reports, row) = doc.reports \o <<row>> /\ Append(doc2.reports, row) = doc2.reports \o <<row>>
  BY <1>2, OneMore
<1>4. /\ Recorded(doc, s, what) = WithRows(doc, <<row>>)
      /\ Recorded(doc2, s, what) = WithRows(doc2, <<row>>)
  BY <1>1, <1>3 DEF Recorded, AddSourceRun, WithRows
<1> QED BY <1>2, <1>4, ReportedDocs

LEMMA SkippedDocs ==
  ASSUME NEW base, NEW doc, NEW doc2, NEW S, DocsOK(base, doc, doc2, S)
  PROVE  DocsOK(base, WithSkips(doc), WithSkips(doc2), S) /\ WithSkips(doc).queue = doc.queue
<1> DEFINE rows == [i \in DOMAIN Tripped |-> <<Tripped[i], "skipped">>]
<1>1. Tripped \in Seq(Sources)
  BY Lists, SurvivorsOK DEF Tripped
<1>2. rows \in Seq(Sources \X {"skipped"})
  BY <1>1
<1>3. WithSkips(doc) = WithRows(doc, rows) /\ WithSkips(doc2) = WithRows(doc2, rows)
  BY DEF WithSkips, WithRows
<1> HIDE DEF rows
<1>4. IsRows(rows)
  BY <1>2 DEF IsRows
<1> QED BY <1>3, <1>4, ReportedDocs

(* A batch opens on the live document. *)
LEMMA RebasedDocs ==
  ASSUME NEW base, NEW doc, NEW doc2, NEW S, DocsOK(base, doc, doc2, S)
  PROVE  DocsOK(doc, doc, doc2, S)
<1>1. IsTyped(base) /\ IsTyped(doc) /\ IsTyped(doc2) /\ Alike(doc, doc2)
  BY DEF DocsOK
<1>2. PICK x : SinceBy(base, doc, x, S)
  BY DEF DocsOK, SomeSince
<1>3. PICK log : log = Cat(base.errors, x)
  OBVIOUS
<1>4. /\ IsRows(log) /\ Uniq(log) /\ doc.errors = LastRows(Cap, log)
      /\ \A p \in DOMAIN log : \E t \in S : log[p] \in ErrorsOf(t)
  <2>1. IsRows(base.errors) /\ IsRows(x)
    BY <1>1, <1>2 DEF SinceBy, Since, IsTyped
  <2> QED BY <1>2, <1>3, <2>1, CatIs DEF SinceBy, Since
<1>5. PICK R : log \in Seq(R)
  BY <1>4 DEF IsRows
<1>6. \A p \in DOMAIN doc.errors : \E q \in DOMAIN log :
         q - p = Len(log) - Len(doc.errors) /\ doc.errors[p] = log[q]
  <2>1. PICK e : e = doc.errors
    OBVIOUS
  <2>2. /\ e \in Seq(R) /\ Len(e) = IF Len(log) <= Cap THEN Len(log) ELSE Cap
        /\ \A n \in 0..(Cap - 1) : n < Len(log) => e[Len(e) - n] = log[Len(log) - n]
    BY <1>4, <1>5, <2>1, LastRowsAt
  <2>3. Cap \in Nat \ {0} /\ Len(log) \in Nat /\ DOMAIN log = 1..Len(log)
    BY <1>5, MergeAssumption
  <2>4. Len(e) \in Nat /\ Len(e) <= Cap /\ Len(e) <= Len(log) /\ DOMAIN e = 1..Len(e)
    <3>1. CASE Len(log) <= Cap
      BY <2>2, <2>3, <3>1
    <3>2. CASE ~(Len(log) <= Cap)
      BY <2>2, <2>3, <3>2
    <3> QED BY <3>1, <3>2
  <2>5. ASSUME NEW p \in DOMAIN e
        PROVE  \E q \in DOMAIN log : q - p = Len(log) - Len(e) /\ e[p] = log[q]
    <3>1. PICK n : n = Len(e) - p
      OBVIOUS
    <3>2. n \in 0..(Cap - 1) /\ n < Len(log) /\ Len(e) - n = p
      BY <2>3, <2>4, <3>1
    <3>3. e[Len(e) - n] = log[Len(log) - n]
      BY <2>2, <3>2
    <3>4. Len(log) - n \in DOMAIN log /\ (Len(log) - n) - p = Len(log) - Len(e)
      BY <2>3, <2>4, <3>1, <3>2
    <3> QED BY <3>2, <3>3, <3>4
  <2> QED BY <2>1, <2>5
<1>7. Uniq(doc.errors) /\ \A p \in DOMAIN doc.errors : \E t \in S : doc.errors[p] \in ErrorsOf(t)
  <2>1. ASSUME NEW p \in DOMAIN doc.errors, NEW q \in DOMAIN doc.errors, doc.errors[p] = doc.errors[q]
        PROVE  p = q
    <3>1. PICK i \in DOMAIN log : i - p = Len(log) - Len(doc.errors) /\ doc.errors[p] = log[i]
      BY <1>6
    <3>2. PICK j \in DOMAIN log : j - q = Len(log) - Len(doc.errors) /\ doc.errors[q] = log[j]
      BY <1>6
    <3>3. i = j
      BY <1>4, <2>1, <3>1, <3>2 DEF Uniq
    <3>4. p \in Int /\ q \in Int /\ i \in Int
      <4>1. PICK A : doc.errors \in Seq(A)
        BY <1>1 DEF IsTyped, IsRows
      <4>2. DOMAIN doc.errors = 1..Len(doc.errors)
        BY <4>1
      <4> QED BY <1>5, <4>2
    <3> QED BY <3>1, <3>2, <3>3, <3>4
  <2>2. \A p \in DOMAIN doc.errors : \E t \in S : doc.errors[p] \in ErrorsOf(t)
    BY <1>4, <1>6
  <2> QED BY <2>1, <2>2 DEF Uniq
<1>8. SinceBy(doc, doc, <<>>, S)
  <2>1. IsRows(<<>>) /\ Cat(doc.errors, <<>>) = doc.errors
    BY <1>1, OneRow, CatIs DEF IsTyped
  <2>2. doc.errors = LastRows(Cap, doc.errors)
    <3>1. PICK A : doc.errors \in Seq(A)
      BY <1>1 DEF IsTyped, IsRows
    <3> QED BY <1>1, <3>1, LastRowsAre DEF IsTyped
  <2>3. Begins(doc.reports, doc.reports) /\ Ordered(doc.seen, doc.seen)
    BY <1>1, BeginsItself, OrderedItself DEF IsTyped
  <2> QED BY <1>7, <2>1, <2>2, <2>3 DEF SinceBy, Since
<1> QED BY <1>1, <1>8 DEF DocsOK, SomeSince

LEMMA ApartErrors ==
  ASSUME NEW s \in Sources, NEW t \in Sources, s # t
  PROVE  ErrorsOf(s) \cap ErrorsOf(t) = {}
<1>1. \A one \in ScriptsBy(s) : \A other \in ScriptsBy(t) : ErrorRows(one) \cap ErrorRows(other) = {}
  BY RowsAssumption
<1> QED BY <1>1 DEF ErrorsOf

(* Rows in two lists, of different sources. *)
LEMMA ApartCat ==
  ASSUME NEW a, IsRows(a), Uniq(a), NEW b, IsRows(b), Uniq(b),
         \A p \in DOMAIN a, q \in DOMAIN b : a[p] # b[q]
  PROVE  Uniq(Cat(a, b)) /\ \A r \in DOMAIN Cat(a, b) :
            (\E p \in DOMAIN a : Cat(a, b)[r] = a[p]) \/ (\E q \in DOMAIN b : Cat(a, b)[r] = b[q])
<1>1. PICK R : a \in Seq(R) /\ b \in Seq(R)
  BY CommonRows
<1>2. PICK c : c = Cat(a, b)
  OBVIOUS
<1>3. /\ DOMAIN c = 1..(Len(a) + Len(b)) /\ Len(a) \in Nat /\ Len(b) \in Nat
      /\ DOMAIN a = 1..Len(a) /\ DOMAIN b = 1..Len(b)
      /\ \A p \in 1..Len(a) : c[p] = a[p]
      /\ \A p \in 1..Len(b) : c[Len(a) + p] = b[p]
  BY <1>1, <1>2, Joined DEF Cat
<1>4. ASSUME NEW r \in DOMAIN c
      PROVE  (r \in DOMAIN a /\ c[r] = a[r]) \/ (r - Len(a) \in DOMAIN b /\ c[r] = b[r - Len(a)])
  <2>1. CASE r <= Len(a)
    BY <1>3, <2>1
  <2>2. CASE ~(r <= Len(a))
    <3>1. r - Len(a) \in 1..Len(b) /\ Len(a) + (r - Len(a)) = r
      BY <1>3, <2>2
    <3> QED BY <1>3, <3>1
  <2> QED BY <2>1, <2>2
<1>5. Uniq(c)
  <2> SUFFICES ASSUME NEW p \in DOMAIN c, NEW q \in DOMAIN c, c[p] = c[q] PROVE p = q
    BY DEF Uniq
  <2>0. p \in Int /\ q \in Int /\ Len(a) \in Int
    BY <1>3
  <2>1. (p \in DOMAIN a /\ c[p] = a[p]) \/ (p - Len(a) \in DOMAIN b /\ c[p] = b[p - Len(a)])
    BY <1>4
  <2>2. (q \in DOMAIN a /\ c[q] = a[q]) \/ (q - Len(a) \in DOMAIN b /\ c[q] = b[q - Len(a)])
    BY <1>4
  <2>3. CASE p \in DOMAIN a /\ c[p] = a[p] /\ q \in DOMAIN a /\ c[q] = a[q]
    BY <2>3 DEF Uniq
  <2>4. CASE p - Len(a) \in DOMAIN b /\ c[p] = b[p - Len(a)] /\ q - Len(a) \in DOMAIN b /\ c[q] = b[q - Len(a)]
    <3>1. p - Len(a) = q - Len(a)
      BY <2>4 DEF Uniq
    <3> QED BY <2>0, <3>1
  <2>5. ~(p \in DOMAIN a /\ c[p] = a[p] /\ q - Len(a) \in DOMAIN b /\ c[q] = b[q - Len(a)])
    OBVIOUS
  <2>6. ~(q \in DOMAIN a /\ c[q] = a[q] /\ p - Len(a) \in DOMAIN b /\ c[p] = b[p - Len(a)])
    OBVIOUS
  <2> QED BY <2>1, <2>2, <2>3, <2>4, <2>5, <2>6
<1> QED BY <1>2, <1>4, <1>5

LEMMA FirstOfUniq ==
  ASSUME NEW a, IsRows(a), NEW b, IsRows(b), Uniq(Cat(a, b)),
         NEW S, \A p \in DOMAIN Cat(a, b) : Cat(a, b)[p] \in S
  PROVE  Uniq(a) /\ \A p \in DOMAIN a : a[p] \in S
<1>1. PICK R : a \in Seq(R) /\ b \in Seq(R)
  BY CommonRows
<1>2. PICK c : c = Cat(a, b)
  OBVIOUS
<1>3. \A p \in DOMAIN a : p \in DOMAIN c /\ c[p] = a[p]
  <2>1. /\ DOMAIN c = 1..(Len(a) + Len(b)) /\ Len(a) \in Nat /\ Len(b) \in Nat
        /\ DOMAIN a = 1..Len(a)
        /\ \A p \in 1..Len(a) : c[p] = a[p]
    BY <1>1, <1>2, Joined DEF Cat
  <2> QED BY <2>1
<1>4. Uniq(c) /\ \A p \in DOMAIN c : c[p] \in S
  BY <1>2
<1> QED BY <1>3, <1>4 DEF Uniq

(* Source s enqueued what follows the old rows. *)
Enqueued(s, old, new) == \E q : IsRows(q) /\ new = Cat(old, q) /\ \A p \in DOMAIN q : q[p][1] = s

(* A worker's copy is promoted. *)
LEMMA PromotedDocs ==
  ASSUME NEW base, NEW doc, NEW doc2, NEW S \in SUBSET Sources, DocsOK(base, doc, doc2, S),
         NEW s \in Sources, s \notin S, NEW edits, Own(s, edits),
         NEW worker, NEW others,
         NEW merged \in MergeDocuments(base, Replay(edits, base), doc, worker, others),
         IsSeen(merged.seen)
  PROVE  /\ DocsOK(base, merged, Replay(edits, doc2), S \cup {s})
         /\ Enqueued(s, doc.queue, merged.queue)
<1>1. IsTyped(base) /\ IsTyped(doc) /\ IsTyped(doc2) /\ Alike(doc, doc2)
  BY DEF DocsOK
<1>2. PICK x : SinceBy(base, doc, x, S)
  BY DEF DocsOK, SomeSince
<1>3. PICK staged, new2, c :
         staged = Replay(edits, base) /\ new2 = Replay(edits, doc2) /\ Made(s, edits, base, staged, doc2, new2, c)
  BY <1>1, EditsMake
<1>4. /\ IsChange(c) /\ Holds(c, edits, Len(edits)) /\ IsTyped(new2) /\ Uniq(c.errors)
      /\ IsRows(c.errors) /\ IsRows(c.queue)
  BY <1>3 DEF Made, Holds, IsChange
<1>5. 1..Len(edits) = DOMAIN edits
  BY DEF Own, IsRows
<1>6. \A p \in DOMAIN c.errors : c.errors[p] \in ErrorsOf(s)
  <2> TAKE p \in DOMAIN c.errors
  <2>1. PICK i \in 1..Len(edits) : edits[i].kind = "error" /\ c.errors[p] = edits[i].row
    BY <1>4 DEF Holds
  <2> QED BY <1>5, <2>1 DEF Own
<1>7. \A p \in DOMAIN c.queue : c.queue[p][1] = s
  <2> TAKE p \in DOMAIN c.queue
  <2>1. PICK i \in 1..Len(edits) : edits[i].kind = "enqueue" /\ c.queue[p] = edits[i].row
    BY <1>4 DEF Holds
  <2>2. edits[i].row[1] = s
    BY <1>5, <2>1 DEF Own
  <2> QED BY <2>1, <2>2
<1> DEFINE Theirs == UNION {ErrorsOf(t) : t \in S}
<1>8. Theirs \cap ErrorsOf(s) = {}
  BY ApartErrors
<1>9. PICK log : log = Cat(base.errors, x)
  OBVIOUS
<1>10. /\ IsRows(base.errors) /\ IsRows(x) /\ IsRows(log) /\ Uniq(log)
       /\ \A p \in DOMAIN log : log[p] \in Theirs
  <2>1. IsRows(base.errors) /\ IsRows(x) /\ Uniq(log)
    BY <1>1, <1>2, <1>9 DEF SinceBy, Since, IsTyped
  <2>2. \A p \in DOMAIN log : log[p] \in Theirs
    BY <1>2, <1>9 DEF SinceBy
  <2> QED BY <1>9, <2>1, <2>2, CatIs
<1> HIDE DEF Theirs
<1>11. Uniq(base.errors) /\ \A p \in DOMAIN base.errors : base.errors[p] \in Theirs
  BY <1>9, <1>10, FirstOfUniq
<1>12. Uniq(Cat(base.errors, c.errors))
  <2>1. \A p \in DOMAIN base.errors, q \in DOMAIN c.errors : base.errors[p] # c.errors[q]
    BY <1>6, <1>8, <1>11
  <2> QED BY <1>4, <1>10, <1>11, <2>1, ApartCat
<1>13. /\ Uniq(Cat(log, c.errors))
       /\ \A r \in DOMAIN Cat(log, c.errors) :
             Cat(log, c.errors)[r] \in Theirs \/ Cat(log, c.errors)[r] \in ErrorsOf(s)
  <2>1. \A p \in DOMAIN log, q \in DOMAIN c.errors : log[p] # c.errors[q]
    BY <1>6, <1>8, <1>10
  <2>2. Uniq(Cat(log, c.errors)) /\ \A r \in DOMAIN Cat(log, c.errors) :
            (\E p \in DOMAIN log : Cat(log, c.errors)[r] = log[p])
            \/ (\E q \in DOMAIN c.errors : Cat(log, c.errors)[r] = c.errors[q])
    BY <1>4, <1>10, <2>1, ApartCat
  <2>3. ASSUME NEW r \in DOMAIN Cat(log, c.errors)
        PROVE  Cat(log, c.errors)[r] \in Theirs \/ Cat(log, c.errors)[r] \in ErrorsOf(s)
    <3>1. PICK row : row = Cat(log, c.errors)[r]
      OBVIOUS
    <3>2. (\E p \in DOMAIN log : row = log[p]) \/ (\E q \in DOMAIN c.errors : row = c.errors[q])
      BY <2>2, <3>1
    <3>3. row \in Theirs \/ row \in ErrorsOf(s)
      BY <1>6, <1>10, <3>2
    <3> QED BY <3>1, <3>3
  <2> QED BY <2>2, <2>3
<1>14. /\ IsTyped(merged) /\ Alike(merged, new2) /\ Since(base, merged, Cat(x, c.errors))
       /\ merged.queue = Cat(doc.queue, c.queue)
  <2>1. Since(base, doc, x)
    BY <1>2 DEF SinceBy
  <2>2. Uniq(Cat(Cat(base.errors, x), c.errors))
    BY <1>9, <1>13
  <2>3. merged \in MergeDocuments(base, staged, doc, worker, others)
    BY <1>3
  <2> QED BY <1>1, <1>3, <1>12, <2>1, <2>2, <2>3, MergedAsMade
<1>15. SinceBy(base, merged, Cat(x, c.errors), S \cup {s})
  <2>1. Cat(base.errors, Cat(x, c.errors)) = Cat(log, c.errors)
    BY <1>4, <1>9, <1>10, CatAgain
  <2>2. \A r \in DOMAIN Cat(log, c.errors) : \E t \in S \cup {s} : Cat(log, c.errors)[r] \in ErrorsOf(t)
    BY <1>13 DEF Theirs
  <2> QED BY <1>14, <2>1, <2>2 DEF SinceBy
<1>16. DocsOK(base, merged, new2, S \cup {s})
  BY <1>1, <1>4, <1>14, <1>15 DEF DocsOK, SomeSince
<1>17. Enqueued(s, doc.queue, merged.queue)
  BY <1>4, <1>7, <1>14 DEF Enqueued
<1> QED BY <1>3, <1>16, <1>17

-----------------------------------------------------------------------------
(* The queue: rows of sources below a place among the declared, in order.  *)

Below(queue, n) == \A p \in DOMAIN queue : \E i \in DOMAIN Declared : i < n /\ Declared[i] = queue[p][1]

Rising(queue) ==
    \A p, q \in DOMAIN queue : p < q =>
       \E i, j \in DOMAIN Declared : i <= j /\ Declared[i] = queue[p][1] /\ Declared[j] = queue[q][1]

QueueOK(queue, n) == Below(queue, n) /\ Rising(queue)

LEMMA Ranks == DOMAIN Declared = 1..(Len(Serial) + Len(Concurrent)) /\ DOMAIN Declared \subseteq Int
BY Lists DEF Declared

LEMMA QueueHigher ==
  ASSUME NEW queue, NEW n \in Int, QueueOK(queue, n), NEW m \in Int, n <= m
  PROVE  QueueOK(queue, m)
<1>1. \A i \in DOMAIN Declared : i < n => i < m
  BY Ranks
<1> QED BY <1>1 DEF QueueOK, Below

LEMMA QueueGrows ==
  ASSUME NEW queue, IsRows(queue), NEW n \in DOMAIN Declared, QueueOK(queue, n),
         NEW q, IsRows(q), \A p \in DOMAIN q : q[p][1] = Declared[n]
  PROVE  QueueOK(Cat(queue, q), n + 1)
<1>1. PICK R : queue \in Seq(R) /\ q \in Seq(R)
  BY CommonRows
<1>2. PICK c : c = Cat(queue, q)
  OBVIOUS
<1>3. /\ DOMAIN c = 1..(Len(queue) + Len(q)) /\ Len(queue) \in Nat /\ Len(q) \in Nat
      /\ DOMAIN queue = 1..Len(queue) /\ DOMAIN q = 1..Len(q)
      /\ \A p \in 1..Len(queue) : c[p] = queue[p]
      /\ \A p \in 1..Len(q) : c[Len(queue) + p] = q[p]
  BY <1>1, <1>2, Joined DEF Cat
<1>4. ASSUME NEW r \in DOMAIN c
      PROVE  (r \in DOMAIN queue /\ c[r] = queue[r]) \/ (r > Len(queue) /\ c[r][1] = Declared[n])
  <2>1. CASE r <= Len(queue)
    BY <1>3, <2>1
  <2>2. CASE ~(r <= Len(queue))
    <3>1. r - Len(queue) \in 1..Len(q) /\ Len(queue) + (r - Len(queue)) = r
      BY <1>3, <2>2
    <3>2. c[r] = q[r - Len(queue)] /\ r - Len(queue) \in DOMAIN q
      BY <1>3, <3>1
    <3>3. r > Len(queue)
      BY <1>3, <2>2
    <3> QED BY <3>2, <3>3
  <2> QED BY <2>1, <2>2
<1>5. n \in Int /\ \A i \in DOMAIN Declared : i \in Int /\ (i < n => i < n + 1 /\ i <= n)
  BY Ranks
<1>6. Below(c, n + 1)
  <2> SUFFICES ASSUME NEW r \in DOMAIN c
               PROVE  \E i \in DOMAIN Declared : i < n + 1 /\ Declared[i] = c[r][1]
    BY DEF Below
  <2>1. CASE r \in DOMAIN queue /\ c[r] = queue[r]
    BY <1>5, <2>1 DEF QueueOK, Below
  <2>2. CASE c[r][1] = Declared[n]
    BY <1>5, <2>2
  <2> QED BY <1>4, <2>1, <2>2
<1>7. Rising(c)
  <2> SUFFICES ASSUME NEW p \in DOMAIN c, NEW r \in DOMAIN c, p < r
               PROVE  \E i, j \in DOMAIN Declared : i <= j /\ Declared[i] = c[p][1] /\ Declared[j] = c[r][1]
    BY DEF Rising
  <2>1. CASE r \in DOMAIN queue /\ c[r] = queue[r]
    <3>1. p \in DOMAIN queue /\ c[p] = queue[p]
      BY <1>3, <2>1
    <3> QED BY <2>1, <3>1 DEF QueueOK, Rising
  <2>2. CASE c[r][1] = Declared[n]
    <3>1. CASE p \in DOMAIN queue /\ c[p] = queue[p]
      <4>1. PICK i \in DOMAIN Declared : i < n /\ Declared[i] = queue[p][1]
        BY <3>1 DEF QueueOK, Below
      <4> QED BY <1>5, <2>2, <3>1, <4>1
    <3>2. CASE c[p][1] = Declared[n]
      BY <1>5, <2>2, <3>2
    <3> QED BY <1>4, <3>1, <3>2
  <2> QED BY <1>4, <2>1, <2>2
<1> QED BY <1>2, <1>6, <1>7 DEF QueueOK

-----------------------------------------------------------------------------
(* Serial equivalence.                                                     *)

Promoted == {s \in Sources : stage[s].fate = "promoted"}

(* The place among the declared below which runners may have enqueued. *)
Place ==
    IF main.phase \in {"serial", "waiting"} THEN main.at
    ELSE IF main.phase \in {"dispatch", "await"} THEN Len(Serial) + 1
    ELSE IF main.phase = "settle" THEN Len(Serial) + main.at
    ELSE Len(Declared) + 1

SerialInv ==
    /\ DocsOK(batch.base, live, serial, Promoted)
    /\ \A s \in Sources : Own(s, stage[s].edits)
    /\ QueueOK(live.queue, Place)
    /\ main.phase = "serial" => main.at <= Len(Serial) + 1

LEMMA NothingOwned == ASSUME NEW s PROVE Own(s, <<>>)
<1>1. DOMAIN <<>> = {}
  OBVIOUS
<1>2. IsRows(<<>>)
  BY OneRow
<1> QED BY <1>1, <1>2 DEF Own

LEMMA SerialStart == StagingInit => SerialInv
<1> SUFFICES ASSUME StagingInit PROVE SerialInv
  OBVIOUS
<1>1. /\ \A s \in Sources : stage[s] = NoStage
      /\ main.phase = "serial" /\ main.at = 1
      /\ batch.base = live /\ serial = live
      /\ live = [EmptyDocument EXCEPT !.seen = Seen]
  BY DEF StagingInit
<1>2. /\ live.errors = <<>> /\ live.seen = Seen /\ live.reports = <<>> /\ live.queue = <<>>
      /\ live.effects = <<>> /\ (\A k \in Fields : live.field[k] = 0) /\ IsDoc(live)
  BY <1>1 DEF EmptyDocument, IsDoc
<1>3. IsRows(<<>>) /\ Len(<<>>) = 0 /\ DOMAIN <<>> = {}
  <2>1. Len(<<>>) = 0 /\ DOMAIN <<>> = {}
    OBVIOUS
  <2>2. IsRows(<<>>)
    BY OneRow
  <2> QED BY <2>1, <2>2
<1>4. IsSeen(Seen)
  BY SeenAtFirst DEF SeenOK, IsSeen, IsRows
<1>5. IsTyped(live)
  <2>1. 0 <= Cap
    BY MergeAssumption
  <2> QED BY <1>2, <1>3, <1>4, <2>1 DEF IsTyped
<1>6. SinceBy(live, live, <<>>, Promoted)
  <2>1. Cat(live.errors, <<>>) = <<>>
    BY <1>2, <1>3, CatIs
  <2>2. LastRows(Cap, <<>>) = <<>>
    <3>1. <<>> \in Seq({}) /\ Len(<<>>) <= Cap
      BY MergeAssumption
    <3> QED BY <3>1, LastRowsAre
  <2>3. Begins(live.reports, live.reports) /\ Ordered(live.seen, live.seen)
    BY <1>2, <1>3, <1>4, BeginsItself, OrderedItself
  <2> QED BY <1>2, <1>3, <2>1, <2>2, <2>3 DEF SinceBy, Since, Uniq
<1>7. Alike(live, live)
  BY DEF Alike
<1>8. \A s \in Sources : Own(s, stage[s].edits)
  BY <1>1, NothingOwned DEF NoStage
<1>9. QueueOK(live.queue, Place)
  BY <1>2, <1>3 DEF QueueOK, Below, Rising
<1> QED BY <1>1, <1>5, <1>6, <1>7, <1>8, <1>9, Lists DEF SerialInv, DocsOK, SomeSince

-----------------------------------------------------------------------------
(* Workers and time.                                                       *)

LEMMA ScriptOwn ==
  ASSUME NEW s \in Sources, NEW since \in 1..MaxDay, NEW until \in since..MaxDay,
         NEW script \in ScriptsOf(s, since, until)
  PROVE  Own(s, script) /\ \A row : row.kind = "report" => Own(s, Append(script, row))
<1>1. script \in ScriptsBy(s)
  BY DEF ScriptsBy
<1>2. /\ script \in Seq(ToSet(script))
      /\ \A i \in DOMAIN script :
            script[i].kind \in EditKinds /\ (script[i].kind = "observe" => script[i].day \in since..until)
  BY StagingAssumption DEF ToSet
<1>3. /\ \A i, j \in DOMAIN script :
            script[i].kind = "error" /\ script[j].kind = "error" /\ script[i].row = script[j].row => i = j
      /\ \A i \in DOMAIN script : script[i].kind = "enqueue" => script[i].row[1] = s
  <2>1. /\ \A i, j \in DOMAIN script :
              script[i].kind = "error" /\ script[j].kind = "error" /\ script[i].row = script[j].row => i = j
        /\ \A e \in ToSet(script) : e.kind = "enqueue" => e.row[1] = s
    BY <1>1, RowsAssumption
  <2>2. \A i \in DOMAIN script : script[i] \in ToSet(script)
    BY DEF ToSet
  <2> QED BY <2>1, <2>2
<1>4. \A i \in DOMAIN script : script[i].kind = "error" => script[i].row \in ErrorsOf(s)
  <2> SUFFICES ASSUME NEW i \in DOMAIN script, script[i].kind = "error" PROVE script[i].row \in ErrorsOf(s)
    OBVIOUS
  <2>1. script[i].row \in ErrorRows(script)
    BY DEF ErrorRows, ToSet
  <2> QED BY <1>1, <2>1 DEF ErrorsOf
<1>5. \A i \in DOMAIN script : script[i].kind = "observe" => script[i].day \in 1..MaxDay
  BY <1>2, ShortRun
<1>6. Own(s, script)
  BY <1>2, <1>3, <1>4, <1>5 DEF Own, IsRows
<1>7. ASSUME NEW row, row.kind = "report" PROVE Own(s, Append(script, row))
  <2>1. PICK more : more = Append(script, row)
    OBVIOUS
  <2>2. /\ more \in Seq(ToSet(script) \cup {row}) /\ DOMAIN more = 1..(Len(script) + 1)
        /\ DOMAIN script = 1..Len(script) /\ Len(script) \in Nat
        /\ (\A i \in 1..Len(script) : more[i] = script[i]) /\ more[Len(script) + 1] = row
    BY <1>2, <2>1
  <2>3. \A i \in DOMAIN more : (i \in DOMAIN script /\ more[i] = script[i]) \/ more[i].kind = "report"
    <3>1. \A i \in DOMAIN more : i \in 1..Len(script) \/ i = Len(script) + 1
      BY <2>2
    <3> QED BY <1>7, <2>2, <3>1
  <2>4. "report" \in EditKinds
    BY DEF EditKinds
  <2> QED BY <1>6, <2>1, <2>2, <2>3, <2>4 DEF Own, IsRows
<1> QED BY <1>6, <1>7

LEMMA QuietSerial ==
  ASSUME SerialInv, UNCHANGED <<main, live, batch, serial>>,
         \A s \in Sources : stage'[s].fate = stage[s].fate /\ Own(s, stage'[s].edits)
  PROVE  SerialInv'
<1>1. Promoted' = Promoted
  BY DEF Promoted
<1>2. Place' = Place
  BY DEF Place
<1>3. DocsOK(batch.base, live, serial, Promoted)'
  BY <1>1 DEF SerialInv
<1>4. QueueOK(live.queue, Place)'
  BY <1>2 DEF SerialInv
<1> QED BY <1>3, <1>4 DEF SerialInv

LEMMA WorkerSerial ==
  ASSUME StageInv, LogsInv, SerialInv, WorkerStep
  PROVE  SerialInv'
<1> SUFFICES ASSUME NEW s \in Sources, NEW y, Worker(s, y), y.fate = stage[s].fate, Own(s, y.edits)
             PROVE  SerialInv'
  <2> PICK s \in Sources :
        \/ Start(s)
        \/ Consult(s)
        \/ \E outcome \in Outcomes \ {"none"}, script \in ScriptsOf(s, stage[s].since, today) :
              Execute(s, outcome, script)
        \/ ExecuteDiscarded(s)
        \/ NoteLate(s)
    BY DEF WorkerStep
  <2>0. StageOK(stage[s]) /\ Own(s, stage[s].edits) /\ TimeOK(stage[s], today) /\ today \in 1..MaxDay
    BY DEF StageInv, TypeInv, SerialInv, LogsInv
  <2>1. ASSUME NEW thread, Worker(s, [stage[s] EXCEPT !.thread = thread]) PROVE SerialInv'
    <3>1. PICK y : y = [stage[s] EXCEPT !.thread = thread]
      OBVIOUS
    <3>2. y.fate = stage[s].fate /\ y.edits = stage[s].edits
      BY <2>0, <3>1 DEF StageOK
    <3> QED BY <2>0, <2>1, <3>1, <3>2
  <2>2. CASE Start(s) \/ ExecuteDiscarded(s) \/ NoteLate(s)
    BY <2>1, <2>2 DEF Start, ExecuteDiscarded, NoteLate
  <2>3. CASE Consult(s)
    <3>1. PICK y : y = [stage[s] EXCEPT !.cancelled = TRUE]
      OBVIOUS
    <3>2. y.fate = stage[s].fate /\ y.edits = stage[s].edits
      BY <2>0, <3>1 DEF StageOK
    <3> QED BY <2>0, <2>3, <3>1, <3>2 DEF Consult
  <2>4. ASSUME NEW outcome, NEW script \in ScriptsOf(s, stage[s].since, today), Execute(s, outcome, script)
        PROVE  SerialInv'
    <3> DEFINE row == [kind |-> "report", row |-> <<s, "ok">>]
               edits == IF outcome = "returned" THEN Append(script, row) ELSE script
               y1 == [stage[s] EXCEPT !.thread = "stamped"]
               y2 == [y1 EXCEPT !.outcome = outcome]
               y3 == [y2 EXCEPT !.onTime = stage[s].left >= 0]
               y4 == [y3 EXCEPT !.until = today]
               y == [y4 EXCEPT !.edits = edits]
    <3>1. Worker(s, y) /\ stage[s].thread = "running" /\ stage[s].fate = "open"
      BY <2>4 DEF Execute
    <3>2. stage[s].since \in 1..MaxDay /\ today \in stage[s].since..MaxDay
      BY <2>0, <3>1, ShortRun DEF TimeOK
    <3>3. Own(s, edits)
      <4>1. row.kind = "report"
        OBVIOUS
      <4> HIDE DEF row
      <4>2. Own(s, script) /\ Own(s, Append(script, row))
        BY <3>2, <4>1, ScriptOwn
      <4> QED BY <4>2
    <3> HIDE DEF edits
    <3>4. StageOK(y1) /\ y1.fate = stage[s].fate
      BY <2>0 DEF StageOK
    <3> HIDE DEF y1
    <3>5. StageOK(y2) /\ y2.fate = stage[s].fate
      BY <3>4 DEF StageOK
    <3> HIDE DEF y2
    <3>6. StageOK(y3) /\ y3.fate = stage[s].fate
      BY <3>5 DEF StageOK
    <3> HIDE DEF y3
    <3>7. StageOK(y4) /\ y4.fate = stage[s].fate
      BY <3>6 DEF StageOK
    <3> HIDE DEF y4
    <3>8. y.fate = stage[s].fate /\ y.edits = edits
      BY <3>7 DEF StageOK
    <3> HIDE DEF y
    <3> QED BY <3>1, <3>3, <3>8
  <2> QED BY <2>2, <2>3, <2>4
<1>1. stage' = [stage EXCEPT ![s] = y] /\ UNCHANGED <<main, live, batch, serial>>
  BY DEF Worker
<1>2. stage'[s] = y /\ \A t \in Sources \ {s} : stage'[t] = stage[t]
  BY <1>1 DEF StageInv, TypeInv
<1>3. \A t \in Sources : stage'[t].fate = stage[t].fate /\ Own(t, stage'[t].edits)
  BY <1>2 DEF SerialInv
<1> QED BY <1>1, <1>3, QuietSerial

LEMMA TickSerial ==
  ASSUME StageInv, SerialInv, Tick
  PROVE  SerialInv'
<1>1. UNCHANGED <<main, live, batch, serial>>
  BY DEF Tick
<1>2. ASSUME NEW s \in Sources PROVE stage'[s].fate = stage[s].fate /\ stage'[s].edits = stage[s].edits
  <2>0. StageOK(stage[s])
    BY DEF StageInv, TypeInv
  <2>1. CASE stage'[s] = stage[s]
    BY <2>1
  <2>2. CASE stage'[s] = [stage[s] EXCEPT !.left = stage[s].left - 1]
    BY <2>0, <2>2 DEF StageOK
  <2> QED BY <2>1, <2>2 DEF Tick
<1>3. \A s \in Sources : stage'[s].fate = stage[s].fate /\ Own(s, stage'[s].edits)
  BY <1>2 DEF SerialInv
<1> QED BY <1>1, <1>3, QuietSerial

LEMMA NothingSerial ==
  ASSUME SerialInv, UNCHANGED <<main, live, batch, serial, stage>>
  PROVE  SerialInv'
<1>1. \A s \in Sources : stage'[s].fate = stage[s].fate /\ Own(s, stage'[s].edits)
  BY DEF SerialInv
<1> QED BY <1>1, QuietSerial

-----------------------------------------------------------------------------
(* Settling.                                                               *)

SettledSerial(s) ==
    /\ DocsOK(batch.base, live, serial, Promoted)'
    /\ \A t \in Sources : Own(t, stage'[t].edits)
    /\ Enqueued(s, live.queue, live'.queue)

LEMMA NoneEnqueued == ASSUME NEW s, NEW queue, IsRows(queue) PROVE Enqueued(s, queue, queue)
<1>1. DOMAIN <<>> = {}
  OBVIOUS
<1>2. IsRows(<<>>) /\ Cat(queue, <<>>) = queue
  BY OneRow, CatIs
<1> QED BY <1>1, <1>2 DEF Enqueued

(* The stage of an unsettled runner becomes x. *)
LEMMA StageBecomes ==
  ASSUME StageInv, SerialInv, NEW s \in Sources, stage[s].fate = "open", NEW x,
         stage' = [stage EXCEPT ![s] = x], x.edits \in {<<>>, stage[s].edits}
  PROVE  /\ \A t \in Sources : Own(t, stage'[t].edits)
         /\ Promoted' = IF x.fate = "promoted" THEN Promoted \cup {s} ELSE Promoted
         /\ s \notin Promoted /\ Promoted \in SUBSET Sources
<1>1. stage'[s] = x /\ \A t \in Sources \ {s} : stage'[t] = stage[t]
  BY DEF StageInv, TypeInv
<1>2. \A t \in Sources : Own(t, stage'[t].edits)
  BY <1>1, NothingOwned DEF SerialInv
<1>3. s \notin Promoted /\ Promoted \in SUBSET Sources
  BY DEF Promoted
<1>4. \A t \in Sources : t \in Promoted' <=> (t \in Promoted \/ (t = s /\ x.fate = "promoted"))
  BY <1>1, <1>3 DEF Promoted
<1>5. Promoted' \in SUBSET Sources
  BY DEF Promoted
<1> QED BY <1>2, <1>3, <1>4, <1>5

LEMMA TimeoutSerial ==
  ASSUME StageInv, SerialInv, NEW s \in Sources, stage[s].fate = "open", SettleTimeout(s)
  PROVE  SettledSerial(s) /\ live'.queue = live.queue
<1> DEFINE old == Settled(s, "timeout")
           thread == IF old.thread = "queued" THEN "withdrawn" ELSE old.thread
           x1 == [old EXCEPT !.thread = thread]
           x2 == [x1 EXCEPT !.cancelled = TRUE]
           x3 == [x2 EXCEPT !.edits = <<>>]
<1>1. /\ stage' = [stage EXCEPT ![s] = x3] /\ batch' = batch
      /\ live' = Recorded(live, s, "timeout") /\ serial' = Recorded(serial, s, "timeout")
  BY DEF SettleTimeout
<1>2. StageOK(old) /\ old.fate = "timeout"
  BY SettledShape
<1> HIDE DEF old, thread
<1>3. StageOK(x1) /\ x1.fate = "timeout"
  BY <1>2 DEF StageOK
<1> HIDE DEF x1
<1>4. StageOK(x2) /\ x2.fate = "timeout"
  BY <1>3, Cancelled
<1> HIDE DEF x2
<1>5. x3.edits = <<>> /\ x3.fate = "timeout"
  BY <1>4 DEF StageOK
<1> HIDE DEF x3
<1>6. Promoted' = Promoted /\ \A t \in Sources : Own(t, stage'[t].edits)
  BY <1>1, <1>5, StageBecomes
<1>7. DocsOK(batch.base, live, serial, Promoted)
  BY DEF SerialInv
<1>8. DocsOK(batch.base, live', serial', Promoted) /\ live'.queue = live.queue
  BY <1>1, <1>7, RecordedDocs
<1>9. IsRows(live.queue)
  BY <1>7 DEF DocsOK, IsTyped
<1>10. DocsOK(batch.base, live, serial, Promoted)'
  BY <1>1, <1>6, <1>8
<1> QED BY <1>6, <1>8, <1>9, <1>10, NoneEnqueued DEF SettledSerial

LEMMA MergedParts ==
  ASSUME NEW base, NEW staged, NEW doc, NEW worker, NEW others,
         NEW merged \in MergeDocuments(base, staged, doc, worker, others), NEW s, NEW what
  PROVE  Recorded(merged, s, what).seen = merged.seen
<1> DEFINE E == MergeCapped(base.errors, staged.errors, doc.errors)
           S == MergeWindowed(base.seen, staged.seen, doc.seen, worker, others)
           F == MergeFields(base.field, staged.field, doc.field)
           R == MergeGeneric(base.reports, staged.reports, doc.reports)
           queue == doc.queue \o NewRows(base.queue, staged.queue)
           effects == doc.effects \o NewRows(base.effects, staged.effects)
           JoinedBy(e, l, f, r) == [errors |-> e, seen |-> l, field |-> f, reports |-> r,
                                    queue |-> queue, effects |-> effects]
<1>1. MergeDocuments(base, staged, doc, worker, others) =
         {JoinedBy(e, l, f, r) : e \in E, l \in S, f \in F, r \in R}
  BY DEF MergeDocuments
<1>2. \A e, l, f, r : "seen" \in DOMAIN JoinedBy(e, l, f, r)
  OBVIOUS
<1> HIDE DEF E, S, F, R, JoinedBy, queue, effects
<1>3. "seen" \in DOMAIN merged
  BY <1>1, <1>2
<1> QED BY <1>3 DEF Recorded, AddSourceRun

LEMMA OnTimeSerial ==
  ASSUME StageInv, SerialInv, CauseInv', NEW s \in Sources, stage[s].fate = "open",
         NEW v, SettleOnTime(s, v)
  PROVE  SettledSerial(s)
<1> DEFINE staged == Replay(stage[s].edits, batch.base)
           others == [since |-> batch.opened, until |-> batch.until]
           Merged == MergeDocuments(batch.base, staged, live, stage[s], others)
           Failed(doc) == IF v = "raised" THEN Recorded(doc, s, "failed") ELSE doc
<1>1. DocsOK(batch.base, live, serial, Promoted) /\ Own(s, stage[s].edits) /\ IsRows(live.queue)
  BY DEF SerialInv, DocsOK, IsTyped
<1>2. ASSUME NEW base, NEW doc, NEW doc2, NEW S, DocsOK(base, doc, doc2, S)
      PROVE  DocsOK(base, Failed(doc), Failed(doc2), S) /\ Failed(doc).queue = doc.queue
  <2>1. CASE v = "raised"
    <3>1. Failed(doc) = Recorded(doc, s, "failed") /\ Failed(doc2) = Recorded(doc2, s, "failed")
      BY <2>1
    <3> HIDE DEF Failed
    <3> QED BY <1>2, <3>1, RecordedDocs
  <2>2. CASE v # "raised"
    BY <1>2, <2>2
  <2> QED BY <2>1, <2>2
<1>3. CASE Promotion(s) = {}
  <2> DEFINE x == Settled(s, "refused")
             one == Recorded(live, s, "conflict")
             two == Recorded(serial, s, "conflict")
  <2>1. /\ stage' = [stage EXCEPT ![s] = x]
        /\ live' = Failed(one) /\ serial' = Failed(two) /\ batch' = batch
    BY <1>3 DEF SettleOnTime
  <2>2. x.fate = "refused" /\ x.edits = stage[s].edits
    BY SettledEdits
  <2> HIDE DEF x, Failed
  <2>3. Promoted' = Promoted /\ \A t \in Sources : Own(t, stage'[t].edits)
    BY <2>1, <2>2, StageBecomes
  <2>4. DocsOK(batch.base, one, two, Promoted) /\ one.queue = live.queue
    BY <1>1, RecordedDocs
  <2> HIDE DEF one, two
  <2>5. DocsOK(batch.base, live', serial', Promoted) /\ live'.queue = live.queue
    BY <1>2, <2>1, <2>4
  <2>6. DocsOK(batch.base, live, serial, Promoted)'
    BY <2>1, <2>3, <2>5
  <2> QED BY <1>1, <2>3, <2>5, <2>6, NoneEnqueued DEF SettledSerial
<1>4. CASE Promotion(s) # {}
  <2> DEFINE x == Settled(s, "promoted")
  <2>1. Promotion(s) = Merged
    BY <1>4 DEF Promotion
  <2>2. PICK doc \in Merged :
           /\ stage' = [stage EXCEPT ![s] = x] /\ live' = Failed(doc)
           /\ serial' = Failed(Replay(stage[s].edits, serial))
           /\ batch' = [batch EXCEPT !.until = Max({@, stage[s].until})]
    BY <1>4, <2>1 DEF SettleOnTime
  <2>3. x.fate = "promoted" /\ x.edits = stage[s].edits
    BY SettledEdits
  <2> HIDE DEF x
  <2>4. /\ Promoted' = Promoted \cup {s} /\ \A t \in Sources : Own(t, stage'[t].edits)
        /\ s \notin Promoted /\ Promoted \in SUBSET Sources
    BY <2>2, <2>3, StageBecomes
  <2>5. batch'.base = batch.base
    BY <2>2 DEF CauseInv, BatchInv, BatchOK
  <2>6. IsSeen(doc.seen)
    <3>1. live'.seen = doc.seen
      <4>1. Recorded(doc, s, "failed").seen = doc.seen
        BY MergedParts
      <4> QED BY <2>2, <4>1
    <3>2. IsSeen(live'.seen)
      BY DEF CauseInv, BatchInv, BatchOK, Moved, Sees, SeenOK, IsSeen, IsRows
    <3> QED BY <3>1, <3>2
  <2> DEFINE new == Replay(stage[s].edits, serial)
  <2>7. DocsOK(batch.base, doc, new, Promoted \cup {s}) /\ Enqueued(s, live.queue, doc.queue)
    <3> HIDE DEF Failed
    <3>1. doc \in MergeDocuments(batch.base, Replay(stage[s].edits, batch.base), live, stage[s], others)
      OBVIOUS
    <3> HIDE DEF others, Merged, staged
    <3> QED BY <1>1, <2>4, <2>6, <3>1, PromotedDocs
  <2> HIDE DEF new, Merged
  <2>8. /\ DocsOK(batch.base, Failed(doc), Failed(new), Promoted \cup {s})
        /\ Failed(doc).queue = doc.queue
    <3> HIDE DEF Failed
    <3> QED BY <1>2, <2>7
  <2> HIDE DEF Failed
  <2>9. live' = Failed(doc) /\ serial' = Failed(new)
    BY <2>2 DEF new
  <2>10. DocsOK(batch.base, live, serial, Promoted)'
    BY <2>4, <2>5, <2>8, <2>9
  <2> QED BY <2>4, <2>7, <2>8, <2>9, <2>10 DEF SettledSerial
<1> QED BY <1>3, <1>4

-----------------------------------------------------------------------------
(* The main thread.                                                        *)

LEMMA DeclaredAt ==
  /\ \A i \in DOMAIN Serial : i \in DOMAIN Declared /\ Declared[i] = Serial[i]
  /\ \A i \in DOMAIN Concurrent : Len(Serial) + i \in DOMAIN Declared /\ Declared[Len(Serial) + i] = Concurrent[i]
  /\ Len(Serial) \in Nat /\ Len(Concurrent) \in Nat /\ Len(Declared) = Len(Serial) + Len(Concurrent)
  /\ \A i \in Runnable : i \in 1..Len(Concurrent)
BY Lists DEF Declared

LEMMA QueueAfter ==
  ASSUME NEW queue, IsRows(queue), NEW n \in DOMAIN Declared, QueueOK(queue, n),
         NEW new, Enqueued(Declared[n], queue, new)
  PROVE  QueueOK(new, n + 1)
<1>1. PICK q : IsRows(q) /\ new = Cat(queue, q) /\ \A p \in DOMAIN q : q[p][1] = Declared[n]
  BY DEF Enqueued
<1> QED BY <1>1, QueueGrows

LEMMA NewSerial ==
  ASSUME StageInv, SerialInv, NEW s \in Sources, stage[s].fate = "open",
         stage' = [stage EXCEPT ![s] = NewStage]
  PROVE  Promoted' = Promoted /\ \A t \in Sources : Own(t, stage'[t].edits)
<1> DEFINE y1 == [NoStage EXCEPT !.thread = "queued"]
           y2 == [y1 EXCEPT !.left = Budget]
           y3 == [y2 EXCEPT !.since = today]
<1>1. NewStage.edits = <<>> /\ NewStage.fate = "open"
  <2>0. NoStage.edits = <<>>
    BY DEF NoStage
  <2>1. StageOK(y1) /\ y1.edits = <<>> /\ y1.fate = "open"
    BY <2>0, NoStageOK DEF StageOK
  <2> HIDE DEF y1
  <2>2. StageOK(y2) /\ y2.edits = <<>> /\ y2.fate = "open"
    BY <2>1 DEF StageOK
  <2> HIDE DEF y2
  <2>3. y3.edits = <<>> /\ y3.fate = "open"
    BY <2>2 DEF StageOK
  <2>4. y3 = NewStage
    BY DEF y1, y2, NewStage
  <2> QED BY <2>3, <2>4
<1> QED BY <1>1, StageBecomes

LEMMA RunSerialSerial ==
  ASSUME StageInv, CauseInv, SerialInv, RunSerial
  PROVE  SerialInv'
<1>0. PICK s, n :
         /\ s \in Sources /\ n \in DOMAIN Serial /\ s = Serial[n] /\ main.at = n /\ main.phase = "serial"
         /\ stage[s].thread = "none"
  <2>1. main.at \in DOMAIN Serial /\ main.phase = "serial" /\ Undispatched(SerialFrom(main.at))
    BY Lists DEF RunSerial, StageInv, MainInv, Undispatched
  <2>2. Serial[main.at] \in SerialFrom(main.at)
    BY <2>1, Lists DEF SerialFrom
  <2> QED BY <2>1, <2>2, Lists DEF Undispatched
<1>1. /\ DocsOK(batch.base, live, serial, Promoted) /\ QueueOK(live.queue, n)
      /\ \A t \in Sources : Own(t, stage[t].edits)
  BY <1>0 DEF SerialInv, Place
<1>2. n \in Int /\ n + 1 \in Int /\ n <= n + 1 /\ n + 1 <= Len(Serial) + 1
  BY <1>0, Lists
<1>3. CASE BreakerOpen(s)
  <2>1. /\ live' = Recorded(live, s, "skipped") /\ serial' = Recorded(serial, s, "skipped")
        /\ UNCHANGED <<batch, stage>> /\ main'.phase = "serial" /\ main'.at = n + 1
    BY <1>0, <1>3 DEF RunSerial, Skip, GoTo
  <2>2. DocsOK(batch.base, live', serial', Promoted) /\ live'.queue = live.queue
    BY <1>1, <2>1, RecordedDocs
  <2>3. QueueOK(live.queue, n + 1)
    BY <1>1, <1>2, QueueHigher
  <2>4. Promoted' = Promoted /\ Place' = n + 1
    BY <2>1 DEF Promoted, Place
  <2>5. DocsOK(batch.base, live, serial, Promoted)' /\ QueueOK(live.queue, Place)'
    BY <2>1, <2>2, <2>3, <2>4
  <2> QED BY <1>1, <1>2, <2>1, <2>5 DEF SerialInv
<1>4. CASE ~BreakerOpen(s)
  <2>1. /\ stage' = [stage EXCEPT ![s] = NewStage] /\ UNCHANGED <<live, serial>>
        /\ batch'.base = live /\ main'.phase = "waiting" /\ main'.at = n
    BY <1>0, <1>4 DEF RunSerial, OpenBatch, GoTo
  <2>2. stage[s].fate = "open"
    BY <1>0 DEF CauseInv, FlagsInv, FlagsOK
  <2>3. Promoted' = Promoted /\ \A t \in Sources : Own(t, stage'[t].edits)
    BY <1>0, <2>1, <2>2, NewSerial
  <2>4. DocsOK(live, live, serial, Promoted)
    BY <1>1, RebasedDocs
  <2>5. DocsOK(batch.base, live, serial, Promoted)' /\ Place' = n
    BY <2>1, <2>3, <2>4 DEF Place
  <2> QED BY <1>1, <2>1, <2>3, <2>5 DEF SerialInv
<1> QED BY <1>3, <1>4

LEMMA SettleSerialSerial ==
  ASSUME StageInv, CauseInv, SerialInv, SettleSerial, CauseInv'
  PROVE  SerialInv'
<1>0. PICK s, n :
         /\ s \in Sources /\ n \in DOMAIN Serial /\ s = Serial[n] /\ main.at = n /\ main.phase = "waiting"
         /\ stage[s].fate = "open" /\ main'.phase = "serial" /\ main'.at = n + 1
  BY Lists DEF SettleSerial, GoTo, StageInv, MainInv, CauseInv, OpenInv, Awaited
<1>1. PICK v \in Verdicts(s) : Settle(s, v)
  BY <1>0 DEF SettleSerial
<1>2. SettledSerial(s)
  BY <1>0, <1>1, TimeoutSerial, OnTimeSerial DEF Settle
<1>3. n \in DOMAIN Declared /\ Declared[n] = s /\ n + 1 <= Len(Serial) + 1
  BY <1>0, DeclaredAt, Lists
<1>4. QueueOK(live.queue, n) /\ IsRows(live.queue)
  BY <1>0 DEF SerialInv, Place, DocsOK, IsTyped
<1>5. QueueOK(live'.queue, n + 1)
  BY <1>2, <1>3, <1>4, QueueAfter DEF SettledSerial
<1>6. QueueOK(live.queue, Place)'
  <2>1. Place' = n + 1
    BY <1>0 DEF Place
  <2> QED BY <1>5, <2>1
<1> QED BY <1>0, <1>2, <1>3, <1>6 DEF SerialInv, SettledSerial

LEMMA GateSerial ==
  ASSUME SerialInv, StageInv, Gate
  PROVE  SerialInv'
<1>0. /\ live' = WithSkips(live) /\ serial' = WithSkips(serial) /\ UNCHANGED stage
      /\ batch'.base = live' /\ main'.phase \in {"closing", "dispatch"}
      /\ main.at = Len(Serial) + 1 /\ main.phase = "serial"
  <2>1. main.phase = "serial" /\ main.at \in Nat /\ main.at > Len(Serial) /\ main.at <= Len(Serial) + 1
    BY DEF Gate, SerialInv, StageInv, MainInv
  <2>2. main.at = Len(Serial) + 1
    BY <2>1, Lists
  <2> QED BY <2>1, <2>2 DEF Gate, GoTo
<1>1. /\ DocsOK(batch.base, live, serial, Promoted) /\ QueueOK(live.queue, Len(Serial) + 1)
      /\ \A t \in Sources : Own(t, stage[t].edits)
  BY <1>0 DEF SerialInv, Place
<1>2. DocsOK(batch.base, live', serial', Promoted) /\ live'.queue = live.queue
  BY <1>0, <1>1, SkippedDocs
<1>3. DocsOK(live', live', serial', Promoted) /\ Promoted' = Promoted
  BY <1>0, <1>2, RebasedDocs DEF Promoted
<1>4. Place' \in Int /\ Len(Serial) + 1 \in Int /\ Len(Serial) + 1 <= Place'
  BY <1>0, DeclaredAt DEF Place
<1>5. QueueOK(live.queue, Place')
  BY <1>1, <1>4, QueueHigher
<1>6. DocsOK(batch.base, live, serial, Promoted)' /\ QueueOK(live.queue, Place)'
  BY <1>0, <1>2, <1>3, <1>5
<1> QED BY <1>0, <1>1, <1>6 DEF SerialInv

LEMMA DispatchSerial ==
  ASSUME StageInv, CauseInv, SerialInv, Dispatch
  PROVE  SerialInv'
<1>0. PICK s \in Sources :
         /\ stage[s].thread = "none" /\ stage' = [stage EXCEPT ![s] = NewStage]
         /\ UNCHANGED <<live, batch, serial>> /\ main.phase = "dispatch"
         /\ main'.phase \in {"dispatch", "await"}
  <2>1. main.at \in Runnable /\ Undispatched(RunnableFrom(main.at)) /\ main.phase = "dispatch"
        /\ Following("dispatch", "await") /\ UNCHANGED timeouts
    BY DEF Dispatch, StageInv, MainInv
  <2>2. Concurrent[main.at] \in RunnableFrom(main.at) /\ Concurrent[main.at] \in Sources
    BY <2>1, Loops, Lists DEF RunnableFrom
  <2>3. main'.phase \in {"dispatch", "await"}
    BY <2>1, NextTurn
  <2> QED BY <2>1, <2>2, <2>3 DEF Dispatch, Undispatched
<1>1. stage[s].fate = "open"
  BY <1>0 DEF CauseInv, FlagsInv, FlagsOK
<1>2. Promoted' = Promoted /\ \A t \in Sources : Own(t, stage'[t].edits)
  BY <1>0, <1>1, NewSerial
<1>3. Place = Len(Serial) + 1 /\ Place' = Len(Serial) + 1
  BY <1>0 DEF Place
<1>4. DocsOK(batch.base, live, serial, Promoted)' /\ QueueOK(live.queue, Place)'
  BY <1>0, <1>2, <1>3 DEF SerialInv
<1> QED BY <1>0, <1>2, <1>4 DEF SerialInv

LEMMA AwaitSerial ==
  ASSUME StageInv, CauseInv, SerialInv, Await
  PROVE  SerialInv'
<1>0. PICK s, n, v :
         /\ s \in Sources /\ n \in Runnable /\ stage[s].fate = "open"
         /\ main.phase = "await" /\ main.at = n /\ UNCHANGED timeouts
         /\ IF v = "timeout" THEN SettleTimeout(s) ELSE UNCHANGED <<live, batch, stage, serial>>
         /\ Following("await", "settle")
  <2>1. main.at \in Runnable /\ Concurrent[main.at] \in Sources /\ main.at \in Nat /\ main.phase = "await"
    BY Loops, Lists DEF Await, StageInv, MainInv
  <2>2. stage[Concurrent[main.at]].fate = "open"
    BY <2>1 DEF CauseInv, OpenInv, Awaited
  <2> QED BY <2>1, <2>2 DEF Await
<1>1. /\ DocsOK(batch.base, live, serial, Promoted) /\ QueueOK(live.queue, Len(Serial) + 1)
      /\ \A t \in Sources : Own(t, stage[t].edits)
  BY <1>0 DEF SerialInv, Place
<1>2. /\ DocsOK(batch.base, live, serial, Promoted)' /\ live'.queue = live.queue
      /\ \A t \in Sources : Own(t, stage'[t].edits)
  <2>1. CASE v = "timeout"
    BY <1>0, <2>1, TimeoutSerial DEF SettledSerial
  <2>2. CASE v # "timeout"
    <3>1. UNCHANGED <<live, batch, stage, serial>>
      BY <1>0, <2>2
    <3>2. Promoted' = Promoted
      BY <3>1 DEF Promoted
    <3> QED BY <1>1, <3>1, <3>2
  <2> QED BY <2>1, <2>2
<1>3. /\ main'.at \in Runnable /\ main'.phase \in {"await", "settle"}
  BY <1>0, NextTurn
<1>4. Place' \in Int /\ Len(Serial) + 1 \in Int /\ Len(Serial) + 1 <= Place'
  <2>1. main'.at \in Nat /\ main'.at >= 1 /\ Len(Serial) \in Nat
    BY <1>3, DeclaredAt
  <2> QED BY <1>3, <2>1 DEF Place
<1>5. QueueOK(live.queue, Place')
  BY <1>1, <1>4, QueueHigher
<1>6. QueueOK(live.queue, Place)'
  BY <1>2, <1>5
<1> QED BY <1>2, <1>3, <1>6 DEF SerialInv

LEMMA SettleNextSerial ==
  ASSUME StageInv, CauseInv, SerialInv, SettleNext, CauseInv'
  PROVE  SerialInv'
<1>0. PICK s, n :
         /\ s \in Sources /\ n \in Runnable /\ s = Concurrent[n]
         /\ main.phase = "settle" /\ main.at = n /\ UNCHANGED timeouts
         /\ IF verdict[s] = "timeout" THEN UNCHANGED <<live, batch, stage, serial>>
            ELSE Settle(s, verdict[s])
         /\ Following("settle", "closing")
  <2>1. main.at \in Runnable /\ Concurrent[main.at] \in Sources
    BY Loops, Lists DEF SettleNext, StageInv, MainInv
  <2> QED BY <2>1 DEF SettleNext, Settling
<1>1. PICK m : m = Len(Serial) + n
  OBVIOUS
<1>2. /\ m \in DOMAIN Declared /\ Declared[m] = s /\ n \in Nat /\ m \in Int /\ m + 1 \in Int /\ m <= m + 1
      /\ m <= Len(Declared)
  BY <1>0, <1>1, DeclaredAt, Lists
<1>3. /\ DocsOK(batch.base, live, serial, Promoted) /\ QueueOK(live.queue, m)
      /\ (\A t \in Sources : Own(t, stage[t].edits)) /\ IsRows(live.queue)
  BY <1>0, <1>1 DEF SerialInv, Place, DocsOK, IsTyped
<1>4. /\ DocsOK(batch.base, live, serial, Promoted)' /\ QueueOK(live'.queue, m + 1)
      /\ \A t \in Sources : Own(t, stage'[t].edits)
  <2>1. CASE verdict[s] = "timeout"
    <3>1. UNCHANGED <<live, batch, stage, serial>>
      BY <1>0, <2>1
    <3>2. Promoted' = Promoted
      BY <3>1 DEF Promoted
    <3>3. QueueOK(live.queue, m + 1)
      BY <1>2, <1>3, QueueHigher
    <3> QED BY <1>3, <3>1, <3>2, <3>3
  <2>2. CASE verdict[s] # "timeout"
    <3>1. stage[s].fate = "open"
      <4>1. n >= n
        BY <1>2
      <4> QED BY <1>0, <2>2, <4>1 DEF CauseInv, OpenInv, Awaited
    <3>2. SettledSerial(s)
      BY <1>0, <2>2, <3>1, OnTimeSerial DEF Settle
    <3>3. QueueOK(live'.queue, m + 1)
      BY <1>2, <1>3, <3>2, QueueAfter DEF SettledSerial
    <3> QED BY <3>2, <3>3 DEF SettledSerial
  <2> QED BY <2>1, <2>2
<1>5. /\ main'.at \in Runnable /\ n \in Nat
      /\ (main'.phase = "settle" /\ main'.at > n) \/ main'.phase = "closing"
  BY <1>0, <1>2, NextTurn
<1>6. Place' \in Int /\ m + 1 <= Place'
  <2>1. main'.at \in Nat /\ Len(Serial) \in Nat /\ Len(Declared) \in Nat
    BY <1>5, DeclaredAt
  <2>2. CASE main'.phase = "settle" /\ main'.at > n
    <3>1. Place' = Len(Serial) + main'.at
      BY <2>2 DEF Place
    <3> QED BY <1>1, <1>2, <2>1, <2>2, <3>1
  <2>3. CASE main'.phase = "closing"
    <3>1. Place' = Len(Declared) + 1
      BY <2>3 DEF Place
    <3> QED BY <1>2, <2>1, <3>1
  <2> QED BY <1>5, <2>2, <2>3
<1>7. QueueOK(live.queue, Place)'
  BY <1>2, <1>4, <1>6, QueueHigher
<1> QED BY <1>4, <1>5, <1>7 DEF SerialInv

LEMMA AttachSerial ==
  ASSUME SerialInv, NEW phase \in {"closing", "synthesis"}, NEW next \in {"synthesis", "done"},
         Attach(phase, next)
  PROVE  SerialInv'
<1>1. UNCHANGED <<live, batch, stage, serial>> /\ main'.phase = next /\ main.phase = phase
  BY DEF Attach, GoTo
<1>2. Promoted' = Promoted /\ Place' = Place
  BY <1>1 DEF Promoted, Place
<1>3. DocsOK(batch.base, live, serial, Promoted)' /\ QueueOK(live.queue, Place)'
  BY <1>1, <1>2 DEF SerialInv
<1> QED BY <1>1, <1>3 DEF SerialInv

LEMMA SerialStep ==
  StageInv /\ LogsInv /\ CauseInv /\ SerialInv /\ [StagingNext]_stagingVars => SerialInv'
<1> SUFFICES ASSUME StageInv, LogsInv, CauseInv, SerialInv, [StagingNext]_stagingVars PROVE SerialInv'
  OBVIOUS
<1>0. CauseInv'
  BY CauseStep
<1>1. CASE WorkerStep
  BY <1>1, WorkerSerial
<1>2. CASE MainStep
  BY <1>0, <1>2, RunSerialSerial, SettleSerialSerial, GateSerial, DispatchSerial, AwaitSerial,
     SettleNextSerial, AttachSerial DEF MainStep
<1>3. CASE Tick
  BY <1>3, TickSerial
<1>4. CASE Midnight \/ UNCHANGED stagingVars
  BY <1>4, NothingSerial DEF Midnight, stagingVars
<1> QED BY <1>1, <1>2, <1>3, <1>4 DEF StagingNext

LEMMA KeysOfLog ==
  ASSUME NEW rows, IsSeen(rows), NEW x
  PROVE  x \in KeysIn(rows) <=> (x \in Young(rows) \/ \E r \in Old(rows) : r.key = x)
<1>1. \A r \in ToSet(rows) : r.day < 1 \/ r.day >= 1
  <2> TAKE r \in ToSet(rows)
  <2>1. r.day \in Int
    BY RowsIn DEF IsSeen
  <2> QED BY <2>1
<1> QED BY <1>1 DEF KeysIn, Young, Old

LEMMA DeclaredOnce ==
  ASSUME NEW i \in DOMAIN Declared
  PROVE  (CHOOSE k \in DOMAIN Declared : Declared[k] = Declared[i]) = i
<1>1. \A k \in DOMAIN Declared : Declared[k] = Declared[i] => k = i
  BY StagingAssumption DEF IsInjective, Declared
<1> QED BY <1>1

(* LiveIsSerial: whatever order the workers end in, the live document is    *)
(* what the promoted ones make one after the other: each merge adds to the  *)
(* live document just the change its edits make of the base.                *)
THEOREM PromotedInOrder == StagingSpec => []LiveIsSerial
<1>1. SerialInv => LiveIsSerial
  <2> SUFFICES ASSUME SerialInv PROVE LiveIsSerial
    OBVIOUS
  <2>0. /\ IsTyped(live) /\ IsTyped(serial) /\ Rising(live.queue)
        /\ live.errors = serial.errors /\ live.reports = serial.reports /\ live.queue = serial.queue
        /\ live.effects = serial.effects /\ live.field = serial.field
        /\ Old(live.seen) = Old(serial.seen) /\ Young(live.seen) = Young(serial.seen)
    BY DEF SerialInv, DocsOK, Alike, QueueOK
  <2>1. \A part \in DOMAIN live \ {"seen"} : live[part] = serial[part]
    <3>1. DOMAIN live = {"errors", "seen", "field", "reports", "queue", "effects"}
      BY <2>0 DEF IsTyped, IsDoc
    <3> QED BY <2>0, <3>1
  <2>2. KeysIn(live.seen) = KeysIn(serial.seen)
    <3>1. IsSeen(live.seen) /\ IsSeen(serial.seen)
      BY <2>0 DEF IsTyped
    <3>2. \A x : x \in KeysIn(live.seen) <=> x \in KeysIn(serial.seen)
      BY <2>0, <3>1, KeysOfLog
    <3> QED BY <3>2
  <2>3. IsInjective(Keys(live.seen))
    <3>1. DistinctKeys(live.seen)
      BY <2>0 DEF IsTyped, IsSeen
    <3>2. DOMAIN Keys(live.seen) = DOMAIN live.seen /\ \A i \in DOMAIN live.seen : Keys(live.seen)[i] = live.seen[i].key
      BY DEF Keys
    <3> QED BY <3>1, <3>2 DEF IsInjective, DistinctKeys
  <2>4. InDeclaredOrder(live.queue)
    <3> DEFINE rank(row) == CHOOSE i \in DOMAIN Declared : Declared[i] = row[1]
    <3> SUFFICES ASSUME NEW p \in DOMAIN live.queue, NEW q \in DOMAIN live.queue, p < q
                 PROVE  rank(live.queue[p]) <= rank(live.queue[q])
      BY DEF InDeclaredOrder
    <3>1. PICK i \in DOMAIN Declared, j \in DOMAIN Declared :
             i <= j /\ Declared[i] = live.queue[p][1] /\ Declared[j] = live.queue[q][1]
      BY <2>0 DEF Rising
    <3>2. rank(live.queue[p]) = i
      BY <3>1, DeclaredOnce
    <3>3. rank(live.queue[q]) = j
      BY <3>1, DeclaredOnce
    <3> QED BY <3>1, <3>2, <3>3
  <2> QED BY <2>1, <2>2, <2>3, <2>4 DEF LiveIsSerial
<1> QED BY <1>1, StartOK, StepOK, LogsStart, LogsStep, CauseStart, CauseStep, SerialStart, SerialStep, PTL
        DEF StagingSpec
=============================================================================
