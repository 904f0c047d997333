------------------------ MODULE CandidateChecksProofs ------------------------
(***************************************************************************)
(* Proofs about CandidateChecks for every set of processes, owners and     *)
(* files and every length of leases and days: a check is executed once, on *)
(* charged money and in its order, and the checks are about the choice.    *)
(***************************************************************************)
EXTENDS CandidateChecks, FiniteSetTheorems, TLAPS

RunRecord ==
    [pc : Steps, stage : Stages \cup {None}, view : Views \cup {None}, fence : Nat, expires : Nat,
     answer : Answers \cup {None}]

Grant == [owner : Owners \cup {None}, fence : Nat]

(* The typing the proofs rest on; a process past its choice has a stage. *)
RowsOK ==
    /\ now \in Nat
    /\ lease \in [owner : Owners \cup {None}, fence : Nat, expires : Nat]
    /\ grant \in [Stages -> Grant] /\ calls \in [Stages -> Nat]
    /\ observed \in [Stages -> Answers \cup {None}]
    /\ verdict \in [Stages -> Dispositions \cup {None}]
    /\ run \in [Executors -> RunRecord]
    /\ \A e \in Executors : run[e].pc \notin {"idle", "leased"} => run[e].stage \in Stages

(* Before its answer, the process that was granted a stage. *)
Holds(e, s) == run[e].pc \in {"granted", "calling"} /\ run[e].stage = s

(* What was granted was allowed for good, and is executed by its grantee.  *)
ExecInv ==
    /\ \A s \in Stages : grant[s] # NoGrant =>
          /\ s \in Paid => s \in charged
          /\ \A t \in Before(s) : verdict[t] = "passed"
    /\ \A s \in Stages : calls[s] > 0 => calls[s] = 1 /\ grant[s] # NoGrant
    /\ \A e \in Executors, s \in Stages : Holds(e, s) => grant[s] # NoGrant /\ calls[s] = 0
    /\ \A e, f \in Executors, s \in Stages : Holds(e, s) /\ Holds(f, s) => e = f

ChecksInv == RowsOK /\ ExecInv

-----------------------------------------------------------------------------
LEMMA ChecksInitInv == ChecksInit => ChecksInv
<1> SUFFICES ASSUME ChecksInit PROVE ChecksInv
  OBVIOUS
<1>1. RowsOK
  BY ChecksAssumption DEF ChecksInit, RowsOK, RunRecord, Resting, Steps, Grant, NoGrant
<1>2. ExecInv
  BY DEF ChecksInit, ExecInv, Resting, Holds
<1> QED BY <1>1, <1>2 DEF ChecksInv

LEMMA AcquiredType ==
  ASSUME RowsOK, NEW owner \in Owners
  PROVE  Acquired(owner) \in [owner : Owners \cup {None}, fence : Nat, expires : Nat]
  BY ChecksAssumption DEF RowsOK, Acquired

(* A stage that begins had no grant, and all before it have passed. *)
LEMMA BegunInOrder ==
  ASSUME RowsOK, NEW s \in Stages, NEW owner, NEW fence, NEW view, MayBegin(s, owner, fence, view)
  PROVE  grant[s] = NoGrant /\ \A t \in Before(s) : verdict[t] = "passed"
  BY DEF MayBegin, StageStatus

LEMMA DispositionType ==
  ASSUME NEW s \in Stages, observed[s] \in Answers, NEW view
  PROVE  Disposition(s, view) \in Dispositions
  BY DEF Disposition, Dispositions, Answers

-----------------------------------------------------------------------------
(* The actions of which nothing that the invariant speaks of is changed. *)
LEMMA EvidenceStep ==
  ASSUME ChecksInv,
         \/ Tick \/ AckConflict
         \/ \E o \in Owners : Acquire(o)
         \/ \E f \in Files : Record(f)
         \/ \E f \in Files, h \in Held : Review(f, h.owner, h.fence)
         \/ \E f \in Files, h \in Held, v \in Views : Intake(f, h.owner, h.fence, v)
  PROVE  ChecksInv'
<1>1. RowsOK
  BY DEF ChecksInv
<1>2. UNCHANGED <<grant, charged, observed, verdict, run, calls>>
  BY DEF Tick, AckConflict, Acquire, Record, Review, Intake, journalVars
<1>3. now' \in Nat
  BY <1>1 DEF Tick, AckConflict, Acquire, Record, Review, Intake, RowsOK
<1>4. lease' \in [owner : Owners \cup {None}, fence : Nat, expires : Nat]
  BY <1>1, AcquiredType DEF Tick, AckConflict, Acquire, Record, Review, Intake, journalVars, RowsOK
<1>5. RowsOK'
  BY <1>1, <1>2, <1>3, <1>4 DEF RowsOK
<1>6. ExecInv'
  BY <1>2 DEF ChecksInv, ExecInv, Holds
<1> QED BY <1>5, <1>6 DEF ChecksInv

(* A process that holds no stage afterwards, while grants, calls and passed *)
(* verdicts stay, disturbs nothing.                                        *)
LEMMA ReleasedStep ==
  ASSUME RowsOK, RowsOK', ExecInv, NEW e \in Executors,
         UNCHANGED <<grant, charged, calls>>,
         \A s \in Stages : verdict[s] = "passed" => verdict'[s] = "passed",
         \A f \in Executors : f # e => run'[f] = run[f],
         \A s \in Stages : Holds(e, s)' => Holds(e, s)
  PROVE  ExecInv'
<1>1. \A f \in Executors, s \in Stages : Holds(f, s)' => Holds(f, s)
  BY DEF Holds
<1>2. \A s \in Stages : Before(s) \subseteq Stages
  BY DEF Before
<1>3. \A s \in Stages : grant'[s] # NoGrant => \A t \in Before(s) : verdict'[t] = "passed"
  BY <1>2 DEF ExecInv
<1>4. \A s \in Stages : grant'[s] # NoGrant => (s \in Paid => s \in charged')
  BY DEF ExecInv
<1>5. \A f \in Executors, s \in Stages : Holds(f, s)' => grant'[s] # NoGrant /\ calls'[s] = 0
  BY <1>1 DEF ExecInv
<1>6. \A s \in Stages : calls'[s] > 0 => calls'[s] = 1 /\ grant'[s] # NoGrant
  BY DEF ExecInv
<1>7. \A f, g \in Executors, s \in Stages : Holds(f, s)' /\ Holds(g, s)' => f = g
  BY <1>1 DEF ExecInv
<1> QED BY <1>3, <1>4, <1>5, <1>6, <1>7 DEF ExecInv, Holds

(* Begin grants a stage that nobody was granted, nobody holds and nobody    *)
(* executed.                                                               *)
LEMMA BeginStep == ASSUME ChecksInv, NEW e \in Executors, Begin(e) PROVE ChecksInv'
<1> DEFINE s == run[e].stage
<1>1. RowsOK /\ ExecInv
  BY DEF ChecksInv
<1>2. run[e].pc = "ready" /\ s \in Stages
  BY <1>1 DEF Begin, RowsOK
<1>3. grant[s] = NoGrant /\ \A t \in Before(s) : verdict[t] = "passed"
  BY <1>1, <1>2, BegunInOrder DEF Begin
<1>4. OwnerOf[e] \in Owners /\ run[e].fence \in Nat
  BY <1>1, ChecksAssumption DEF RowsOK, RunRecord
<1>5. grant' = [grant EXCEPT ![s] = [owner |-> OwnerOf[e], fence |-> run[e].fence]]
  BY DEF Begin, Begun
<1>6. charged' = charged \cup ({s} \cap Paid)
  BY DEF Begin, Begun
<1>7. UNCHANGED <<now, lease, observed, verdict, calls>>
  BY DEF Begin
<1>8. \/ run' = [run EXCEPT ![e] = [run[e] EXCEPT !.pc = "granted"]]
      \/ run' = [run EXCEPT ![e] = Resting]
  BY DEF Begin, Step, Stop, Proceed
<1>9. RowsOK'
  <2>1. grant' \in [Stages -> Grant]
    BY <1>1, <1>2, <1>4, <1>5 DEF RowsOK, Grant
  <2>2. run' \in [Executors -> RunRecord]
    BY <1>1, <1>8 DEF RowsOK, RunRecord, Resting, Steps
  <2>3. \A f \in Executors : run'[f].pc \notin {"idle", "leased"} => run'[f].stage \in Stages
    BY <1>1, <1>2, <1>8 DEF RowsOK, RunRecord, Resting
  <2> QED BY <1>1, <1>7, <2>1, <2>2, <2>3 DEF RowsOK
<1>10. grant'[s] # NoGrant /\ \A t \in Stages : t # s => grant'[t] = grant[t]
  BY <1>1, <1>2, <1>4, <1>5, ChecksAssumption DEF RowsOK, NoGrant
<1>11. \A f \in Executors, t \in Stages : Holds(f, t)' => Holds(f, t) \/ (f = e /\ t = s)
  BY <1>1, <1>2, <1>8 DEF RowsOK, Holds, Resting, RunRecord
<1>12. \A f \in Executors : ~Holds(f, s)
  BY <1>1, <1>2, <1>3 DEF ExecInv
<1>13. calls[s] = 0
  BY <1>1, <1>2, <1>3 DEF ExecInv, RowsOK
<1>14. ExecInv'
  <2>1. \A t \in Stages : grant'[t] # NoGrant => (t \in Paid => t \in charged')
    BY <1>1, <1>6, <1>10 DEF ExecInv
  <2>2. \A t \in Stages : grant'[t] # NoGrant => \A u \in Before(t) : verdict'[u] = "passed"
    BY <1>1, <1>3, <1>7, <1>10 DEF ExecInv
  <2>3. \A t \in Stages : calls'[t] > 0 => calls'[t] = 1 /\ grant'[t] # NoGrant
    BY <1>1, <1>7, <1>10 DEF ExecInv
  <2>4. \A f \in Executors, t \in Stages : Holds(f, t)' => grant'[t] # NoGrant /\ calls'[t] = 0
    BY <1>1, <1>7, <1>10, <1>11, <1>13 DEF ExecInv
  <2>5. \A f, g \in Executors, t \in Stages : Holds(f, t)' /\ Holds(g, t)' => f = g
    BY <1>1, <1>11, <1>12 DEF ExecInv
  <2> QED BY <2>1, <2>2, <2>3, <2>4, <2>5 DEF ExecInv, Holds
<1> QED BY <1>9, <1>14 DEF ChecksInv

(* The one process that holds a stage executes it. *)
LEMMA CallStep ==
  ASSUME ChecksInv, NEW e \in Executors, NEW answer \in Answers, Call(e, answer) PROVE ChecksInv'
<1> DEFINE s == run[e].stage
<1>1. RowsOK /\ ExecInv
  BY DEF ChecksInv
<1>2. run[e].pc = "calling" /\ s \in Stages
  BY <1>1 DEF Call, RowsOK
<1>3. Holds(e, s) /\ grant[s] # NoGrant /\ calls[s] = 0
  BY <1>1, <1>2 DEF ExecInv, Holds
<1>4. run' = [run EXCEPT ![e] = [run[e] EXCEPT !.pc = "answered", !.answer = answer]]
  BY DEF Call, Proceed
<1>5. calls' = [calls EXCEPT ![s] = @ + 1]
  BY DEF Call
<1>6. UNCHANGED <<now, lease, grant, charged, observed, verdict>>
  BY DEF Call, journalVars
<1>7. RowsOK'
  <2>1. run' \in [Executors -> RunRecord]
    <3>1. run[e] \in RunRecord
      BY <1>1 DEF RowsOK
    <3>2. [run[e] EXCEPT !.pc = "answered", !.answer = answer] \in RunRecord
      BY <3>1 DEF RunRecord, Steps
    <3> QED BY <1>1, <1>4, <3>2 DEF RowsOK
  <2>2. calls' \in [Stages -> Nat]
    BY <1>1, <1>2, <1>5 DEF RowsOK
  <2>3. \A f \in Executors : run'[f].pc \notin {"idle", "leased"} => run'[f].stage \in Stages
    BY <1>1, <1>2, <1>4 DEF RowsOK, RunRecord
  <2> QED BY <1>1, <1>6, <2>1, <2>2, <2>3 DEF RowsOK
<1>8. calls'[s] = 1 /\ \A t \in Stages : t # s => calls'[t] = calls[t]
  BY <1>1, <1>2, <1>3, <1>5 DEF RowsOK
<1>9. \A f \in Executors, t \in Stages : Holds(f, t)' => Holds(f, t) /\ t # s
  <2>1. \A f \in Executors, t \in Stages : Holds(f, t)' => Holds(f, t) /\ f # e
    BY <1>1, <1>4 DEF RowsOK, Holds, RunRecord
  <2> QED BY <1>1, <1>3, <2>1 DEF ExecInv
<1>10. ExecInv'
  <2>1. \A t \in Stages : grant'[t] # NoGrant =>
           (t \in Paid => t \in charged') /\ \A u \in Before(t) : verdict'[u] = "passed"
    BY <1>1, <1>6 DEF ExecInv
  <2>2. \A t \in Stages : calls'[t] > 0 => calls'[t] = 1 /\ grant'[t] # NoGrant
    BY <1>1, <1>3, <1>6, <1>8 DEF ExecInv
  <2>3. \A f \in Executors, t \in Stages : Holds(f, t)' => grant'[t] # NoGrant /\ calls'[t] = 0
    BY <1>1, <1>6, <1>8, <1>9 DEF ExecInv
  <2>4. \A f, g \in Executors, t \in Stages : Holds(f, t)' /\ Holds(g, t)' => f = g
    BY <1>1, <1>9 DEF ExecInv
  <2> QED BY <2>1, <2>2, <2>3, <2>4 DEF ExecInv, Holds
<1> QED BY <1>7, <1>10 DEF ChecksInv

(* The other steps of a process hold nothing new. *)
LEMMA ExecutorStep ==
  ASSUME ChecksInv, NEW e \in Executors,
         \/ \E v \in Views : Lease(e, v)
         \/ \E s \in Stages : TakeUp(e, s)
         \/ Recheck(e) \/ Observe(e) \/ Finish(e) \/ Die(e)
  PROVE  ChecksInv'
<1>1. RowsOK /\ ExecInv
  BY DEF ChecksInv
<1>2. ASSUME NEW v \in Views, Lease(e, v) PROVE ChecksInv'
  <2>1. lease' \in [owner : Owners \cup {None}, fence : Nat, expires : Nat]
    BY <1>1, <1>2, AcquiredType, ChecksAssumption DEF Lease
  <2>2. run' = [run EXCEPT ![e] = [Resting EXCEPT !.pc = "leased", !.view = v,
                                    !.fence = lease'.fence, !.expires = lease'.expires]]
    BY <1>2 DEF Lease, Proceed
  <2>3. UNCHANGED <<now, grant, charged, observed, verdict, calls>>
    BY <1>2 DEF Lease
  <2>4. RowsOK'
    BY <1>1, <2>1, <2>2, <2>3 DEF RowsOK, RunRecord, Resting, Steps
  <2>5. \A s \in Stages : Holds(e, s)' => Holds(e, s)
    BY <1>1, <2>2 DEF Holds, RowsOK, Resting
  <2>6. \A f \in Executors : f # e => run'[f] = run[f]
    BY <1>1, <2>2 DEF RowsOK
  <2>7. ExecInv'
    BY <1>1, <2>3, <2>4, <2>5, <2>6, ReleasedStep
  <2> QED BY <2>4, <2>7 DEF ChecksInv
<1>3. ASSUME NEW s \in Stages, TakeUp(e, s) PROVE ChecksInv'
  <2>1. \/ run' = [run EXCEPT ![e] = [run[e] EXCEPT !.stage = s, !.pc = "ready"]]
        \/ run' = [run EXCEPT ![e] = [run[e] EXCEPT !.stage = s, !.pc = "finishing"]]
    BY <1>3 DEF TakeUp, Proceed
  <2>2. UNCHANGED <<now, lease, grant, charged, observed, verdict, calls>>
    BY <1>3 DEF TakeUp, journalVars
  <2>3. RowsOK'
    <3>1. run[e] \in RunRecord
      BY <1>1 DEF RowsOK
    <3>2. \A pc \in Steps : [run[e] EXCEPT !.stage = s, !.pc = pc] \in RunRecord
      BY <3>1 DEF RunRecord
    <3>3. run' \in [Executors -> RunRecord]
      BY <1>1, <2>1, <3>2 DEF RowsOK, Steps
    <3>4. run'[e].stage = s /\ \A f \in Executors : f # e => run'[f] = run[f]
      BY <1>1, <2>1, <3>1 DEF RowsOK, RunRecord
    <3>5. \A f \in Executors : run'[f].pc \notin {"idle", "leased"} => run'[f].stage \in Stages
      BY <1>1, <3>4 DEF RowsOK
    <3> QED BY <1>1, <2>2, <3>3, <3>5 DEF RowsOK
  <2>4. \A t \in Stages : Holds(e, t)' => Holds(e, t)
    BY <1>1, <2>1 DEF Holds, RowsOK, RunRecord
  <2>5. \A f \in Executors : f # e => run'[f] = run[f]
    BY <1>1, <2>1 DEF RowsOK
  <2>6. ExecInv'
    BY <1>1, <2>2, <2>3, <2>4, <2>5, ReleasedStep
  <2> QED BY <2>3, <2>6 DEF ChecksInv
<1>4. ASSUME Recheck(e) PROVE ChecksInv'
  <2>1. run[e].pc = "granted" /\ run' = [run EXCEPT ![e] = [run[e] EXCEPT !.pc = "calling"]]
    BY <1>4 DEF Recheck, Step, Proceed
  <2>2. UNCHANGED <<now, lease, grant, charged, observed, verdict, calls>>
    BY <1>4 DEF Recheck, journalVars
  <2>3. RowsOK'
    BY <1>1, <2>1, <2>2 DEF RowsOK, RunRecord, Steps
  <2>4. \A t \in Stages : Holds(e, t)' => Holds(e, t)
    BY <1>1, <2>1 DEF Holds, RowsOK, RunRecord
  <2>5. \A f \in Executors : f # e => run'[f] = run[f]
    BY <1>1, <2>1 DEF RowsOK
  <2>6. ExecInv'
    BY <1>1, <2>2, <2>3, <2>4, <2>5, ReleasedStep
  <2> QED BY <2>3, <2>6 DEF ChecksInv
<1>5. ASSUME Observe(e) PROVE ChecksInv'
  <2>1. run' = [run EXCEPT ![e] = [run[e] EXCEPT !.pc = "finishing", !.answer = None]]
    BY <1>5 DEF Observe, Proceed
  <2>2. run[e].stage \in Stages /\ run[e].answer \in Answers \cup {None}
    BY <1>1, <1>5 DEF Observe, RowsOK, RunRecord
  <2>3. UNCHANGED <<now, lease, grant, charged, verdict, calls>>
    BY <1>5 DEF Observe
  <2>4. observed' \in [Stages -> Answers \cup {None}]
    BY <1>1, <1>5, <2>2 DEF Observe, RowsOK
  <2>5. RowsOK'
    <3>1. run[e] \in RunRecord
      BY <1>1 DEF RowsOK
    <3>2. [run[e] EXCEPT !.pc = "finishing", !.answer = None] \in RunRecord
      BY <3>1 DEF RunRecord, Steps
    <3>3. run' \in [Executors -> RunRecord]
      BY <1>1, <2>1, <3>2 DEF RowsOK
    <3>4. \A f \in Executors : run'[f].pc \notin {"idle", "leased"} => run'[f].stage \in Stages
      BY <1>1, <2>1, <2>2 DEF RowsOK, RunRecord
    <3> QED BY <1>1, <2>3, <2>4, <3>3, <3>4 DEF RowsOK
  <2>6. \A t \in Stages : Holds(e, t)' => Holds(e, t)
    BY <1>1, <2>1 DEF Holds, RowsOK, RunRecord
  <2>7. \A f \in Executors : f # e => run'[f] = run[f]
    BY <1>1, <2>1 DEF RowsOK
  <2>8. ExecInv'
    BY <1>1, <2>3, <2>5, <2>6, <2>7, ReleasedStep
  <2> QED BY <2>5, <2>8 DEF ChecksInv
<1>6. ASSUME Finish(e) PROVE ChecksInv'
  <2> DEFINE s == run[e].stage
  <2>1. run' = [run EXCEPT ![e] = Resting] /\ s \in Stages /\ observed[s] \in Answers
    BY <1>1, <1>6 DEF Finish, Stop, Proceed, RowsOK
  <2>2. UNCHANGED <<now, lease, grant, charged, observed, calls>>
    BY <1>6 DEF Finish
  <2>3. verdict' = [verdict EXCEPT ![s] = IF @ = None THEN Disposition(s, run[e].view) ELSE @]
    BY <1>6 DEF Finish, Complete
  <2>4. verdict' \in [Stages -> Dispositions \cup {None}]
    BY <1>1, <2>1, <2>3, DispositionType DEF RowsOK
  <2>5. \A t \in Stages : verdict[t] = "passed" => verdict'[t] = "passed"
    BY <1>1, <2>3 DEF RowsOK, None
  <2>6. RowsOK'
    BY <1>1, <2>1, <2>2, <2>4 DEF RowsOK, RunRecord, Resting, Steps
  <2>7. \A t \in Stages : Holds(e, t)' => Holds(e, t)
    BY <1>1, <2>1 DEF Holds, RowsOK, Resting
  <2>8. \A f \in Executors : f # e => run'[f] = run[f]
    BY <1>1, <2>1 DEF RowsOK
  <2>9. ExecInv'
    BY <1>1, <2>2, <2>5, <2>6, <2>7, <2>8, ReleasedStep
  <2> QED BY <2>6, <2>9 DEF ChecksInv
<1>7. ASSUME Die(e) PROVE ChecksInv'
  <2>1. run' = [run EXCEPT ![e] = Resting]
    BY <1>7 DEF Die, Stop, Proceed
  <2>2. UNCHANGED <<now, lease, grant, charged, observed, verdict, calls>>
    BY <1>7 DEF Die, journalVars
  <2>3. RowsOK'
    BY <1>1, <2>1, <2>2 DEF RowsOK, RunRecord, Resting, Steps
  <2>4. \A t \in Stages : Holds(e, t)' => Holds(e, t)
    BY <1>1, <2>1 DEF Holds, RowsOK, Resting
  <2>5. \A f \in Executors : f # e => run'[f] = run[f]
    BY <1>1, <2>1 DEF RowsOK
  <2>6. ExecInv'
    BY <1>1, <2>2, <2>3, <2>4, <2>5, ReleasedStep
  <2> QED BY <2>3, <2>6 DEF ChecksInv
<1> QED BY <1>2, <1>3, <1>4, <1>5, <1>6, <1>7

LEMMA ChecksNextInv == ChecksInv /\ [ChecksNext]_checksVars => ChecksInv'
<1> SUFFICES ASSUME ChecksInv, [ChecksNext]_checksVars PROVE ChecksInv'
  OBVIOUS
<1>1. CASE UNCHANGED checksVars
  BY <1>1 DEF checksVars, journalVars, ChecksInv, RowsOK, ExecInv, Holds
<1>2. CASE ChecksNext
  BY <1>2, EvidenceStep, BeginStep, CallStep, ExecutorStep DEF ChecksNext
<1> QED BY <1>1, <1>2

(* A stage is executed at most once, a paid one only on money charged for   *)
(* it, and none before everything ahead of it has passed, for any number of *)
(* processes, owners and files, and any leases.                            *)
THEOREM CheckedOnceInOrder == ChecksSpec => []ExecutedOnceInOrder
<1>1. ChecksInv => ExecutedOnceInOrder
  BY DEF ChecksInv, RowsOK, ExecInv, ExecutedOnceInOrder
<1> QED BY <1>1, ChecksInitInv, ChecksNextInv, PTL DEF ChecksSpec

-----------------------------------------------------------------------------
(* What files say.                                                         *)

(* Files come from the job's downloads, and a choice is a usable one. *)
FilesOK ==
    /\ receipts \subseteq Files
    /\ choice # None => choice \in Files /\ MeaningOf[choice] # None

(* Without a dispute all that is said is the same. *)
LEMMA UndisputedAgree ==
  ASSUME FilesOK, ~Disputed, NEW a \in Said \ {None}, NEW b \in Said \ {None}
  PROVE  a = b
<1> DEFINE All == {MeaningOf[f] : f \in Files}
           Meaning == [f \in Files |-> MeaningOf[f]]
<1>1. IsFiniteSet(All)
  <2>1. Meaning \in Surjection(Files, All)
    BY DEF Surjection
  <2> QED BY <2>1, FS_Surjection, ChecksAssumption
<1>2. Said \ {None} \in SUBSET All
  BY DEF Said, FilesOK
<1>3. IsFiniteSet(Said \ {None}) /\ Cardinality(Said \ {None}) \in Nat
  BY <1>1, <1>2, FS_Subset, FS_CardinalityType
<1>4. SUFFICES ASSUME a # b PROVE FALSE
  OBVIOUS
<1>5. Cardinality({a}) = 1 /\ IsFiniteSet({a})
  BY FS_Singleton
<1>6. Cardinality({a} \cup {b}) = 2
  BY <1>4, <1>5, FS_AddElement
<1>7. Cardinality({a} \cup {b}) <= Cardinality(Said \ {None})
  BY <1>3, FS_Subset
<1> QED BY <1>3, <1>6, <1>7 DEF Disputed

LEMMA ReceiptsAgree ==
  ASSUME FilesOK, ~Disputed, submitted,
         NEW f \in receipts, NEW g \in receipts, MeaningOf[f] # None, MeaningOf[g] # None
  PROVE  MeaningOf[f] = MeaningOf[g]
  BY UndisputedAgree DEF Said

(* A candidate that is taken in is one of the choice, new or old. *)
LEMMA IntakeOfTheChoice ==
  ASSUME FilesOK, NEW f \in receipts, MeaningOf[f] # None, submitted, ~Disputed, Chosen(f) # f
  PROVE  choice # None /\ MeaningOf[f] = MeaningOf[choice]
<1>1. choice # None
  BY DEF Chosen
<1>2. MeaningOf[f] \in Said \ {None} /\ MeaningOf[choice] \in Said \ {None}
  BY <1>1 DEF Said, FilesOK
<1> QED BY <1>1, <1>2, UndisputedAgree

ChoiceInv == FilesOK /\ ChecksAreOfTheChoice

LEMMA ChoiceInitInv == ChecksInit => ChoiceInv
  BY DEF ChecksInit, ChoiceInv, FilesOK, ChecksAreOfTheChoice

LEMMA ChoiceNextInv == ChoiceInv /\ [ChecksNext]_checksVars => ChoiceInv'
<1> SUFFICES ASSUME ChoiceInv, [ChecksNext]_checksVars PROVE ChoiceInv'
  OBVIOUS
<1>0. \A f \in Files : f # None
  BY ChecksAssumption
<1>1. ASSUME NEW f \in Files, Record(f) PROVE ChoiceInv'
  BY <1>1 DEF Record, ChoiceInv, FilesOK, ChecksAreOfTheChoice
<1>2. ASSUME NEW f \in Files, NEW h \in Held, Review(f, h.owner, h.fence) PROVE ChoiceInv'
  BY <1>0, <1>2 DEF Review, Chosen, ChoiceInv, FilesOK, ChecksAreOfTheChoice
<1>3. ASSUME NEW f \in Files, NEW h \in Held, NEW v \in Views, Intake(f, h.owner, h.fence, v)
      PROVE  ChoiceInv'
  <2>1. f \in receipts /\ MeaningOf[f] # None /\ submitted /\ ~Disputed
    BY <1>3 DEF Intake, Eligible
  <2>2. choice' = Chosen(f) /\ receipts' = receipts /\ packet'.meaning = MeaningOf[f]
    BY <1>3 DEF Intake
  <2>3. choice' # None /\ choice' \in Files /\ MeaningOf[choice'] = MeaningOf[f]
    <3>1. CASE Chosen(f) = f
      BY <1>0, <2>2, <3>1
    <3>2. CASE Chosen(f) # f
      <4>1. choice # None /\ MeaningOf[choice] = MeaningOf[f]
        BY <2>1, <3>2, IntakeOfTheChoice DEF ChoiceInv
      <4>2. choice' = choice
        BY <2>2, <4>1 DEF Chosen
      <4> QED BY <4>1, <4>2 DEF ChoiceInv, FilesOK
    <3> QED BY <3>1, <3>2
  <2> QED BY <2>1, <2>2, <2>3 DEF ChoiceInv, FilesOK, ChecksAreOfTheChoice
<1>4. CASE UNCHANGED <<receipts, choice, packet>>
  BY <1>4 DEF ChoiceInv, FilesOK, ChecksAreOfTheChoice
<1>5. CASE Tick \/ AckConflict \/ (\E o \in Owners : Acquire(o))
  BY <1>4, <1>5 DEF Tick, AckConflict, Acquire, journalVars
<1>6. ASSUME NEW e \in Executors,
             \/ \E v \in Views : Lease(e, v)
             \/ \E s \in Stages : TakeUp(e, s)
             \/ Begin(e) \/ Recheck(e)
             \/ \E answer \in Answers : Call(e, answer)
             \/ Observe(e) \/ Finish(e) \/ Die(e)
      PROVE  ChoiceInv'
  BY <1>4, <1>6 DEF Lease, TakeUp, Begin, Recheck, Call, Observe, Finish, Die, journalVars
<1>7. CASE UNCHANGED checksVars
  BY <1>4, <1>7 DEF checksVars, journalVars
<1> QED BY <1>1, <1>2, <1>3, <1>5, <1>6, <1>7 DEF ChecksNext

(* The checks are about what the chosen file says, in whatever order any    *)
(* number of files is retained, reviewed and chosen.                        *)
THEOREM ChecksOfTheChoice == ChecksSpec => []ChecksAreOfTheChoice
<1>1. ChoiceInv => ChecksAreOfTheChoice
  BY DEF ChoiceInv
<1> QED BY <1>1, ChoiceInitInv, ChoiceNextInv, PTL DEF ChecksSpec

-----------------------------------------------------------------------------
(* What a step may do to records. *)

LEMMA StepKeepsRecords == RowsOK /\ [ChecksNext]_checksVars => [RecordKept]_checksVars
<1> SUFFICES ASSUME RowsOK, ChecksNext PROVE RecordKept
  BY DEF checksVars
<1> USE DEF RowsOK
<1>1. CASE UNCHANGED <<choice, packet, grant, observed, verdict>>
  BY <1>1 DEF RecordKept
<1>2. CASE \/ Tick \/ AckConflict
           \/ \E o \in Owners : Acquire(o)
           \/ \E f \in Files : Record(f)
  BY <1>1, <1>2 DEF Tick, AckConflict, Acquire, Record, journalVars
<1>3. ASSUME NEW f \in Files, NEW h \in Held, Review(f, h.owner, h.fence) PROVE RecordKept
  BY <1>3 DEF Review, Chosen, RecordKept
<1>4. ASSUME NEW f \in Files, NEW h \in Held, NEW v \in Views, Intake(f, h.owner, h.fence, v)
      PROVE  RecordKept
  BY <1>4 DEF Intake, Chosen, RecordKept
<1>5. ASSUME NEW e \in Executors, Begin(e) PROVE RecordKept
  BY <1>5 DEF Begin, MayBegin, Begun, RecordKept
<1>6. ASSUME NEW e \in Executors, Observe(e) PROVE RecordKept
  BY <1>6 DEF Observe, RecordKept
<1>7. ASSUME NEW e \in Executors, Finish(e) PROVE RecordKept
  BY <1>7 DEF Finish, Complete, RecordKept
<1>8. ASSUME NEW e \in Executors,
             \/ \E v \in Views : Lease(e, v)
             \/ \E s \in Stages : TakeUp(e, s)
             \/ Recheck(e)
             \/ \E answer \in Answers : Call(e, answer)
             \/ Die(e)
      PROVE  RecordKept
  BY <1>1, <1>8 DEF Lease, TakeUp, Recheck, Call, Die, journalVars
<1> QED BY <1>2, <1>3, <1>4, <1>5, <1>6, <1>7, <1>8 DEF ChecksNext

(* No choice, candidate, grant, answer or verdict is ever replaced.         *)
THEOREM RecordsStay == ChecksSpec => RecordedStays
<1>1. ChecksInv => RowsOK
  BY DEF ChecksInv
<1> QED BY <1>1, ChecksInitInv, ChecksNextInv, StepKeepsRecords, PTL DEF ChecksSpec, RecordedStays

(* What _current accepts is undisputed, of today, and under the lease.      *)
LEMMA CurrentIsSound ==
  ASSUME FilesOK, NEW owner, NEW fence, NEW view, Current(owner, fence, view)
  PROVE  /\ submitted /\ Today = packet.day
         /\ \A f, g \in receipts :
               None \in {MeaningOf[f], MeaningOf[g]} \/ MeaningOf[f] = MeaningOf[g]
         /\ lease.owner = owner /\ lease.fence = fence
<1>1. submitted /\ ~Disputed /\ Today = packet.day /\ lease.owner = owner /\ lease.fence = fence
  BY DEF Current, Eligible, Owns
<1>2. \A f, g \in receipts : None \in {MeaningOf[f], MeaningOf[g]} \/ MeaningOf[f] = MeaningOf[g]
  BY <1>1, ReceiptsAgree
<1> QED BY <1>1, <1>2

LEMMA StepOnSoundEvidence ==
  ASSUME ChecksInv, FilesOK, [ChecksNext]_checksVars
  PROVE  [\A s \in Stages : BeginsOrPasses(s) => OnSoundEvidence(s)]_checksVars
<1> SUFFICES ASSUME ChecksNext, NEW s \in Stages, BeginsOrPasses(s) PROVE OnSoundEvidence(s)
  BY DEF checksVars
<1>1. RowsOK
  BY DEF ChecksInv
<1>2. CASE UNCHANGED <<grant, verdict>>
  BY <1>2 DEF BeginsOrPasses
<1>3. CASE \/ Tick \/ AckConflict
           \/ \E o \in Owners : Acquire(o)
           \/ \E f \in Files : Record(f)
           \/ \E f \in Files, h \in Held : Review(f, h.owner, h.fence)
           \/ \E f \in Files, h \in Held, v \in Views : Intake(f, h.owner, h.fence, v)
  BY <1>2, <1>3 DEF Tick, AckConflict, Acquire, Record, Review, Intake, journalVars
<1>4. ASSUME NEW e \in Executors, Begin(e) PROVE OnSoundEvidence(s)
  <2>1. run[e].stage \in Stages
    BY <1>1, <1>4 DEF Begin, RowsOK
  <2>2. verdict' = verdict /\ grant' = [grant EXCEPT ![run[e].stage] =
                                           [owner |-> OwnerOf[e], fence |-> run[e].fence]]
    BY <1>4 DEF Begin, Begun
  <2>3. s = run[e].stage /\ grant'[s] = [owner |-> OwnerOf[e], fence |-> run[e].fence]
    BY <1>1, <2>1, <2>2 DEF BeginsOrPasses, RowsOK
  <2>4. Current(OwnerOf[e], run[e].fence, run[e].view)
    BY <1>4 DEF Begin, MayBegin
  <2> QED BY <2>3, <2>4, CurrentIsSound DEF OnSoundEvidence
<1>5. ASSUME NEW e \in Executors, Finish(e) PROVE OnSoundEvidence(s)
  <2>1. run[e].stage \in Stages /\ grant' = grant
    BY <1>1, <1>5 DEF Finish, RowsOK
  <2>2. verdict' = [verdict EXCEPT ![run[e].stage] =
                       IF @ = None THEN Disposition(run[e].stage, run[e].view) ELSE @]
    BY <1>5 DEF Finish, Complete
  <2>3. s = run[e].stage /\ Disposition(s, run[e].view) = "passed"
    BY <1>1, <2>1, <2>2 DEF BeginsOrPasses, RowsOK
  <2>4. Current(grant[s].owner, grant[s].fence, run[e].view)
    BY <2>3 DEF Disposition
  <2>5. grant[s] = [owner |-> grant[s].owner, fence |-> grant[s].fence]
    BY <1>1 DEF RowsOK, Grant
  <2> QED BY <2>1, <2>4, <2>5, CurrentIsSound DEF OnSoundEvidence
<1>6. ASSUME NEW e \in Executors,
             \/ \E v \in Views : Lease(e, v)
             \/ \E t \in Stages : TakeUp(e, t)
             \/ Recheck(e)
             \/ \E answer \in Answers : Call(e, answer)
             \/ Observe(e) \/ Die(e)
      PROVE  OnSoundEvidence(s)
  BY <1>2, <1>6 DEF Lease, TakeUp, Recheck, Call, Observe, Die, journalVars
<1> QED BY <1>3, <1>4, <1>5, <1>6 DEF ChecksNext

(* No stage begins or passes on files that disagree, under a conflicting    *)
(* batch, on another day, or under a lease since taken over.                *)
THEOREM NothingOnDispute == ChecksSpec => NothingOnDisputedEvidence
<1>1. ChoiceInv => FilesOK
  BY DEF ChoiceInv
<1> QED
  BY <1>1, ChoiceInitInv, ChoiceNextInv, ChecksInitInv, ChecksNextInv, StepOnSoundEvidence, PTL
  DEF ChecksSpec, NothingOnDisputedEvidence

-----------------------------------------------------------------------------
(* Type correctness: what is recorded refers to what was recorded before.  *)

PacketOK == packet = NoPacket \/ (packet.meaning \in Meanings /\ packet.view \in Fitting /\ packet.day \in Nat)
GrantsOK == \A s \in Stages : grant[s] = NoGrant \/ grant[s] \in Held
ChargesOK == charged = {s \in Paid : grant[s] # NoGrant}
EvidenceOK ==
    /\ now <= MaxTime /\ submitted \in BOOLEAN
    /\ receipts \subseteq Files /\ choice \in receipts \cup {None}

RecordsInv == EvidenceOK /\ PacketOK /\ GrantsOK /\ ChargesOK

LEMMA RecordsAreTyped == RowsOK /\ RecordsInv => ChecksTypeOK
<1> SUFFICES ASSUME RowsOK, RecordsInv PROVE ChecksTypeOK
  OBVIOUS
<1>1. \A s \in Stages : observed[s] \in Answers \cup {None} /\ verdict[s] \in Dispositions \cup {None} /\ calls[s] \in Nat
  BY DEF RowsOK
<1>2. \A e \in Executors : run[e].pc \in Steps /\ run[e].stage \in Stages \cup {None}
  BY DEF RowsOK, RunRecord
<1>3. now \in 0..MaxTime
  BY ChecksAssumption DEF RowsOK, RecordsInv, EvidenceOK
<1>4. lease.owner \in Owners \cup {None} /\ lease.fence \in Nat /\ lease.expires \in Nat
  BY DEF RowsOK
<1> QED
  BY <1>1, <1>2, <1>3, <1>4 DEF RecordsInv, EvidenceOK, PacketOK, GrantsOK, ChargesOK, ChecksTypeOK

LEMMA RecordsInit == ChecksInit => RecordsInv
  BY ChecksAssumption DEF ChecksInit, RecordsInv, EvidenceOK, PacketOK, GrantsOK, ChargesOK, Paid

(* A lease is renewed under the same fence or taken under a greater one.   *)
LEMMA AcquiredGrows ==
  ASSUME RowsOK, NEW owner
  PROVE  Acquired(owner).fence \in Nat /\ lease.fence <= Acquired(owner).fence
  BY DEF RowsOK, Acquired

LEMMA HeldStays ==
  ASSUME GrantsOK, RowsOK, UNCHANGED grant, lease'.fence \in Nat, lease.fence <= lease'.fence
  PROVE  GrantsOK'
<1>1. Held \subseteq Held'
  BY DEF RowsOK, Held
<1> QED BY <1>1 DEF GrantsOK

LEMMA SameLease == ASSUME RowsOK, lease' = lease PROVE lease'.fence \in Nat /\ lease.fence <= lease'.fence
  BY DEF RowsOK

LEMMA TodayType == RowsOK => Today \in Nat
  BY ChecksAssumption DEF RowsOK, Today

LEMMA RecordsNext == RowsOK /\ RecordsInv /\ [ChecksNext]_checksVars => RecordsInv'
<1> SUFFICES ASSUME RowsOK, RecordsInv, [ChecksNext]_checksVars PROVE RecordsInv'
  OBVIOUS
<1>1. EvidenceOK /\ PacketOK /\ GrantsOK /\ ChargesOK
  BY DEF RecordsInv
<1>2. ASSUME lease' = lease, grant' = grant, charged' = charged, packet' = packet
      PROVE  PacketOK' /\ GrantsOK' /\ ChargesOK'
  <2>1. PacketOK' /\ ChargesOK'
    BY <1>1, <1>2 DEF PacketOK, ChargesOK
  <2> QED BY <1>1, <1>2, <2>1, SameLease, HeldStays
<1>3. ASSUME lease' = lease, grant' = grant, charged' = charged, packet' = packet,
             UNCHANGED <<now, submitted, receipts, choice>>
      PROVE  RecordsInv'
  BY <1>1, <1>2, <1>3 DEF EvidenceOK, RecordsInv
<1>4. CASE UNCHANGED checksVars
  BY <1>3, <1>4 DEF checksVars, journalVars
<1>5. CASE Tick
  <2>1. EvidenceOK'
    BY <1>1, <1>5, ChecksAssumption DEF Tick, journalVars, EvidenceOK, RowsOK
  <2> QED BY <1>2, <1>5, <2>1 DEF Tick, journalVars, RecordsInv
<1>6. CASE AckConflict
  <2>1. EvidenceOK'
    BY <1>1, <1>6 DEF AckConflict, journalVars, EvidenceOK
  <2> QED BY <1>2, <1>6, <2>1 DEF AckConflict, journalVars, RecordsInv
<1>7. ASSUME NEW o, lease' = Acquired(o), UNCHANGED <<now, submitted, receipts, choice, packet, grant, charged>>
      PROVE  RecordsInv'
  <2>1. EvidenceOK' /\ PacketOK' /\ ChargesOK'
    BY <1>1, <1>7 DEF EvidenceOK, PacketOK, ChargesOK
  <2>2. GrantsOK'
    BY <1>1, <1>7, AcquiredGrows, HeldStays
  <2> QED BY <2>1, <2>2 DEF RecordsInv
<1>8. ASSUME NEW o \in Owners, Acquire(o) PROVE RecordsInv'
  BY <1>7, <1>8 DEF Acquire
<1>9. ASSUME NEW f \in Files, Record(f) PROVE RecordsInv'
  <2>1. EvidenceOK'
    BY <1>1, <1>9 DEF Record, EvidenceOK
  <2> QED BY <1>2, <1>9, <2>1 DEF Record, RecordsInv
<1>10. ASSUME NEW f \in Files, NEW h \in Held, Review(f, h.owner, h.fence) PROVE RecordsInv'
  <2>1. EvidenceOK'
    BY <1>1, <1>10 DEF Review, Chosen, EvidenceOK
  <2> QED BY <1>2, <1>10, <2>1 DEF Review, RecordsInv
<1>11. ASSUME NEW f \in Files, NEW h \in Held, NEW v \in Views, Intake(f, h.owner, h.fence, v)
       PROVE  RecordsInv'
  <2>1. EvidenceOK'
    BY <1>1, <1>11 DEF Intake, Eligible, Chosen, EvidenceOK
  <2>2. MeaningOf[f] \in Meanings /\ v \in Fitting
    BY <1>11 DEF Intake, Eligible, Meanings
  <2>3. PacketOK'
    BY <1>11, <2>2, TodayType DEF Intake, PacketOK
  <2>4. ChargesOK'
    BY <1>1, <1>11 DEF Intake, ChargesOK
  <2>5. GrantsOK'
    BY <1>1, <1>11, SameLease, HeldStays DEF Intake
  <2> QED BY <2>1, <2>3, <2>4, <2>5 DEF RecordsInv
<1>12. ASSUME NEW e \in Executors, NEW v \in Views, Lease(e, v) PROVE RecordsInv'
  BY <1>7, <1>12 DEF Lease
<1>13. ASSUME NEW e \in Executors, Begin(e) PROVE RecordsInv'
  <2> DEFINE s == run[e].stage
             g == [owner |-> OwnerOf[e], fence |-> run[e].fence]
  <2>1. s \in Stages /\ run[e].fence \in Nat /\ OwnerOf[e] \in Owners
    BY <1>13, ChecksAssumption DEF Begin, RowsOK, RunRecord
  <2>2. run[e].fence > 0 /\ lease.fence = run[e].fence
    BY <1>13 DEF Begin, MayBegin, Current, Eligible, Owns
  <2>3. g \in Held /\ g # NoGrant
    BY <2>1, <2>2 DEF Held, NoGrant
  <2>4. grant' = [grant EXCEPT ![s] = g] /\ charged' = charged \cup ({s} \cap Paid)
    BY <1>13 DEF Begin, Begun
  <2>5. UNCHANGED <<now, submitted, receipts, choice, packet, lease>>
    BY <1>13 DEF Begin
  <2>6. grant'[s] = g /\ \A t \in Stages : t # s => grant'[t] = grant[t]
    BY <2>1, <2>4 DEF RowsOK
  <2> HIDE DEF g
  <2>7. GrantsOK'
    BY <1>1, <2>3, <2>5, <2>6 DEF GrantsOK, Held
  <2>8. ChargesOK'
    <3>1. \A t \in Paid : t \in Stages
      BY DEF Paid
    <3> QED BY <1>1, <2>1, <2>3, <2>4, <2>6, <3>1 DEF ChargesOK
  <2>9. EvidenceOK' /\ PacketOK'
    BY <1>1, <2>5 DEF EvidenceOK, PacketOK
  <2> QED BY <2>7, <2>8, <2>9 DEF RecordsInv
<1>14. ASSUME NEW e \in Executors,
             \/ \E s \in Stages : TakeUp(e, s)
             \/ Recheck(e)
             \/ \E answer \in Answers : Call(e, answer)
             \/ Observe(e) \/ Finish(e) \/ Die(e)
       PROVE  RecordsInv'
  BY <1>3, <1>14 DEF TakeUp, Recheck, Call, Observe, Finish, Die, journalVars
<1> QED
  BY <1>4, <1>5, <1>6, <1>8, <1>9, <1>10, <1>11, <1>12, <1>13, <1>14 DEF ChecksNext

(* Journals and processes keep their types; a choice is a retained file, a  *)
(* candidate is of a usable file in a fitting view, a grant was made to a   *)
(* holder of the lease, and what is charged are the paid grants.            *)
THEOREM ChecksTyped == ChecksSpec => []ChecksTypeOK
<1>1. ChecksInv => RowsOK
  BY DEF ChecksInv
<1> QED
  BY <1>1, ChecksInitInv, ChecksNextInv, RecordsInit, RecordsNext, RecordsAreTyped, PTL DEF ChecksSpec
=============================================================================
