------------------------- MODULE SenderOutboxProofs -------------------------
(***************************************************************************)
(* Proofs about the sender outbox, for any intents, any bounds and any     *)
(* number of runs: a dispatch is repeated only when nothing of the earlier *)
(* ones can still publish, and an entry counted every run it asked for.    *)
(*                                                                         *)
(* Both follow from SenderInv: each run is one counted attempt of its      *)
(* entry, only the last attempt's can still claim, and between two of its  *)
(* writes a drain holds the outbox as it last wrote it.                    *)
(***************************************************************************)
EXTENDS SenderOutbox, FiniteSetTheorems, WellFoundedInduction, TLAPS

Phases == {"none", "submitted", "confirmed", "not_sent"}

Entry == [state : {"absent"} \cup Active \cup Terminal, attempts : Nat, run : Nat, activation : Nat]

Run == [intent : Intents, attempt : Nat, status : {"pending", "running", "finishing", "completed"},
        cancelled : BOOLEAN, inFlight : BOOLEAN, settled : BOOLEAN]

-----------------------------------------------------------------------------
(* The inductive invariant, of runs R and ledger L.                        *)

MayClaim(run) == run.status # "completed" \/ run.inFlight

UnsentIn(i, R, L) ==
    L[i] = "none" /\ \A r \in DOMAIN R : R[r].intent = i => ~MayClaim(R[r])

(* Each run is an attempt of its own, and has settled only when it is over. *)
RunsOK(R) ==
    /\ R \in Seq(Run)
    /\ \A r \in DOMAIN R : R[r].settled => ~MayClaim(R[r])
    /\ \A q, r \in DOMAIN R : R[q].intent = R[r].intent /\ R[q].attempt = R[r].attempt => q = r

(* Entry e of intent i: its runs are attempts it counted, of which only the *)
(* last may still claim; the run it names is the last attempt's; and what   *)
(* was, or will be, tried again or given up is unsent.                      *)
EntryOK(i, e, R, L) ==
    /\ \A r \in DOMAIN R : R[r].intent = i =>
          /\ 1 <= R[r].attempt /\ R[r].attempt <= e.attempts
          /\ R[r].attempt < e.attempts => ~MayClaim(R[r])
    /\ e.run # NoRun => e.run \in DOMAIN R /\ R[e.run].intent = i /\ R[e.run].attempt = e.attempts
    /\ e.state \in {"queued", "failed", "exhausted"} => UnsentIn(i, R, L)
    /\ e.state = "absent" => e.attempts = 0 /\ L[i] = "none"

DueIn(O) == {i \in Intents : O[i].state \in {"queued", "failed"}}

(* A drain works on the outbox as it last wrote it: what it is still to do  *)
(* is due there, and the entry whose attempt it journaled has no run of it  *)
(* before the POST, and is written with the answer after it.                *)
DrainOK(D, O, R, L) ==
    \/ D.pc = "idle"
    \/ D.pc = "next" /\ D.doc = O /\ D.todo \subseteq DueIn(O)
    \/ /\ D.pc = "post" /\ D.doc = O /\ D.todo \subseteq DueIn(O)
       /\ D.item \in Intents /\ O[D.item].state = "dispatching"
       /\ O[D.item].attempts >= 1 /\ O[D.item].run = NoRun
       /\ \A r \in DOMAIN R : R[r].intent = D.item => R[r].attempt < O[D.item].attempts
       /\ UnsentIn(D.item, R, L)
    \/ /\ D.pc = "record" /\ D.todo \subseteq DueIn(O)
       /\ D.item \in Intents /\ O[D.item].state = "dispatching"
       /\ D.doc = [O EXCEPT ![D.item] = D.doc[D.item]]
       /\ D.doc[D.item] \in Entry /\ EntryOK(D.item, D.doc[D.item], R, L)

SenderInv ==
    /\ RunsOK(runs)
    /\ ledger \in [Intents -> Phases]
    /\ activation \in Nat
    /\ outbox \in [Intents -> Entry]
    /\ \A i \in Intents : EntryOK(i, outbox[i], runs, ledger)
    /\ DrainOK(drain, outbox, runs, ledger)

(* What the run of an attempt, or its record at GitHub, may come to: no run *)
(* gets another intent or attempt, none can claim that could not, and a     *)
(* ledger row changes only by a run that could.                             *)
Calmer(R, L, Q, M) ==
    /\ DOMAIN Q = DOMAIN R
    /\ \A r \in DOMAIN R : /\ Q[r].intent = R[r].intent /\ Q[r].attempt = R[r].attempt
                           /\ MayClaim(Q[r]) => MayClaim(R[r])
    /\ \A i \in Intents : M[i] # L[i] => \E r \in DOMAIN R : R[r].intent = i /\ MayClaim(R[r])

LEMMA UnsentKept ==
  ASSUME NEW R, NEW L, NEW Q, NEW M, NEW i \in Intents, Calmer(R, L, Q, M), UnsentIn(i, R, L)
  PROVE  UnsentIn(i, Q, M)
BY DEF Calmer, UnsentIn

LEMMA EntryKept ==
  ASSUME NEW R, NEW L, NEW Q, NEW M, NEW i \in Intents, NEW e, Calmer(R, L, Q, M), RunsOK(R),
         EntryOK(i, e, R, L)
  PROVE  EntryOK(i, e, Q, M)
<1>1. \A r \in DOMAIN Q : Q[r].intent = i =>
         /\ 1 <= Q[r].attempt /\ Q[r].attempt <= e.attempts
         /\ Q[r].attempt < e.attempts => ~MayClaim(Q[r])
  BY DEF EntryOK, Calmer
<1>2. e.run # NoRun => e.run \in DOMAIN Q /\ Q[e.run].intent = i /\ Q[e.run].attempt = e.attempts
  BY DEF EntryOK, Calmer
<1>3. e.state \in {"queued", "failed", "exhausted"} => UnsentIn(i, Q, M)
  BY UnsentKept DEF EntryOK
<1>4. e.state = "absent" => e.attempts = 0 /\ M[i] = "none"
  <2> SUFFICES ASSUME e.state = "absent", M[i] # "none" PROVE FALSE
    BY DEF EntryOK
  <2>1. M[i] # L[i]
    BY DEF EntryOK
  <2>2. PICK r \in DOMAIN R : R[r].intent = i
    BY <2>1 DEF Calmer
  <2>3. R[r] \in Run
    BY DEF RunsOK
  <2>4. R[r].attempt \in Nat
    BY <2>3 DEF Run
  <2>5. e.attempts = 0 /\ 1 <= R[r].attempt /\ R[r].attempt <= e.attempts
    BY <2>2 DEF EntryOK
  <2> QED
    BY <2>4, <2>5
<1> QED
  BY <1>1, <1>2, <1>3, <1>4 DEF EntryOK

LEMMA DrainKept ==
  ASSUME NEW R, NEW L, NEW Q, NEW M, NEW D, NEW O, Calmer(R, L, Q, M), RunsOK(R), DrainOK(D, O, R, L)
  PROVE  DrainOK(D, O, Q, M)
<1>1. CASE D.pc = "idle"
  BY <1>1 DEF DrainOK
<1>2. CASE D.pc = "next"
  BY <1>2 DEF DrainOK
<1>3. CASE D.pc = "post"
  <2>1. D.item \in Intents /\ UnsentIn(D.item, R, L)
    BY <1>3 DEF DrainOK
  <2>2. UnsentIn(D.item, Q, M)
    BY <2>1, UnsentKept
  <2>3. \A r \in DOMAIN Q : Q[r].intent = D.item => Q[r].attempt < O[D.item].attempts
    BY <1>3 DEF DrainOK, Calmer
  <2> QED
    BY <1>3, <2>2, <2>3 DEF DrainOK
<1>4. CASE D.pc = "record"
  <2>1. D.item \in Intents /\ EntryOK(D.item, D.doc[D.item], R, L)
    BY <1>4 DEF DrainOK
  <2>2. EntryOK(D.item, D.doc[D.item], Q, M)
    BY <2>1, EntryKept
  <2> QED
    BY <1>4, <2>2 DEF DrainOK
<1> QED
  BY <1>1, <1>2, <1>3, <1>4 DEF DrainOK

LEMMA CalmStep ==
  ASSUME SenderInv, Calmer(runs, ledger, runs', ledger'), runs' \in Seq(Run), ledger' \in [Intents -> Phases],
         \A r \in DOMAIN runs : runs'[r].settled => ~MayClaim(runs'[r]),
         outbox' = outbox, drain' = drain, activation' = activation
  PROVE  SenderInv'
<1>1. RunsOK(runs')
  BY DEF SenderInv, RunsOK, Calmer
<1>2. \A i \in Intents : EntryOK(i, outbox[i], runs', ledger')
  BY EntryKept DEF SenderInv
<1>3. DrainOK(drain, outbox, runs', ledger')
  BY DrainKept DEF SenderInv
<1> QED
  BY <1>1, <1>2, <1>3 DEF SenderInv

(* A run's own step. *)
LEMMA SenderRunStep ==
  ASSUME SenderInv, NEW r \in DOMAIN runs, RunStep(r)
  PROVE  SenderInv'
<1>0. /\ runs \in Seq(Run) /\ runs[r] \in Run /\ ledger \in [Intents -> Phases]
      /\ runs[r].settled => ~MayClaim(runs[r])
  BY DEF SenderInv, RunsOK
<1>1. ASSUME NEW run \in Run, Update(r, run), run.intent = runs[r].intent, run.attempt = runs[r].attempt,
             MayClaim(run) => MayClaim(runs[r]), run.settled => ~MayClaim(run),
             \/ ledger' = ledger
             \/ MayClaim(runs[r]) /\ \E phase \in Phases : ledger' = [ledger EXCEPT ![runs[r].intent] = phase]
      PROVE  SenderInv'
  <2>1. runs' = [runs EXCEPT ![r] = run] /\ outbox' = outbox /\ drain' = drain /\ activation' = activation
    BY <1>1 DEF Update, Route
  <2>2. runs' \in Seq(Run) /\ DOMAIN runs' = DOMAIN runs /\ runs'[r] = run
    BY <1>0, <2>1
  <2>3. \A q \in DOMAIN runs : q # r => runs'[q] = runs[q]
    BY <1>0, <2>1
  <2>4. ledger' \in [Intents -> Phases]
    BY <1>0, <1>1 DEF Run
  <2>5. Calmer(runs, ledger, runs', ledger')
    <3>1. \A q \in DOMAIN runs : /\ runs'[q].intent = runs[q].intent /\ runs'[q].attempt = runs[q].attempt
                                 /\ MayClaim(runs'[q]) => MayClaim(runs[q])
      BY <1>1, <2>2, <2>3
    <3>2. \A i \in Intents : ledger'[i] # ledger[i] => \E q \in DOMAIN runs : runs[q].intent = i /\ MayClaim(runs[q])
      BY <1>0, <1>1
    <3> QED
      BY <2>2, <3>1, <3>2 DEF Calmer
  <2>6. \A q \in DOMAIN runs : runs'[q].settled => ~MayClaim(runs'[q])
    BY <1>1, <2>2, <2>3 DEF SenderInv, RunsOK
  <2> QED
    BY <2>1, <2>2, <2>4, <2>5, <2>6, CalmStep
<1>2. CASE StartRun(r)
  <2> DEFINE run == [runs[r] EXCEPT !.status = "running"]
  <2>1. Update(r, run) /\ ledger' = ledger /\ runs[r].status = "pending"
    BY <1>2 DEF StartRun
  <2>2. run \in Run /\ run.intent = runs[r].intent /\ run.attempt = runs[r].attempt /\ run.settled = runs[r].settled
    BY <1>0 DEF Run
  <2>3. MayClaim(runs[r]) /\ ~runs[r].settled
    BY <1>0, <2>1 DEF MayClaim
  <2> HIDE DEF run
  <2> QED
    BY <1>1, <2>1, <2>2, <2>3
<1>3. CASE SenderJob(r)
  <2> DEFINE done == [runs[r] EXCEPT !.status = "finishing"]
             dead == [done EXCEPT !.inFlight = TRUE]
  <2>1. runs[r].status = "running"
    BY <1>3 DEF SenderJob
  <2>2. MayClaim(runs[r]) /\ ~runs[r].settled
    BY <1>0, <2>1 DEF MayClaim
  <2>3. /\ done \in Run /\ done.intent = runs[r].intent /\ done.attempt = runs[r].attempt /\ done.settled = runs[r].settled
        /\ dead \in Run /\ dead.intent = runs[r].intent /\ dead.attempt = runs[r].attempt /\ dead.settled = runs[r].settled
    BY <1>0 DEF Run
  <2>4. \/ Update(r, done) /\ ledger' = ledger
        \/ Update(r, done) /\ \E phase \in Phases : ledger' = [ledger EXCEPT ![runs[r].intent] = phase]
        \/ Update(r, dead) /\ ledger' = ledger
    <3> HIDE DEF done, dead
    <3>1. \A phase : phase \in {"submitted", "confirmed", "not_sent"} => phase \in Phases
      BY DEF Phases
    <3> QED
      BY <1>3, <3>1 DEF SenderJob, done, dead
  <2> HIDE DEF done, dead
  <2> QED
    BY <1>1, <2>2, <2>3, <2>4
<1>4. CASE EndRun(r)
  <2>1. PICK cancelled \in BOOLEAN :
          Update(r, [runs[r] EXCEPT !.status = "completed", !.cancelled = cancelled])
    BY <1>4 DEF EndRun
  <2> DEFINE run == [runs[r] EXCEPT !.status = "completed", !.cancelled = cancelled]
  <2>2. Update(r, run) /\ ledger' = ledger /\ runs[r].status # "completed"
    BY <1>4, <2>1 DEF EndRun
  <2>3. /\ run \in Run /\ run.intent = runs[r].intent /\ run.attempt = runs[r].attempt
        /\ run.settled = runs[r].settled
    BY <1>0 DEF Run
  <2>4. MayClaim(runs[r]) /\ ~runs[r].settled
    BY <1>0, <2>2 DEF MayClaim
  <2> HIDE DEF run
  <2> QED
    BY <1>1, <2>2, <2>3, <2>4
<1>5. CASE Land(r)
  <2> DEFINE run == [runs[r] EXCEPT !.inFlight = FALSE]
  <2>1. /\ Update(r, run) /\ runs[r].inFlight
        /\ \/ ledger' = ledger
           \/ ledger' = [ledger EXCEPT ![runs[r].intent] = "submitted"]
    BY <1>5 DEF Land
  <2>2. /\ run \in Run /\ run.intent = runs[r].intent /\ run.attempt = runs[r].attempt
        /\ run.settled = runs[r].settled
    BY <1>0 DEF Run
  <2>3. MayClaim(runs[r])
    BY <2>1 DEF MayClaim
  <2>4. ~runs[r].settled
    BY <1>0, <2>3
  <2>5. "submitted" \in Phases
    BY DEF Phases
  <2> HIDE DEF run
  <2> QED
    BY <1>1, <2>1, <2>2, <2>3, <2>4, <2>5
<1>6. CASE Settle(r)
  <2> DEFINE run == [runs[r] EXCEPT !.settled = TRUE]
  <2>1. Update(r, run) /\ ledger' = ledger /\ runs[r].status = "completed" /\ ~runs[r].inFlight
    BY <1>6 DEF Settle
  <2>2. /\ run \in Run /\ run.intent = runs[r].intent /\ run.attempt = runs[r].attempt
        /\ run.status = runs[r].status /\ run.inFlight = runs[r].inFlight
    BY <1>0 DEF Run
  <2>3. ~MayClaim(run)
    BY <2>1, <2>2 DEF MayClaim
  <2> HIDE DEF run
  <2> QED
    BY <1>1, <2>1, <2>2, <2>3
<1> QED
  BY <1>2, <1>3, <1>4, <1>5, <1>6 DEF RunStep

-----------------------------------------------------------------------------
(* Reconciling one entry.                                                  *)

LEMMA LeastNumber ==
  ASSUME NEW S \in SUBSET Nat, S # {}
  PROVE  \E m \in S : \A k \in S : m <= k
<1> DEFINE R == OpToRel(<, Nat)
<1>1. IsWellFoundedOn(R, Nat)
  BY NatLessThanWellFounded
<1>2. \A a, b \in Nat : a < b => <<a, b>> \in R
  BY DEF OpToRel
<1> HIDE DEF R
<1>3. PICK m \in S : \A k \in S : ~(<<k, m>> \in R)
  BY <1>1, WFMin
<1>4. \A k \in S : ~(k < m)
  BY <1>2, <1>3
<1>5. \A k \in S : k \in Nat
  OBVIOUS
<1> QED BY <1>4, <1>5

(* A set of numbers with a bound has its largest. *)
LEMMA MaxInSet ==
  ASSUME NEW n \in Nat, NEW S \in SUBSET (0..n), S # {}
  PROVE  Max(S) \in S
<1> DEFINE K == {n - x : x \in S}
<1>1. K \in SUBSET Nat /\ K # {}
  OBVIOUS
<1> HIDE DEF K
<1>2. PICK m \in K : \A k \in K : m <= k
  BY <1>1, LeastNumber
<1>3. PICK x \in S : m = n - x
  BY DEF K
<1>4. \A y \in S : n - y \in K
  BY DEF K
<1>5. \A y \in S : x >= y
  <2> TAKE y \in S
  <2>1. n - x <= n - y
    BY <1>2, <1>3, <1>4
  <2>2. x \in Int /\ y \in Int
    OBVIOUS
  <2> QED
    BY <2>1, <2>2
<1>6. \E z \in S : \A y \in S : z >= y
  BY <1>5
<1> QED
  BY <1>6 DEF Max

(* The run that is observed is one of the last attempt's. *)
LEMMA ObservedRun ==
  ASSUME SenderInv, NEW i \in Intents, NEW e \in Entry, EntryOK(i, e, runs, ledger), Observed(i, e) # NoRun
  PROVE  LET r == Observed(i, e)
         IN  r \in DOMAIN runs /\ runs[r].intent = i /\ runs[r].attempt = e.attempts
<1> DEFINE r == Observed(i, e)
<1>0. runs \in Seq(Run)
  BY DEF SenderInv, RunsOK
<1>1. CASE e.run # NoRun
  <2>1. r = e.run
    BY <1>1 DEF Observed
  <2> QED
    BY <1>1, <2>1 DEF EntryOK
<1>2. CASE e.run = NoRun
  <2> DEFINE titled == {q \in RunsOf(i) : runs[q].attempt >= e.attempts}
             live == {q \in titled : runs[q].status # "completed"}
             seen == {NoRun} \cup (IF live # {} THEN live ELSE titled)
  <2>1. r = Max(seen)
    BY <1>2 DEF Observed
  <2>2. seen \in SUBSET (0..Len(runs)) /\ seen # {} /\ Len(runs) \in Nat
    BY <1>0 DEF RunsOf, NoRun
  <2>3. seen \subseteq {NoRun} \cup titled
    OBVIOUS
  <2> HIDE DEF seen
  <2>4. r \in seen
    BY <2>1, <2>2, MaxInSet
  <2>5. r \in titled
    BY <2>3, <2>4
  <2>6. r \in DOMAIN runs /\ runs[r].intent = i /\ runs[r].attempt >= e.attempts
    BY <2>5 DEF RunsOf
  <2>7. runs[r].attempt <= e.attempts
    BY <2>6 DEF EntryOK
  <2>8. runs[r].attempt \in Nat /\ e.attempts \in Nat
    <3>1. runs[r] \in Run
      BY <1>0, <2>6
    <3> HIDE DEF r
    <3> QED
      BY <3>1 DEF Run, Entry
  <2> QED
    BY <2>6, <2>7, <2>8
<1> QED
  BY <1>1, <1>2

(* What reconciling makes of an entry. *)
LEMMA ToEntry ==
  ASSUME NEW e \in Entry, NEW s \in Active \cup Terminal
  PROVE  /\ To(e, s) \in Entry
         /\ To(e, s).state = s /\ To(e, s).attempts = e.attempts /\ To(e, s).run = e.run
BY DEF Entry, To

LEMMA EntryMoved ==
  ASSUME NEW i, NEW e \in Entry, NEW R, NEW L, EntryOK(i, e, R, L), NEW s \in Active \cup Terminal,
         s \in {"queued", "failed", "exhausted"} => UnsentIn(i, R, L)
  PROVE  To(e, s) \in Entry /\ EntryOK(i, To(e, s), R, L)
<1>1. /\ To(e, s) \in Entry
      /\ To(e, s).state = s /\ To(e, s).attempts = e.attempts /\ To(e, s).run = e.run
  BY ToEntry
<1>2. s # "absent"
  BY DEF Active, Terminal
<1> QED
  BY <1>1, <1>2 DEF EntryOK

LEMMA EntryFound ==
  ASSUME NEW i, NEW e \in Entry, NEW R, NEW L, EntryOK(i, e, R, L), NEW r \in Nat,
         r \in DOMAIN R /\ R[r].intent = i /\ R[r].attempt = e.attempts
  PROVE  /\ [e EXCEPT !.run = r] \in Entry /\ EntryOK(i, [e EXCEPT !.run = r], R, L)
         /\ [e EXCEPT !.run = r].state = e.state
<1> DEFINE f == [e EXCEPT !.run = r]
<1>1. f \in Entry /\ f.state = e.state /\ f.attempts = e.attempts /\ f.run = r
  BY DEF Entry
<1> HIDE DEF f
<1>2. EntryOK(i, f, R, L)
  BY <1>1 DEF EntryOK
<1> QED
  BY <1>1, <1>2 DEF f

(* A run that was cancelled and settled can claim no more, nor can the ones *)
(* before it.                                                              *)
LEMMA UnsentAfter ==
  ASSUME SenderInv, NEW i \in Intents, NEW e \in Entry, EntryOK(i, e, runs, ledger), ledger[i] = "none",
         NEW r \in DOMAIN runs, runs[r].intent = i, runs[r].attempt = e.attempts, runs[r].settled
  PROVE  UnsentIn(i, runs, ledger)
<1> SUFFICES ASSUME NEW q \in DOMAIN runs, runs[q].intent = i PROVE ~MayClaim(runs[q])
  BY DEF UnsentIn
<1>1. CASE runs[q].attempt = e.attempts
  BY <1>1 DEF SenderInv, RunsOK
<1>2. CASE runs[q].attempt # e.attempts
  <2>1. runs[q] \in Run
    BY DEF SenderInv, RunsOK
  <2>2. runs[q].attempt \in Nat /\ e.attempts \in Nat /\ runs[q].attempt <= e.attempts
    BY <2>1 DEF Run, Entry, EntryOK
  <2>3. runs[q].attempt < e.attempts
    BY <1>2, <2>2
  <2> QED
    BY <2>3 DEF EntryOK
<1> QED
  BY <1>1, <1>2

LEMMA Judged ==
  ASSUME SenderInv, NEW i \in Intents, NEW e \in Entry, EntryOK(i, e, runs, ledger), ledger[i] = "none",
         NEW r \in DOMAIN runs, runs[r].intent = i, runs[r].attempt = e.attempts
  PROVE  Judge(e, r) \in Entry /\ EntryOK(i, Judge(e, r), runs, ledger)
<1> DEFINE f == [e EXCEPT !.run = r]
<1>0. r \in Nat
  BY DEF SenderInv, RunsOK
<1>1. f \in Entry /\ EntryOK(i, f, runs, ledger)
  BY <1>0, EntryFound
<1>2. \A s \in {"dispatched", "sender_finished_without_claim"} :
         To(f, s) \in Entry /\ EntryOK(i, To(f, s), runs, ledger)
  <2> HIDE DEF f
  <2> QED
    BY <1>1, EntryMoved DEF Active, Terminal
<1>3. runs[r].settled => To(f, "failed") \in Entry /\ EntryOK(i, To(f, "failed"), runs, ledger)
  <2> HIDE DEF f
  <2>1. "failed" \in Active \cup Terminal
    BY DEF Active
  <2> QED
    BY <1>1, <2>1, EntryMoved, UnsentAfter
<1>4. \/ Judge(e, r) = e
      \/ Judge(e, r) = To(f, "dispatched")
      \/ Judge(e, r) = To(f, "sender_finished_without_claim")
      \/ Judge(e, r) = To(f, "failed") /\ runs[r].settled
  BY DEF Judge
<1> HIDE DEF f
<1> QED
  BY <1>2, <1>3, <1>4

LEMMA GivenUp ==
  ASSUME NEW i, NEW e \in Entry, NEW R, NEW L, EntryOK(i, e, R, L)
  PROVE  GiveUp(e) \in Entry /\ EntryOK(i, GiveUp(e), R, L)
<1>1. CASE e.state \in {"queued", "failed"} /\ e.attempts >= MaxAttempts
  <2>1. GiveUp(e) = To(e, "exhausted")
    BY <1>1 DEF GiveUp
  <2>2. UnsentIn(i, R, L)
    BY <1>1 DEF EntryOK
  <2>3. "exhausted" \in Active \cup Terminal
    BY DEF Terminal
  <2>4. To(e, "exhausted") \in Entry /\ EntryOK(i, To(e, "exhausted"), R, L)
    BY <2>2, <2>3, EntryMoved
  <2> QED
    BY <2>1, <2>4
<1>2. CASE ~(e.state \in {"queued", "failed"} /\ e.attempts >= MaxAttempts)
  BY <1>2 DEF GiveUp
<1> QED
  BY <1>1, <1>2

LEMMA Pursued ==
  ASSUME SenderInv, NEW i \in Intents, NEW e \in Entry, EntryOK(i, e, runs, ledger), ledger[i] = "none",
         NEW r, r = NoRun \/ (r \in DOMAIN runs /\ runs[r].intent = i /\ runs[r].attempt = e.attempts),
         NEW u \in BOOLEAN
  PROVE  Pursue(e, r, u) \in Entry /\ EntryOK(i, Pursue(e, r, u), runs, ledger)
<1>1. r # NoRun => Judge(e, r) \in Entry /\ EntryOK(i, Judge(e, r), runs, ledger)
  BY Judged
<1>2. To(e, "uncertain") \in Entry /\ EntryOK(i, To(e, "uncertain"), runs, ledger)
  BY EntryMoved DEF Active
<1>3. \E f \in Entry : EntryOK(i, f, runs, ledger) /\ Pursue(e, r, u) = GiveUp(f)
  <2>1. CASE e.state \in {"dispatched", "uncertain"} /\ r # NoRun
    <3>1. Pursue(e, r, u) = GiveUp(Judge(e, r))
      BY <2>1 DEF Pursue
    <3> QED
      BY <3>1, <2>1, <1>1
  <2>2. CASE e.state = "dispatched" /\ r = NoRun /\ u
    <3>1. Pursue(e, r, u) = GiveUp(To(e, "uncertain"))
      BY <2>2 DEF Pursue
    <3> QED
      BY <3>1, <1>2
  <2>3. CASE ~(e.state \in {"dispatched", "uncertain"} /\ r # NoRun) /\ ~(e.state = "dispatched" /\ r = NoRun /\ u)
    <3>1. Pursue(e, r, u) = GiveUp(e)
      BY <2>3 DEF Pursue
    <3> QED
      BY <3>1
  <2> QED
    BY <2>1, <2>2, <2>3
<1> QED
  BY <1>3, GivenUp

LEMMA ReconciledEntry ==
  ASSUME SenderInv, NEW i \in Intents, NEW seen, NEW unseen
  PROVE  Reconciled(i, seen, unseen) \in Entry /\ EntryOK(i, Reconciled(i, seen, unseen), runs, ledger)
<1> DEFINE entry == outbox[i]
           r == IF i \in seen THEN Observed(i, entry) ELSE NoRun
<1>0. entry \in Entry /\ EntryOK(i, entry, runs, ledger) /\ ledger[i] \in Phases
  BY DEF SenderInv
<1>1. r = NoRun \/ (r \in DOMAIN runs /\ runs[r].intent = i /\ runs[r].attempt = entry.attempts)
  BY <1>0, ObservedRun
<1> HIDE DEF r
<1>2. \A s \in {"route_generation_changed", "completed", "sender_refused", "claimed", "superseded", "uncertain"} :
        To(entry, s) \in Entry /\ EntryOK(i, To(entry, s), runs, ledger)
  <2> TAKE s \in {"route_generation_changed", "completed", "sender_refused", "claimed", "superseded", "uncertain"}
  <2>1. s \in Active \cup Terminal /\ s \notin {"queued", "failed", "exhausted"}
    BY DEF Active, Terminal
  <2> HIDE DEF entry
  <2> QED
    BY <2>1, <1>0, EntryMoved
<1>3. Interrupted(entry) \in Entry /\ EntryOK(i, Interrupted(entry), runs, ledger)
      /\ Interrupted(entry).attempts = entry.attempts
  <2>1. To(entry, "uncertain").attempts = entry.attempts
    BY <1>0, ToEntry DEF Active
  <2> QED
    BY <1>0, <1>2, <2>1 DEF Interrupted
<1>4. ledger[i] = "none" => /\ Pursue(Interrupted(entry), r, i \in unseen) \in Entry
                            /\ EntryOK(i, Pursue(Interrupted(entry), r, i \in unseen), runs, ledger)
  <2> DEFINE u == i \in unseen
             e == Interrupted(entry)
  <2>1. u \in BOOLEAN /\ e \in Entry /\ EntryOK(i, e, runs, ledger) /\ e.attempts = entry.attempts
    BY <1>3
  <2>2. r = NoRun \/ (r \in DOMAIN runs /\ runs[r].intent = i /\ runs[r].attempt = e.attempts)
    BY <1>1, <2>1
  <2> HIDE DEF u, e
  <2>3. ledger[i] = "none" => Pursue(e, r, u) \in Entry /\ EntryOK(i, Pursue(e, r, u), runs, ledger)
    BY <2>1, <2>2, Pursued
  <2> QED
    BY <2>3 DEF u, e
<1>5. LedgerEvidence(i) \in {"none", "completed", "sender_refused", "claimed"}
      /\ (LedgerEvidence(i) = "none" => ledger[i] = "none")
  BY <1>0 DEF LedgerEvidence, Phases
<1>6. \/ Reconciled(i, seen, unseen) = entry
      \/ Reconciled(i, seen, unseen) = To(entry, "route_generation_changed")
      \/ LedgerEvidence(i) # "none" /\ Reconciled(i, seen, unseen) = To(entry, LedgerEvidence(i))
      \/ Reconciled(i, seen, unseen) = To(entry, "superseded")
      \/ LedgerEvidence(i) = "none" /\ Reconciled(i, seen, unseen) = Pursue(Interrupted(entry), r, i \in unseen)
  BY DEF Reconciled, r
<1> HIDE DEF entry
<1> QED
  BY <1>0, <1>2, <1>4, <1>5, <1>6

-----------------------------------------------------------------------------
(* The steps of a drain.                                                   *)

(* A write and what the drain does next: whatever of it fails, the entries *)
(* are the old ones or the new ones.                                       *)
LEMMA Persisted ==
  ASSUME SenderInv, NEW doc, doc \in [Intents -> Entry], \A i \in Intents : EntryOK(i, doc[i], runs, ledger),
         NEW next, DrainOK(next, doc, runs, ledger), Persist(doc, next),
         runs' = runs, ledger' = ledger, activation' = activation
  PROVE  SenderInv'
<1>1. /\ outbox' \in {outbox, doc}
      /\ drain' = Idle \/ (drain' = next /\ outbox' = doc)
  BY DEF Persist
<1>2. outbox' \in [Intents -> Entry] /\ \A i \in Intents : EntryOK(i, outbox'[i], runs, ledger)
  BY <1>1 DEF SenderInv
<1>3. DrainOK(drain', outbox', runs, ledger)
  <2>1. CASE drain' = Idle
    <3>1. \A O : DrainOK(Idle, O, runs, ledger)
      BY DEF DrainOK, Idle
    <3> QED
      BY <2>1, <3>1
  <2>2. CASE drain' = next /\ outbox' = doc
    BY <2>2
  <2> QED
    BY <1>1, <2>1, <2>2
<1> QED
  BY <1>2, <1>3 DEF SenderInv

LEMMA PlanStep == ASSUME SenderInv, Plan PROVE SenderInv'
<1>1. PICK seen, unseen :
        Persist([i \in Intents |-> Reconciled(i, seen, unseen)],
                [pc |-> "next", doc |-> [i \in Intents |-> Reconciled(i, seen, unseen)],
                 todo |-> FirstOf(Due([i \in Intents |-> Reconciled(i, seen, unseen)]))])
  BY DEF Plan
<1> DEFINE doc == [i \in Intents |-> Reconciled(i, seen, unseen)]
           next == [pc |-> "next", doc |-> doc, todo |-> FirstOf(Due(doc))]
<1>2. doc \in [Intents -> Entry] /\ \A i \in Intents : EntryOK(i, doc[i], runs, ledger)
  BY ReconciledEntry
<1>3. Persist(doc, next)
  BY <1>1
<1> HIDE DEF doc
<1>4. FirstOf(Due(doc)) \subseteq DueIn(doc)
  BY DEF FirstOf, Due, DueIn
<1>5. DrainOK(next, doc, runs, ledger)
  BY <1>4 DEF DrainOK
<1>6. runs' = runs /\ ledger' = ledger /\ activation' = activation
  BY DEF Plan, Outside, Route
<1> HIDE DEF next
<1> QED
  BY <1>2, <1>3, <1>5, <1>6, Persisted

LEMMA Started ==
  ASSUME NEW x \in Entry
  PROVE  /\ StartAttempt(x) \in Entry /\ StartAttempt(x).state = "dispatching"
         /\ StartAttempt(x).attempts = x.attempts + 1 /\ StartAttempt(x).run = NoRun
         /\ x.attempts \in Nat
<1>1. x.attempts \in Nat /\ x.attempts + 1 \in Nat /\ "dispatching" \in Active /\ NoRun \in Nat
  BY DEF Entry, Active, NoRun
<1> DEFINE y == StartAttempt(x)
<1>2. y = [x EXCEPT !.state = "dispatching", !.attempts = x.attempts + 1, !.run = NoRun]
  BY DEF StartAttempt
<1>3. y.state = "dispatching" /\ y.attempts = x.attempts + 1 /\ y.run = NoRun /\ y.activation = x.activation
  BY <1>2 DEF Entry
<1>4. y = [state |-> "dispatching", attempts |-> x.attempts + 1, run |-> NoRun, activation |-> x.activation]
  BY <1>2 DEF Entry
<1>5. x.activation \in Nat
  BY DEF Entry
<1>6. y \in Entry
  BY <1>1, <1>4, <1>5 DEF Entry
<1> QED
  BY <1>1, <1>3, <1>6

LEMMA JournalStep == ASSUME SenderInv, Journal PROVE SenderInv'
<1>1. PICK i \in drain.todo :
        LET doc == [drain.doc EXCEPT ![i] = StartAttempt(@)]
        IN  Persist(doc, [pc |-> "post", doc |-> doc, todo |-> drain.todo \ {i}, item |-> i])
  BY DEF Journal
<1>2. drain.pc = "next" /\ drain.doc = outbox /\ drain.todo \subseteq DueIn(outbox)
  BY DEF Journal, SenderInv, DrainOK
<1>3. i \in Intents /\ outbox[i].state \in {"queued", "failed"} /\ outbox[i] \in Entry
      /\ EntryOK(i, outbox[i], runs, ledger) /\ outbox \in [Intents -> Entry] /\ runs \in Seq(Run)
  BY <1>2 DEF DueIn, SenderInv, RunsOK
<1> DEFINE e == StartAttempt(outbox[i])
           doc == [outbox EXCEPT ![i] = e]
           next == [pc |-> "post", doc |-> doc, todo |-> drain.todo \ {i}, item |-> i]
<1>4. /\ e \in Entry /\ e.state = "dispatching" /\ e.attempts = outbox[i].attempts + 1 /\ e.run = NoRun
      /\ outbox[i].attempts \in Nat
  BY <1>3, Started
<1>5. Persist(doc, next)
  BY <1>1, <1>2
<1> HIDE DEF e
<1>6. UnsentIn(i, runs, ledger)
  BY <1>3 DEF EntryOK
<1>7. \A r \in DOMAIN runs : runs[r].intent = i => /\ runs[r].attempt \in Nat /\ 1 <= runs[r].attempt
                                                  /\ runs[r].attempt <= outbox[i].attempts
  <2> TAKE r \in DOMAIN runs
  <2>1. runs[r] \in Run
    BY <1>3
  <2>2. runs[r].attempt \in Nat
    BY <2>1 DEF Run
  <2> QED
    BY <1>3, <2>2 DEF EntryOK
<1>8. EntryOK(i, e, runs, ledger)
  <2>1. \A r \in DOMAIN runs : runs[r].intent = i =>
          /\ 1 <= runs[r].attempt /\ runs[r].attempt <= e.attempts
          /\ runs[r].attempt < e.attempts => ~MayClaim(runs[r])
    BY <1>4, <1>6, <1>7 DEF UnsentIn
  <2> QED
    BY <2>1, <1>4 DEF EntryOK
<1>9. doc \in [Intents -> Entry] /\ doc[i] = e /\ \A j \in Intents : j # i => doc[j] = outbox[j]
  BY <1>3, <1>4
<1> HIDE DEF doc
<1>10. \A j \in Intents : EntryOK(j, doc[j], runs, ledger)
  BY <1>8, <1>9 DEF SenderInv
<1>11. drain.todo \ {i} \subseteq DueIn(doc)
  BY <1>2, <1>9 DEF DueIn
<1>12. DrainOK(next, doc, runs, ledger)
  <2>1. /\ doc[i].attempts >= 1
        /\ \A r \in DOMAIN runs : runs[r].intent = i => runs[r].attempt < doc[i].attempts
    BY <1>4, <1>7, <1>9
  <2> QED
    BY <2>1, <1>3, <1>4, <1>6, <1>9, <1>11 DEF DrainOK
<1>13. runs' = runs /\ ledger' = ledger /\ activation' = activation
  BY DEF Journal, Outside, Route
<1> HIDE DEF next
<1> QED
  BY <1>5, <1>9, <1>10, <1>12, <1>13, Persisted

(* Q is the list of runs with a new one, of attempt a of i, at its end. *)
Joined(Q, i, a) ==
    LET n == Len(runs) + 1
    IN  /\ Q \in Seq(Run) /\ DOMAIN Q = (DOMAIN runs) \cup {n} /\ n \notin DOMAIN runs /\ n \in Nat /\ n # NoRun
        /\ Q[n].intent = i /\ Q[n].attempt = a /\ ~Q[n].settled
        /\ \A r \in DOMAIN runs : /\ Q[r].intent = runs[r].intent /\ Q[r].attempt = runs[r].attempt
                                  /\ MayClaim(Q[r]) => MayClaim(runs[r])
                                  /\ Q[r].settled = runs[r].settled

(* A run that takes the pending place. *)
LEMMA EnqueuedRuns ==
  ASSUME SenderInv, NEW i \in Intents, NEW a \in Nat
  PROVE  Joined(Enqueued(i, a), i, a)
<1> DEFINE P == [r \in DOMAIN runs |-> IF runs[r].status = "pending"
                                  THEN [runs[r] EXCEPT !.status = "completed", !.cancelled = TRUE]
                                  ELSE runs[r]]
           new == [intent |-> i, attempt |-> a, status |-> "pending",
                   cancelled |-> FALSE, inFlight |-> FALSE, settled |-> FALSE]
           Q == Append(P, new)
<1>0. runs \in Seq(Run)
  BY DEF SenderInv, RunsOK
<1>1. \A r \in DOMAIN runs : runs[r] \in Run
  BY <1>0
<1>2. \A r \in DOMAIN runs : /\ P[r] \in Run /\ P[r].intent = runs[r].intent /\ P[r].attempt = runs[r].attempt
                             /\ P[r].settled = runs[r].settled
                             /\ MayClaim(P[r]) => MayClaim(runs[r])
  <2> SUFFICES ASSUME NEW r \in DOMAIN runs
               PROVE  /\ P[r] \in Run /\ P[r].intent = runs[r].intent /\ P[r].attempt = runs[r].attempt
                      /\ P[r].settled = runs[r].settled
                      /\ MayClaim(P[r]) => MayClaim(runs[r])
    OBVIOUS
  <2> DEFINE x == runs[r]
             y == [x EXCEPT !.status = "completed", !.cancelled = TRUE]
  <2>1. x \in Run
    BY <1>1
  <2> HIDE DEF x
  <2>2. /\ y \in Run /\ y.intent = x.intent /\ y.attempt = x.attempt /\ y.settled = x.settled
        /\ y.inFlight = x.inFlight /\ y.status = "completed"
    BY <2>1 DEF Run
  <2>3. MayClaim(y) => MayClaim(x)
    BY <2>2 DEF MayClaim
  <2>4. P[r] = IF x.status = "pending" THEN y ELSE x
    BY DEF x
  <2> HIDE DEF P, y
  <2> QED
    BY <2>1, <2>2, <2>3, <2>4 DEF x
<1>3. P \in Seq(Run) /\ DOMAIN P = DOMAIN runs /\ Len(P) = Len(runs)
  <2>1. DOMAIN runs = 1..Len(runs) /\ Len(runs) \in Nat
    BY <1>0
  <2>2. DOMAIN P = 1..Len(runs) /\ \A r \in 1..Len(runs) : P[r] \in Run
    BY <2>1, <1>2
  <2>3. P = [r \in 1..Len(runs) |-> P[r]]
    BY <2>1
  <2> HIDE DEF P
  <2>4. P \in [1..Len(runs) -> Run]
    BY <2>2, <2>3
  <2> QED
    BY <2>1, <2>4
<1>4. new \in Run
  BY DEF Run
<1>5. new.intent = i /\ new.attempt = a /\ ~new.settled
  OBVIOUS
<1>6. Enqueued(i, a) = Q
  BY DEF Enqueued
<1> HIDE DEF P, new
<1>7. /\ Q \in Seq(Run) /\ Len(Q) = Len(runs) + 1 /\ Q[Len(runs) + 1] = new
      /\ \A r \in DOMAIN runs : Q[r] = P[r]
  BY <1>0, <1>3, <1>4
<1> HIDE DEF Q
<1>8. DOMAIN Q = (DOMAIN runs) \cup {Len(runs) + 1} /\ Len(runs) + 1 \notin DOMAIN runs
      /\ Len(runs) + 1 \in Nat /\ Len(runs) + 1 # NoRun
  BY <1>0, <1>7 DEF NoRun
<1> QED
  BY <1>2, <1>5, <1>6, <1>7, <1>8 DEF Joined

(* The answer to a POST, as the drain will write it. *)
LEMMA Answered ==
  ASSUME SenderInv, drain.pc = "post", NEW s \in Active \cup Terminal, NEW n \in Nat, Answer(s, n),
         NEW R, NEW L, EntryOK(drain.item, [outbox[drain.item] EXCEPT !.state = s, !.run = n], R, L)
  PROVE  DrainOK(drain', outbox, R, L)
<1> DEFINE i == drain.item
           e == [outbox[i] EXCEPT !.state = s, !.run = n]
           doc == [outbox EXCEPT ![i] = e]
<1>1. /\ drain.doc = outbox /\ drain.todo \subseteq DueIn(outbox) /\ i \in Intents
      /\ outbox[i].state = "dispatching" /\ outbox \in [Intents -> Entry]
  BY DEF SenderInv, DrainOK
<1>2. e \in Entry
  BY <1>1 DEF Entry
<1>3. drain' = [pc |-> "record", doc |-> doc, todo |-> drain.todo, item |-> i]
  BY <1>1 DEF Answer
<1>4. EntryOK(i, e, R, L)
  OBVIOUS
<1> HIDE DEF e
<1>5. doc[i] = e
  BY <1>1
<1>6. doc = [outbox EXCEPT ![i] = doc[i]]
  BY <1>5
<1> HIDE DEF doc, i
<1>7. /\ drain'.pc = "record" /\ drain'.doc = doc /\ drain'.todo = drain.todo /\ drain'.item = i
  BY <1>3
<1>8. /\ drain'.todo \subseteq DueIn(outbox) /\ drain'.item \in Intents
      /\ outbox[drain'.item].state = "dispatching"
      /\ drain'.doc = [outbox EXCEPT ![drain'.item] = drain'.doc[drain'.item]]
      /\ drain'.doc[drain'.item] \in Entry
      /\ EntryOK(drain'.item, drain'.doc[drain'.item], R, L)
  BY <1>1, <1>2, <1>4, <1>5, <1>6, <1>7
<1> QED
  BY <1>7, <1>8 DEF DrainOK

LEMMA PostStep == ASSUME SenderInv, Post PROVE SenderInv'
<1> DEFINE i == drain.item
           e == outbox[i]
<1>1. /\ drain.doc = outbox /\ drain.todo \subseteq DueIn(outbox) /\ i \in Intents /\ drain.pc = "post"
      /\ e.state = "dispatching" /\ outbox \in [Intents -> Entry] /\ e \in Entry
      /\ e.attempts >= 1 /\ e.attempts \in Nat /\ e.run = NoRun /\ UnsentIn(i, runs, ledger)
      /\ \A r \in DOMAIN runs : runs[r].intent = i => runs[r].attempt < e.attempts
      /\ EntryOK(i, e, runs, ledger)
  BY DEF Post, SenderInv, DrainOK, Entry
<1>2. outbox' = outbox /\ ledger' = ledger /\ activation' = activation
  BY DEF Post, Outside, Route
<1>3. NoRun \in Nat
  BY DEF NoRun
<1>4. \A s \in Active \cup Terminal, n \in Nat :
         /\ [e EXCEPT !.state = s, !.run = n].state = s /\ [e EXCEPT !.state = s, !.run = n].run = n
         /\ [e EXCEPT !.state = s, !.run = n].attempts = e.attempts
  <2> HIDE DEF e
  <2> QED
    BY <1>1 DEF Entry
<1>5. {"dispatched", "uncertain", "failed"} \subseteq Active \cup Terminal
      /\ "absent" \notin Active \cup Terminal
  BY DEF Active, Terminal
<1>6. CASE \E s \in {"failed", "uncertain"} : Answer(s, NoRun) /\ UNCHANGED runs
  <2>1. PICK s \in {"failed", "uncertain"} : Answer(s, NoRun) /\ runs' = runs
    BY <1>6
  <2> DEFINE f == [e EXCEPT !.state = s, !.run = NoRun]
  <2>2. f.state = s /\ f.run = NoRun /\ f.attempts = e.attempts
    BY <1>3, <1>4, <1>5
  <2>3. EntryOK(i, f, runs, ledger)
    <3> HIDE DEF f
    <3> QED
      BY <1>1, <2>2 DEF EntryOK
  <2>4. DrainOK(drain', outbox, runs, ledger)
    BY <1>1, <1>3, <1>5, <2>1, <2>3, Answered
  <2> QED
    BY <1>2, <2>1, <2>4 DEF SenderInv
<1>7. CASE /\ runs' = Enqueued(i, e.attempts)
           /\ \/ Answer("dispatched", Len(runs) + 1)
              \/ Answer("dispatched", NoRun)
              \/ Answer("uncertain", NoRun)
  <2> DEFINE n == Len(runs) + 1
  <2> DEFINE a == e.attempts
  <2>b. SenderInv /\ runs' = Enqueued(i, a) /\ a \in Nat /\ i \in Intents
    BY <1>1, <1>7
  <2>c. Joined(runs', i, a)
    <3> HIDE DEF a, i
    <3>1. Joined(Enqueued(i, a), i, a)
      BY <2>b, EnqueuedRuns
    <3> QED
      BY <2>b, <3>1
  <2>1. /\ runs' \in Seq(Run) /\ DOMAIN runs' = (DOMAIN runs) \cup {n} /\ n \notin DOMAIN runs /\ n \in Nat /\ n # NoRun
        /\ runs'[n].intent = i /\ runs'[n].attempt = e.attempts /\ ~runs'[n].settled
        /\ \A r \in DOMAIN runs : /\ runs'[r].intent = runs[r].intent /\ runs'[r].attempt = runs[r].attempt
                                  /\ MayClaim(runs'[r]) => MayClaim(runs[r])
                                  /\ runs'[r].settled = runs[r].settled
    BY <2>c DEF Joined
  <2>a. PICK s \in {"dispatched", "uncertain"}, m \in {n, NoRun} : Answer(s, m)
    BY <1>7
  <2> HIDE DEF n
  <2>2. RunsOK(runs')
    <3>1. \A r \in DOMAIN runs' : runs'[r].settled => ~MayClaim(runs'[r])
      BY <2>1 DEF SenderInv, RunsOK
    <3>2. \A q, r \in DOMAIN runs' :
             runs'[q].intent = runs'[r].intent /\ runs'[q].attempt = runs'[r].attempt => q = r
      <4> SUFFICES ASSUME NEW q \in DOMAIN runs', NEW r \in DOMAIN runs', q # r,
                          runs'[q].intent = runs'[r].intent, runs'[q].attempt = runs'[r].attempt
                   PROVE  FALSE
        OBVIOUS
      <4>1. CASE q \in DOMAIN runs /\ r \in DOMAIN runs
        BY <2>1, <4>1 DEF SenderInv, RunsOK
      <4>2. ASSUME NEW x \in DOMAIN runs, runs'[x].intent = i, runs'[x].attempt = e.attempts PROVE FALSE
        <5>1. runs[x].intent = i /\ runs[x].attempt = e.attempts
          BY <2>1, <4>2
        <5>2. runs[x].attempt < e.attempts
          BY <1>1, <5>1
        <5> QED
          BY <1>1, <5>1, <5>2
      <4>3. CASE q = n
        BY <2>1, <4>2, <4>3
      <4>4. CASE r = n
        BY <2>1, <4>2, <4>4
      <4> QED
        BY <2>1, <4>1, <4>3, <4>4
    <3> QED
      BY <2>1, <3>1, <3>2 DEF RunsOK
  <2>3. ASSUME NEW j \in Intents, j # i, NEW f, EntryOK(j, f, runs, ledger) PROVE EntryOK(j, f, runs', ledger)
    <3>1. \A r \in DOMAIN runs' : runs'[r].intent = j => r \in DOMAIN runs /\ runs[r].intent = j
      BY <2>1, <2>3
    <3>2. \A r \in DOMAIN runs' : runs'[r].intent = j =>
             /\ 1 <= runs'[r].attempt /\ runs'[r].attempt <= f.attempts
             /\ runs'[r].attempt < f.attempts => ~MayClaim(runs'[r])
      BY <2>1, <2>3, <3>1 DEF EntryOK
    <3>3. f.run # NoRun => f.run \in DOMAIN runs' /\ runs'[f.run].intent = j /\ runs'[f.run].attempt = f.attempts
      BY <2>1, <2>3 DEF EntryOK
    <3>4. UnsentIn(j, runs, ledger) => UnsentIn(j, runs', ledger)
      BY <2>1, <3>1 DEF UnsentIn
    <3> QED
      BY <2>3, <3>2, <3>3, <3>4 DEF EntryOK
  <2>4. ASSUME NEW f, f.attempts = e.attempts, f.state \in {"dispatching", "dispatched", "uncertain"}, f.run \in {n, NoRun}
        PROVE  EntryOK(i, f, runs', ledger)
    <3>1. \A r \in DOMAIN runs' : runs'[r].intent = i =>
             /\ 1 <= runs'[r].attempt /\ runs'[r].attempt <= f.attempts
             /\ runs'[r].attempt < f.attempts => ~MayClaim(runs'[r])
      <4> SUFFICES ASSUME NEW r \in DOMAIN runs', runs'[r].intent = i
                   PROVE  /\ 1 <= runs'[r].attempt /\ runs'[r].attempt <= f.attempts
                          /\ runs'[r].attempt < f.attempts => ~MayClaim(runs'[r])
        OBVIOUS
      <4>1. CASE r = n
        BY <1>1, <2>1, <2>4, <4>1
      <4>2. CASE r \in DOMAIN runs
        <5>1. runs[r].intent = i /\ runs'[r].attempt = runs[r].attempt /\ (MayClaim(runs'[r]) => MayClaim(runs[r]))
          BY <2>1, <4>2
        <5>2. 1 <= runs[r].attempt /\ runs[r].attempt <= e.attempts /\ ~MayClaim(runs[r])
          BY <1>1, <4>2, <5>1 DEF EntryOK, UnsentIn
        <5> QED
          BY <2>4, <5>1, <5>2
      <4> QED
        BY <2>1, <4>1, <4>2
    <3>2. f.run # NoRun => f.run \in DOMAIN runs' /\ runs'[f.run].intent = i /\ runs'[f.run].attempt = f.attempts
      BY <2>1, <2>4
    <3> QED
      BY <2>4, <3>1, <3>2 DEF EntryOK
  <2>5. \A j \in Intents : EntryOK(j, outbox[j], runs', ledger)
    <3> TAKE j \in Intents
    <3>1. CASE j = i
      BY <1>1, <2>4, <3>1
    <3>2. CASE j # i
      BY <2>3, <3>2 DEF SenderInv
    <3> QED
      BY <3>1, <3>2
  <2> DEFINE f == [e EXCEPT !.state = s, !.run = m]
  <2>6. m \in Nat /\ s \in Active \cup Terminal
    BY <1>3, <1>5, <2>1
  <2>7. f.state = s /\ f.run = m /\ f.attempts = e.attempts
    BY <1>4, <2>6
  <2>8. EntryOK(i, f, runs', ledger)
    <3> HIDE DEF f
    <3> QED
      BY <2>4, <2>7
  <2>9. DrainOK(drain', outbox, runs', ledger)
    BY <1>1, <2>a, <2>6, <2>8, Answered
  <2> QED
    BY <1>2, <2>2, <2>5, <2>9 DEF SenderInv
<1> QED
  BY <1>1, <1>6, <1>7 DEF Post

LEMMA RecordStep == ASSUME SenderInv, Record PROVE SenderInv'
<1> DEFINE i == drain.item
           next == [pc |-> "next", doc |-> drain.doc, todo |-> drain.todo]
<1>1. /\ drain.todo \subseteq DueIn(outbox) /\ i \in Intents /\ outbox[i].state = "dispatching"
      /\ drain.doc = [outbox EXCEPT ![i] = drain.doc[i]] /\ drain.doc[i] \in Entry
      /\ EntryOK(i, drain.doc[i], runs, ledger) /\ outbox \in [Intents -> Entry]
  BY DEF Record, SenderInv, DrainOK
<1> DEFINE doc == drain.doc
<1>2. /\ doc \in [Intents -> Entry]
      /\ \A j \in Intents : j # i => doc[j] = outbox[j]
  BY <1>1
<1>3. \A j \in Intents : EntryOK(j, doc[j], runs, ledger)
  BY <1>1, <1>2 DEF SenderInv
<1>4. drain.todo \subseteq DueIn(doc)
  BY <1>1, <1>2 DEF DueIn
<1>5. DrainOK(next, doc, runs, ledger)
  BY <1>4 DEF DrainOK
<1>6. Persist(doc, next) /\ runs' = runs /\ ledger' = ledger /\ activation' = activation
  BY DEF Record, Outside, Route
<1> HIDE DEF next, doc
<1> QED
  BY <1>2, <1>3, <1>5, <1>6, Persisted

LEMMA DrainEnds == ASSUME SenderInv, EndDrain \/ Die PROVE SenderInv'
<1>1. drain' = Idle /\ UNCHANGED <<outbox, activation, ledger, runs>>
  BY DEF EndDrain, Die, Outside, Route
<1>2. DrainOK(drain', outbox, runs, ledger)
  BY <1>1 DEF DrainOK, Idle
<1> QED
  BY <1>1, <1>2 DEF SenderInv

-----------------------------------------------------------------------------
(* The commands.                                                           *)

LEMMA ApproveStep == ASSUME SenderInv, NEW i \in Intents, Approve(i) PROVE SenderInv'
<1> DEFINE e == [Absent EXCEPT !.state = "queued", !.activation = activation]
<1>1. /\ drain.pc = "idle" /\ outbox[i] = Absent /\ outbox' = [outbox EXCEPT ![i] = e]
      /\ runs' = runs /\ ledger' = ledger /\ drain' = drain /\ activation' = activation
      /\ outbox \in [Intents -> Entry] /\ activation \in Nat /\ EntryOK(i, Absent, runs, ledger)
      /\ runs \in Seq(Run)
  BY DEF Approve, Route, SenderInv, RunsOK
<1>2. e \in Entry /\ e.state = "queued" /\ e.attempts = 0 /\ e.run = NoRun
  BY <1>1 DEF Entry, Absent, Active, NoRun
<1> HIDE DEF e
<1>3. ledger[i] = "none" /\ \A r \in DOMAIN runs : runs[r].intent # i
  <2>1. ledger[i] = "none"
    BY <1>1 DEF EntryOK, Absent
  <2>2. ASSUME NEW r \in DOMAIN runs, runs[r].intent = i PROVE FALSE
    <3>1. runs[r] \in Run
      BY <1>1
    <3>2. 1 <= runs[r].attempt /\ runs[r].attempt <= 0 /\ runs[r].attempt \in Nat
      BY <1>1, <2>2, <3>1 DEF EntryOK, Absent, Run
    <3> QED
      BY <3>2
  <2> QED
    BY <2>1, <2>2
<1>4. EntryOK(i, e, runs, ledger)
  BY <1>2, <1>3 DEF EntryOK, UnsentIn
<1>5. outbox' \in [Intents -> Entry] /\ \A j \in Intents : EntryOK(j, outbox'[j], runs, ledger)
  BY <1>1, <1>2, <1>4 DEF SenderInv
<1>6. DrainOK(drain, outbox', runs, ledger)
  BY <1>1 DEF DrainOK
<1> QED
  BY <1>1, <1>5, <1>6 DEF SenderInv

LEMMA OtherCommand ==
  ASSUME SenderInv, Configure \/ Activate \/ Deactivate \/ (\E i \in Intents : Withdraw(i))
  PROVE  SenderInv'
<1>1. /\ UNCHANGED <<outbox, ledger, runs, drain>>
      /\ activation' \in {activation, activation + 1}
  BY DEF Configure, Activate, Deactivate, Withdraw, RouteOnly, Route
<1> QED
  BY <1>1 DEF SenderInv

LEMMA SenderInvInit == Init => SenderInv
<1> SUFFICES ASSUME Init PROVE SenderInv
  OBVIOUS
<1>1. RunsOK(runs)
  BY DEF Init, RunsOK
<1>2. Absent \in Entry
  BY DEF Absent, Entry, NoRun
<1>3. \A i \in Intents : EntryOK(i, outbox[i], runs, ledger)
  BY DEF Init, EntryOK, Absent, NoRun
<1>4. DrainOK(drain, outbox, runs, ledger)
  BY DEF Init, Idle, DrainOK
<1> QED
  BY <1>1, <1>2, <1>3, <1>4 DEF Init, SenderInv, Phases

LEMMA SenderInvStep == SenderInv /\ [Next]_soVars => SenderInv'
<1> SUFFICES ASSUME SenderInv, [Next]_soVars PROVE SenderInv'
  OBVIOUS
<1>1. CASE UNCHANGED soVars
  BY <1>1 DEF soVars, SenderInv
<1>2. CASE DrainStep
  BY <1>2, PlanStep, JournalStep, PostStep, RecordStep, DrainEnds DEF DrainStep
<1>3. CASE Die
  BY <1>3, DrainEnds
<1>4. CASE Configure \/ Activate \/ Deactivate
  BY <1>4, OtherCommand
<1>5. CASE \E i \in Intents : Approve(i) \/ Withdraw(i)
  BY <1>5, ApproveStep, OtherCommand
<1>6. CASE \E r \in DOMAIN runs : RunStep(r)
  BY <1>6, SenderRunStep
<1> QED
  BY <1>1, <1>2, <1>3, <1>4, <1>5, <1>6 DEF Next

LEMMA SenderSafe == Spec => []SenderInv
  BY SenderInvInit, SenderInvStep, PTL DEF Spec

LEMMA UnsentHere == \A i : UnsentIn(i, runs, ledger) <=> Unsent(i)
  BY DEF UnsentIn, Unsent, CanClaim, MayClaim, RunsOf

(* For any number of intents, runs and drains: what is dispatched again or *)
(* given up has no run that can still claim, and no claim.                 *)
THEOREM NeverResentBlindly == Spec => []NoBlindResend
<1>1. SenderInv => NoBlindResend
  <2> SUFFICES ASSUME SenderInv PROVE NoBlindResend
    OBVIOUS
  <2>1. \A i \in Intents : outbox[i].state \in {"queued", "failed", "exhausted"} => Unsent(i)
    BY UnsentHere DEF SenderInv, EntryOK
  <2>2. drain.pc = "post" => Unsent(drain.item)
    BY UnsentHere DEF SenderInv, DrainOK
  <2> QED
    BY <2>1, <2>2 DEF NoBlindResend
<1> QED
  BY <1>1, SenderSafe, PTL

(* Every run is an attempt its entry counted: an intent has no more runs   *)
(* than attempts, whichever drains died.                                   *)
THEOREM EveryRunJournaled == Spec => []RunsAreJournaled
<1>1. SenderInv => RunsAreJournaled
  <2> SUFFICES ASSUME SenderInv, NEW i \in Intents
               PROVE  Cardinality(RunsOf(i)) <= outbox[i].attempts
    BY DEF RunsAreJournaled
  <2> DEFINE n == outbox[i].attempts
             f == [r \in RunsOf(i) |-> runs[r].attempt]
  <2>1. n \in Nat /\ runs \in Seq(Run) /\ EntryOK(i, outbox[i], runs, ledger)
    BY DEF SenderInv, RunsOK, Entry
  <2>2. \A r \in RunsOf(i) : r \in DOMAIN runs /\ runs[r] \in Run /\ runs[r].intent = i
    BY <2>1 DEF RunsOf
  <2>3. \A r \in RunsOf(i) : runs[r].attempt \in Nat /\ 1 <= runs[r].attempt /\ runs[r].attempt <= n
    <3> TAKE r \in RunsOf(i)
    <3>1. runs[r].attempt \in Nat
      BY <2>2 DEF Run
    <3> QED
      BY <2>1, <2>2, <3>1 DEF EntryOK
  <2>4. f \in [RunsOf(i) -> 1..n]
    BY <2>1, <2>3
  <2>5. \A q, r \in RunsOf(i) : f[q] = f[r] => q = r
    BY <2>2 DEF SenderInv, RunsOK
  <2> HIDE DEF f, n
  <2>6. f \in Injection(RunsOf(i), 1..n)
    BY <2>4, <2>5 DEF Injection, IsInjective
  <2>7. IsFiniteSet(1..n) /\ Cardinality(1..n) = n
    <3>1. 1 \in Int /\ n \in Int
      BY <2>1
    <3>2. IsFiniteSet(1..n) /\ Cardinality(1..n) = IF 1 > n THEN 0 ELSE n - 1 + 1
      BY <3>1, FS_Interval
    <3> QED
      BY <3>2, <2>1
  <2>8. Cardinality(RunsOf(i)) <= Cardinality(1..n)
    BY <2>6, <2>7, FS_Injection
  <2> QED
    BY <2>7, <2>8 DEF n
<1> QED
  BY <1>1, SenderSafe, PTL
=============================================================================
