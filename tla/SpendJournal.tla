---------------------------- MODULE SpendJournal ----------------------------
(***************************************************************************)
(* The append-only spending journal of src/commands/spend_journal.py: a    *)
(* paid model call is reserved against three allowances before it is       *)
(* dispatched, and every hold stays charged until evidence settles or      *)
(* releases it.  Each operation is one authority write transaction (the    *)
(* caller commits or rolls back the whole of it), so each is one action; a *)
(* refused call (_require) changes nothing.                                *)
(*                                                                         *)
(* A day is a natural number and a month is DaysPerMonth of them.  Callers *)
(* bring their own clock: an operation takes any `now' that is not before  *)
(* the latest recorded time.                                               *)
(***************************************************************************)
EXTENDS Integers, FiniteSets, FiniteSetsExt

CONSTANTS
    Intents,        \* intent_id values
    Jobs,           \* job_id values
    Amounts,        \* micro-USD amounts callers reserve and settle
    Evidence,       \* evidence_sha256 values
    Limits,         \* limit records an operator may configure
    MaxIntents,     \* MAX_INTENTS
    MaxDay,         \* bound: the last day a caller's clock may show
    DaysPerMonth    \* days of a calendar month

ASSUME SpendAssumption ==
    /\ Amounts \subseteq Nat
    /\ MaxIntents \in Nat
    /\ MaxDay \in Nat
    /\ DaysPerMonth \in Nat \ {0}
    /\ Limits \subseteq [daily : Nat, monthly : Nat, perJob : Nat]

VARIABLES
    limits,     \* spend_limits: a set with at most one limit record
    rec,        \* spend_intents joined with their last spend_events row
    latest,     \* MAX(recorded_at) over the three tables
    grants      \* ghost: how often dispatch answered dispatch_granted

spendVars == <<limits, rec, latest, grants>>

None == "none"

(***************************************************************************)
(* The journal's view of one intent, as _records returns it.  "absent" is  *)
(* an identifier with no row.                                              *)
(***************************************************************************)
States == {"absent", "reserved", "dispatched", "uncertain", "released", "settled"}

Record == [state : States, job : Jobs \cup {None}, reserve : Nat,
           reservedAt : Nat, lastAt : Nat,
           settled : Nat, evidence : Evidence \cup {None}]

Absent == [state |-> "absent", job |-> None, reserve |-> 0,
           reservedAt |-> 0, lastAt |-> 0, settled |-> 0, evidence |-> None]

SpendTypeOK ==
    /\ limits \subseteq Limits
    /\ Cardinality(limits) <= 1
    /\ rec \in [Intents -> Record]
    /\ latest \in 0..MaxDay
    /\ grants \in [Intents -> Nat]

-----------------------------------------------------------------------------
(* The totals of _totals.                                                  *)

Month(day) == day \div DaysPerMonth

Recorded == {i \in Intents : rec[i].state # "absent"}

Held(r) == r.state \in {"reserved", "dispatched", "uncertain"}

(* What a record is charged at: its reserve while held, then its settlement. *)
Charge(r) == IF Held(r) THEN r.reserve ELSE r.settled

Charged == {i \in Recorded : rec[i].state # "released"}

Overruns == {i \in Intents : rec[i].state = "settled" /\ rec[i].settled > rec[i].reserve}

(* Mutant of CountsToday: a hold leaves the day's total when the day ends. *)
MutantHoldExpires(r, now) == now \in {r.reservedAt, r.lastAt}

CountsToday(r, now) == Held(r) \/ now \in {r.reservedAt, r.lastAt}

CountsThisMonth(r, now) ==
    Held(r) \/ Month(now) \in {Month(r.reservedAt), Month(r.lastAt)}

Total(S) == MapThenSumSet(LAMBDA i : Charge(rec[i]), S)

Daily(now) == Total({i \in Charged : CountsToday(rec[i], now)})

Monthly(now) == Total({i \in Charged : CountsThisMonth(rec[i], now)})

JobTotal(job) == Total({i \in Charged : rec[i].job = job})

-----------------------------------------------------------------------------
Init ==
    /\ limits = {}
    /\ rec = [i \in Intents |-> Absent]
    /\ latest = 0
    /\ grants = [i \in Intents |-> 0]

(* Every write refuses a clock behind the journal's own latest time. *)
ClockAdvances(now) == now \in latest..MaxDay

Configured == limits # {}

(* The allowances are configured once; a second configuration must be equal. *)
Configure(l, now) ==
    /\ ClockAdvances(now)
    /\ ~Configured
    /\ limits' = {l}
    /\ latest' = now
    /\ UNCHANGED <<rec, grants>>

AllowanceLeft(job, amount, now) ==
    \A l \in limits :
        /\ Daily(now) + amount <= l.daily
        /\ Monthly(now) + amount <= l.monthly
        /\ JobTotal(job) + amount <= l.perJob

Reserve(i, job, amount, now) ==
    /\ ClockAdvances(now)
    /\ Configured
    /\ amount > 0
    /\ rec[i].state = "absent"
    /\ Cardinality(Recorded) < MaxIntents
    /\ Overruns = {}
    /\ AllowanceLeft(job, amount, now)
    /\ rec' = [rec EXCEPT ![i] = [Absent EXCEPT
                   !.state = "reserved", !.job = job, !.reserve = amount,
                   !.reservedAt = now, !.lastAt = now]]
    /\ latest' = now
    /\ UNCHANGED <<limits, grants>>

(* _event: append one event, which becomes the record's state. *)
Event(i, state, now) ==
    /\ rec' = [rec EXCEPT ![i] = [@ EXCEPT !.state = state, !.lastAt = now]]
    /\ latest' = now

(* Mutant of Dispatch: the overrun latch is not consulted. *)
MutantDispatchPastOverrun(i, now) ==
    /\ ClockAdvances(now)
    /\ rec[i].state = "reserved"
    /\ Event(i, "dispatched", now)
    /\ grants' = [grants EXCEPT ![i] = @ + 1]
    /\ UNCHANGED limits

(* Only a reservation is granted; any later call answers granted = FALSE. *)
Dispatch(i, now) ==
    /\ ClockAdvances(now)
    /\ rec[i].state = "reserved"
    /\ Overruns = {}
    /\ Event(i, "dispatched", now)
    /\ grants' = [grants EXCEPT ![i] = @ + 1]
    /\ UNCHANGED limits

Uncertain(i, now) ==
    /\ ClockAdvances(now)
    /\ rec[i].state = "dispatched"
    /\ Event(i, "uncertain", now)
    /\ UNCHANGED <<limits, grants>>

(* Mutant of Release: a dispatched hold can be released as if never sent. *)
MutantReleaseDispatched(i, now) ==
    /\ ClockAdvances(now)
    /\ rec[i].state \in {"reserved", "dispatched"}
    /\ Event(i, "released", now)
    /\ UNCHANGED <<limits, grants>>

Release(i, now) ==
    /\ ClockAdvances(now)
    /\ rec[i].state = "reserved"
    /\ Event(i, "released", now)
    /\ UNCHANGED <<limits, grants>>

(* The provider's bill may exceed the reserve: it is recorded all the same. *)
Settle(i, amount, evidence, now) ==
    /\ ClockAdvances(now)
    /\ rec[i].state \in {"dispatched", "uncertain"}
    /\ rec' = [rec EXCEPT ![i] = [@ EXCEPT !.state = "settled", !.lastAt = now,
                                           !.settled = amount, !.evidence = evidence]]
    /\ latest' = now
    /\ UNCHANGED <<limits, grants>>

Next ==
    \E now \in 0..MaxDay :
        \/ \E l \in Limits : Configure(l, now)
        \/ \E i \in Intents :
            \/ \E job \in Jobs, amount \in Amounts : Reserve(i, job, amount, now)
            \/ Dispatch(i, now)
            \/ Uncertain(i, now)
            \/ Release(i, now)
            \/ \E amount \in Amounts, e \in Evidence : Settle(i, amount, e, now)

Spec == Init /\ [][Next]_spendVars

-----------------------------------------------------------------------------
(* Properties.                                                             *)

(* The part of a charge the reservation foresaw.                           *)
Foreseen(S) ==
    MapThenSumSet(LAMBDA i : IF Held(rec[i]) \/ rec[i].settled > rec[i].reserve
                             THEN rec[i].reserve ELSE rec[i].settled, S)

(* Whatever the order of holds, releases and late bills, at every time the *)
(* journal may next be asked at, the foreseen part of the day's, the       *)
(* month's and each job's charges fits the configured allowance (reserve's *)
(* checks).  A bill above its reserve is the only way past an allowance.   *)
ExposureWithinAllowance ==
    \A l \in limits, now \in latest..MaxDay :
        /\ Foreseen({i \in Charged : CountsToday(rec[i], now)}) <= l.daily
        /\ Foreseen({i \in Charged : CountsThisMonth(rec[i], now)}) <= l.monthly
        /\ \A job \in Jobs : Foreseen({i \in Charged : rec[i].job = job}) <= l.perJob

(* One permission to call the provider per intent, and only an intent whose *)
(* money is still charged holds one: a released intent was never granted.   *)
GrantedOnceAndCharged ==
    \A i \in Intents :
        /\ grants[i] <= 1
        /\ grants[i] = 1 <=> rec[i].state \in {"dispatched", "uncertain", "settled"}

(* The overrun latch: from the step that records a bill above its reserve  *)
(* on, no intent is reserved or granted, whatever else the journal does.   *)
OverrunStopsSpending ==
    [][Overruns # {} => /\ Overruns \subseteq Overruns'
                        /\ Recorded' = Recorded
                        /\ grants' = grants]_spendVars
=============================================================================
