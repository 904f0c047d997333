---------------------------- MODULE StagedMerge ----------------------------
(***************************************************************************)
(* The shared document a Stage-1 source works on, the edits its writers    *)
(* make (src/state.py), and the three-way merge by which the main thread   *)
(* brings one worker's private copy into the live document                 *)
(* (src/orchestrator/staging.py): base is the document both started from.  *)
(*                                                                         *)
(* A merge yields the set of its results: one document, or none when it is *)
(* a StagingConflict, of which nothing is applied.                         *)
(***************************************************************************)
EXTENDS Integers, SequencesExt

CONSTANTS
    Fields,     \* scalar paths of the document (counters, last-seen stamps)
    Cap,        \* ERRORS_CAP: rows the errors log keeps
    Window      \* CANDIDATES_WINDOW_DAYS

ASSUME MergeAssumption == Cap \in Nat \ {0} /\ Window \in Nat

(* errors: a capped log of unique rows.  seen: the keyed window log of     *)
(* candidates.  reports: current_run's source rows.  queue: triage rows.   *)
(* effects: what was done outside the document on its behalf.              *)
EmptyDocument == [errors |-> <<>>, seen |-> <<>>, field |-> [f \in Fields |-> 0],
                  reports |-> <<>>, queue |-> <<>>, effects |-> <<>>]

LastRows(n, rows) == SubSeq(rows, Max({1, Len(rows) - n + 1}), Len(rows))

(* The rows at these positions, in their order. *)
Survivors(rows, at) ==
    LET chosen[i \in 0..Len(rows)] ==
            IF i = 0 THEN <<>>
            ELSE IF i \in at THEN Append(chosen[i - 1], rows[i]) ELSE chosen[i - 1]
    IN  chosen[Len(rows)]

KeysIn(rows) == {r.key : r \in ToSet(rows)}

-----------------------------------------------------------------------------
(* The writers.  An edit names its kind and what it writes.                *)

LogError(doc, row) == [doc EXCEPT !.errors = LastRows(Cap, Append(@, row))]

(* The rows after this one was seen on this day: it is last, and what is    *)
(* too old by then is gone.                                                 *)
Observed(rows, key, day) ==
    Append(Survivors(rows, {i \in DOMAIN rows : rows[i].key # key /\ rows[i].day + Window >= day}),
           [key |-> key, day |-> day])

RecordCandidate(doc, key, day) == [doc EXCEPT !.seen = Observed(@, key, day)]

AddSourceRun(doc, row) == [doc EXCEPT !.reports = Append(@, row)]

EditKinds == {"error", "observe", "bump", "enqueue", "defer", "report"}

Edited(doc, e) ==
    CASE e.kind = "error"   -> LogError(doc, e.row)
      [] e.kind = "observe" -> RecordCandidate(doc, e.key, e.day)
      [] e.kind = "bump"    -> [doc EXCEPT !.field[e.field] = @ + 1]
      [] e.kind = "enqueue" -> [doc EXCEPT !.queue = Append(@, e.row)]
      [] e.kind = "defer"   -> [doc EXCEPT !.effects = Append(@, e.row)]
      [] e.kind = "report"  -> AddSourceRun(doc, e.row)

(* The document after these edits, made one after the other. *)
Replay(edits, doc) ==
    LET made[n \in 0..Len(edits)] == IF n = 0 THEN doc ELSE Edited(made[n - 1], edits[n])
    IN  made[Len(edits)]

-----------------------------------------------------------------------------
(* How one side can have turned base into other by edits of a log: the     *)
(* base positions it keeps, and the rows it appended.                      *)

KeptHead(base, other) ==
    LET kept[i \in 0..Len(base)] ==
            IF i = 0 THEN {}
            ELSE LET before == kept[i - 1]
                     next == Cardinality(before) + 1
                 IN  IF next <= Len(other) /\ other[next] = base[i] THEN before \cup {i} ELSE before
    IN  kept[Len(base)]

KeptThenAppended(base, other) ==
    LET kept == KeptHead(base, other)
    IN [kept |-> kept, tail |-> SubSeq(other, Cardinality(kept) + 1, Len(other))]

LogShape(base, other) ==
    {e \in {KeptThenAppended(base, other)} : base = <<>> \/ e.kept # {}}

(* Mutant of WindowEdit: pruning is judged by the day the work began. *)
MutantWindowAtStart(base, other, since, until) ==
    {e \in {KeptThenAppended(base, other)} :
        \A i \in DOMAIN base \ e.kept :
            base[i].key \in KeysIn(e.tail) \/ base[i].day + Window < since}

(* What record_candidate_observation can have done between two days. *)
WindowEdit(base, other, since, until) ==
    {e \in {KeptThenAppended(base, other)} :
        LET again == KeysIn(e.tail)
        IN /\ Cardinality(again) = Len(e.tail)
           /\ \A i \in e.kept : base[i].key \notin again
           /\ \A i \in DOMAIN base \ e.kept : base[i].key \in again \/ base[i].day + Window < until
           /\ \A r \in ToSet(other) : r.day + Window >= since}

(* What log_error can have done: drop from the head only, and only past Cap. *)
CappedEdit(base, other) ==
    LET Suffix(d) == SubSeq(base, d + 1, Len(base))
        dropped == Min({d \in 0..Len(base) : IsPrefix(Suffix(d), other)})
        tail == SubSeq(other, Len(base) - dropped + 1, Len(other))
    IN {e \in {[dropped |-> dropped, tail |-> tail]} :
            /\ tail # <<>>
            /\ Len(other) <= Cap
            /\ dropped > 0 => Len(other) = Cap}

-----------------------------------------------------------------------------
(* The merge of each kind of path: untouched by the worker, touched by it  *)
(* alone, or touched by both.                                              *)

Merge(base, staged, live, both) ==
    IF staged = base THEN {live} ELSE IF live = base THEN {staged} ELSE both

MergeLogs(base, mine, theirs) ==
    {Survivors(base, m.kept \cap t.kept) \o t.tail \o m.tail : m \in mine, t \in theirs}

(* Mutant of MergeGeneric: what the worker wrote replaces what others wrote. *)
MutantLastWriterWins(base, staged, live) == IF staged = base THEN {live} ELSE {staged}

MergeGeneric(base, staged, live) ==
    Merge(base, staged, live, MergeLogs(base, LogShape(base, staged), LogShape(base, live)))

(* Of a key both sides appended only this worker's row stays, last. *)
MergeWindowed(base, staged, live, worker, others) ==
    Merge(base, staged, live,
          {Survivors(base, m.kept \cap t.kept)
              \o Survivors(t.tail, {i \in DOMAIN t.tail : t.tail[i].key \notin KeysIn(m.tail)})
              \o m.tail :
           m \in WindowEdit(base, staged, worker.since, worker.until),
           t \in WindowEdit(base, live, others.since, others.until)})

(* Mutant of MergeCapped: the merged log is not capped again. *)
MutantMergeUncapped(base, staged, live) ==
    Merge(base, staged, live,
          {SubSeq(base, Max({m.dropped, t.dropped}) + 1, Len(base)) \o t.tail \o m.tail :
           m \in CappedEdit(base, staged), t \in CappedEdit(base, live)})

MergeCapped(base, staged, live) ==
    Merge(base, staged, live,
          {LastRows(Cap, SubSeq(base, Max({m.dropped, t.dropped}) + 1, Len(base)) \o t.tail \o m.tail) :
           m \in CappedEdit(base, staged), t \in CappedEdit(base, live)})

(* Mutant of MergeFields: equal changes are no conflict. *)
MutantEqualIsNoConflict(base, staged, live) ==
    {f \in {[k \in Fields |-> IF staged[k] = base[k] THEN live[k] ELSE staged[k]]} :
        \A k \in Fields : staged[k] \in {base[k], live[k]} \/ live[k] = base[k]}

(* A field both changed is a conflict, even with equal values. *)
MergeFields(base, staged, live) ==
    {f \in {[k \in Fields |-> IF staged[k] = base[k] THEN live[k] ELSE staged[k]]} :
        \A k \in Fields : staged[k] = base[k] \/ live[k] = base[k]}

(* Queue rows and deferred effects of a worker only ever follow the live ones. *)
NewRows(base, staged) == SubSeq(staged, Len(base) + 1, Len(staged))

(* promote: all paths of the document, or nothing. *)
MergeDocuments(base, staged, live, worker, others) ==
    {[errors |-> e, seen |-> s, field |-> f, reports |-> r,
      queue |-> live.queue \o NewRows(base.queue, staged.queue),
      effects |-> live.effects \o NewRows(base.effects, staged.effects)] :
        e \in MergeCapped(base.errors, staged.errors, live.errors),
        s \in MergeWindowed(base.seen, staged.seen, live.seen, worker, others),
        f \in MergeFields(base.field, staged.field, live.field),
        r \in MergeGeneric(base.reports, staged.reports, live.reports)}
=============================================================================
