------------------------- MODULE CommandRouteProofs -------------------------
(***************************************************************************)
(* Proofs about the serialized command route, for any drafts, commands,    *)
(* resubmissions, limits and bounds: types, that nothing is dropped, that  *)
(* a command is bound to its activation, and that the route carries out    *)
(* what operators are promised.                                            *)
(*                                                                         *)
(* All of them follow from RouteInv: what a Gist recorded it keeps until   *)
(* the retention is over, when the runs it may still be of are out of the  *)
(* scan; so what a drain fetched without a result was never recorded.      *)
(* What the commands of one drain do together is Done, by induction over   *)
(* the documents it passes through.                                        *)
(***************************************************************************)
EXTENDS CommandRoute, FiniteSetTheorems, WellFoundedInduction, TLAPS

Modes == {"legacy", "serialized"}

Outcomes == {"none", "applied", "refused"}

Views == UNION {[T -> [rev : {0}, dec : Nat]] : T \in SUBSET Drafts}

Command == [id : Nat, ask : Asks, views : Views, activation : Nat, expires : Nat]

RunRecord == [stage : {"absent", "dispatched", "live", "over", "deleted"}, created : Nat]

GistRecord ==
    [results : [Ids -> Outcomes], taken : SUBSET Nat, ended : SUBSET Nat, settled : SUBSET Runs,
     dec : [Drafts -> Nat], route : [mode : Modes, activation : Nat]]

FeedbackRecord == [results : [Ids -> Outcomes], taken : SUBSET Nat, ended : SUBSET Nat]

-----------------------------------------------------------------------------
(* The inductive invariant, of the commands C, runs R, state Gist G and     *)
(* feedback Gist F on day D.                                                *)

(* Command k, sealed from copies and under an activation the Gist had. *)
CommandOK(k, x, G) ==
    /\ x.id = k
    /\ x.ask.kind = "draft" <=> x.ask.targets # {}
    /\ DOMAIN x.views = x.ask.targets
    /\ \A d \in DOMAIN x.views : /\ d \in Drafts /\ x.views[d].dec <= G.dec[d]
                                 /\ x.views[d].dec \in Nat
                                 /\ x.views[d] = [rev |-> 0, dec |-> x.views[d].dec]
    /\ x.activation \in {0} \cup G.taken

CommandsOK(C, G) ==
    /\ C \in Seq(Command)
    /\ DOMAIN C \subseteq Ids
    /\ \A k \in DOMAIN C : CommandOK(k, C[k], G)

(* What a store recorded of a command it keeps until the retention is over. *)
StoreOK(S, C, D) ==
    /\ S.taken \cup S.ended \subseteq DOMAIN C
    /\ S.taken \cap S.ended = {}
    /\ \A c \in Ids : S.results[c] # "none" => c \in S.taken \cup S.ended
    /\ \A c \in S.taken \cup S.ended : S.results[c] = "none" => C[c].expires + Retention < D

GistOK(G, C, D) ==
    /\ G \in GistRecord
    /\ StoreOK(G, C, D)
    /\ \A c \in G.taken \cup G.ended : C[c].ask.kind # "feedback"
    /\ G.route.activation \in {0} \cup G.taken

FeedbackOK(F, C, D) ==
    /\ F \in FeedbackRecord
    /\ StoreOK(F, C, D)
    /\ \A c \in F.taken \cup F.ended : C[c].ask.kind = "feedback"

Known(G, F) == G.taken \cup G.ended \cup F.taken \cup F.ended

RunsOK(R, C, G, F) ==
    /\ R \in [Runs -> RunRecord]
    /\ \A r \in Runs :
          /\ R[r].stage # "absent" =>
                CommandOf(r) \in DOMAIN C /\ R[r].created < C[CommandOf(r)].expires
          /\ R[r].stage = "deleted" => CommandOf(r) \in Known(G, F)
          /\ r \in G.settled => R[r].stage \in {"deleted", "over"}

ResultOf(c, C, G, F) == IF C[c].ask.kind = "feedback" THEN F.results[c] ELSE G.results[c]

(* What a drain fetched and has no result of was never recorded: had it been *)
(* and its result dropped, its runs would have left the horizon.             *)
DrainOK(P, R, C, G, F) ==
    \/ P.pc = "idle"
    \/ /\ P.pc \in {"fetched", "feedback"}
       /\ P.variable \in Modes
       /\ \A r \in P.entries : r \in Runs /\ R[r].stage = "live"
       /\ \A r \in P.empty : r \in Runs /\ R[r].stage \in {"deleted", "over"}
       /\ P.pc = "fetched" => \A r \in P.entries :
             ResultOf(CommandOf(r), C, G, F) = "none" => CommandOf(r) \notin Known(G, F)
       /\ P.pc = "feedback" => \A c \in P.todo :
             c \in DOMAIN C /\ C[c].ask.kind = "feedback" /\ c \notin Known(G, F)
       /\ P.pc = "feedback" =>
             P = [pc |-> "feedback", variable |-> P.variable, todo |-> P.todo,
                  entries |-> P.entries, empty |-> P.empty]

RouteInv ==
    /\ day \in 0..MaxDay /\ variable \in Modes /\ faults \in 0..MaxFaults
    /\ CommandsOK(commands, gist)
    /\ GistOK(gist, commands, day)
    /\ FeedbackOK(feedback, commands, day)
    /\ RunsOK(runs, commands, gist, feedback)
    /\ DrainOK(drain, runs, commands, gist, feedback)

-----------------------------------------------------------------------------
(* One command.                                                            *)

LEMMA IdsAreNumbers == Ids \subseteq Nat \ {0}
<1> SUFFICES ASSUME NEW c \in Ids PROVE c \in Nat \ {0}
  OBVIOUS
<1>1. PICK s \in Scripts : c \in DOMAIN s
  BY DEF Ids
<1>2. s \in Seq(Asks)
  BY RouteAssumption
<1> QED
  BY <1>1, <1>2

LEMMA FiniteIds == IsFiniteSet(Ids) /\ Cardinality(Ids) \in Nat
<1> DEFINE f == [s \in Scripts |-> DOMAIN s]
           D == {DOMAIN s : s \in Scripts}
<1>1. IsFiniteSet(D)
  <2>1. f \in Surjection(Scripts, D)
    BY DEF Surjection
  <2> HIDE DEF f, D
  <2> QED
    BY <2>1, FS_Surjection, RouteAssumption
<1>2. \A x \in D : IsFiniteSet(x)
  <2> SUFFICES ASSUME NEW s \in Scripts PROVE IsFiniteSet(DOMAIN s)
    OBVIOUS
  <2>1. s \in Seq(Asks)
    BY RouteAssumption
  <2>2. DOMAIN s = 1..Len(s) /\ Len(s) \in Nat
    BY <2>1
  <2>3. 1 \in Int /\ Len(s) \in Int
    BY <2>2
  <2>4. IsFiniteSet(1..Len(s))
    BY <2>3, FS_Interval
  <2> QED
    BY <2>2, <2>4
<1>3. Ids = UNION D
  BY DEF Ids
<1> HIDE DEF D
<1>4. IsFiniteSet(UNION D)
  BY <1>1, <1>2, FS_UNION
<1> QED
  BY <1>3, <1>4, FS_CardinalityType

(* Q is the document S with outcome x of command c recorded. *)
Noted(S, Q, c, x) ==
    /\ Q.results[c] = x /\ \A b \in Ids \ {c} : Q.results[b] = S.results[b]
    /\ Q.taken = IF x = "applied" THEN S.taken \cup {c} ELSE S.taken
    /\ Q.ended = IF x = "refused" THEN S.ended \cup {c} ELSE S.ended

LEMMA RecordedGist ==
  ASSUME NEW S \in GistRecord, NEW c \in Ids, NEW x \in {"applied", "refused"}
  PROVE  /\ Record(S, c, x) \in GistRecord
         /\ Noted(S, Record(S, c, x), c, x)
         /\ Record(S, c, x).settled = S.settled
         /\ Record(S, c, x).dec = S.dec
         /\ Record(S, c, x).route = S.route
<1>1. c \in Nat
  BY IdsAreNumbers
<1> QED
  BY <1>1 DEF Record, Noted, GistRecord, Outcomes

LEMMA RecordedFeedback ==
  ASSUME NEW S \in FeedbackRecord, NEW c \in Ids, NEW x \in {"applied", "refused"}
  PROVE  Record(S, c, x) \in FeedbackRecord /\ Noted(S, Record(S, c, x), c, x)
<1>1. c \in Nat
  BY IdsAreNumbers
<1> QED
  BY <1>1 DEF Record, Noted, FeedbackRecord, Outcomes

(* What applying command c, which x is, does to the document Q. *)
Applies(Q, c) ==
    /\ Passes(c, Q.route)
    /\ IF IsControl(commands[c].ask.kind) THEN ControlApplies(commands[c].ask.kind, Q.route)
                                          ELSE Matches(c, Q.dec)

Advanced(Q, c) ==
    [d \in Drafts |-> IF d \in DOMAIN commands[c].views THEN Q.dec[d] + 1 ELSE Q.dec[d]]

LEMMA ConsumedFacts ==
  ASSUME NEW Q \in GistRecord, NEW c \in Ids, NEW declined
  PROVE  LET P == Consumed(Q, c, declined)
         IN  /\ P \in GistRecord /\ P.settled = Q.settled
             /\ P.results[c] # "none" /\ \A b \in Ids \ {c} : P.results[b] = Q.results[b]
             /\ \/ /\ P.taken = Q.taken /\ P.ended = Q.ended \cup {c}
                   /\ P.dec = Q.dec /\ P.route = Q.route
                \/ /\ P.taken = Q.taken \cup {c} /\ P.ended = Q.ended
                   /\ Applies(Q, c)
                   /\ IF IsControl(commands[c].ask.kind)
                      THEN P.dec = Q.dec /\ P.route.activation = c
                      ELSE P.dec = Advanced(Q, c) /\ P.route = Q.route
<1> DEFINE k == commands[c]
           control == [Q EXCEPT !.route = [mode |-> ModeOf(k.ask.kind), activation |-> c]]
           decided == [Q EXCEPT !.dec = [d \in Drafts |-> IF d \in DOMAIN k.views THEN @[d] + 1 ELSE @[d]]]
           new == IF IsControl(k.ask.kind) THEN control ELSE decided
           applies == Applies(Q, c) /\ c \notin declined
<1>1. Consumed(Q, c, declined) = IF applies THEN Record(new, c, "applied") ELSE Record(Q, c, "refused")
  BY DEF Consumed, Applies
<1>2. c \in Nat
  BY IdsAreNumbers
<1>3. /\ control \in GistRecord /\ control.results = Q.results /\ control.taken = Q.taken
      /\ control.ended = Q.ended /\ control.settled = Q.settled /\ control.dec = Q.dec
      /\ control.route.activation = c
  BY <1>2 DEF GistRecord, ModeOf, Modes
<1>4. /\ decided \in GistRecord /\ decided.results = Q.results /\ decided.taken = Q.taken
      /\ decided.ended = Q.ended /\ decided.settled = Q.settled /\ decided.dec = Advanced(Q, c)
      /\ decided.route = Q.route
  BY DEF GistRecord, Advanced
<1>5. CASE ~applies
  <2>1. Consumed(Q, c, declined) = Record(Q, c, "refused")
    BY <1>1, <1>5
  <2> DEFINE P == Record(Q, c, "refused")
  <2>3. P \in GistRecord /\ Noted(Q, P, c, "refused") /\ P.settled = Q.settled /\ P.dec = Q.dec /\ P.route = Q.route
    BY RecordedGist
  <2> HIDE DEF applies, control, decided, P
  <2> QED
    BY <2>1, <2>3 DEF Noted, P
<1>6. CASE applies /\ IsControl(k.ask.kind)
  <2>1. Consumed(Q, c, declined) = Record(control, c, "applied")
    BY <1>1, <1>6
  <2>2. Applies(Q, c)
    BY <1>6
  <2> HIDE DEF applies, control, decided
  <2> DEFINE P == Record(control, c, "applied")
  <2>3. P \in GistRecord /\ Noted(control, P, c, "applied") /\ P.settled = control.settled
        /\ P.dec = control.dec /\ P.route = control.route
    BY <1>3, RecordedGist
  <2> HIDE DEF P
  <2> QED
    BY <2>1, <2>2, <2>3, <1>3, <1>6 DEF Noted, P
<1>7. CASE applies /\ ~IsControl(k.ask.kind)
  <2>1. Consumed(Q, c, declined) = Record(decided, c, "applied")
    BY <1>1, <1>7
  <2>2. Applies(Q, c)
    BY <1>7
  <2> HIDE DEF applies, control, decided
  <2> DEFINE P == Record(decided, c, "applied")
  <2>3. P \in GistRecord /\ Noted(decided, P, c, "applied") /\ P.settled = decided.settled
        /\ P.dec = decided.dec /\ P.route = decided.route
    BY <1>4, RecordedGist
  <2> HIDE DEF P
  <2> QED
    BY <2>1, <2>2, <2>3, <1>4, <1>7 DEF Noted, P
<1> QED
  BY <1>5, <1>6, <1>7

-----------------------------------------------------------------------------
(* A drain's commands, one after the other.                                *)

(* What may be consumed from the document s: commands sealed from its past, *)
(* of which it has recorded nothing.                                        *)
MayConsume(s, items) ==
    /\ s \in GistRecord
    /\ items \subseteq Ids \cap DOMAIN commands
    /\ items \cap (s.taken \cup s.ended) = {}
    /\ \A c \in items : CommandOK(c, commands[c], s)

Control(c) == IsControl(commands[c].ask.kind)

(* What became of the commands S since the document s: each has an outcome; *)
(* those taken were each made on exactly the copies of s, of which no two    *)
(* share one; and a decision was made under the route of s, before any       *)
(* change of the route.                                                      *)
Done(s, Q, S) ==
    LET new == Q.taken \ s.taken
    IN  /\ Q \in GistRecord /\ Q.settled = s.settled
        /\ \A c \in S : Q.results[c] # "none"
        /\ \A c \in Ids \ S : Q.results[c] = s.results[c]
        /\ s.taken \subseteq Q.taken /\ s.ended \subseteq Q.ended
        /\ new \subseteq S /\ Q.ended \ s.ended \subseteq S
        /\ S \subseteq Q.taken \cup Q.ended
        /\ new \cap Q.ended = {}
        /\ IF \E c \in new : Control(c) THEN Q.route.activation \in new ELSE Q.route = s.route
        /\ \A d \in Drafts : Q.dec[d] >= s.dec[d]
        /\ \A d \in Drafts : Q.dec[d] # s.dec[d] => \E c \in new : d \in DOMAIN commands[c].views
        /\ \A c \in new : \A d \in DOMAIN commands[c].views :
              commands[c].views[d].dec = s.dec[d] /\ Q.dec[d] > s.dec[d]
        /\ \A b, c \in new : b # c => DOMAIN commands[b].views \cap DOMAIN commands[c].views = {}
        /\ \A c \in new : Control(c) \/
              /\ RouteActive(s.route, drain.variable) /\ commands[c].activation = s.route.activation
              /\ \A k \in new : Control(k) => c < k

LEMMA NothingDone == ASSUME NEW s \in GistRecord PROVE Done(s, s, {})
  BY DEF Done, GistRecord

(* A control has no views. *)
LEMMA ControlSeesNothing ==
  ASSUME NEW c, NEW s, CommandOK(c, commands[c], s), Control(c)
  PROVE  DOMAIN commands[c].views = {}
  BY DEF CommandOK, Control, IsControl

LEMMA OneMore ==
  ASSUME NEW s, NEW items, MayConsume(s, items), NEW S \in SUBSET items, NEW Q, Done(s, Q, S),
         NEW c \in items, \A b \in S : b < c, NEW declined
  PROVE  Done(s, Consumed(Q, c, declined), S \cup {c})
<1> DEFINE P == Consumed(Q, c, declined)
           old == Q.taken \ s.taken
           new == P.taken \ s.taken
<1>0. /\ c \in Ids /\ c \in Nat /\ c # 0 /\ c \notin S /\ c \notin s.taken /\ c \notin s.ended
      /\ S \subseteq Ids /\ s \in GistRecord /\ c \in DOMAIN commands
  <2>1. /\ c \in Ids /\ c \notin s.taken /\ c \notin s.ended
        /\ S \subseteq Ids /\ s \in GistRecord /\ c \in DOMAIN commands
    BY DEF MayConsume
  <2>2. c \in Nat /\ c # 0
    BY <2>1, IdsAreNumbers
  <2> QED
    BY <2>1, <2>2
<1>1. /\ Q \in GistRecord /\ Q.settled = s.settled
      /\ \A b \in S : Q.results[b] # "none"
      /\ \A b \in Ids \ S : Q.results[b] = s.results[b]
      /\ s.taken \subseteq Q.taken /\ s.ended \subseteq Q.ended
      /\ old \subseteq S /\ Q.ended \ s.ended \subseteq S
      /\ S \subseteq Q.taken \cup Q.ended
      /\ old \cap Q.ended = {}
  BY DEF Done
<1>2. /\ \A d \in Drafts : Q.dec[d] >= s.dec[d]
      /\ \A d \in Drafts : Q.dec[d] # s.dec[d] => \E b \in old : d \in DOMAIN commands[b].views
      /\ \A b \in old : \A d \in DOMAIN commands[b].views :
            commands[b].views[d].dec = s.dec[d] /\ Q.dec[d] > s.dec[d]
      /\ \A a, b \in old : a # b => DOMAIN commands[a].views \cap DOMAIN commands[b].views = {}
  BY DEF Done
<1>3. /\ IF \E b \in old : Control(b) THEN Q.route.activation \in old ELSE Q.route = s.route
      /\ \A b \in old : Control(b) \/
            /\ RouteActive(s.route, drain.variable) /\ commands[b].activation = s.route.activation
            /\ \A k \in old : Control(k) => b < k
  BY DEF Done
<1>4. /\ P \in GistRecord /\ P.settled = Q.settled
      /\ P.results[c] # "none" /\ \A b \in Ids \ {c} : P.results[b] = Q.results[b]
      /\ \/ /\ P.taken = Q.taken /\ P.ended = Q.ended \cup {c}
            /\ P.dec = Q.dec /\ P.route = Q.route
         \/ /\ P.taken = Q.taken \cup {c} /\ P.ended = Q.ended
            /\ Applies(Q, c)
            /\ IF Control(c) THEN P.dec = Q.dec /\ P.route.activation = c
                             ELSE P.dec = Advanced(Q, c) /\ P.route = Q.route
  BY <1>0, <1>1, ConsumedFacts DEF Control
<1>5. CommandOK(c, commands[c], s) /\ \A b \in S : CommandOK(b, commands[b], s)
  BY DEF MayConsume
<1> SUFFICES Done(s, P, S \cup {c})
  OBVIOUS
<1> HIDE DEF P
<1>6. /\ P \in GistRecord /\ P.settled = s.settled
      /\ \A b \in S \cup {c} : P.results[b] # "none"
      /\ \A b \in Ids \ (S \cup {c}) : P.results[b] = s.results[b]
      /\ s.taken \subseteq P.taken /\ s.ended \subseteq P.ended
      /\ new \subseteq S \cup {c} /\ P.ended \ s.ended \subseteq S \cup {c}
      /\ S \cup {c} \subseteq P.taken \cup P.ended
      /\ new \cap P.ended = {}
  BY <1>0, <1>1, <1>4
<1>7. CASE /\ P.taken = Q.taken /\ P.dec = Q.dec /\ P.route = Q.route
  <2>1. new = old
    BY <1>7
  <2> HIDE DEF new, old
  <2> QED
    BY <1>2, <1>3, <1>6, <1>7, <2>1 DEF Done, new
<1>8. CASE /\ P.taken = Q.taken \cup {c} /\ P.ended = Q.ended
           /\ Applies(Q, c)
           /\ IF Control(c) THEN P.dec = Q.dec /\ P.route.activation = c
                            ELSE P.dec = Advanced(Q, c) /\ P.route = Q.route
  <2>1. new = old \cup {c} /\ c \notin old
    BY <1>0, <1>1, <1>8
  <2>2. old \subseteq S /\ \A b \in old : b < c
    BY <1>1
  <2> HIDE DEF new, old
  <2>3. CASE Control(c)
    <3>1. DOMAIN commands[c].views = {}
      BY <1>5, <2>3, ControlSeesNothing
    <3>2. P.dec = Q.dec /\ P.route.activation = c
      BY <1>8, <2>3
    <3>3. \A b \in new : Control(b) \/
              /\ RouteActive(s.route, drain.variable) /\ commands[b].activation = s.route.activation
              /\ \A k \in new : Control(k) => b < k
      BY <1>3, <2>1, <2>2, <2>3
    <3>4. /\ \A d \in Drafts : P.dec[d] >= s.dec[d]
          /\ \A d \in Drafts : P.dec[d] # s.dec[d] => \E b \in new : d \in DOMAIN commands[b].views
          /\ \A b \in new : \A d \in DOMAIN commands[b].views :
                commands[b].views[d].dec = s.dec[d] /\ P.dec[d] > s.dec[d]
          /\ \A a, b \in new : a # b => DOMAIN commands[a].views \cap DOMAIN commands[b].views = {}
      BY <1>2, <2>1, <3>1, <3>2
    <3>5. IF \E b \in new : Control(b) THEN P.route.activation \in new ELSE P.route = s.route
      BY <2>1, <2>3, <3>2
    <3> QED
      BY <1>6, <3>3, <3>4, <3>5 DEF Done, new
  <2>4. CASE ~Control(c)
    <3>1. /\ P.dec = Advanced(Q, c) /\ P.route = Q.route
          /\ RouteApplies(c, Q.route) /\ Matches(c, Q.dec)
      BY <1>8, <2>4 DEF Applies, Passes, Control
    <3>2. ~ \E b \in old : Control(b)
      <4> SUFFICES ASSUME \E b \in old : Control(b) PROVE FALSE
        OBVIOUS
      <4>1. commands[c].activation \in old
        BY <1>3, <3>1 DEF RouteApplies
      <4>2. commands[c].activation \in {0} \cup s.taken
        BY <1>5 DEF CommandOK
      <4>3. commands[c].activation # 0
        BY <4>1, <2>2, <1>0, IdsAreNumbers
      <4> QED
        BY <4>1, <4>2, <4>3 DEF old
    <3>3. Q.route = s.route
      BY <1>3, <3>2
    <3>4. RouteActive(s.route, drain.variable) /\ commands[c].activation = s.route.activation
      BY <3>1, <3>3 DEF RouteApplies
    <3>5. \A b \in new : Control(b) \/
              /\ RouteActive(s.route, drain.variable) /\ commands[b].activation = s.route.activation
              /\ \A k \in new : Control(k) => b < k
      BY <1>3, <2>1, <2>4, <3>2, <3>4
    <3>6. IF \E b \in new : Control(b) THEN P.route.activation \in new ELSE P.route = s.route
      BY <2>1, <2>4, <3>1, <3>2, <3>3
    <3>7. Q.dec \in [Drafts -> Nat] /\ s.dec \in [Drafts -> Nat]
      BY <1>0, <1>1 DEF GistRecord
    <3>8. \A d \in DOMAIN commands[c].views : d \in Drafts /\ commands[c].views[d].dec = s.dec[d] /\ Q.dec[d] = s.dec[d]
      <4> SUFFICES ASSUME NEW d \in DOMAIN commands[c].views
                   PROVE  d \in Drafts /\ commands[c].views[d].dec = s.dec[d] /\ Q.dec[d] = s.dec[d]
        OBVIOUS
      <4>1. d \in Drafts /\ commands[c].views[d].dec <= s.dec[d] /\ commands[c].views[d].dec \in Nat
        BY <1>5 DEF CommandOK
      <4>2. Q.dec[d] = commands[c].views[d].dec
        BY <3>1 DEF Matches
      <4>3. Q.dec[d] >= s.dec[d]
        BY <1>2, <4>1
      <4> QED
        BY <4>1, <4>2, <4>3, <3>7
    <3>9. \A d \in Drafts : P.dec[d] = IF d \in DOMAIN commands[c].views THEN Q.dec[d] + 1 ELSE Q.dec[d]
      BY <3>1 DEF Advanced
    <3>10. \A d \in Drafts : P.dec[d] >= s.dec[d]
      BY <1>2, <3>7, <3>9
    <3>11. \A d \in Drafts : P.dec[d] # s.dec[d] => \E b \in new : d \in DOMAIN commands[b].views
      BY <1>2, <2>1, <3>9
    <3>12. \A b \in old : \A d \in DOMAIN commands[b].views : d \in Drafts
      BY <1>5, <2>2 DEF CommandOK
    <3>13. \A b \in new : \A d \in DOMAIN commands[b].views :
                commands[b].views[d].dec = s.dec[d] /\ P.dec[d] > s.dec[d]
      <4> SUFFICES ASSUME NEW b \in new, NEW d \in DOMAIN commands[b].views
                   PROVE  commands[b].views[d].dec = s.dec[d] /\ P.dec[d] > s.dec[d]
        OBVIOUS
      <4>1. CASE b = c
        BY <3>7, <3>8, <3>9, <4>1
      <4>2. CASE b \in old
        <5>1. d \in Drafts /\ commands[b].views[d].dec = s.dec[d] /\ Q.dec[d] > s.dec[d]
          BY <1>2, <3>12, <4>2
        <5> QED
          BY <5>1, <3>7, <3>9
      <4> QED
        BY <2>1, <4>1, <4>2
    <3>14. \A b \in old : DOMAIN commands[b].views \cap DOMAIN commands[c].views = {}
      <4> SUFFICES ASSUME NEW b \in old, NEW d \in DOMAIN commands[b].views, d \in DOMAIN commands[c].views
                   PROVE  FALSE
        OBVIOUS
      <4>1. Q.dec[d] > s.dec[d] /\ Q.dec[d] = s.dec[d] /\ d \in Drafts
        BY <1>2, <3>8
      <4> QED
        BY <4>1, <3>7
    <3>15. \A a, b \in new : a # b => DOMAIN commands[a].views \cap DOMAIN commands[b].views = {}
      BY <1>2, <2>1, <3>14
    <3> QED
      BY <1>6, <3>5, <3>6, <3>10, <3>11, <3>13, <3>15 DEF Done, new
  <2> QED
    BY <2>3, <2>4
<1> QED
  BY <1>4, <1>7, <1>8

LEMMA LeastNumber ==
  ASSUME NEW S \in SUBSET Nat, S # {}
  PROVE  \E m \in S : \A k \in S : m <= k
<1> DEFINE R == OpToRel(<, Nat)
<1>1. IsWellFoundedOn(R, Nat)
  BY NatLessThanWellFounded
<1>2. \A a, b \in Nat : a < b => <<a, b>> \in R
  BY DEF OpToRel
<1> HIDE DEF R
<1>3. PICK m \in S : \A k \in S : ~(<<k, m>> \in R)
  BY <1>1, WFMin
<1>4. \A k \in S : ~(k < m)
  BY <1>2, <1>3
<1>5. \A k \in S : k \in Nat
  OBVIOUS
<1> QED BY <1>4, <1>5

(* The documents a drain passes through, as InOrder computes them. *)
Passed(f, n, s, items, declined) ==
    f = [c \in 0..n |-> IF c = 0 THEN s
                        ELSE IF c \in items THEN Consumed(f[c - 1], c, declined) ELSE f[c - 1]]

LEMMA PathExists ==
  ASSUME NEW n \in Nat, NEW s, NEW items, NEW declined
  PROVE  \E f : Passed(f, n, s, items, declined)
<1> DEFINE Bad == {k \in Nat : ~ \E f : Passed(f, k, s, items, declined)}
<1>1. 0 \notin Bad
  <2> DEFINE f == [c \in 0..0 |-> s]
  <2>1. Passed(f, 0, s, items, declined)
    BY DEF Passed
  <2> QED
    BY <2>1
<1>2. ASSUME NEW k \in Nat, k \notin Bad PROVE k + 1 \notin Bad
  <2>1. PICK f : Passed(f, k, s, items, declined)
    BY <1>2
  <2> DEFINE last == IF k + 1 \in items THEN Consumed(f[k], k + 1, declined) ELSE f[k]
             g == [c \in 0..(k + 1) |-> IF c = k + 1 THEN last ELSE f[c]]
  <2>2. \A c \in 0..k : f[c] = IF c = 0 THEN s
                        ELSE IF c \in items THEN Consumed(f[c - 1], c, declined) ELSE f[c - 1]
    BY <2>1 DEF Passed
  <2>3. \A c \in 0..k : g[c] = f[c] /\ c # k + 1
    BY <1>2
  <2>4. \A c \in 0..(k + 1) : c # 0 => c - 1 \in 0..k /\ g[c - 1] = f[c - 1]
    BY <1>2
  <2>5. g[k + 1] = last
    BY <1>2
  <2>6. DOMAIN g = 0..(k + 1) /\ g = [c \in 0..(k + 1) |-> g[c]]
    OBVIOUS
  <2> HIDE DEF g
  <2>7. \A c \in 0..(k + 1) : g[c] = IF c = 0 THEN s
                        ELSE IF c \in items THEN Consumed(g[c - 1], c, declined) ELSE g[c - 1]
    <3> SUFFICES ASSUME NEW c \in 0..(k + 1)
                 PROVE  g[c] = IF c = 0 THEN s
                        ELSE IF c \in items THEN Consumed(g[c - 1], c, declined) ELSE g[c - 1]
      OBVIOUS
    <3>1. CASE c = k + 1
      <4>1. c # 0 /\ c - 1 = k /\ g[c - 1] = f[k]
        BY <1>2, <2>4, <3>1
      <4> QED
        BY <2>5, <3>1, <4>1
    <3>2. CASE c # k + 1
      <4>1. c \in 0..k
        BY <1>2, <3>2
      <4> QED
        BY <2>2, <2>3, <2>4, <4>1
    <3> QED
      BY <3>1, <3>2
  <2>8. Passed(g, k + 1, s, items, declined)
    BY <2>6, <2>7 DEF Passed
  <2> QED
    BY <2>8
<1>3. Bad = {}
  <2> SUFFICES ASSUME Bad # {} PROVE FALSE
    OBVIOUS
  <2>1. PICK m \in Bad : \A k \in Bad : m <= k
    BY LeastNumber
  <2>2. m \in Nat /\ m # 0
    BY <1>1
  <2> HIDE DEF Bad
  <2>3. m - 1 \in Nat /\ (m - 1) + 1 = m /\ m - 1 \notin Bad
    BY <2>1, <2>2
  <2> QED
    BY <1>2, <2>1, <2>3
<1> QED
  BY <1>3

UpTo(items, k) == {c \in items : c <= k}

(* What each document on the way records. *)
LEMMA DoneOnTheWay ==
  ASSUME NEW n \in Nat, NEW s, NEW items, NEW declined, MayConsume(s, items),
         NEW f, Passed(f, n, s, items, declined), NEW k \in 0..n
  PROVE  Done(s, f[k], UpTo(items, k))
<1> DEFINE Bad == {j \in 0..n : ~ Done(s, f[j], UpTo(items, j))}
<1>0. items \subseteq Ids /\ items \subseteq Nat \ {0} /\ s \in GistRecord
  BY IdsAreNumbers DEF MayConsume
<1>a. \A c \in items : c \in Nat /\ c > 0
  BY <1>0
<1>1. f[0] = s /\ \A j \in 0..n : j # 0 =>
        f[j] = IF j \in items THEN Consumed(f[j - 1], j, declined) ELSE f[j - 1]
  BY DEF Passed
<1>2. 0 \notin Bad
  <2>1. UpTo(items, 0) = {}
    BY <1>a DEF UpTo
  <2>2. Done(s, s, {})
    BY <1>0, NothingDone
  <2>3. Done(s, f[0], UpTo(items, 0))
    <3> HIDE DEF Bad
    <3> QED
      BY <1>1, <2>1, <2>2
  <2> QED
    BY <2>3
<1>3. ASSUME NEW j \in 0..n, j # 0, j - 1 \notin Bad PROVE j \notin Bad
  <2>0. j - 1 \in 0..n /\ j \in Nat
    BY <1>3
  <2>1. Done(s, f[j - 1], UpTo(items, j - 1))
    BY <1>3, <2>0
  <2>2. CASE j \in items
    <3>1. UpTo(items, j) = UpTo(items, j - 1) \cup {j}
      <4>1. ASSUME NEW c \in items PROVE c <= j <=> c <= j - 1 \/ c = j
        BY <1>a, <2>0
      <4> HIDE DEF Bad
      <4> QED
        BY <2>2, <4>1, <2>0 DEF UpTo
    <3>2. UpTo(items, j - 1) \in SUBSET items /\ \A b \in UpTo(items, j - 1) : b < j
      BY <1>0, <2>0 DEF UpTo
    <3>3. f[j] = Consumed(f[j - 1], j, declined)
      BY <1>1, <1>3, <2>2
    <3>4. Done(s, Consumed(f[j - 1], j, declined), UpTo(items, j - 1) \cup {j})
      <4> DEFINE S == UpTo(items, j - 1)
                 Q == f[j - 1]
      <4>1. S \in SUBSET items /\ (\A b \in S : b < j) /\ Done(s, Q, S)
        BY <2>1, <3>2
      <4> HIDE DEF S, Q, Bad
      <4>2. Done(s, Consumed(Q, j, declined), S \cup {j})
        BY <2>2, <4>1, OneMore
      <4> QED
        BY <4>2 DEF S, Q
    <3>5. Done(s, f[j], UpTo(items, j))
      <4> HIDE DEF Bad
      <4> QED
        BY <3>1, <3>3, <3>4
    <3> QED
      BY <3>5
  <2>3. CASE j \notin items
    <3>1. UpTo(items, j) = UpTo(items, j - 1)
      <4>1. ASSUME NEW c \in items PROVE c <= j <=> c <= j - 1
        <5>1. c \in Nat /\ j \in Nat /\ c # j
          BY <1>a, <2>0, <2>3
        <5> QED
          BY <5>1
      <4> HIDE DEF Bad
      <4> QED
        BY <4>1 DEF UpTo
    <3>2. f[j] = f[j - 1]
      BY <1>1, <1>3, <2>3
    <3>3. Done(s, f[j], UpTo(items, j))
      <4> HIDE DEF Bad
      <4> QED
        BY <2>1, <3>1, <3>2
    <3> QED
      BY <3>3
  <2> QED
    BY <2>2, <2>3
<1>4. Bad = {}
  <2> SUFFICES ASSUME Bad # {} PROVE FALSE
    OBVIOUS
  <2>0. Bad \in SUBSET Nat
    OBVIOUS
  <2>a. \A j \in Bad : j \in 0..n
    OBVIOUS
  <2> HIDE DEF Bad
  <2>1. PICK m \in Bad : \A j \in Bad : m <= j
    BY <2>0, LeastNumber
  <2>2. m \in 0..n /\ m # 0 /\ m \in Nat
    BY <1>2, <2>0, <2>a
  <2>3. m - 1 \notin Bad
    BY <2>1, <2>2
  <2> QED
    BY <1>3, <2>1, <2>2, <2>3
<1> QED
  BY <1>4

(* A drain's effect on the document it consumed its commands on. *)
LEMMA InOrderDone ==
  ASSUME NEW s, NEW items, NEW declined, MayConsume(s, items)
  PROVE  \E S \in SUBSET items : Done(s, InOrder(s, items, declined), S)
<1> DEFINE n == Cardinality(Ids)
           f == CHOOSE g : Passed(g, n, s, items, declined)
<1>1. n \in Nat
  BY FiniteIds
<1>2. InOrder(s, items, declined) = f[n]
  BY DEF InOrder, Passed
<1> HIDE DEF n
<1>3. Passed(f, n, s, items, declined)
  BY <1>1, PathExists
<1> HIDE DEF f
<1>4. Done(s, f[n], UpTo(items, n))
  BY <1>1, <1>3, DoneOnTheWay
<1> QED
  BY <1>2, <1>4 DEF UpTo

-----------------------------------------------------------------------------
(* Each step keeps RouteInv.                                               *)

LEMMA RouteInvInit == Init => RouteInv
<1> SUFFICES ASSUME Init PROVE RouteInv
  OBVIOUS
<1>0. MaxDay \in Nat /\ MaxFaults \in Nat
  BY RouteAssumption
<1>1. /\ day = 0 /\ variable = "serialized" /\ commands = <<>> /\ faults = 0
      /\ runs = [r \in Runs |-> [stage |-> "absent", created |-> 0]] /\ drain.pc = "idle"
  BY DEF Init, Idle
<1>2. CommandsOK(commands, gist)
  BY <1>1 DEF CommandsOK
<1>3. GistOK(gist, commands, day)
  <2>1. /\ gist \in GistRecord /\ gist.taken = {} /\ gist.ended = {} /\ gist.route.activation = 0
        /\ \A c \in Ids : gist.results[c] = "none"
    BY DEF Init, Store, GistRecord, Outcomes, Modes
  <2> QED
    BY <2>1 DEF GistOK, StoreOK
<1>4. FeedbackOK(feedback, commands, day)
  <2>1. /\ feedback \in FeedbackRecord /\ feedback.taken = {} /\ feedback.ended = {}
        /\ \A c \in Ids : feedback.results[c] = "none"
    BY DEF Init, Store, FeedbackRecord, Outcomes
  <2> QED
    BY <2>1 DEF FeedbackOK, StoreOK
<1>5. RunsOK(runs, commands, gist, feedback)
  <2>1. runs \in [Runs -> RunRecord] /\ \A r \in Runs : runs[r].stage = "absent"
    BY <1>1 DEF RunRecord
  <2>2. gist.settled = {}
    BY DEF Init
  <2> QED
    BY <2>1, <2>2 DEF RunsOK
<1>6. DrainOK(drain, runs, commands, gist, feedback)
  BY <1>1 DEF DrainOK
<1> QED
  BY <1>0, <1>1, <1>2, <1>3, <1>4, <1>5, <1>6 DEF RouteInv, Modes

(* A day later the same results are kept, or more have run out. *)
LEMMA StoreLater ==
  ASSUME NEW S, NEW C \in Seq(Command), NEW D \in Nat, StoreOK(S, C, D)
  PROVE  StoreOK(S, C, D + 1)
<1>1. \A c \in S.taken \cup S.ended : C[c].expires \in Nat
  <2> SUFFICES ASSUME NEW c \in S.taken \cup S.ended PROVE C[c].expires \in Nat
    OBVIOUS
  <2>1. c \in DOMAIN C
    BY DEF StoreOK
  <2>2. C[c] \in Command
    BY <2>1
  <2> QED
    BY <2>2 DEF Command
<1>2. Retention \in Nat
  BY RouteAssumption
<1> QED
  BY <1>1, <1>2 DEF StoreOK

LEMMA TickStep == ASSUME RouteInv, Tick PROVE RouteInv'
<1>1. /\ day' = day + 1 /\ day < MaxDay
      /\ variable' = variable /\ commands' = commands /\ runs' = runs
      /\ gist' = gist /\ feedback' = feedback /\ drain' = drain /\ faults' = faults
  BY DEF Tick, Outside
<1>2. day \in Nat /\ day' \in 0..MaxDay
  BY <1>1, RouteAssumption DEF RouteInv
<1>3. commands \in Seq(Command)
  BY DEF RouteInv, CommandsOK
<1>4. StoreOK(gist, commands, day + 1)
  BY <1>2, <1>3, StoreLater DEF RouteInv, GistOK
<1>5. StoreOK(feedback, commands, day + 1)
  BY <1>2, <1>3, StoreLater DEF RouteInv, FeedbackOK
<1>6. GistOK(gist, commands, day')
  BY <1>1, <1>4 DEF RouteInv, GistOK
<1>7. FeedbackOK(feedback, commands, day')
  BY <1>1, <1>5 DEF RouteInv, FeedbackOK
<1> QED
  BY <1>1, <1>2, <1>6, <1>7 DEF RouteInv

(* What is known of the commands is not changed by a new one. *)
LEMMA SealStep == ASSUME RouteInv, NEW script \in Scripts, Seal(script) PROVE RouteInv'
<1> DEFINE id == Len(commands) + 1
           ask == script[id]
           views == [d \in ask.targets |-> [rev |-> 0, dec |-> gist.dec[d]]]
           new == [id |-> id, ask |-> ask, views |-> views,
                   activation |-> gist.route.activation, expires |-> day + Lifetime]
           C == Append(commands, new)
<1>1. /\ commands' = C /\ id \in DOMAIN script
      /\ day' = day /\ runs' = runs /\ gist' = gist /\ feedback' = feedback
      /\ drain' = drain /\ faults' = faults
  BY DEF Seal, Outside
<1>2. variable' \in Modes
  BY DEF Seal, ModeOf, Modes, RouteInv
<1>3. commands \in Seq(Command) /\ DOMAIN commands \subseteq Ids /\ gist \in GistRecord /\ day \in Nat
  BY RouteAssumption DEF RouteInv, CommandsOK, GistOK
<1>4. script \in Seq(Asks) /\ (ask.kind = "draft" <=> ask.targets # {}) /\ id \in Ids /\ id \in Nat
  BY <1>1, <1>3, RouteAssumption DEF Ids
<1>5. ask \in Asks
  BY <1>1, <1>4
<1>6. ask.targets \in SUBSET Drafts
  BY <1>5 DEF Asks
<1>7. gist.dec \in [Drafts -> Nat] /\ gist.route.activation \in Nat
  BY <1>3 DEF GistRecord
<1>8. views \in [ask.targets -> [rev : {0}, dec : Nat]]
  BY <1>6, <1>7
<1>9. day + Lifetime \in Nat
  BY <1>3, RouteAssumption
<1>10. new \in Command
  <2>1. views \in Views
    BY <1>6, <1>8 DEF Views
  <2> HIDE DEF views, ask, id
  <2> QED
    BY <1>4, <1>5, <1>7, <1>9, <2>1 DEF Command
<1>11. CommandOK(id, new, gist)
  <2>1. \A d \in DOMAIN views : /\ d \in Drafts /\ views[d].dec <= gist.dec[d]
                                /\ views[d].dec \in Nat
                                /\ views[d] = [rev |-> 0, dec |-> views[d].dec]
    BY <1>6, <1>7
  <2>2. gist.route.activation \in {0} \cup gist.taken
    BY DEF RouteInv, GistOK
  <2>3. DOMAIN views = ask.targets
    OBVIOUS
  <2>4. /\ new.id = id /\ new.ask = ask /\ new.views = views
        /\ new.activation = gist.route.activation
    OBVIOUS
  <2> HIDE DEF new, views, ask, id
  <2> QED
    BY <1>4, <2>1, <2>2, <2>3, <2>4 DEF CommandOK
<1> HIDE DEF new, ask, views
<1>12. /\ C \in Seq(Command) /\ DOMAIN C = DOMAIN commands \cup {id} /\ C[id] = new
       /\ id \notin DOMAIN commands /\ \A k \in DOMAIN commands : C[k] = commands[k]
  BY <1>3, <1>10
<1> HIDE DEF C, id
<1>13. CommandsOK(C, gist)
  BY <1>3, <1>4, <1>11, <1>12 DEF RouteInv, CommandsOK
<1>14. StoreOK(gist, C, day) /\ StoreOK(feedback, C, day)
  <2>1. StoreOK(gist, commands, day) /\ StoreOK(feedback, commands, day)
    BY DEF RouteInv, GistOK, FeedbackOK
  <2> QED
    BY <1>12, <2>1 DEF StoreOK
<1>a. Known(gist, feedback) \subseteq DOMAIN commands
  BY DEF RouteInv, GistOK, FeedbackOK, StoreOK, Known
<1>15. GistOK(gist, C, day)
  BY <1>12, <1>14, <1>a DEF RouteInv, GistOK, Known
<1>16. FeedbackOK(feedback, C, day)
  BY <1>12, <1>14, <1>a DEF RouteInv, FeedbackOK, Known
<1>17. RunsOK(runs, C, gist, feedback)
  BY <1>12 DEF RouteInv, RunsOK
<1>18. DrainOK(drain, runs, C, gist, feedback)
  <2>1. \A r \in Runs : runs[r].stage = "live" => CommandOf(r) \in DOMAIN commands
    BY DEF RouteInv, RunsOK
  <2>2. \A k \in DOMAIN commands :
           ResultOf(k, C, gist, feedback) = ResultOf(k, commands, gist, feedback)
    BY <1>12 DEF ResultOf
  <2>3. DrainOK(drain, runs, commands, gist, feedback)
    BY DEF RouteInv
  <2>4. CASE drain.pc = "idle"
    BY <2>4 DEF DrainOK
  <2>5. CASE drain.pc # "idle"
    BY <1>12, <2>1, <2>2, <2>3, <2>5 DEF DrainOK
  <2> QED
    BY <2>4, <2>5
<1> QED
  BY <1>1, <1>2, <1>13, <1>15, <1>16, <1>17, <1>18 DEF RouteInv

(* A run moves on before its command's artifact is there, or without one. *)
LEMMA RunMoves ==
  ASSUME RouteInv, NEW r \in Runs, Dispatch(r) \/ Admit(r) \/ Refuse(r)
  PROVE  RouteInv'
<1>1. /\ day' = day /\ variable' = variable /\ commands' = commands
      /\ gist' = gist /\ feedback' = feedback /\ drain' = drain /\ faults' = faults
  BY DEF Dispatch, Admit, Refuse, Stage, Outside
<1>2. runs \in [Runs -> RunRecord] /\ runs[r] \in RunRecord /\ day \in Nat
  BY RouteAssumption DEF RouteInv, RunsOK
<1>3. /\ runs[r].stage \in {"absent", "dispatched"}
      /\ runs' = [runs EXCEPT ![r] = runs'[r]] /\ runs'[r] \in RunRecord
      /\ runs'[r].stage \in {"dispatched", "live", "over"}
      /\ CommandOf(r) \in DOMAIN commands /\ runs'[r].created < commands[CommandOf(r)].expires
  <2>1. CASE Dispatch(r)
    <3>1. commands[CommandOf(r)].expires \in Nat /\ CommandOf(r) \in DOMAIN commands
      <4>1. CommandOf(r) \in DOMAIN commands /\ commands \in Seq(Command)
        BY <2>1 DEF Dispatch, RouteInv, CommandsOK
      <4>2. commands[CommandOf(r)] \in Command
        BY <4>1
      <4> QED
        BY <4>1, <4>2 DEF Command
    <3>2. /\ runs' = [runs EXCEPT ![r] = [stage |-> "dispatched", created |-> day]]
          /\ ~Expired(CommandOf(r)) /\ runs[r].stage = "absent"
      BY <2>1 DEF Dispatch
    <3> QED
      BY <1>2, <3>1, <3>2 DEF Expired, RunRecord
  <2>2. CASE Admit(r) \/ Refuse(r)
    <3>1. PICK s \in {"live", "over"} : runs' = [runs EXCEPT ![r].stage = s]
      BY <2>2 DEF Admit, Refuse, Stage
    <3>2. runs[r].stage = "dispatched"
      BY <2>2 DEF Admit, Refuse
    <3>3. CommandOf(r) \in DOMAIN commands /\ runs[r].created < commands[CommandOf(r)].expires
      BY <3>2 DEF RouteInv, RunsOK
    <3>4. /\ runs'[r].stage = s /\ runs'[r].created = runs[r].created /\ runs'[r] \in RunRecord
          /\ runs' = [runs EXCEPT ![r] = runs'[r]]
      BY <1>2, <3>1 DEF RunRecord
    <3> QED
      BY <3>2, <3>3, <3>4
  <2> QED
    BY <2>1, <2>2
<1>4. \A q \in Runs : q # r => runs'[q] = runs[q]
  BY <1>2, <1>3
<1>5. runs' \in [Runs -> RunRecord]
  BY <1>2, <1>3
<1>6. RunsOK(runs', commands, gist, feedback)
  <2>1. RunsOK(runs, commands, gist, feedback)
    BY DEF RouteInv
  <2>2. runs'[r].stage # "deleted" /\ r \notin gist.settled
    BY <1>3, <2>1 DEF RunsOK
  <2> QED
    BY <1>3, <1>4, <1>5, <2>1, <2>2 DEF RunsOK
<1>7. DrainOK(drain, runs', commands, gist, feedback)
  <2>1. DrainOK(drain, runs, commands, gist, feedback)
    BY DEF RouteInv
  <2>2. CASE drain.pc = "idle"
    BY <2>2 DEF DrainOK
  <2>3. CASE drain.pc # "idle"
    <3>1. /\ \A q \in drain.entries : q \in Runs /\ runs'[q].stage = "live"
          /\ \A q \in drain.empty : q \in Runs /\ runs'[q].stage \in {"deleted", "over"}
      BY <1>3, <1>4, <2>1, <2>3 DEF DrainOK
    <3> QED
      BY <2>1, <2>3, <3>1 DEF DrainOK
  <2> QED
    BY <2>2, <2>3
<1> QED
  BY <1>1, <1>6, <1>7 DEF RouteInv

(* A command that was recorded and has no result left is out of every scan. *)
LEMMA NeverSeenAgain ==
  ASSUME RouteInv, NEW r \in Runs, runs[r].stage # "absent", InHorizon(r),
         ResultOf(CommandOf(r), commands, gist, feedback) = "none"
  PROVE  CommandOf(r) \notin Known(gist, feedback)
<1> DEFINE c == CommandOf(r)
<1> SUFFICES ASSUME c \in Known(gist, feedback) PROVE FALSE
  OBVIOUS
<1>1. c \in DOMAIN commands /\ runs[r].created < commands[c].expires /\ runs[r] \in RunRecord
  BY DEF RouteInv, RunsOK
<1>2. runs[r].created \in Nat /\ commands[c].expires \in Nat /\ day \in Nat
  <2>1. commands \in Seq(Command)
    BY DEF RouteInv, CommandsOK
  <2>2. commands[c] \in Command
    BY <1>1, <2>1
  <2> QED
    BY <1>1, <2>2, RouteAssumption DEF RunRecord, Command, RouteInv
<1> HIDE DEF c
<1>3. commands[c].expires + Retention < day
  <2>1. CASE commands[c].ask.kind = "feedback"
    <3>1. c \in feedback.taken \cup feedback.ended
      BY <2>1 DEF Known, RouteInv, GistOK
    <3>2. feedback.results[c] = "none"
      BY <2>1 DEF ResultOf, c
    <3> QED
      BY <3>1, <3>2 DEF RouteInv, FeedbackOK, StoreOK
  <2>2. CASE commands[c].ask.kind # "feedback"
    <3>1. c \in gist.taken \cup gist.ended
      BY <2>2 DEF Known, RouteInv, FeedbackOK
    <3>2. gist.results[c] = "none"
      BY <2>2 DEF ResultOf, c
    <3> QED
      BY <3>1, <3>2 DEF RouteInv, GistOK, StoreOK
  <2> QED
    BY <2>1, <2>2
<1>4. runs[r].created + Horizon >= day
  BY DEF InHorizon
<1>5. Horizon \in Nat /\ Retention \in Nat /\ Horizon <= Retention + 1
  BY RouteAssumption
<1> QED
  BY <1>1, <1>2, <1>3, <1>4, <1>5

LEMMA FetchStep == ASSUME RouteInv, Fetch PROVE RouteInv'
<1>1. /\ day' = day /\ variable' = variable /\ commands' = commands /\ runs' = runs
      /\ gist' = gist /\ feedback' = feedback
  BY DEF Fetch
<1>2. PICK seen \in SUBSET ({r \in Runs : runs[r].stage # "absent" /\ InHorizon(r)} \ gist.settled) :
        drain' = [pc |-> "fetched", variable |-> variable,
                  entries |-> {r \in seen : runs[r].stage = "live"},
                  empty |-> {r \in seen : Empty(r)}]
  BY DEF Fetch
<1>3. faults' \in 0..MaxFaults
  BY RouteAssumption DEF Fetch, Fault, RouteInv
<1>4. \A r \in seen : r \in Runs /\ runs[r].stage # "absent" /\ InHorizon(r)
  BY <1>2
<1>5. DrainOK(drain', runs, commands, gist, feedback)
  <2>1. /\ drain'.pc = "fetched" /\ drain'.variable = variable
        /\ drain'.entries = {r \in seen : runs[r].stage = "live"}
        /\ drain'.empty = {r \in seen : Empty(r)}
    BY <1>2
  <2>2. \A r \in drain'.entries : ResultOf(CommandOf(r), commands, gist, feedback) = "none"
           => CommandOf(r) \notin Known(gist, feedback)
    BY <1>4, <2>1, NeverSeenAgain
  <2>3. variable \in Modes
    BY DEF RouteInv
  <2> QED
    BY <1>4, <2>1, <2>2, <2>3 DEF DrainOK, Empty
<1> QED
  BY <1>1, <1>3, <1>5 DEF RouteInv

-----------------------------------------------------------------------------
(* Consuming the state Gist's commands.                                    *)

Kept == [gist EXCEPT !.results = Retained(@)]

LEMMA RetainedResults ==
  ASSUME NEW results \in [Ids -> Outcomes]
  PROVE  /\ Retained(results) \in [Ids -> Outcomes]
         /\ \A c \in Ids : \/ Retained(results)[c] = results[c]
                           \/ /\ Retained(results)[c] = "none"
                              /\ c \in DOMAIN commands /\ commands[c].expires + Retention < day
  BY DEF Retained, Outcomes

LEMMA KeptGist ==
  ASSUME RouteInv
  PROVE  /\ Kept \in GistRecord
         /\ Kept.taken = gist.taken /\ Kept.ended = gist.ended /\ Kept.settled = gist.settled
         /\ Kept.dec = gist.dec /\ Kept.route = gist.route
         /\ \A c \in Ids : \/ Kept.results[c] = gist.results[c]
                           \/ /\ Kept.results[c] = "none"
                              /\ c \in DOMAIN commands /\ commands[c].expires + Retention < day
<1>1. gist \in GistRecord /\ gist.results \in [Ids -> Outcomes]
  BY DEF RouteInv, GistOK, GistRecord
<1> DEFINE new == Retained(gist.results)
<1>2. /\ new \in [Ids -> Outcomes]
      /\ \A c \in Ids : \/ new[c] = gist.results[c]
                        \/ /\ new[c] = "none"
                           /\ c \in DOMAIN commands /\ commands[c].expires + Retention < day
  BY <1>1, RetainedResults
<1>3. Kept = [gist EXCEPT !.results = new]
  BY DEF Kept
<1> HIDE DEF new
<1> QED
  BY <1>1, <1>2, <1>3 DEF GistRecord

(* What the state Gist's document becomes when commands S were consumed. *)
Consumes(S, G) ==
    /\ S \subseteq Ids \cap DOMAIN commands
    /\ S \cap Known(gist, feedback) = {}
    /\ \A c \in S : commands[c].ask.kind # "feedback"
    /\ Done(Kept, G, S)

NextDrain(D, todo) ==
    \/ D = Idle
    \/ /\ D.pc = "feedback" /\ D.variable = drain.variable /\ D.todo = todo
       /\ D.entries = drain.entries /\ D.empty = drain.empty
       /\ D = [pc |-> "feedback", variable |-> D.variable, todo |-> D.todo,
               entries |-> D.entries, empty |-> D.empty]

LEMMA ConsumeDone ==
  ASSUME RouteInv, Consume
  PROVE  /\ drain.pc = "fetched" /\ faults' \in 0..MaxFaults
         /\ gist' = gist \/ \E S : Consumes(S, gist')
         /\ \E todo : /\ NextDrain(drain', todo)
                      /\ \A c \in todo : /\ c \in DOMAIN commands /\ commands[c].ask.kind = "feedback"
                                         /\ c \notin Known(gist, feedback)
<1> DEFINE batch == Batch
           todo == {c \in batch : commands[c].ask.kind = "feedback"}
<1>0. drain.pc = "fetched"
  BY DEF Consume
<1>1. PICK declined \in SUBSET (batch \ todo) :
        PatchGist(InOrder(Kept, batch \ todo, declined),
                  [pc |-> "feedback", variable |-> drain.variable, todo |-> todo,
                   entries |-> drain.entries, empty |-> drain.empty])
  BY DEF Consume, Kept
<1>2. \A c \in batch : c \in Ids /\ c \in DOMAIN commands /\ c \notin Known(gist, feedback)
  <2> SUFFICES ASSUME NEW c \in batch
               PROVE  c \in Ids /\ c \in DOMAIN commands /\ c \notin Known(gist, feedback)
    OBVIOUS
  <2>1. c \in Ids /\ Fresh(c) /\ \E r \in drain.entries : CommandOf(r) = c
    BY DEF Batch
  <2>2. PICK r \in drain.entries : CommandOf(r) = c
    BY <2>1
  <2>3. c \in DOMAIN commands /\ ResultOf(c, commands, gist, feedback) = "none"
    BY <2>1 DEF Fresh, Home, ResultOf
  <2>4. DrainOK(drain, runs, commands, gist, feedback)
    BY DEF RouteInv
  <2> QED
    BY <1>0, <2>1, <2>2, <2>3, <2>4 DEF DrainOK
<1>3. \A c \in todo : /\ c \in DOMAIN commands /\ commands[c].ask.kind = "feedback"
                      /\ c \notin Known(gist, feedback)
  BY <1>2
<1> DEFINE items == batch \ todo
           doc == InOrder(Kept, items, declined)
<1>4. /\ items \subseteq Ids \cap DOMAIN commands /\ items \cap Known(gist, feedback) = {}
      /\ \A c \in items : commands[c].ask.kind # "feedback"
  BY <1>2
<1>5. MayConsume(Kept, items)
  <2>1. \A c \in DOMAIN commands : CommandOK(c, commands[c], gist)
    BY DEF RouteInv, CommandsOK
  <2>2. /\ Kept \in GistRecord /\ Kept.taken = gist.taken /\ Kept.ended = gist.ended
        /\ Kept.dec = gist.dec
    BY KeptGist
  <2>3. \A c \in DOMAIN commands : CommandOK(c, commands[c], Kept)
    BY <2>1, <2>2 DEF CommandOK
  <2> HIDE DEF batch, todo, items
  <2> QED
    BY <1>4, <2>2, <2>3 DEF MayConsume, Known
<1>6. \E S : Consumes(S, doc)
  <2> HIDE DEF batch, todo, items
  <2>1. PICK S \in SUBSET items : Done(Kept, InOrder(Kept, items, declined), S)
    BY <1>5, InOrderDone
  <2>2. Consumes(S, doc)
    BY <1>4, <2>1 DEF Consumes
  <2> QED
    BY <2>2
<1> HIDE DEF doc
<1>7. \/ gist' = doc /\ faults' = faults /\
         drain' = [pc |-> "feedback", variable |-> drain.variable, todo |-> todo,
                   entries |-> drain.entries, empty |-> drain.empty]
      \/ Fault /\ gist' \in {gist, doc} /\ drain' = Idle
  BY <1>1 DEF PatchGist, doc
<1>8. NextDrain(drain', todo)
  BY <1>7 DEF NextDrain
<1>9. faults' \in 0..MaxFaults
  BY <1>7, RouteAssumption DEF Fault, RouteInv
<1>10. gist' = gist \/ gist' = doc
  BY <1>7
<1>11. gist' = gist \/ \E S : Consumes(S, gist')
  BY <1>6, <1>10
<1> HIDE DEF todo
<1> QED
  BY <1>0, <1>3, <1>8, <1>9, <1>11

LEMMA KnownKinds ==
  ASSUME RouteInv, NEW S, NEW G, Consumes(S, G)
  PROVE  /\ GistOK(G, commands, day) /\ CommandsOK(commands, G)
         /\ G.settled = gist.settled /\ Known(gist, feedback) \subseteq Known(G, feedback)
         /\ \A c \in Known(G, feedback) :
               c \in Known(gist, feedback) \/ commands[c].ask.kind # "feedback"
<1> DEFINE new == G.taken \ Kept.taken
<1>1. /\ Kept \in GistRecord
      /\ Kept.taken = gist.taken /\ Kept.ended = gist.ended /\ Kept.settled = gist.settled
      /\ Kept.dec = gist.dec /\ Kept.route = gist.route
      /\ \A c \in Ids : \/ Kept.results[c] = gist.results[c]
                        \/ /\ Kept.results[c] = "none"
                           /\ c \in DOMAIN commands /\ commands[c].expires + Retention < day
  BY KeptGist
<1>2. /\ S \subseteq Ids \cap DOMAIN commands
      /\ S \cap Known(gist, feedback) = {}
      /\ \A c \in S : commands[c].ask.kind # "feedback"
  BY DEF Consumes
<1>3. /\ G \in GistRecord /\ G.settled = Kept.settled
      /\ \A c \in S : G.results[c] # "none"
      /\ \A c \in Ids \ S : G.results[c] = Kept.results[c]
      /\ Kept.taken \subseteq G.taken /\ Kept.ended \subseteq G.ended
      /\ new \subseteq S /\ G.ended \ Kept.ended \subseteq S
      /\ S \subseteq G.taken \cup G.ended
      /\ new \cap G.ended = {}
      /\ \A d \in Drafts : G.dec[d] >= Kept.dec[d]
      /\ G.route.activation \in new \/ G.route = Kept.route
  BY DEF Consumes, Done
<1>4. GistOK(gist, commands, day) /\ StoreOK(gist, commands, day) /\ gist \in GistRecord
  BY DEF RouteInv, GistOK
<1>5. StoreOK(G, commands, day)
  <2>1. G.taken \cup G.ended \subseteq DOMAIN commands
    BY <1>1, <1>2, <1>3, <1>4 DEF StoreOK
  <2>2. G.taken \cap G.ended = {}
    BY <1>1, <1>2, <1>3, <1>4 DEF StoreOK, Known
  <2>3. \A c \in Ids : G.results[c] # "none" => c \in G.taken \cup G.ended
    BY <1>1, <1>2, <1>3, <1>4 DEF StoreOK
  <2>4. \A c \in G.taken \cup G.ended : G.results[c] = "none" => commands[c].expires + Retention < day
    <3> SUFFICES ASSUME NEW c \in G.taken \cup G.ended, G.results[c] = "none"
                 PROVE  commands[c].expires + Retention < day
      OBVIOUS
    <3>1. c \notin S
      BY <1>3
    <3>2. c \in gist.taken \cup gist.ended
      BY <1>1, <1>3, <3>1
    <3>3. c \in Ids
      BY <2>1 DEF RouteInv, CommandsOK
    <3>4. G.results[c] = Kept.results[c]
      BY <1>3, <3>1, <3>3
    <3>5. CASE Kept.results[c] = gist.results[c]
      BY <1>4, <3>2, <3>4, <3>5 DEF StoreOK
    <3>6. CASE Kept.results[c] # gist.results[c]
      BY <1>1, <3>3, <3>6
    <3> QED
      BY <3>5, <3>6
  <2> QED
    BY <2>1, <2>2, <2>3, <2>4 DEF StoreOK
<1>6. GistOK(G, commands, day)
  <2>1. \A c \in G.taken \cup G.ended : commands[c].ask.kind # "feedback"
    BY <1>1, <1>2, <1>3, <1>4 DEF GistOK
  <2>2. G.route.activation \in {0} \cup G.taken
    BY <1>1, <1>3, <1>4 DEF GistOK
  <2> QED
    BY <1>3, <1>5, <2>1, <2>2 DEF GistOK
<1>7. CommandsOK(commands, G)
  <2>1. CommandsOK(commands, gist)
    BY DEF RouteInv
  <2>2. \A d \in Drafts : gist.dec[d] \in Nat /\ G.dec[d] \in Nat /\ G.dec[d] >= gist.dec[d]
    BY <1>1, <1>3, <1>4 DEF GistRecord
  <2>3. gist.taken \subseteq G.taken
    BY <1>1, <1>3
  <2>4. \A k \in DOMAIN commands : CommandOK(k, commands[k], G)
    <3> SUFFICES ASSUME NEW k \in DOMAIN commands PROVE CommandOK(k, commands[k], G)
      OBVIOUS
    <3> DEFINE x == commands[k]
    <3>1. CommandOK(k, x, gist)
      BY <2>1 DEF CommandsOK
    <3> HIDE DEF x
    <3>2. \A d \in DOMAIN x.views : /\ d \in Drafts /\ x.views[d].dec <= G.dec[d]
                                    /\ x.views[d].dec \in Nat
                                    /\ x.views[d] = [rev |-> 0, dec |-> x.views[d].dec]
      BY <2>2, <3>1 DEF CommandOK
    <3>3. CommandOK(k, x, G)
      BY <2>3, <3>1, <3>2 DEF CommandOK
    <3> QED
      BY <3>3 DEF x
  <2> QED
    BY <2>1, <2>4 DEF CommandsOK
<1>8. Known(gist, feedback) \subseteq Known(G, feedback) /\ G.settled = gist.settled
  BY <1>1, <1>3 DEF Known
<1>9. \A c \in Known(G, feedback) : c \in Known(gist, feedback) \/ commands[c].ask.kind # "feedback"
  BY <1>1, <1>2, <1>3 DEF Known
<1> QED
  BY <1>6, <1>7, <1>8, <1>9

LEMMA RunsWithMoreKnown ==
  ASSUME NEW R, NEW C, NEW G, NEW F, RunsOK(R, C, G, F), NEW G2, NEW F2,
         G2.settled = G.settled, Known(G, F) \subseteq Known(G2, F2)
  PROVE  RunsOK(R, C, G2, F2)
  BY DEF RunsOK

LEMMA ConsumeStep == ASSUME RouteInv, Consume PROVE RouteInv'
<1>1. /\ day' = day /\ variable' = variable /\ commands' = commands /\ runs' = runs
      /\ feedback' = feedback
  BY DEF Consume
<1>2. drain.pc = "fetched" /\ faults' \in 0..MaxFaults
  BY ConsumeDone
<1>3. PICK todo : /\ NextDrain(drain', todo)
                  /\ \A c \in todo : /\ c \in DOMAIN commands /\ commands[c].ask.kind = "feedback"
                                     /\ c \notin Known(gist, feedback)
  BY ConsumeDone
<1>4. /\ GistOK(gist', commands, day) /\ CommandsOK(commands, gist')
      /\ gist'.settled = gist.settled /\ Known(gist, feedback) \subseteq Known(gist', feedback)
      /\ \A c \in Known(gist', feedback) :
            c \in Known(gist, feedback) \/ commands[c].ask.kind # "feedback"
  <2>1. CASE gist' = gist
    BY <2>1 DEF RouteInv
  <2>2. CASE \E S : Consumes(S, gist')
    BY <2>2, KnownKinds
  <2> QED
    BY <2>1, <2>2, ConsumeDone
<1>5. RunsOK(runs, commands, gist', feedback)
  BY <1>4, RunsWithMoreKnown DEF RouteInv
<1>6. DrainOK(drain', runs, commands, gist', feedback)
  <2>1. DrainOK(drain, runs, commands, gist, feedback)
    BY DEF RouteInv
  <2>2. CASE drain' = Idle
    BY <2>2 DEF Idle, DrainOK
  <2>3. CASE drain' # Idle
    <3>1. /\ drain'.pc = "feedback" /\ drain'.variable = drain.variable /\ drain'.todo = todo
          /\ drain'.entries = drain.entries /\ drain'.empty = drain.empty
          /\ drain' = [pc |-> "feedback", variable |-> drain'.variable, todo |-> drain'.todo,
                       entries |-> drain'.entries, empty |-> drain'.empty]
      BY <1>3, <2>3 DEF NextDrain
    <3>2. \A c \in todo : c \notin Known(gist', feedback)
      BY <1>3, <1>4
    <3> QED
      BY <1>2, <1>3, <2>1, <3>1, <3>2 DEF DrainOK
  <2> QED
    BY <2>2, <2>3
<1> QED
  BY <1>1, <1>2, <1>4, <1>5, <1>6 DEF RouteInv

-----------------------------------------------------------------------------
(* Consuming a feedback command.                                           *)

KeptFeedback == [feedback EXCEPT !.results = Retained(@)]

LEMMA KeptFeedbackFacts ==
  ASSUME RouteInv
  PROVE  /\ KeptFeedback \in FeedbackRecord
         /\ KeptFeedback.taken = feedback.taken /\ KeptFeedback.ended = feedback.ended
         /\ \A c \in Ids : \/ KeptFeedback.results[c] = feedback.results[c]
                           \/ /\ KeptFeedback.results[c] = "none"
                              /\ c \in DOMAIN commands /\ commands[c].expires + Retention < day
<1>1. feedback \in FeedbackRecord /\ feedback.results \in [Ids -> Outcomes]
  BY DEF RouteInv, FeedbackOK, FeedbackRecord
<1> DEFINE new == Retained(feedback.results)
<1>2. /\ new \in [Ids -> Outcomes]
      /\ \A c \in Ids : \/ new[c] = feedback.results[c]
                        \/ /\ new[c] = "none"
                           /\ c \in DOMAIN commands /\ commands[c].expires + Retention < day
  BY <1>1, RetainedResults
<1>3. KeptFeedback = [feedback EXCEPT !.results = new]
  BY DEF KeptFeedback
<1> HIDE DEF new
<1> QED
  BY <1>1, <1>2, <1>3 DEF FeedbackRecord

(* The feedback Gist's document once command c was consumed with outcome x. *)
ConsumesFeedback(c, x, F) ==
    /\ c \in Ids \cap DOMAIN commands /\ commands[c].ask.kind = "feedback"
    /\ c \notin Known(gist, feedback)
    /\ x \in {"applied", "refused"} /\ (x = "applied" => Passes(c, gist.route))
    /\ F \in FeedbackRecord /\ Noted(KeptFeedback, F, c, x)

LEMMA FeedbackDone ==
  ASSUME RouteInv, ConsumeFeedback
  PROVE  /\ drain.pc = "feedback" /\ faults' \in 0..MaxFaults
         /\ feedback' = feedback \/ \E c, x : ConsumesFeedback(c, x, feedback')
         /\ \/ drain' = Idle
            \/ \E c : drain' = [drain EXCEPT !.todo = @ \ {c}] /\ c \in Known(gist, feedback')
                      /\ \A b \in Known(gist, feedback') : b = c \/ b \in Known(gist, feedback)
<1> DEFINE c == CHOOSE c \in drain.todo : \A b \in drain.todo : c <= b
           kept == KeptFeedback
           next == [drain EXCEPT !.todo = @ \ {c}]
<1>0. drain.pc = "feedback" /\ drain.todo # {}
  BY DEF ConsumeFeedback
<1>1. \A b \in drain.todo : /\ b \in DOMAIN commands /\ commands[b].ask.kind = "feedback"
                            /\ b \notin Known(gist, feedback)
  BY <1>0 DEF RouteInv, DrainOK
<1>2. \A b \in drain.todo : b \in Ids
  BY <1>1 DEF RouteInv, CommandsOK
<1>3. \E m \in drain.todo : \A b \in drain.todo : m <= b
  BY <1>0, <1>2, IdsAreNumbers, LeastNumber
<1>4. c \in drain.todo
  BY <1>3
<1>5. \/ kept.results[c] # "none" /\ drain' = next /\ feedback' = feedback /\ faults' = faults
      \/ \E x \in (IF Passes(c, gist.route) THEN {"applied", "refused"} ELSE {"refused"}) :
            PatchFeedback(Record(kept, c, x), next)
  BY DEF ConsumeFeedback, KeptFeedback
<1> HIDE DEF c
<1>6. /\ c \in Ids /\ c \in DOMAIN commands /\ commands[c].ask.kind = "feedback"
      /\ c \notin Known(gist, feedback)
  BY <1>1, <1>2, <1>4
<1>7. kept.results[c] = "none"
  <2>1. feedback.results[c] = "none"
    BY <1>6 DEF RouteInv, FeedbackOK, StoreOK, Known
  <2> QED
    BY <1>6, <2>1, KeptFeedbackFacts
<1>8. PICK x \in {"applied", "refused"} :
        (x = "applied" => Passes(c, gist.route)) /\ PatchFeedback(Record(kept, c, x), next)
  BY <1>5, <1>7
<1> DEFINE doc == Record(kept, c, x)
<1>9. ConsumesFeedback(c, x, doc)
  <2>1. kept \in FeedbackRecord
    BY KeptFeedbackFacts
  <2>2. doc \in FeedbackRecord /\ Noted(kept, doc, c, x)
    BY <1>6, <2>1, RecordedFeedback
  <2> HIDE DEF doc
  <2> QED
    BY <1>6, <1>8, <2>2 DEF ConsumesFeedback
<1> HIDE DEF doc, next
<1>10. \/ feedback' = doc /\ drain' = next /\ faults' = faults
       \/ Fault /\ feedback' \in {feedback, doc} /\ drain' = Idle
  BY <1>8 DEF PatchFeedback, doc
<1>11. faults' \in 0..MaxFaults
  BY <1>10, RouteAssumption DEF Fault, RouteInv
<1>12. feedback' = feedback \/ ConsumesFeedback(c, x, feedback')
  BY <1>9, <1>10
<1>13. CASE drain' = Idle
  BY <1>0, <1>11, <1>12, <1>13
<1>14. CASE feedback' = doc /\ drain' = next
  <2>1. /\ doc.taken = IF x = "applied" THEN feedback.taken \cup {c} ELSE feedback.taken
        /\ doc.ended = IF x = "refused" THEN feedback.ended \cup {c} ELSE feedback.ended
    BY <1>9, KeptFeedbackFacts DEF ConsumesFeedback, Noted
  <2>2. c \in Known(gist, doc) /\ \A b \in Known(gist, doc) : b = c \/ b \in Known(gist, feedback)
    BY <1>8, <2>1 DEF Known
  <2>3. c \in Known(gist, feedback') /\ \A b \in Known(gist, feedback') : b = c \/ b \in Known(gist, feedback)
    BY <1>14, <2>2
  <2>4. drain' = [drain EXCEPT !.todo = @ \ {c}]
    BY <1>14 DEF next
  <2> QED
    BY <1>0, <1>11, <1>12, <2>3, <2>4
<1> QED
  BY <1>10, <1>13, <1>14

LEMMA FeedbackTyped ==
  ASSUME RouteInv, NEW c, NEW x, NEW F, ConsumesFeedback(c, x, F)
  PROVE  FeedbackOK(F, commands, day) /\ Known(gist, feedback) \subseteq Known(gist, F)
<1>1. /\ c \in Ids /\ c \in DOMAIN commands /\ commands[c].ask.kind = "feedback"
      /\ c \notin Known(gist, feedback) /\ x \in {"applied", "refused"}
      /\ F \in FeedbackRecord /\ Noted(KeptFeedback, F, c, x)
  BY DEF ConsumesFeedback
<1>2. /\ F.results[c] = x /\ \A b \in Ids \ {c} : F.results[b] = KeptFeedback.results[b]
      /\ F.taken = IF x = "applied" THEN feedback.taken \cup {c} ELSE feedback.taken
      /\ F.ended = IF x = "refused" THEN feedback.ended \cup {c} ELSE feedback.ended
  BY <1>1, KeptFeedbackFacts DEF Noted
<1>3. FeedbackOK(feedback, commands, day) /\ StoreOK(feedback, commands, day)
  BY DEF RouteInv, FeedbackOK
<1>4. c \notin feedback.taken /\ c \notin feedback.ended
  BY <1>1 DEF Known
<1>5. F.taken \cup F.ended = feedback.taken \cup feedback.ended \cup {c} /\ F.taken \cap F.ended = {}
  <2>1. feedback.taken \cap feedback.ended = {}
    BY <1>3 DEF StoreOK
  <2>2. CASE x = "applied"
    BY <1>2, <1>4, <2>1, <2>2
  <2>3. CASE x = "refused"
    BY <1>2, <1>4, <2>1, <2>3
  <2> QED
    BY <1>1, <2>2, <2>3
<1>6. \A b \in Ids : F.results[b] # "none" => b \in F.taken \cup F.ended
  <2> SUFFICES ASSUME NEW b \in Ids, F.results[b] # "none" PROVE b \in F.taken \cup F.ended
    OBVIOUS
  <2>1. CASE b = c
    BY <1>5, <2>1
  <2>2. CASE b # c
    <3>1. feedback.results[b] # "none"
      BY <1>2, <2>2, KeptFeedbackFacts
    <3> QED
      BY <1>3, <1>5, <3>1 DEF StoreOK
  <2> QED
    BY <2>1, <2>2
<1>7. \A b \in F.taken \cup F.ended : F.results[b] = "none" => commands[b].expires + Retention < day
  <2> SUFFICES ASSUME NEW b \in F.taken \cup F.ended, F.results[b] = "none"
               PROVE  commands[b].expires + Retention < day
    OBVIOUS
  <2>1. b # c
    BY <1>1, <1>2
  <2>2. b \in feedback.taken \cup feedback.ended
    BY <1>5, <2>1
  <2>3. b \in Ids
    BY <1>3, <2>2 DEF StoreOK, RouteInv, CommandsOK
  <2>4. KeptFeedback.results[b] = "none"
    BY <1>2, <2>1, <2>3
  <2>5. CASE feedback.results[b] = "none"
    BY <1>3, <2>2, <2>5 DEF StoreOK
  <2>6. CASE feedback.results[b] # "none"
    BY <2>3, <2>4, <2>6, KeptFeedbackFacts
  <2> QED
    BY <2>5, <2>6
<1>8. F.taken \cup F.ended \subseteq DOMAIN commands
  BY <1>1, <1>3, <1>5 DEF StoreOK
<1>9. StoreOK(F, commands, day)
  BY <1>5, <1>6, <1>7, <1>8 DEF StoreOK
<1>10. \A b \in F.taken \cup F.ended : commands[b].ask.kind = "feedback"
  BY <1>1, <1>3, <1>5 DEF FeedbackOK
<1>11. Known(gist, feedback) \subseteq Known(gist, F)
  BY <1>5 DEF Known
<1> QED
  BY <1>1, <1>9, <1>10, <1>11 DEF FeedbackOK

LEMMA FeedbackStep == ASSUME RouteInv, ConsumeFeedback PROVE RouteInv'
<1>1. /\ day' = day /\ variable' = variable /\ commands' = commands /\ runs' = runs /\ gist' = gist
  BY DEF ConsumeFeedback
<1>2. drain.pc = "feedback" /\ faults' \in 0..MaxFaults
  BY FeedbackDone
<1>3. FeedbackOK(feedback', commands, day) /\ Known(gist, feedback) \subseteq Known(gist, feedback')
  <2>1. CASE feedback' = feedback
    BY <2>1 DEF RouteInv
  <2>2. CASE \E c, x : ConsumesFeedback(c, x, feedback')
    BY <2>2, FeedbackTyped
  <2> QED
    BY <2>1, <2>2, FeedbackDone
<1>4. RunsOK(runs, commands, gist, feedback')
  BY <1>3, RunsWithMoreKnown DEF RouteInv
<1>5. DrainOK(drain', runs, commands, gist, feedback')
  <2>1. CASE drain' = Idle
    BY <2>1 DEF Idle, DrainOK
  <2>2. CASE drain' # Idle
    <3>1. PICK c : /\ drain' = [drain EXCEPT !.todo = @ \ {c}] /\ c \in Known(gist, feedback')
                   /\ \A b \in Known(gist, feedback') : b = c \/ b \in Known(gist, feedback)
      BY <2>2, FeedbackDone
    <3>2. DrainOK(drain, runs, commands, gist, feedback)
      BY DEF RouteInv
    <3>3. drain = [pc |-> "feedback", variable |-> drain.variable, todo |-> drain.todo,
                   entries |-> drain.entries, empty |-> drain.empty]
      BY <1>2, <3>2 DEF DrainOK
    <3>4. drain' = [pc |-> "feedback", variable |-> drain.variable, todo |-> drain.todo \ {c},
                    entries |-> drain.entries, empty |-> drain.empty]
      BY <3>1, <3>3
    <3>5. \A b \in drain.todo \ {c} : /\ b \in DOMAIN commands /\ commands[b].ask.kind = "feedback"
                                      /\ b \notin Known(gist, feedback')
      BY <1>2, <3>1, <3>2 DEF DrainOK
    <3>6. /\ drain.variable \in Modes
          /\ \A r \in drain.entries : r \in Runs /\ runs[r].stage = "live"
          /\ \A r \in drain.empty : r \in Runs /\ runs[r].stage \in {"deleted", "over"}
      BY <1>2, <3>2 DEF DrainOK
    <3> QED
      BY <3>4, <3>5, <3>6 DEF DrainOK
  <2> QED
    BY <2>1, <2>2
<1> QED
  BY <1>1, <1>2, <1>3, <1>4, <1>5 DEF RouteInv

(* What is acknowledged has its result; what is settled has no artifact. *)
LEMMA AcknowledgeStep == ASSUME RouteInv, Acknowledge PROVE RouteInv'
<1>1. /\ day' = day /\ variable' = variable /\ commands' = commands /\ feedback' = feedback
      /\ faults' = faults /\ drain' = Idle /\ drain.pc = "feedback"
  BY DEF Acknowledge
<1>2. PICK deleted \in SUBSET {r \in drain.entries : Acknowledgeable(r)} :
        /\ runs' = [r \in Runs |->
                       IF r \in deleted THEN [runs[r] EXCEPT !.stage = "deleted"] ELSE runs[r]]
        /\ gist' \in {gist, [gist EXCEPT !.settled = @ \cup deleted \cup drain.empty]}
  BY DEF Acknowledge
<1>3. /\ \A r \in drain.entries : r \in Runs /\ runs[r].stage = "live"
      /\ \A r \in drain.empty : r \in Runs /\ runs[r].stage \in {"deleted", "over"}
  BY <1>1 DEF RouteInv, DrainOK
<1>4. runs \in [Runs -> RunRecord] /\ \A r \in Runs : runs[r] \in RunRecord
  BY DEF RouteInv, RunsOK
<1>5. \A r \in deleted : r \in Runs /\ runs[r].stage = "live" /\ CommandOf(r) \in DOMAIN commands
  BY <1>2, <1>3 DEF RouteInv, RunsOK
<1>6. \A r \in deleted : CommandOf(r) \in Known(gist, feedback)
  <2> SUFFICES ASSUME NEW r \in deleted PROVE CommandOf(r) \in Known(gist, feedback)
    OBVIOUS
  <2> DEFINE c == CommandOf(r)
  <2>1. c \in DOMAIN commands /\ c \in Ids /\ Acknowledgeable(r)
    BY <1>2, <1>5 DEF RouteInv, CommandsOK
  <2>2. gist.results[c] # "none" \/ feedback.results[c] # "none"
    BY <2>1 DEF Acknowledgeable, Home
  <2> QED
    BY <2>1, <2>2 DEF Known, RouteInv, GistOK, FeedbackOK, StoreOK
<1>7. /\ gist' \in GistRecord
      /\ gist'.taken = gist.taken /\ gist'.ended = gist.ended /\ gist'.results = gist.results
      /\ gist'.dec = gist.dec /\ gist'.route = gist.route
      /\ gist'.settled \subseteq gist.settled \cup deleted \cup drain.empty
  <2>1. gist \in GistRecord
    BY DEF RouteInv, GistOK
  <2>2. deleted \cup drain.empty \subseteq Runs
    BY <1>3, <1>5
  <2>3. CASE gist' = gist
    BY <2>1, <2>3
  <2>4. CASE gist' = [gist EXCEPT !.settled = @ \cup deleted \cup drain.empty]
    BY <2>1, <2>2, <2>4 DEF GistRecord
  <2> QED
    BY <1>2, <2>3, <2>4
<1>8. StoreOK(gist', commands, day)
  BY <1>7 DEF RouteInv, GistOK, StoreOK
<1>9. GistOK(gist', commands, day)
  BY <1>7, <1>8 DEF RouteInv, GistOK
<1>10. CommandsOK(commands, gist')
  BY <1>7 DEF RouteInv, CommandsOK, CommandOK
<1>11. Known(gist', feedback) = Known(gist, feedback)
  BY <1>7 DEF Known
<1>12. /\ \A r \in Runs : r \in deleted =>
             runs'[r].stage = "deleted" /\ runs'[r].created = runs[r].created /\ runs'[r] \in RunRecord
       /\ \A r \in Runs : r \notin deleted => runs'[r] = runs[r]
       /\ DOMAIN runs' = Runs /\ runs' = [r \in Runs |-> runs'[r]]
  <2>1. ASSUME NEW r \in Runs, r \in deleted
        PROVE  /\ runs'[r].stage = "deleted" /\ runs'[r].created = runs[r].created
               /\ runs'[r] \in RunRecord
    <3>1. runs'[r] = [runs[r] EXCEPT !.stage = "deleted"]
      BY <1>2, <2>1
    <3>2. runs[r] \in RunRecord
      BY <1>4
    <3> QED
      BY <3>1, <3>2 DEF RunRecord
  <2>2. ASSUME NEW r \in Runs, r \notin deleted PROVE runs'[r] = runs[r]
    BY <1>2, <2>2
  <2> QED
    BY <1>2, <2>1, <2>2
<1>13. runs' \in [Runs -> RunRecord]
  BY <1>4, <1>12
<1>14. RunsOK(runs', commands, gist', feedback)
  <2>1. RunsOK(runs, commands, gist, feedback)
    BY DEF RouteInv
  <2>2. \A r \in Runs :
          /\ runs'[r].stage # "absent" =>
                CommandOf(r) \in DOMAIN commands /\ runs'[r].created < commands[CommandOf(r)].expires
          /\ runs'[r].stage = "deleted" => CommandOf(r) \in Known(gist, feedback)
          /\ r \in gist'.settled => runs'[r].stage \in {"deleted", "over"}
    <3> SUFFICES ASSUME NEW r \in Runs
                 PROVE  /\ runs'[r].stage # "absent" =>
                             CommandOf(r) \in DOMAIN commands /\ runs'[r].created < commands[CommandOf(r)].expires
                        /\ runs'[r].stage = "deleted" => CommandOf(r) \in Known(gist, feedback)
                        /\ r \in gist'.settled => runs'[r].stage \in {"deleted", "over"}
      OBVIOUS
    <3>1. CASE r \in deleted
      BY <1>5, <1>6, <1>12, <2>1, <3>1 DEF RunsOK
    <3>2. CASE r \notin deleted
      BY <1>3, <1>7, <1>12, <2>1, <3>2 DEF RunsOK
    <3> QED
      BY <3>1, <3>2
  <2> QED
    BY <1>11, <1>13, <2>2 DEF RunsOK
<1>15. DrainOK(drain', runs', commands, gist', feedback)
  BY <1>1 DEF Idle, DrainOK
<1> QED
  BY <1>1, <1>9, <1>10, <1>14, <1>15, <1>7 DEF RouteInv, FeedbackOK

LEMMA DieStep == ASSUME RouteInv, Die PROVE RouteInv'
<1>1. /\ day' = day /\ variable' = variable /\ commands' = commands /\ runs' = runs
      /\ gist' = gist /\ feedback' = feedback /\ drain' = Idle
  BY DEF Die
<1>2. faults' \in 0..MaxFaults
  BY RouteAssumption DEF Die, Fault, RouteInv
<1>3. DrainOK(drain', runs, commands, gist, feedback)
  BY <1>1 DEF Idle, DrainOK
<1> QED
  BY <1>1, <1>2, <1>3 DEF RouteInv

LEMMA RouteInvStep == RouteInv /\ [Next]_routeVars => RouteInv'
<1> SUFFICES ASSUME RouteInv, [Next]_routeVars PROVE RouteInv'
  OBVIOUS
<1>1. CASE UNCHANGED routeVars
  BY <1>1 DEF routeVars, RouteInv
<1>2. CASE Next
  BY <1>2, TickStep, SealStep, RunMoves, FetchStep, ConsumeStep, FeedbackStep, AcknowledgeStep, DieStep
  DEF Next, DrainStep
<1> QED
  BY <1>1, <1>2

LEMMA RouteSafe == Spec => []RouteInv
  BY RouteInvInit, RouteInvStep, PTL DEF Spec

-----------------------------------------------------------------------------
(* What the invariant says.                                                *)

(* For any commands, bounds and faults: the state is well typed, and every *)
(* recorded command has one outcome, in the Gist its kind belongs to.      *)
THEOREM RouteTyped == Spec => []RouteTypeOK
<1>1. RouteInv => RouteTypeOK
  <2> SUFFICES ASSUME RouteInv PROVE RouteTypeOK
    OBVIOUS
  <2>1. gist \in GistRecord /\ StoreOK(gist, commands, day) /\ StoreOK(feedback, commands, day)
    BY DEF RouteInv, GistOK, FeedbackOK
  <2>2. \A r \in Runs : runs[r].stage \in {"absent", "dispatched", "live", "over", "deleted"}
    <3> TAKE r \in Runs
    <3>1. runs[r] \in RunRecord
      BY DEF RouteInv, RunsOK
    <3> QED
      BY <3>1 DEF RunRecord
  <2>3. gist.dec \in [Drafts -> Nat] /\ gist.settled \subseteq Runs
    BY <2>1 DEF GistRecord
  <2>4. ASSUME NEW c \in Ids, gist.results[c] # "none"
        PROVE  c \in gist.taken \cup gist.ended /\ gist = Home(c)
    <3>1. c \in gist.taken \cup gist.ended /\ c \in DOMAIN commands
      BY <2>1, <2>4 DEF StoreOK
    <3>2. commands[c].ask.kind # "feedback"
      BY <3>1 DEF RouteInv, GistOK
    <3> QED
      BY <3>1, <3>2 DEF Home
  <2>5. ASSUME NEW c \in Ids, feedback.results[c] # "none"
        PROVE  c \in feedback.taken \cup feedback.ended /\ feedback = Home(c)
    <3>1. c \in feedback.taken \cup feedback.ended /\ c \in DOMAIN commands
      BY <2>1, <2>5 DEF StoreOK
    <3>2. commands[c].ask.kind = "feedback"
      BY <3>1 DEF RouteInv, FeedbackOK
    <3> QED
      BY <3>1, <3>2 DEF Home
  <2>6. gist.taken \cap gist.ended = {} /\ feedback.taken \cap feedback.ended = {}
    BY <2>1 DEF StoreOK
  <2>7. day \in 0..MaxDay /\ variable \in {"legacy", "serialized"} /\ faults \in 0..MaxFaults
    BY DEF RouteInv, Modes
  <2> QED
    BY <2>2, <2>3, <2>4, <2>5, <2>6, <2>7 DEF RouteTypeOK
<1> QED
  BY <1>1, RouteSafe, PTL

(* For any commands, bounds and faults: an artifact is deleted only when    *)
(* its command has a result, which stays for as long as results are kept,   *)
(* and what later drains leave out has no artifact.                         *)
THEOREM NothingDropped == Spec => []NothingDroppedUnsettled
<1>1. RouteInv => NothingDroppedUnsettled
  <2> SUFFICES ASSUME RouteInv, NEW r \in Runs
               PROVE  LET c == CommandOf(r)
                      IN  /\ runs[r].stage = "deleted" =>
                                Home(c).results[c] # "none" \/ commands[c].expires + Retention < day
                          /\ r \in gist.settled => runs[r].stage \in {"deleted", "over"}
    BY DEF NothingDroppedUnsettled
  <2> DEFINE c == CommandOf(r)
  <2>1. r \in gist.settled => runs[r].stage \in {"deleted", "over"}
    BY DEF RouteInv, RunsOK
  <2>2. ASSUME runs[r].stage = "deleted", Home(c).results[c] = "none"
        PROVE  commands[c].expires + Retention < day
    <3>1. c \in DOMAIN commands /\ c \in Known(gist, feedback)
      BY <2>2 DEF RouteInv, RunsOK
    <3>2. CASE commands[c].ask.kind = "feedback"
      <4>1. feedback.results[c] = "none"
        BY <2>2, <3>1, <3>2 DEF Home
      <4>2. c \in feedback.taken \cup feedback.ended
        BY <3>1, <3>2 DEF Known, RouteInv, GistOK
      <4> QED
        BY <4>1, <4>2 DEF RouteInv, FeedbackOK, StoreOK
    <3>3. CASE commands[c].ask.kind # "feedback"
      <4>1. gist.results[c] = "none"
        BY <2>2, <3>1, <3>3 DEF Home
      <4>2. c \in gist.taken \cup gist.ended
        BY <3>1, <3>3 DEF Known, RouteInv, FeedbackOK
      <4> QED
        BY <4>1, <4>2 DEF RouteInv, GistOK, StoreOK
    <3> QED
      BY <3>2, <3>3
  <2> QED
    BY <2>1, <2>2
<1> QED
  BY <1>1, RouteSafe, PTL

-----------------------------------------------------------------------------
(* What a step does to copies and outcomes: nothing, or what one PATCH of   *)
(* the state Gist does, or one of the feedback Gist.                        *)

SealedStay == \A c \in DOMAIN commands : commands'[c] = commands[c]

NothingDecided ==
    /\ gist'.taken = gist.taken /\ gist'.ended = gist.ended /\ gist'.dec = gist.dec
    /\ feedback' = feedback /\ SealedStay

GistDecided == commands' = commands /\ feedback' = feedback /\ \E S : Consumes(S, gist')

FeedbackDecided ==
    commands' = commands /\ gist' = gist /\ \E c, x : ConsumesFeedback(c, x, feedback')

LEMMA SealedRemain == ASSUME RouteInv, NEW script \in Scripts, Seal(script) PROVE SealedStay
<1>1. commands \in Seq(Command)
  BY DEF RouteInv, CommandsOK
<1>2. PICK new : commands' = Append(commands, new)
  BY DEF Seal
<1>3. \A c \in DOMAIN commands : Append(commands, new)[c] = commands[c]
  BY <1>1
<1> QED
  BY <1>2, <1>3 DEF SealedStay

LEMMA StepEffect ==
  ASSUME RouteInv, [Next]_routeVars
  PROVE  NothingDecided \/ GistDecided \/ FeedbackDecided
<1>1. CASE UNCHANGED <<commands, gist, feedback>>
  BY <1>1 DEF NothingDecided, SealedStay
<1>2. CASE UNCHANGED routeVars \/ Tick \/ Fetch \/ Die
           \/ (\E r \in Runs : Dispatch(r) \/ Admit(r) \/ Refuse(r))
  BY <1>1, <1>2 DEF routeVars, Tick, Fetch, Die, Dispatch, Admit, Refuse, Stage, Outside
<1>3. CASE \E script \in Scripts : Seal(script)
  <2>1. gist' = gist /\ feedback' = feedback
    BY <1>3 DEF Seal, Outside
  <2>2. SealedStay
    BY <1>3, SealedRemain
  <2> QED
    BY <2>1, <2>2 DEF NothingDecided
<1>4. CASE Consume
  <2>1. commands' = commands /\ feedback' = feedback
    BY <1>4 DEF Consume
  <2>2. gist' = gist \/ \E S : Consumes(S, gist')
    BY <1>4, ConsumeDone
  <2> QED
    BY <1>1, <2>1, <2>2 DEF GistDecided
<1>5. CASE ConsumeFeedback
  <2>1. commands' = commands /\ gist' = gist
    BY <1>5 DEF ConsumeFeedback
  <2>2. feedback' = feedback \/ \E c, x : ConsumesFeedback(c, x, feedback')
    BY <1>5, FeedbackDone
  <2> QED
    BY <1>1, <2>1, <2>2 DEF FeedbackDecided
<1>6. CASE Acknowledge
  <2>1. PICK more : gist' \in {gist, [gist EXCEPT !.settled = @ \cup more]}
    <3>1. PICK deleted \in SUBSET {r \in drain.entries : Acknowledgeable(r)} :
            gist' \in {gist, [gist EXCEPT !.settled = @ \cup deleted \cup drain.empty]}
      BY <1>6 DEF Acknowledge
    <3>2. gist.settled \cup deleted \cup drain.empty = gist.settled \cup (deleted \cup drain.empty)
      OBVIOUS
    <3> QED
      BY <3>1, <3>2
  <2>2. gist \in GistRecord
    BY DEF RouteInv, GistOK
  <2>3. gist'.taken = gist.taken /\ gist'.ended = gist.ended /\ gist'.dec = gist.dec
    BY <2>1, <2>2 DEF GistRecord
  <2>4. commands' = commands /\ feedback' = feedback
    BY <1>6 DEF Acknowledge
  <2> QED
    BY <2>3, <2>4 DEF NothingDecided, SealedStay
<1> QED
  BY <1>2, <1>3, <1>4, <1>5, <1>6 DEF Next, DrainStep

(* The commands a step takes, of the state Gist. *)
LEMMA GistTaken ==
  ASSUME RouteInv, GistDecided
  PROVE  \E S : /\ Consumes(S, gist')
                /\ Taken' \ Taken = gist'.taken \ Kept.taken
                /\ Taken \subseteq Taken' /\ Ended \subseteq Ended'
                /\ Taken' \ Taken \subseteq S /\ Ended' \ Ended \subseteq S
                /\ (Taken' \ Taken) \cap Ended' = {}
<1>1. PICK S : Consumes(S, gist')
  BY DEF GistDecided
<1>2. feedback' = feedback
  BY DEF GistDecided
<1>3. Kept.taken = gist.taken /\ Kept.ended = gist.ended
  BY KeptGist
<1>4. /\ Kept.taken \subseteq gist'.taken /\ Kept.ended \subseteq gist'.ended
      /\ gist'.taken \ Kept.taken \subseteq S /\ gist'.ended \ Kept.ended \subseteq S
      /\ (gist'.taken \ Kept.taken) \cap gist'.ended = {}
  BY <1>1 DEF Consumes, Done
<1>5. S \cap Known(gist, feedback) = {}
  BY <1>1 DEF Consumes
<1>6. Taken' = gist'.taken \cup feedback.taken /\ Ended' = gist'.ended \cup feedback.ended
  BY <1>2 DEF Taken, Ended
<1> QED
  BY <1>1, <1>3, <1>4, <1>5, <1>6 DEF Known, Taken, Ended

(* ...and of the feedback Gist. *)
LEMMA FeedbackTaken ==
  ASSUME RouteInv, FeedbackDecided
  PROVE  \E c, x : /\ ConsumesFeedback(c, x, feedback')
                   /\ c \notin Taken /\ c \notin Ended
                   /\ IF x = "applied" THEN Taken' = Taken \cup {c} /\ Ended' = Ended
                                       ELSE Taken' = Taken /\ Ended' = Ended \cup {c}
<1>1. PICK c, x : ConsumesFeedback(c, x, feedback')
  BY DEF FeedbackDecided
<1>2. gist' = gist
  BY DEF FeedbackDecided
<1>3. /\ feedback'.taken = IF x = "applied" THEN feedback.taken \cup {c} ELSE feedback.taken
      /\ feedback'.ended = IF x = "refused" THEN feedback.ended \cup {c} ELSE feedback.ended
      /\ x \in {"applied", "refused"} /\ c \notin Known(gist, feedback)
  BY <1>1, KeptFeedbackFacts DEF ConsumesFeedback, Noted
<1>4. Taken' = gist.taken \cup feedback'.taken /\ Ended' = gist.ended \cup feedback'.ended
  BY <1>2 DEF Taken, Ended
<1>5. c \notin Taken /\ c \notin Ended
  BY <1>3 DEF Known, Taken, Ended
<1>6. CASE x = "applied"
  BY <1>1, <1>3, <1>4, <1>5, <1>6 DEF Taken, Ended
<1>7. CASE x = "refused"
  BY <1>1, <1>3, <1>4, <1>5, <1>7 DEF Taken, Ended
<1> QED
  BY <1>3, <1>6, <1>7

LEMMA NothingTaken ==
  ASSUME NothingDecided PROVE Taken' = Taken /\ Ended' = Ended
  BY DEF NothingDecided, Taken, Ended

-----------------------------------------------------------------------------
(* A command is bound to the activation it was sealed for.                 *)

StrandedStep ==
    \A c \in Taken' \ Taken : IsControl(commands[c].ask.kind) \/
          /\ RouteActive(gist.route, drain.variable) /\ commands[c].activation = gist.route.activation
          /\ \A k \in Taken' \ Taken : IsControl(commands[k].ask.kind) => c < k

LEMMA StepStrands == RouteInv /\ [Next]_routeVars => StrandedStep
<1> SUFFICES ASSUME RouteInv, [Next]_routeVars PROVE StrandedStep
  OBVIOUS
<1>1. CASE NothingDecided
  BY <1>1, NothingTaken DEF StrandedStep
<1>2. CASE GistDecided
  <2>1. PICK S : Consumes(S, gist') /\ Taken' \ Taken = gist'.taken \ Kept.taken
    BY <1>2, GistTaken
  <2>2. Kept.route = gist.route
    BY KeptGist
  <2> QED
    BY <2>1, <2>2 DEF Consumes, Done, StrandedStep, Control
<1>3. CASE FeedbackDecided
  <2>1. PICK c, x : /\ ConsumesFeedback(c, x, feedback')
                    /\ c \notin Taken /\ c \notin Ended
                    /\ IF x = "applied" THEN Taken' = Taken \cup {c} /\ Ended' = Ended
                                        ELSE Taken' = Taken /\ Ended' = Ended \cup {c}
    BY <1>3, FeedbackTaken
  <2>2. commands[c].ask.kind = "feedback" /\ (x = "applied" => Passes(c, gist.route))
    BY <2>1 DEF ConsumesFeedback
  <2>3. ~IsControl(commands[c].ask.kind)
    BY <2>2 DEF IsControl
  <2>4. x = "applied" => RouteActive(gist.route, drain.variable) /\ commands[c].activation = gist.route.activation
    BY <2>2, <2>3 DEF Passes, RouteApplies
  <2>5. \A b \in Taken' \ Taken : b = c /\ x = "applied"
    BY <2>1
  <2> QED
    BY <2>3, <2>4, <2>5 DEF StrandedStep
<1> QED
  BY <1>1, <1>2, <1>3, StepEffect

(* For any commands, bounds and faults: a command that is no control takes  *)
(* effect only under the activation it was sealed for, before it ends.      *)
THEOREM Stranded == Spec => StrandedForGood
<1>1. RouteInv /\ [Next]_routeVars => [StrandedStep]_routeVars
  BY StepStrands
<1> QED
  BY <1>1, RouteSafe, PTL DEF Spec, StrandedForGood, StrandedStep

-----------------------------------------------------------------------------
(* The route carries out what operators are promised.                      *)

LEMMA GistDecides == ASSUME RouteInv, GistDecided PROVE Decisions!DecisionNext
<1> DEFINE new == Taken' \ Taken
<1>1. PICK S : /\ Consumes(S, gist')
               /\ new = gist'.taken \ Kept.taken
               /\ Taken \subseteq Taken' /\ Ended \subseteq Ended'
               /\ new \subseteq S /\ Ended' \ Ended \subseteq S
               /\ new \cap Ended' = {}
  BY GistTaken
<1>2. commands' = commands /\ Kept.dec = gist.dec /\ gist \in GistRecord
  BY KeptGist DEF GistDecided, RouteInv, GistOK
<1>3. /\ gist' \in GistRecord
      /\ \A d \in Drafts : gist'.dec[d] >= gist.dec[d]
      /\ \A d \in Drafts : gist'.dec[d] # gist.dec[d] => \E c \in new : d \in DOMAIN commands[c].views
      /\ \A c \in new : \A d \in DOMAIN commands[c].views :
            commands[c].views[d].dec = gist.dec[d] /\ gist'.dec[d] > gist.dec[d]
      /\ \A b, c \in new : b # c => DOMAIN commands[b].views \cap DOMAIN commands[c].views = {}
  BY <1>1, <1>2 DEF Consumes, Done
<1>4. S \subseteq DOMAIN commands /\ S \cap Known(gist, feedback) = {}
  BY <1>1 DEF Consumes
<1>5. \A c \in DOMAIN commands : CommandOK(c, commands[c], gist)
  BY DEF RouteInv, CommandsOK
<1>6. \A b, c \in DOMAIN commands : commands[b] = commands[c] => b = c
  BY <1>5 DEF CommandOK
<1>7. Taken \subseteq DOMAIN commands /\ Ended \subseteq DOMAIN commands
  BY DEF RouteInv, GistOK, FeedbackOK, StoreOK, Taken, Ended
<1> HIDE DEF new
<1>8. Sealed(Taken)' = Sealed(Taken) \cup Sealed(new) /\ Sealed(Ended)' = Sealed(Ended) \cup Sealed(Ended' \ Ended)
  BY <1>1, <1>2 DEF Sealed, new
<1>9. \A c \in DOMAIN commands : \A ids \in SUBSET DOMAIN commands : commands[c] \in Sealed(ids) <=> c \in ids
  BY <1>6 DEF Sealed
<1>10. new \subseteq DOMAIN commands /\ Ended' \ Ended \subseteq DOMAIN commands
       /\ Taken' \subseteq DOMAIN commands /\ Ended' \subseteq DOMAIN commands
  BY <1>1, <1>4, <1>7 DEF new
<1>11. \A d \in Drafts : Copies[d] = [rev |-> 0, dec |-> gist.dec[d]] /\ Copies'[d] = [rev |-> 0, dec |-> gist'.dec[d]]
  BY DEF Copies
<1>12. \A c \in new : Decisions!TakesEffect(commands[c])
  <2> SUFFICES ASSUME NEW c \in new PROVE Decisions!TakesEffect(commands[c])
    OBVIOUS
  <2>1. c \in DOMAIN commands /\ c \notin Taken /\ c \notin Ended
    BY <1>1, <1>4, <1>10 DEF Known, Taken, Ended
  <2>2. commands[c] \notin Sealed(Taken) \cup Sealed(Ended)
    BY <1>7, <1>9, <2>1
  <2>3. ASSUME NEW d \in DOMAIN commands[c].views
        PROVE  /\ d \in Drafts /\ Copies[d] = commands[c].views[d]
               /\ Decisions!MovesOn(Copies[d], Copies'[d])
    <3>1. d \in Drafts /\ commands[c].views[d] = [rev |-> 0, dec |-> commands[c].views[d].dec]
      BY <1>5, <2>1 DEF CommandOK
    <3>2. commands[c].views[d].dec = gist.dec[d] /\ gist'.dec[d] > gist.dec[d]
      BY <1>3
    <3>3. gist'.dec[d] \in Nat /\ gist.dec[d] \in Nat
      BY <1>2, <1>3, <3>1 DEF GistRecord
    <3>4. Copies[d] = commands[c].views[d]
      BY <1>11, <3>1, <3>2
    <3> DEFINE before == Copies[d]
               after == Copies'[d]
    <3>5. /\ before = [rev |-> 0, dec |-> gist.dec[d]]
          /\ after = [rev |-> 0, dec |-> gist'.dec[d]]
      BY <1>11, <3>1
    <3> HIDE DEF before, after
    <3>6. before.rev = 0 /\ before.dec = gist.dec[d] /\ after.rev = 0 /\ after.dec = gist'.dec[d]
      BY <3>5
    <3>7. Decisions!MovesOn(before, after)
      BY <3>2, <3>3, <3>6 DEF Decisions!MovesOn, Decisions!Versioned
    <3> QED
      BY <3>1, <3>4, <3>7 DEF before, after
  <2> QED
    BY <2>2, <2>3 DEF Decisions!TakesEffect
<1>13. \A r \in Sealed(Taken)' \ Sealed(Taken) : \E c \in new : r = commands[c]
  BY <1>8 DEF Sealed
<1>14. \A c \in new : commands[c] \in Sealed(Taken)' \ Sealed(Taken)
  <2> SUFFICES ASSUME NEW c \in new PROVE commands[c] \in Sealed(Taken)' /\ commands[c] \notin Sealed(Taken)
    OBVIOUS
  <2>1. c \in DOMAIN commands /\ c \notin Taken /\ commands[c] \in Sealed(new)
    BY <1>10 DEF new, Sealed
  <2>2. commands[c] \notin Sealed(Taken)
    BY <1>7, <1>9, <2>1
  <2>3. commands[c] \in Sealed(Taken)'
    BY <1>8, <2>1
  <2> QED
    BY <2>2, <2>3
<1>15. \A r \in Sealed(Taken)' \ Sealed(Taken) : Decisions!TakesEffect(r)
  BY <1>12, <1>13
<1>16. \A r, s \in Sealed(Taken)' \ Sealed(Taken) : r # s => DOMAIN r.views \cap DOMAIN s.views = {}
  BY <1>3, <1>13
<1>17. \A d \in Drafts : Copies'[d] # Copies[d] =>
          \E r \in Sealed(Taken)' \ Sealed(Taken) : d \in DOMAIN r.views
  <2> SUFFICES ASSUME NEW d \in Drafts, Copies'[d] # Copies[d]
               PROVE  \E r \in Sealed(Taken)' \ Sealed(Taken) : d \in DOMAIN r.views
    OBVIOUS
  <2>1. gist'.dec[d] # gist.dec[d]
    BY <1>11
  <2>2. PICK c \in new : d \in DOMAIN commands[c].views
    BY <1>3, <2>1
  <2> QED
    BY <1>14, <2>2
<1>18. (Sealed(Ended)' \ Sealed(Ended)) \cap Sealed(Taken)' = {}
  <2> SUFFICES ASSUME NEW r, r \in Sealed(Ended)', r \notin Sealed(Ended), r \in Sealed(Taken)' PROVE FALSE
    OBVIOUS
  <2>1. PICK c \in Ended' \ Ended : r = commands[c]
    BY <1>8 DEF Sealed
  <2>2. r \in Sealed(Taken')
    BY <1>2 DEF Sealed
  <2>3. c \in Taken'
    BY <1>9, <1>10, <2>1, <2>2
  <2>4. c \in S /\ c \notin Taken
    BY <1>1, <1>4, <2>1 DEF Known, Taken
  <2> QED
    BY <1>1, <2>1, <2>3, <2>4 DEF new
<1>19. Sealed(Taken) \subseteq Sealed(Taken)' /\ Sealed(Ended) \subseteq Sealed(Ended)'
  BY <1>8
<1> QED
  BY <1>15, <1>16, <1>17, <1>18, <1>19 DEF Decisions!DecisionNext

LEMMA FeedbackDecides == ASSUME RouteInv, FeedbackDecided PROVE Decisions!DecisionNext
<1>1. PICK c, x : /\ ConsumesFeedback(c, x, feedback')
                  /\ c \notin Taken /\ c \notin Ended
                  /\ IF x = "applied" THEN Taken' = Taken \cup {c} /\ Ended' = Ended
                                      ELSE Taken' = Taken /\ Ended' = Ended \cup {c}
  BY FeedbackTaken
<1>2. commands' = commands /\ gist' = gist
  BY DEF FeedbackDecided
<1>3. c \in DOMAIN commands /\ commands[c].ask.kind = "feedback"
  BY <1>1 DEF ConsumesFeedback
<1>4. \A b \in DOMAIN commands : CommandOK(b, commands[b], gist)
  BY DEF RouteInv, CommandsOK
<1>5. \A a, b \in DOMAIN commands : commands[a] = commands[b] => a = b
  BY <1>4 DEF CommandOK
<1>6. Taken \subseteq DOMAIN commands /\ Ended \subseteq DOMAIN commands
  BY DEF RouteInv, GistOK, FeedbackOK, StoreOK, Taken, Ended
<1>7. \A b \in DOMAIN commands : \A ids \in SUBSET DOMAIN commands : commands[b] \in Sealed(ids) <=> b \in ids
  BY <1>5 DEF Sealed
<1>8. commands[c] \notin Sealed(Taken) /\ commands[c] \notin Sealed(Ended)
  BY <1>1, <1>3, <1>6, <1>7
<1>9. DOMAIN commands[c].views = {}
  BY <1>3, <1>4 DEF CommandOK
<1>10. Copies' = Copies
  BY <1>2 DEF Copies
<1>11. CASE x = "applied"
  <2>1. Sealed(Taken)' = Sealed(Taken) \cup {commands[c]} /\ Sealed(Ended)' = Sealed(Ended)
    BY <1>1, <1>2, <1>11 DEF Sealed
  <2>2. Decisions!TakesEffect(commands[c])
    BY <1>8, <1>9 DEF Decisions!TakesEffect
  <2> QED
    BY <1>10, <2>1, <2>2 DEF Decisions!DecisionNext
<1>12. CASE x # "applied"
  <2>1. Sealed(Taken)' = Sealed(Taken) /\ Sealed(Ended)' = Sealed(Ended) \cup {commands[c]}
    BY <1>1, <1>2, <1>12 DEF Sealed
  <2> QED
    BY <1>8, <1>10, <2>1 DEF Decisions!DecisionNext
<1> QED
  BY <1>11, <1>12

LEMMA StepDecides ==
  RouteInv /\ [Next]_routeVars => [Decisions!DecisionNext]_(Decisions!decisionVars)
<1> SUFFICES ASSUME RouteInv, [Next]_routeVars
             PROVE  [Decisions!DecisionNext]_(Decisions!decisionVars)
  OBVIOUS
<1>1. CASE NothingDecided
  <2>1. Taken \subseteq DOMAIN commands /\ Ended \subseteq DOMAIN commands
    BY DEF RouteInv, GistOK, FeedbackOK, StoreOK, Taken, Ended
  <2>2. Taken' = Taken /\ Ended' = Ended
    BY <1>1, NothingTaken
  <2>3. Sealed(Taken)' = Sealed(Taken) /\ Sealed(Ended)' = Sealed(Ended)
    BY <1>1, <2>1, <2>2 DEF Sealed, NothingDecided, SealedStay
  <2>4. Copies' = Copies
    BY <1>1 DEF Copies, NothingDecided
  <2> QED
    BY <2>3, <2>4 DEF Decisions!decisionVars
<1> QED
  BY <1>1, GistDecides, FeedbackDecides, StepEffect

(* For any commands, bounds and faults, across both Gists: what the route   *)
(* does to drafts and requests is what operators are promised.              *)
THEOREM RouteImplementsDecisions == Spec => ImplementsDecisions
<1>1. Init => Decisions!DecisionInit
  <2> SUFFICES ASSUME Init PROVE Decisions!DecisionInit
    OBVIOUS
  <2>1. \A d \in Drafts : Copies[d] = [rev |-> 0, dec |-> 0]
    BY DEF Init, Copies
  <2>2. Sealed(Taken) = {} /\ Sealed(Ended) = {}
    BY DEF Init, Store, Taken, Ended, Sealed
  <2> QED
    BY <2>1, <2>2 DEF Decisions!DecisionInit, Decisions!Versioned
<1> QED
  BY <1>1, RouteSafe, StepDecides, PTL DEF Spec, ImplementsDecisions, Decisions!DecisionSpec
=============================================================================
