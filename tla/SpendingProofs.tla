--------------------------- MODULE SpendingProofs ---------------------------
(***************************************************************************)
(* Proofs about paid work.  First SpendJournal, for every set of intents,  *)
(* jobs and amounts: one grant per intent, exposure within the allowances, *)
(* and the overrun latch.  Then BatchWorker over it, for every set of      *)
(* jobs, workers and batches: the batch journal implements the spending    *)
(* journal, a job is submitted once and charged, and what it reports       *)
(* stands.                                                                 *)
(***************************************************************************)
EXTENDS BatchWorker, FiniteSetTheorems, WellFoundedInduction, TLAPS

(* The typing the other proofs rest on.                                     *)
RecOK ==
    /\ rec \in [Intents -> Record]
    /\ grants \in [Intents -> Nat]
    /\ latest \in Nat

(* Inductive: every record is well formed and a grant is exactly a record   *)
(* that left "reserved" through dispatch.                                   *)
GrantInv == RecOK /\ GrantedOnceAndCharged

LEMMA GrantInvInit == Init => GrantInv
  BY DEF Init, GrantInv, RecOK, GrantedOnceAndCharged, Record, Absent, States

(* Callers' clocks show natural numbers, and amounts are natural numbers. *)
LEMMA Naturals == (\A now \in 0..MaxDay : now \in Nat) /\ (\A a \in Amounts : a \in Nat)
  BY SpendAssumption DEF SpendAssumption

LEMMA One == 0 \in Nat /\ 1 \in Nat /\ 0 <= 1 /\ 1 <= 1 /\ 0 # 1
  OBVIOUS

(* Replacing the record of i by a well-formed t, with the grant of i in step *)
(* with t's state, preserves the invariant.                                  *)
LEMMA ReplaceRecord ==
  ASSUME GrantInv, NEW i \in Intents, NEW t \in Record, rec' = [rec EXCEPT ![i] = t],
         latest' \in Nat, NEW g \in Nat, grants' = [grants EXCEPT ![i] = g],
         g <= 1, g = 1 <=> t.state \in {"dispatched", "uncertain", "settled"}
  PROVE  GrantInv'
  BY DEF GrantInv, RecOK, GrantedOnceAndCharged

(* One journal step keeps the record's type and its grant in step with its state. *)
LEMMA GrantInvStep == GrantInv /\ [Next]_spendVars => GrantInv'
<1> SUFFICES ASSUME GrantInv, [Next]_spendVars PROVE GrantInv'
  OBVIOUS
<1>0. /\ rec \in [Intents -> Record]
      /\ grants \in [Intents -> Nat]
      /\ GrantedOnceAndCharged
  BY DEF GrantInv, RecOK
<1>1. CASE UNCHANGED spendVars
  BY <1>1 DEF spendVars, GrantInv, RecOK, GrantedOnceAndCharged
<1>2. ASSUME NEW now \in 0..MaxDay, NEW l \in Limits, Configure(l, now) PROVE GrantInv'
  BY <1>2, Naturals DEF Configure, GrantInv, RecOK, GrantedOnceAndCharged
<1>3. ASSUME NEW now \in 0..MaxDay, NEW i \in Intents, NEW job \in Jobs, NEW amount \in Amounts,
             Reserve(i, job, amount, now) PROVE GrantInv'
  <2> DEFINE t == [Absent EXCEPT !.state = "reserved", !.job = job, !.reserve = amount,
                                 !.reservedAt = now, !.lastAt = now]
  <2>0. now \in Nat /\ amount \in Nat
    BY Naturals
  <2>1. t \in Record /\ t.state = "reserved"
    BY <2>0 DEF Record, States, Absent
  <2>2. rec' = [rec EXCEPT ![i] = t] /\ latest' \in Nat
    BY <1>3, Naturals DEF Reserve
  <2>3. /\ grants[i] \in Nat /\ grants[i] <= 1 /\ grants[i] # 1
        /\ grants' = [grants EXCEPT ![i] = grants[i]]
    BY <1>0, <1>3 DEF Reserve, GrantedOnceAndCharged
  <2> HIDE DEF t
  <2> QED
    BY <2>1, <2>2, <2>3, ReplaceRecord
<1>4. ASSUME NEW now \in 0..MaxDay, NEW i \in Intents, NEW s \in States, Event(i, s, now),
             NEW g \in Nat, grants' = [grants EXCEPT ![i] = g],
             g <= 1, g = 1 <=> s \in {"dispatched", "uncertain", "settled"}
      PROVE  GrantInv'
  <2> DEFINE t == [rec[i] EXCEPT !.state = s, !.lastAt = now]
  <2>0. now \in Nat /\ rec[i] \in Record
    BY <1>0, Naturals
  <2>1. t \in Record /\ t.state = s
    BY <2>0 DEF Record
  <2>2. rec' = [rec EXCEPT ![i] = t] /\ latest' \in Nat
    BY <1>4, Naturals DEF Event
  <2> HIDE DEF t
  <2> QED
    BY <1>4, <2>1, <2>2, ReplaceRecord
<1>5. ASSUME NEW now \in 0..MaxDay, NEW i \in Intents, Dispatch(i, now) PROVE GrantInv'
  <2>1. "dispatched" \in States /\ Event(i, "dispatched", now)
    BY <1>5 DEF Dispatch, States
  <2>2. grants[i] = 0 /\ grants' = [grants EXCEPT ![i] = grants[i] + 1]
    BY <1>0, <1>5 DEF Dispatch, GrantedOnceAndCharged
  <2>3. grants' = [grants EXCEPT ![i] = 1]
    BY <2>2
  <2> QED
    BY <2>1, <2>3, <1>4, One
<1>6. ASSUME NEW now \in 0..MaxDay, NEW i \in Intents, Uncertain(i, now) PROVE GrantInv'
  <2>1. "uncertain" \in States /\ Event(i, "uncertain", now)
    BY <1>6 DEF Uncertain, States
  <2>2. grants' = [grants EXCEPT ![i] = 1]
    BY <1>0, <1>6 DEF Uncertain, GrantedOnceAndCharged
  <2> QED
    BY <2>1, <2>2, <1>4, One
<1>7. ASSUME NEW now \in 0..MaxDay, NEW i \in Intents, Release(i, now) PROVE GrantInv'
  <2>1. "released" \in States /\ Event(i, "released", now)
    BY <1>7 DEF Release, States
  <2>2. grants' = [grants EXCEPT ![i] = 0]
    BY <1>0, <1>7 DEF Release, GrantedOnceAndCharged
  <2> QED
    BY <2>1, <2>2, <1>4, One
<1>8. ASSUME NEW now \in 0..MaxDay, NEW i \in Intents, NEW amount \in Amounts, NEW e \in Evidence,
             Settle(i, amount, e, now) PROVE GrantInv'
  <2> DEFINE t == [rec[i] EXCEPT !.state = "settled", !.lastAt = now,
                                 !.settled = amount, !.evidence = e]
  <2>0. now \in Nat /\ amount \in Nat /\ rec[i] \in Record
    BY <1>0, Naturals
  <2>1. t \in Record /\ t.state = "settled"
    BY <2>0 DEF Record, States
  <2>2. rec' = [rec EXCEPT ![i] = t] /\ latest' \in Nat
    BY <1>8, Naturals DEF Settle
  <2>3. grants' = [grants EXCEPT ![i] = 1]
    BY <1>0, <1>8 DEF Settle, GrantedOnceAndCharged
  <2> HIDE DEF t
  <2> QED
    BY <2>1, <2>2, <2>3, ReplaceRecord, One
<1> QED
  BY <1>1, <1>2, <1>3, <1>5, <1>6, <1>7, <1>8 DEF Next

(* dispatch answers granted at most once per intent, and exactly the intents *)
(* it granted are charged as dispatched, uncertain or settled.               *)
THEOREM GrantSafety == Spec => []GrantedOnceAndCharged
<1>1. Spec => []GrantInv
  BY GrantInvInit, GrantInvStep, PTL DEF Spec
<1>2. GrantInv => GrantedOnceAndCharged
  BY DEF GrantInv
<1> QED
  BY <1>1, <1>2, PTL

-----------------------------------------------------------------------------
(* Sums over finite sets.  A sum is the value of a recursive function that *)
(* takes one chosen element away at a time.                                *)

Pick(s) == CHOOSE x \in s : TRUE

(* f adds c up over the sets of D. *)
Adds(f, c, D) == f = [s \in D |-> IF s = {} THEN 0 ELSE c[Pick(s)] + f[s \ {Pick(s)}]]

SumOf(c, T) == (CHOOSE f : Adds(f, c, SUBSET T))[T]

LEMMA LeastNumber ==
  ASSUME NEW S \in SUBSET Nat, S # {}
  PROVE  \E m \in S : \A k \in S : m <= k
<1> DEFINE R == OpToRel(<, Nat)
<1>1. IsWellFoundedOn(R, Nat)
  BY NatLessThanWellFounded
<1>2. \A a, b \in Nat : a < b => <<a, b>> \in R
  BY DEF OpToRel
<1> HIDE DEF R
<1>3. PICK m \in S : \A k \in S : ~(<<k, m>> \in R)
  BY <1>1, WFMin
<1>4. \A k \in S : ~(k < m)
  BY <1>2, <1>3
<1>5. \A k \in S : k \in Nat
  OBVIOUS
<1> QED BY <1>4, <1>5

LEMMA PickIn == \A s : s # {} => Pick(s) \in s
  BY DEF Pick

(* Taking an element away leaves a smaller finite set. *)
LEMMA OneLess ==
  ASSUME NEW s, IsFiniteSet(s), NEW x \in s
  PROVE  /\ IsFiniteSet(s \ {x})
         /\ Cardinality(s) \in Nat /\ Cardinality(s \ {x}) \in Nat
         /\ Cardinality(s) = Cardinality(s \ {x}) + 1
<1>1. IsFiniteSet(s \ {x}) /\ Cardinality(s \ {x}) = Cardinality(s) - 1
  BY FS_RemoveElement
<1>2. Cardinality(s) \in Nat /\ Cardinality(s \ {x}) \in Nat
  BY <1>1, FS_CardinalityType
<1> QED
  BY <1>1, <1>2

(* There is such a function over the subsets of a finite set: it is built  *)
(* one size at a time.                                                     *)
LEMMA SumExists ==
  ASSUME NEW T, IsFiniteSet(T), NEW c
  PROVE  \E f : Adds(f, c, SUBSET T)
<1> DEFINE D(n) == {s \in SUBSET T : Cardinality(s) <= n}
           Bad == {n \in Nat : ~ \E f : Adds(f, c, D(n))}
<1>0. \A s \in SUBSET T : IsFiniteSet(s) /\ Cardinality(s) \in Nat /\ Cardinality(s) <= Cardinality(T)
  BY FS_Subset, FS_CardinalityType
<1>1. 0 \notin Bad
  <2> DEFINE f == [s \in D(0) |-> 0]
  <2>1. \A s \in D(0) : s = {}
    <3> TAKE s \in D(0)
    <3>1. IsFiniteSet(s) /\ Cardinality(s) = 0
      BY <1>0
    <3> QED
      BY <3>1, FS_EmptySet
  <2>2. Adds(f, c, D(0))
    <3> HIDE DEF D
    <3> QED
      BY <2>1 DEF Adds
  <2> QED
    BY <2>2
<1>2. ASSUME NEW n \in Nat, n \notin Bad PROVE n + 1 \notin Bad
  <2>1. PICK f : Adds(f, c, D(n))
    BY <1>2
  <2> DEFINE g == [s \in D(n + 1) |-> IF s = {} THEN 0 ELSE c[Pick(s)] + f[s \ {Pick(s)}]]
  <2>2. \A s \in D(n + 1) : s # {} => (s \ {Pick(s)} \in D(n) /\ s \ {Pick(s)} \in D(n + 1))
    <3> SUFFICES ASSUME NEW s \in D(n + 1), s # {}
                 PROVE  s \ {Pick(s)} \in D(n) /\ s \ {Pick(s)} \in D(n + 1)
      OBVIOUS
    <3>1. IsFiniteSet(s) /\ Pick(s) \in s
      BY <1>0, PickIn
    <3>2. /\ Cardinality(s) \in Nat /\ Cardinality(s \ {Pick(s)}) \in Nat
          /\ Cardinality(s) = Cardinality(s \ {Pick(s)}) + 1
      BY <3>1, OneLess
    <3>3. Cardinality(s) <= n + 1
      OBVIOUS
    <3> QED
      BY <3>2, <3>3
  <2> HIDE DEF D
  <2>3. \A s \in D(n) : f[s] = IF s = {} THEN 0 ELSE c[Pick(s)] + f[s \ {Pick(s)}]
    BY <2>1 DEF Adds
  <2>4. \A s \in D(n + 1) : s # {} => g[s \ {Pick(s)}] = f[s \ {Pick(s)}]
    BY <2>2, <2>3
  <2>5. g = [s \in D(n + 1) |-> IF s = {} THEN 0 ELSE c[Pick(s)] + g[s \ {Pick(s)}]]
    BY <2>4
  <2>6. Adds(g, c, D(n + 1))
    BY <2>5 DEF Adds
  <2> QED
    BY <2>6
<1>3. Bad = {}
  <2> SUFFICES ASSUME Bad # {} PROVE FALSE
    OBVIOUS
  <2>1. PICK m \in Bad : \A k \in Bad : m <= k
    <3>1. Bad \in SUBSET Nat
      OBVIOUS
    <3> HIDE DEF Bad
    <3> QED
      BY <3>1, LeastNumber
  <2>2. m \in Nat /\ m # 0
    BY <1>1
  <2>3. m - 1 \in Nat /\ (m - 1) + 1 = m /\ m - 1 \notin Bad
    <3> HIDE DEF Bad
    <3> QED
      BY <2>1, <2>2
  <2> QED
    <3> HIDE DEF Bad
    <3> QED
      BY <2>3, <1>2
<1>4. D(Cardinality(T)) = SUBSET T
  BY <1>0
<1>5. Cardinality(T) \in Nat
  BY FS_CardinalityType
<1> HIDE DEF D
<1> QED
  BY <1>3, <1>4, <1>5

(* Two functions that add up c agree where both are defined. *)
LEMMA SumUnique ==
  ASSUME NEW c, NEW S, NEW T, NEW f, NEW g, Adds(f, c, SUBSET S), Adds(g, c, SUBSET T)
  PROVE  \A s \in SUBSET S : s \in SUBSET T /\ IsFiniteSet(s) => f[s] = g[s]
<1> DEFINE Differ == {s \in SUBSET S : s \in SUBSET T /\ IsFiniteSet(s) /\ f[s] # g[s]}
           Sizes == {Cardinality(s) : s \in Differ}
<1>1. SUFFICES ASSUME Differ # {} PROVE FALSE
  OBVIOUS
<1>2. Sizes \in SUBSET Nat /\ Sizes # {}
  <2>1. \A s \in Differ : Cardinality(s) \in Nat
    BY FS_CardinalityType
  <2> HIDE DEF Differ
  <2> QED
    BY <1>1, <2>1
<1> HIDE DEF Sizes
<1>3. PICK m \in Sizes : \A k \in Sizes : m <= k
  BY <1>2, LeastNumber
<1>4. PICK s \in Differ : m = Cardinality(s)
  BY DEF Sizes
<1> DEFINE r == s \ {Pick(s)}
<1>5. s # {}
  BY DEF Adds
<1>6. IsFiniteSet(r) /\ r \in SUBSET S /\ r \in SUBSET T /\ Cardinality(r) < m /\ Cardinality(r) \in Nat
  <2>1. IsFiniteSet(s) /\ Pick(s) \in s /\ s \in SUBSET S /\ s \in SUBSET T
    BY <1>4, <1>5, PickIn
  <2>2. /\ IsFiniteSet(r) /\ Cardinality(s) \in Nat /\ Cardinality(r) \in Nat
        /\ Cardinality(s) = Cardinality(r) + 1
    BY <2>1, OneLess
  <2>3. r \in SUBSET S /\ r \in SUBSET T
    BY <2>1
  <2> QED
    BY <1>4, <2>2, <2>3
<1>7. f[r] = g[r]
  <2>1. Cardinality(r) \notin Sizes
    BY <1>2, <1>3, <1>6
  <2> QED
    BY <2>1, <1>6 DEF Sizes
<1>8. f[s] = c[Pick(s)] + f[r] /\ g[s] = c[Pick(s)] + g[r]
  BY <1>5 DEF Adds
<1> QED
  BY <1>7, <1>8

(* Any such function gives the sum. *)
LEMMA SumIs ==
  ASSUME NEW c, NEW S, NEW f, Adds(f, c, SUBSET S), NEW T \in SUBSET S, IsFiniteSet(T)
  PROVE  SumOf(c, T) = f[T]
<1> DEFINE g == CHOOSE h : Adds(h, c, SUBSET T)
<1>1. Adds(g, c, SUBSET T)
  BY SumExists
<1> HIDE DEF g
<1>2. f[T] = g[T]
  BY <1>1, SumUnique
<1> QED
  BY <1>2 DEF SumOf, g

LEMMA SumValue ==
  ASSUME NEW c, NEW T, IsFiniteSet(T)
  PROVE  \E f : Adds(f, c, SUBSET T) /\ SumOf(c, T) = f[T]
<1>1. PICK f : Adds(f, c, SUBSET T)
  BY SumExists
<1> QED
  BY <1>1, SumIs

LEMMA SumEmpty == \A c, T : T = {} => SumOf(c, T) = 0
<1> SUFFICES ASSUME NEW c, NEW T, T = {} PROVE SumOf(c, T) = 0
  OBVIOUS
<1>1. IsFiniteSet(T)
  BY FS_EmptySet
<1>2. PICK f : Adds(f, c, SUBSET T) /\ SumOf(c, T) = f[T]
  BY <1>1, SumValue, Zenon
<1> QED
  BY <1>2 DEF Adds

LEMMA SumStep ==
  ASSUME NEW c, NEW T, IsFiniteSet(T), T # {}
  PROVE  SumOf(c, T) = c[Pick(T)] + SumOf(c, T \ {Pick(T)})
<1>1. PICK f : Adds(f, c, SUBSET T)
  BY SumExists
<1>2. IsFiniteSet(T \ {Pick(T)}) /\ T \ {Pick(T)} \in SUBSET T
  BY FS_RemoveElement
<1>3. SumOf(c, T) = f[T]
  BY <1>1, SumIs
<1>4. SumOf(c, T \ {Pick(T)}) = f[T \ {Pick(T)}]
  BY <1>1, <1>2, SumIs
<1> QED
  BY <1>1, <1>3, <1>4 DEF Adds

(* A set of finite sets that is not empty has a member of least size. *)
LEMMA LeastSet ==
  ASSUME NEW X, X # {}, \A T \in X : IsFiniteSet(T)
  PROVE  \E T \in X : \A U \in X : ~(Cardinality(U) < Cardinality(T))
<1> DEFINE Sizes == {Cardinality(T) : T \in X}
<1>1. \A T \in X : Cardinality(T) \in Nat
  BY FS_CardinalityType
<1>2. Sizes \in SUBSET Nat /\ Sizes # {}
  BY <1>1
<1> HIDE DEF Sizes
<1>3. PICK m \in Sizes : \A k \in Sizes : m <= k
  BY <1>2, LeastNumber
<1>4. PICK T \in X : m = Cardinality(T)
  BY DEF Sizes
<1>5. \A U \in X : Cardinality(U) \in Sizes
  BY DEF Sizes
<1>6. \A U \in X : Cardinality(T) <= Cardinality(U)
  BY <1>3, <1>4, <1>5
<1> QED
  BY <1>1, <1>6

(* A sum of natural numbers is one. *)
LEMMA SumType ==
  ASSUME NEW U, NEW c \in [U -> Nat], NEW T \in SUBSET U, IsFiniteSet(T)
  PROVE  SumOf(c, T) \in Nat
<1> DEFINE Bad == {S \in SUBSET T : SumOf(c, S) \notin Nat}
<1>1. SUFFICES ASSUME Bad # {} PROVE FALSE
  OBVIOUS
<1>2. \A S \in Bad : IsFiniteSet(S)
  BY FS_Subset
<1>3. PICK S \in Bad : \A V \in Bad : ~(Cardinality(V) < Cardinality(S))
  <2> HIDE DEF Bad
  <2> QED
    BY <1>1, <1>2, LeastSet
<1>4. S # {}
  BY SumEmpty
<1>5. IsFiniteSet(S) /\ Pick(S) \in S /\ S \in SUBSET T
  BY <1>2, <1>4, PickIn
<1>6. /\ Cardinality(S \ {Pick(S)}) < Cardinality(S) /\ S \ {Pick(S)} \in SUBSET T
  <2>1. /\ Cardinality(S) \in Nat /\ Cardinality(S \ {Pick(S)}) \in Nat
        /\ Cardinality(S) = Cardinality(S \ {Pick(S)}) + 1
    BY <1>5, OneLess
  <2> QED
    BY <2>1, <1>5
<1>7. SumOf(c, S \ {Pick(S)}) \in Nat
  BY <1>3, <1>6
<1>8. c[Pick(S)] \in Nat
  BY <1>5
<1>9. SumOf(c, S) = c[Pick(S)] + SumOf(c, S \ {Pick(S)})
  BY <1>4, <1>5, SumStep
<1> QED
  BY <1>7, <1>8, <1>9

(* The order in which elements are taken away does not matter. *)
LEMMA SumRemove ==
  ASSUME NEW U, NEW c \in [U -> Nat], NEW T \in SUBSET U, IsFiniteSet(T), NEW e \in T
  PROVE  SumOf(c, T) = c[e] + SumOf(c, T \ {e})
<1> DEFINE Bad == {S \in SUBSET T : \E x \in S : SumOf(c, S) # c[x] + SumOf(c, S \ {x})}
<1>1. SUFFICES ASSUME Bad # {} PROVE FALSE
  OBVIOUS
<1>2. \A S \in Bad : IsFiniteSet(S)
  BY FS_Subset
<1>3. PICK S \in Bad : \A V \in Bad : ~(Cardinality(V) < Cardinality(S))
  <2> HIDE DEF Bad
  <2> QED
    BY <1>1, <1>2, LeastSet
<1>4. PICK x \in S : SumOf(c, S) # c[x] + SumOf(c, S \ {x})
  OBVIOUS
<1>5. IsFiniteSet(S) /\ S \in SUBSET T /\ S # {}
  BY <1>2
<1> HIDE DEF Bad
<1> DEFINE y == Pick(S)
<1>6. y \in S
  BY <1>5, PickIn
<1>7. SumOf(c, S) = c[y] + SumOf(c, S \ {y})
  BY <1>5, SumStep
<1>8. x # y
  BY <1>4, <1>7
<1> HIDE DEF y
<1>9. \A z \in S : IsFiniteSet(S \ {z}) /\ S \ {z} \in SUBSET T /\ S \ {z} \notin Bad
  <2> SUFFICES ASSUME NEW z \in S
               PROVE  IsFiniteSet(S \ {z}) /\ S \ {z} \in SUBSET T /\ S \ {z} \notin Bad
    OBVIOUS
  <2>1. /\ IsFiniteSet(S \ {z}) /\ Cardinality(S) \in Nat /\ Cardinality(S \ {z}) \in Nat
        /\ Cardinality(S) = Cardinality(S \ {z}) + 1
    BY <1>5, OneLess
  <2>2. Cardinality(S \ {z}) < Cardinality(S)
    BY <2>1
  <2> QED
    BY <2>1, <2>2, <1>3, <1>5
<1>10. SumOf(c, S \ {y}) = c[x] + SumOf(c, (S \ {y}) \ {x})
  BY <1>6, <1>8, <1>9 DEF Bad
<1>11. SumOf(c, S \ {x}) = c[y] + SumOf(c, (S \ {x}) \ {y})
  BY <1>6, <1>8, <1>9 DEF Bad
<1>12. (S \ {x}) \ {y} = (S \ {y}) \ {x}
  OBVIOUS
<1>13. c[x] \in Nat /\ c[y] \in Nat
  BY <1>5, <1>6
<1>14. SumOf(c, (S \ {y}) \ {x}) \in Nat
  <2>1. (S \ {y}) \ {x} \in SUBSET T
    BY <1>5
  <2>2. (S \ {y}) \ {x} \in SUBSET U /\ IsFiniteSet((S \ {y}) \ {x})
    BY <2>1, FS_Subset
  <2> QED
    BY <2>2, SumType
<1>15. SumOf(c, S) = c[x] + (c[y] + SumOf(c, (S \ {y}) \ {x}))
  BY <1>7, <1>10, <1>13, <1>14
<1> QED
  BY <1>4, <1>11, <1>12, <1>15

(* A sum over fewer elements, of smaller numbers, is not larger. *)
LEMMA SumMono ==
  ASSUME NEW U, NEW c \in [U -> Nat], NEW d \in [U -> Nat],
         NEW B \in SUBSET U, IsFiniteSet(B), NEW A \in SUBSET B, \A x \in A : c[x] <= d[x]
  PROVE  SumOf(c, A) <= SumOf(d, B)
<1> DEFINE Bad == {S \in SUBSET B : \E R \in SUBSET S : /\ \A x \in R : c[x] <= d[x]
                                                      /\ ~(SumOf(c, R) <= SumOf(d, S))}
<1>1. SUFFICES ASSUME Bad # {} PROVE FALSE
  OBVIOUS
<1>2. \A S \in Bad : IsFiniteSet(S)
  BY FS_Subset
<1>3. PICK S \in Bad : \A V \in Bad : ~(Cardinality(V) < Cardinality(S))
  <2> HIDE DEF Bad
  <2> QED
    BY <1>1, <1>2, LeastSet
<1>4. PICK R \in SUBSET S : /\ \A x \in R : c[x] <= d[x]
                            /\ ~(SumOf(c, R) <= SumOf(d, S))
  OBVIOUS
<1>5. IsFiniteSet(S) /\ S \in SUBSET B
  BY <1>2
<1>6. S # {}
  <2> SUFFICES ASSUME S = {} PROVE FALSE
    OBVIOUS
  <2>1. R = {}
    BY <1>4
  <2> QED
    BY <1>4, <2>1, SumEmpty
<1> HIDE DEF Bad
<1>7. PICK x \in S : TRUE
  BY <1>6
<1>8. IsFiniteSet(S \ {x}) /\ S \ {x} \in SUBSET B /\ S \ {x} \notin Bad
  <2>1. /\ IsFiniteSet(S \ {x}) /\ Cardinality(S) \in Nat /\ Cardinality(S \ {x}) \in Nat
        /\ Cardinality(S) = Cardinality(S \ {x}) + 1
    BY <1>5, OneLess
  <2>2. Cardinality(S \ {x}) < Cardinality(S)
    BY <2>1
  <2> QED
    BY <2>1, <2>2, <1>3, <1>5
<1>9. SumOf(c, R \ {x}) <= SumOf(d, S \ {x})
  <2>1. R \ {x} \in SUBSET (S \ {x}) /\ \A z \in R \ {x} : c[z] <= d[z]
    BY <1>4
  <2> QED
    BY <1>8, <2>1 DEF Bad
<1>10. R \in SUBSET U /\ IsFiniteSet(R) /\ IsFiniteSet(R \ {x}) /\ R \ {x} \in SUBSET U
  BY <1>5, FS_Subset
<1>11. SumOf(d, S) = d[x] + SumOf(d, S \ {x})
  BY <1>5, SumRemove
<1>12. /\ SumOf(c, R \ {x}) \in Nat /\ SumOf(d, S \ {x}) \in Nat
       /\ c[x] \in Nat /\ d[x] \in Nat
  BY <1>5, <1>8, <1>10, SumType
<1>13. CASE x \in R
  <2>1. SumOf(c, R) = c[x] + SumOf(c, R \ {x})
    BY <1>10, <1>13, SumRemove
  <2>2. c[x] <= d[x]
    BY <1>4, <1>13
  <2> QED
    BY <2>1, <2>2, <1>4, <1>9, <1>11, <1>12
<1>14. CASE x \notin R
  <2>1. R \ {x} = R
    BY <1>14
  <2> QED
    BY <2>1, <1>4, <1>9, <1>11, <1>12
<1> QED
  BY <1>13, <1>14

-----------------------------------------------------------------------------
(* The totals of the journal, as sums over its records r.                  *)

ChargedIn(r) == {i \in Intents : r[i].state \notin {"absent", "released"}}

ChargesIn(r) == [i \in Intents |-> Charge(r[i])]

ForeseenPart(t) == IF Held(t) \/ t.settled > t.reserve THEN t.reserve ELSE t.settled

ForetoldIn(r) == [i \in Intents |-> ForeseenPart(r[i])]

OfDay(r, now) == {i \in ChargedIn(r) : CountsToday(r[i], now)}
OfMonth(r, now) == {i \in ChargedIn(r) : CountsThisMonth(r[i], now)}
OfJob(r, job) == {i \in ChargedIn(r) : r[i].job = job}

(* ExposureWithinAllowance of records r, limits L and latest time t. *)
Exposure(r, L, t) ==
    \A l \in L, now \in t..MaxDay :
        /\ SumOf(ForetoldIn(r), OfDay(r, now)) <= l.daily
        /\ SumOf(ForetoldIn(r), OfMonth(r, now)) <= l.monthly
        /\ \A job \in Jobs : SumOf(ForetoldIn(r), OfJob(r, job)) <= l.perJob

LEMMA TotalIsSum ==
  ASSUME NEW S \in SUBSET Intents, IsFiniteSet(S)
  PROVE  Total(S) = SumOf(ChargesIn(rec), S)
<1> DEFINE P(f) == f = [s \in SUBSET S |-> IF s = {} THEN 0
                         ELSE Charge(rec[CHOOSE x \in s : TRUE]) + f[s \ {CHOOSE x \in s : TRUE}]]
           g == CHOOSE f : P(f)
<1>1. Total(S) = g[S]
  BY DEF Total, MapThenSumSet, MapThenFoldSet
<1>2. \A f : P(f) <=> Adds(f, ChargesIn(rec), SUBSET S)
  <2> TAKE f
  <2>1. \A s \in SUBSET S : s # {} => Charge(rec[CHOOSE x \in s : TRUE]) = ChargesIn(rec)[Pick(s)]
    BY PickIn DEF ChargesIn, Pick
  <2> QED
    BY <2>1 DEF Adds, Pick
<1>3. \E f : Adds(f, ChargesIn(rec), SUBSET S)
  BY SumExists
<1> HIDE DEF P
<1>4. \E f : P(f)
  BY <1>2, <1>3
<1>5. P(g)
  BY <1>4
<1>6. Adds(g, ChargesIn(rec), SUBSET S)
  BY <1>2, <1>5
<1> HIDE DEF g
<1> QED
  BY <1>1, <1>6, SumIs

LEMMA ForeseenIsSum ==
  ASSUME NEW S \in SUBSET Intents, IsFiniteSet(S)
  PROVE  Foreseen(S) = SumOf(ForetoldIn(rec), S)
<1> DEFINE P(f) == f = [s \in SUBSET S |-> IF s = {} THEN 0
                         ELSE ForeseenPart(rec[CHOOSE x \in s : TRUE]) + f[s \ {CHOOSE x \in s : TRUE}]]
           g == CHOOSE f : P(f)
<1>1. Foreseen(S) = g[S]
  BY DEF Foreseen, MapThenSumSet, MapThenFoldSet, ForeseenPart
<1>2. \A f : P(f) <=> Adds(f, ForetoldIn(rec), SUBSET S)
  <2> TAKE f
  <2>1. \A s \in SUBSET S : s # {} => ForeseenPart(rec[CHOOSE x \in s : TRUE]) = ForetoldIn(rec)[Pick(s)]
    BY PickIn DEF ForetoldIn, Pick
  <2> QED
    BY <2>1 DEF Adds, Pick
<1>3. \E f : Adds(f, ForetoldIn(rec), SUBSET S)
  BY SumExists
<1> HIDE DEF P
<1>4. \E f : P(f)
  BY <1>2, <1>3
<1>5. P(g)
  BY <1>4
<1>6. Adds(g, ForetoldIn(rec), SUBSET S)
  BY <1>2, <1>5
<1> HIDE DEF g
<1> QED
  BY <1>1, <1>6, SumIs

(* What is charged, and what of it was foreseen, are natural numbers. *)
LEMMA AmountsNatural ==
  ASSUME NEW r \in [Intents -> Record]
  PROVE  /\ ChargesIn(r) \in [Intents -> Nat] /\ ForetoldIn(r) \in [Intents -> Nat]
         /\ \A i \in Intents : ForetoldIn(r)[i] <= ChargesIn(r)[i]
<1>1. \A t \in Record : Charge(t) \in Nat /\ ForeseenPart(t) \in Nat /\ ForeseenPart(t) <= Charge(t)
  BY DEF Record, Charge, ForeseenPart
<1> QED
  BY <1>1 DEF ChargesIn, ForetoldIn

LEMMA MonthsAdvance == \A a, b \in Nat : a <= b => Month(a) <= Month(b)
<1>1. DaysPerMonth \in Nat /\ DaysPerMonth > 0
  BY SpendAssumption DEF SpendAssumption
<1>2. ASSUME NEW D \in Nat, D > 0, NEW a \in Nat, NEW b \in Nat, a <= b
      PROVE  a \div D <= b \div D
  BY <1>2
<1> QED
  BY <1>1, <1>2 DEF Month

LEMMA MonthNatural == \A a \in Nat : Month(a) \in Nat
  BY SpendAssumption DEF SpendAssumption, Month

(* Foreseen sums over no more records, each of them foretelling no more.   *)
LEMMA ForeseenShrinks ==
  ASSUME NEW r \in [Intents -> Record], NEW q \in [Intents -> Record],
         NEW B \in SUBSET Intents, IsFiniteSet(B), NEW A \in SUBSET B,
         \A i \in A : ForeseenPart(q[i]) <= ForeseenPart(r[i])
  PROVE  SumOf(ForetoldIn(q), A) <= SumOf(ForetoldIn(r), B)
<1>1. ForetoldIn(q) \in [Intents -> Nat] /\ ForetoldIn(r) \in [Intents -> Nat]
  BY AmountsNatural
<1>2. \A i \in A : ForetoldIn(q)[i] <= ForetoldIn(r)[i]
  BY DEF ForetoldIn
<1> QED
  BY <1>1, <1>2, SumMono

(* q charges what r charged, for the same jobs, and changes only held records. *)
Lightens(q, r) ==
    \A j \in ChargedIn(q) : /\ j \in ChargedIn(r)
                            /\ q[j].job = r[j].job
                            /\ q[j] = r[j] \/ Held(r[j])

(* Then no total takes up a record it did not count. *)
LEMMA TotalsShrink ==
  ASSUME NEW r, NEW q, Lightens(q, r)
  PROVE  /\ \A now : /\ OfDay(q, now) \in SUBSET ChargedIn(q) /\ OfDay(r, now) \in SUBSET ChargedIn(r)
                     /\ OfDay(q, now) \subseteq OfDay(r, now)
         /\ \A now : /\ OfMonth(q, now) \in SUBSET ChargedIn(q) /\ OfMonth(r, now) \in SUBSET ChargedIn(r)
                     /\ OfMonth(q, now) \subseteq OfMonth(r, now)
         /\ \A job : /\ OfJob(q, job) \in SUBSET ChargedIn(q) /\ OfJob(r, job) \in SUBSET ChargedIn(r)
                     /\ OfJob(q, job) \subseteq OfJob(r, job)
<1>1. \A now : /\ OfDay(q, now) \in SUBSET ChargedIn(q) /\ OfDay(r, now) \in SUBSET ChargedIn(r)
              /\ OfDay(q, now) \subseteq OfDay(r, now)
  BY DEF Lightens, OfDay, CountsToday
<1>2. \A now : /\ OfMonth(q, now) \in SUBSET ChargedIn(q) /\ OfMonth(r, now) \in SUBSET ChargedIn(r)
              /\ OfMonth(q, now) \subseteq OfMonth(r, now)
  BY DEF Lightens, OfMonth, CountsThisMonth
<1>3. \A job : /\ OfJob(q, job) \in SUBSET ChargedIn(q) /\ OfJob(r, job) \in SUBSET ChargedIn(r)
              /\ OfJob(q, job) \subseteq OfJob(r, job)
  BY DEF Lightens, OfJob
<1> QED
  BY <1>1, <1>2, <1>3

(* Records, the configured limits and the latest time of the journal. *)
JournalOK ==
    /\ rec \in [Intents -> Record] /\ latest \in Nat
    /\ \A i \in Intents : rec[i].reservedAt <= latest /\ rec[i].lastAt <= latest
    /\ limits \subseteq Limits
    /\ limits = {} => ChargedIn(rec) = {}
    /\ IsFiniteSet(ChargedIn(rec))

ExposureInv == JournalOK /\ Exposure(rec, limits, latest)

Rewrites(i, t) == rec' = [rec EXCEPT ![i] = t]

(* A step that writes one held or charged record again, foretelling no     *)
(* more, and takes none up.                                                *)
LEMMA ExposureRewrite ==
  ASSUME ExposureInv, NEW i \in Intents, NEW t \in Record, Rewrites(i, t),
         Held(rec[i]), t.state # "absent", t.job = rec[i].job,
         ForeseenPart(t) <= ForeseenPart(rec[i]),
         latest' \in Nat, latest <= latest', t.reservedAt <= latest', t.lastAt <= latest', limits' = limits
  PROVE  ExposureInv'
<1>1. /\ rec' \in [Intents -> Record] /\ rec'[i] = t
      /\ \A j \in Intents : j # i => rec'[j] = rec[j]
  BY DEF ExposureInv, JournalOK, Rewrites
<1>2. i \in ChargedIn(rec) /\ ChargedIn(rec') \subseteq ChargedIn(rec)
  BY <1>1 DEF ChargedIn, Held
<1>3. IsFiniteSet(ChargedIn(rec')) /\ IsFiniteSet(ChargedIn(rec))
  BY <1>2, FS_Subset DEF ExposureInv, JournalOK
<1>4. JournalOK'
  <2>1. \A j \in Intents : rec'[j].reservedAt <= latest' /\ rec'[j].lastAt <= latest'
    <3> TAKE j \in Intents
    <3>1. CASE j = i
      BY <1>1, <3>1
    <3>2. CASE j # i
      <4>1. rec[j].reservedAt <= latest /\ rec[j].lastAt <= latest /\ rec[j] \in Record /\ latest \in Nat
        BY DEF ExposureInv, JournalOK
      <4>2. rec[j].reservedAt \in Nat /\ rec[j].lastAt \in Nat
        BY <4>1 DEF Record
      <4> QED
        BY <1>1, <3>2, <4>1, <4>2
    <3> QED
      BY <3>1, <3>2
  <2>2. limits' \subseteq Limits /\ (limits' = {} => ChargedIn(rec') = {})
    BY <1>2 DEF ExposureInv, JournalOK
  <2> QED
    BY <1>1, <1>3, <2>1, <2>2 DEF JournalOK
<1>5. \A j \in ChargedIn(rec') : ForeseenPart(rec'[j]) <= ForeseenPart(rec[j])
  <2> TAKE j \in ChargedIn(rec')
  <2>1. j \in Intents /\ rec[j] \in Record
    BY DEF ExposureInv, JournalOK, ChargedIn
  <2>2. ForeseenPart(rec[j]) \in Nat
    BY <2>1 DEF ForeseenPart, Record
  <2> QED
    BY <1>1, <2>1, <2>2
<1>6. \A S \in SUBSET ChargedIn(rec), R \in SUBSET ChargedIn(rec') :
        R \subseteq S => SumOf(ForetoldIn(rec'), R) <= SumOf(ForetoldIn(rec), S)
  <2> SUFFICES ASSUME NEW S \in SUBSET ChargedIn(rec), NEW R \in SUBSET ChargedIn(rec'), R \subseteq S
               PROVE  SumOf(ForetoldIn(rec'), R) <= SumOf(ForetoldIn(rec), S)
    OBVIOUS
  <2>1. S \in SUBSET Intents /\ IsFiniteSet(S)
    BY <1>3, FS_Subset DEF ChargedIn
  <2>2. R \in SUBSET S /\ \A j \in R : ForeseenPart(rec'[j]) <= ForeseenPart(rec[j])
    BY <1>5
  <2>3. rec \in [Intents -> Record]
    BY DEF ExposureInv, JournalOK
  <2> QED
    BY <1>1, <2>1, <2>2, <2>3, ForeseenShrinks
<1>7. \A S \in SUBSET ChargedIn(rec) : SumOf(ForetoldIn(rec), S) \in Nat
  <2> TAKE S \in SUBSET ChargedIn(rec)
  <2>1. S \in SUBSET Intents /\ IsFiniteSet(S)
    BY <1>3, FS_Subset DEF ChargedIn
  <2> QED
    BY <2>1, AmountsNatural, SumType DEF ExposureInv, JournalOK
<1>8. \A R \in SUBSET ChargedIn(rec') : SumOf(ForetoldIn(rec'), R) \in Nat
  <2> TAKE R \in SUBSET ChargedIn(rec')
  <2>1. R \in SUBSET Intents /\ IsFiniteSet(R)
    BY <1>3, FS_Subset DEF ChargedIn
  <2> QED
    BY <1>1, <2>1, AmountsNatural, SumType
<1>9. ASSUME NEW S \in SUBSET ChargedIn(rec), NEW R \in SUBSET ChargedIn(rec'), R \subseteq S,
             NEW b \in Nat, SumOf(ForetoldIn(rec), S) <= b
      PROVE  SumOf(ForetoldIn(rec'), R) <= b
  <2> DEFINE x == SumOf(ForetoldIn(rec'), R)
             y == SumOf(ForetoldIn(rec), S)
  <2>1. x <= y /\ x \in Nat /\ y \in Nat /\ y <= b
    BY <1>6, <1>7, <1>8, <1>9
  <2> HIDE DEF x, y
  <2>2. x <= b
    BY <2>1
  <2> QED
    BY <2>2 DEF x
<1>10. \A l \in limits : l.daily \in Nat /\ l.monthly \in Nat /\ l.perJob \in Nat
  BY SpendAssumption DEF SpendAssumption, ExposureInv, JournalOK
<1>11. Exposure(rec', limits', latest')
  <2> SUFFICES ASSUME NEW l \in limits, NEW now \in latest'..MaxDay
               PROVE  /\ SumOf(ForetoldIn(rec'), OfDay(rec', now)) <= l.daily
                      /\ SumOf(ForetoldIn(rec'), OfMonth(rec', now)) <= l.monthly
                      /\ \A job \in Jobs : SumOf(ForetoldIn(rec'), OfJob(rec', job)) <= l.perJob
    BY DEF Exposure
  <2>1. now \in latest..MaxDay
    BY SpendAssumption DEF ExposureInv, JournalOK, SpendAssumption
  <2>2. /\ SumOf(ForetoldIn(rec), OfDay(rec, now)) <= l.daily
        /\ SumOf(ForetoldIn(rec), OfMonth(rec, now)) <= l.monthly
        /\ \A job \in Jobs : SumOf(ForetoldIn(rec), OfJob(rec, job)) <= l.perJob
    BY <2>1 DEF ExposureInv, Exposure
  <2>a. Lightens(rec', rec)
    <3> SUFFICES ASSUME NEW j \in ChargedIn(rec')
                 PROVE  /\ j \in ChargedIn(rec)
                        /\ rec'[j].job = rec[j].job
                        /\ rec'[j] = rec[j] \/ Held(rec[j])
      BY DEF Lightens
    <3>1. j \in Intents /\ j \in ChargedIn(rec)
      BY <1>2 DEF ChargedIn
    <3>2. CASE j = i
      BY <3>1, <3>2, <1>1
    <3>3. CASE j # i
      BY <3>1, <3>3, <1>1
    <3> QED
      BY <3>2, <3>3
  <2>3. /\ OfDay(rec', now) \in SUBSET ChargedIn(rec') /\ OfDay(rec, now) \in SUBSET ChargedIn(rec)
        /\ OfDay(rec', now) \subseteq OfDay(rec, now)
    BY <2>a, TotalsShrink
  <2>4. /\ OfMonth(rec', now) \in SUBSET ChargedIn(rec') /\ OfMonth(rec, now) \in SUBSET ChargedIn(rec)
        /\ OfMonth(rec', now) \subseteq OfMonth(rec, now)
    BY <2>a, TotalsShrink
  <2>5. \A job \in Jobs :
           /\ OfJob(rec', job) \in SUBSET ChargedIn(rec') /\ OfJob(rec, job) \in SUBSET ChargedIn(rec)
           /\ OfJob(rec', job) \subseteq OfJob(rec, job)
    BY <2>a, TotalsShrink
  <2>6. SumOf(ForetoldIn(rec'), OfDay(rec', now)) <= l.daily
    BY <1>9, <1>10, <2>2, <2>3
  <2>7. SumOf(ForetoldIn(rec'), OfMonth(rec', now)) <= l.monthly
    BY <1>9, <1>10, <2>2, <2>4
  <2>8. \A job \in Jobs : SumOf(ForetoldIn(rec'), OfJob(rec', job)) <= l.perJob
    BY <1>9, <1>10, <2>2, <2>5
  <2> QED
    BY <2>6, <2>7, <2>8
<1> QED
  BY <1>4, <1>11 DEF ExposureInv

(* A new reservation is weighed with all that is charged when it is made.  *)
LEMMA ExposureReserve ==
  ASSUME ExposureInv, NEW now \in 0..MaxDay, NEW i \in Intents, NEW job \in Jobs,
         NEW amount \in Amounts, Reserve(i, job, amount, now)
  PROVE  ExposureInv'
<1> DEFINE t == [Absent EXCEPT !.state = "reserved", !.job = job, !.reserve = amount,
                               !.reservedAt = now, !.lastAt = now]
<1>0. now \in Nat /\ amount \in Nat /\ latest \in Nat /\ latest <= now /\ latest' = now /\ limits' = limits
  BY Naturals DEF Reserve, ClockAdvances, ExposureInv, JournalOK
<1>1. /\ t \in Record /\ t.state = "reserved" /\ t.job = job /\ t.reserve = amount
      /\ t.reservedAt = now /\ t.lastAt = now
  BY <1>0 DEF Record, States, Absent
<1>2. rec' = [rec EXCEPT ![i] = t] /\ rec[i].state = "absent" /\ limits # {}
  BY DEF Reserve, Configured
<1> HIDE DEF t
<1>3. /\ rec \in [Intents -> Record] /\ rec' \in [Intents -> Record] /\ rec'[i] = t
      /\ \A j \in Intents : j # i => rec'[j] = rec[j]
  BY <1>1, <1>2 DEF ExposureInv, JournalOK
<1>4. i \notin ChargedIn(rec) /\ ChargedIn(rec') = ChargedIn(rec) \cup {i}
  BY <1>1, <1>2, <1>3 DEF ChargedIn
<1>5. IsFiniteSet(ChargedIn(rec')) /\ IsFiniteSet(ChargedIn(rec))
  BY <1>4, FS_AddElement DEF ExposureInv, JournalOK
<1>6. JournalOK'
  <2>1. \A j \in Intents : rec'[j].reservedAt <= latest' /\ rec'[j].lastAt <= latest'
    <3> TAKE j \in Intents
    <3>1. CASE j = i
      BY <1>0, <1>1, <1>3, <3>1
    <3>2. CASE j # i
      <4>1. rec[j].reservedAt <= latest /\ rec[j].lastAt <= latest /\ rec[j] \in Record
        BY DEF ExposureInv, JournalOK
      <4>2. rec[j].reservedAt \in Nat /\ rec[j].lastAt \in Nat
        BY <4>1 DEF Record
      <4> QED
        BY <1>0, <1>3, <3>2, <4>1, <4>2
    <3> QED
      BY <3>1, <3>2
  <2>2. limits' \subseteq Limits /\ limits' # {} /\ latest' \in Nat
    BY <1>0, <1>2 DEF ExposureInv, JournalOK
  <2> QED
    BY <1>3, <1>5, <2>1, <2>2 DEF JournalOK
<1>7. \A l \in limits : l.daily \in Nat /\ l.monthly \in Nat /\ l.perJob \in Nat
  BY SpendAssumption DEF SpendAssumption, ExposureInv, JournalOK
<1>8. /\ ForetoldIn(rec) \in [Intents -> Nat] /\ ForetoldIn(rec') \in [Intents -> Nat]
      /\ ChargesIn(rec) \in [Intents -> Nat]
      /\ \A j \in Intents : ForetoldIn(rec)[j] <= ChargesIn(rec)[j]
  BY <1>3, AmountsNatural
<1>9. ForetoldIn(rec')[i] = amount /\ \A j \in Intents : j # i => ForetoldIn(rec')[j] = ForetoldIn(rec)[j]
  <2>1. ForeseenPart(t) = amount
    BY <1>1 DEF ForeseenPart, Held
  <2> QED
    BY <2>1, <1>3 DEF ForetoldIn
(* The new record and some of the old ones, within what the old ones are charged. *)
<1>10. ASSUME NEW S \in SUBSET ChargedIn(rec), NEW R \in SUBSET ChargedIn(rec'), R \subseteq S \cup {i},
              NEW b \in Nat, Total(S) + amount <= b
       PROVE  SumOf(ForetoldIn(rec'), R) <= b
  <2>1. /\ S \in SUBSET Intents /\ IsFiniteSet(S) /\ R \in SUBSET Intents /\ IsFiniteSet(R)
        /\ R \ {i} \in SUBSET S /\ IsFiniteSet(R \ {i})
    BY <1>5, <1>10, FS_Subset DEF ChargedIn
  <2>2. Total(S) = SumOf(ChargesIn(rec), S) /\ SumOf(ChargesIn(rec), S) \in Nat
    BY <2>1, <1>8, TotalIsSum, SumType
  <2>3. \A j \in R \ {i} : ForetoldIn(rec')[j] <= ChargesIn(rec)[j]
    BY <1>8, <1>9, <2>1
  <2>4. SumOf(ForetoldIn(rec'), R \ {i}) <= SumOf(ChargesIn(rec), S)
    BY <2>1, <2>3, <1>8, SumMono
  <2>5. SumOf(ForetoldIn(rec'), R \ {i}) \in Nat /\ SumOf(ForetoldIn(rec'), R) \in Nat
    <3>1. R \ {i} \in SUBSET Intents
      BY <2>1
    <3> QED
      BY <2>1, <3>1, <1>8, SumType
  <2>6. CASE i \in R
    <3>1. SumOf(ForetoldIn(rec'), R) = amount + SumOf(ForetoldIn(rec'), R \ {i})
      BY <2>1, <2>6, <1>8, <1>9, SumRemove
    <3> QED
      BY <3>1, <2>2, <2>4, <2>5, <1>0, <1>10
  <2>7. CASE i \notin R
    <3>1. R \ {i} = R
      BY <2>7
    <3> QED
      BY <3>1, <2>2, <2>4, <2>5, <1>0, <1>10
  <2> QED
    BY <2>6, <2>7
<1>11. \A j \in ChargedIn(rec) : /\ j \in Intents /\ rec[j].reservedAt \in Nat /\ rec[j].lastAt \in Nat
                                 /\ rec[j].reservedAt <= latest /\ rec[j].lastAt <= latest
  BY DEF ExposureInv, JournalOK, ChargedIn, Record
<1>12. Charged = ChargedIn(rec)
  BY DEF Charged, ChargedIn, Recorded
<1>13. ASSUME NEW l \in limits, NEW at \in latest'..MaxDay
       PROVE  /\ SumOf(ForetoldIn(rec'), OfDay(rec', at)) <= l.daily
              /\ SumOf(ForetoldIn(rec'), OfMonth(rec', at)) <= l.monthly
              /\ \A j \in Jobs : SumOf(ForetoldIn(rec'), OfJob(rec', j)) <= l.perJob
  <2>1. at \in Nat /\ now <= at /\ latest <= at /\ at \in latest..MaxDay
    BY <1>0, SpendAssumption DEF SpendAssumption
  <2>2. AllowanceLeft(job, amount, now)
    BY DEF Reserve
  <2>3. /\ Total(OfDay(rec, now)) + amount <= l.daily
        /\ Total(OfMonth(rec, now)) + amount <= l.monthly
        /\ Total(OfJob(rec, job)) + amount <= l.perJob
    BY <2>2, <1>12 DEF AllowanceLeft, Daily, Monthly, JobTotal, OfDay, OfMonth, OfJob
  <2>4. /\ OfDay(rec', at) \in SUBSET ChargedIn(rec') /\ OfDay(rec, now) \in SUBSET ChargedIn(rec)
        /\ OfDay(rec', at) \subseteq OfDay(rec, now) \cup {i}
    <3>1. ASSUME NEW j \in ChargedIn(rec), CountsToday(rec[j], at) PROVE CountsToday(rec[j], now)
      BY <3>1, <2>1, <1>0, <1>11 DEF CountsToday
    <3> QED
      BY <3>1, <1>3, <1>4, <1>11 DEF OfDay
  <2>5. /\ OfMonth(rec', at) \in SUBSET ChargedIn(rec') /\ OfMonth(rec, now) \in SUBSET ChargedIn(rec)
        /\ OfMonth(rec', at) \subseteq OfMonth(rec, now) \cup {i}
    <3>1. ASSUME NEW j \in ChargedIn(rec), CountsThisMonth(rec[j], at) PROVE CountsThisMonth(rec[j], now)
      <4>1. CASE Held(rec[j])
        BY <4>1 DEF CountsThisMonth
      <4>2. ASSUME NEW d \in Nat, d <= latest, Month(at) = Month(d) PROVE Month(now) = Month(d)
        <5>1. d <= now /\ now <= at
          BY <4>2, <1>0, <2>1
        <5>2. Month(d) <= Month(now) /\ Month(now) <= Month(at)
          BY <5>1, <1>0, <2>1, MonthsAdvance
        <5> QED
          BY <4>2, <5>2, <1>0, <2>1, MonthNatural
      <4> QED
        BY <3>1, <4>1, <4>2, <1>11 DEF CountsThisMonth
    <3> QED
      BY <3>1, <1>3, <1>4, <1>11 DEF OfMonth
  <2>6. SumOf(ForetoldIn(rec'), OfDay(rec', at)) <= l.daily
    BY <1>7, <1>10, <2>3, <2>4
  <2>7. SumOf(ForetoldIn(rec'), OfMonth(rec', at)) <= l.monthly
    BY <1>7, <1>10, <2>3, <2>5
  <2>8. ASSUME NEW j \in Jobs PROVE SumOf(ForetoldIn(rec'), OfJob(rec', j)) <= l.perJob
    <3>1. CASE j = job
      <4>1. /\ OfJob(rec', j) \in SUBSET ChargedIn(rec') /\ OfJob(rec, job) \in SUBSET ChargedIn(rec)
            /\ OfJob(rec', j) \subseteq OfJob(rec, job) \cup {i}
        BY <3>1, <1>3, <1>4, <1>11 DEF OfJob
      <4> QED
        BY <4>1, <1>7, <1>10, <2>3
    <3>2. CASE j # job
      <4>1. OfJob(rec', j) \in SUBSET OfJob(rec, j) /\ i \notin OfJob(rec', j)
        BY <3>2, <1>1, <1>3, <1>4, <1>11 DEF OfJob
      <4>2. OfJob(rec, j) \in SUBSET Intents /\ IsFiniteSet(OfJob(rec, j))
        <5>1. OfJob(rec, j) \in SUBSET ChargedIn(rec)
          BY DEF OfJob
        <5> QED
          BY <5>1, <1>5, FS_Subset DEF ChargedIn
      <4>3. \A k \in OfJob(rec', j) : ForetoldIn(rec')[k] <= ForetoldIn(rec)[k]
        BY <4>1, <4>2, <1>8, <1>9
      <4>4. SumOf(ForetoldIn(rec'), OfJob(rec', j)) <= SumOf(ForetoldIn(rec), OfJob(rec, j))
        BY <4>1, <4>2, <4>3, <1>8, SumMono
      <4>5. SumOf(ForetoldIn(rec), OfJob(rec, j)) <= l.perJob
        BY <2>1 DEF ExposureInv, Exposure
      <4>6. SumOf(ForetoldIn(rec'), OfJob(rec', j)) \in Nat /\ SumOf(ForetoldIn(rec), OfJob(rec, j)) \in Nat
        <5>1. OfJob(rec', j) \in SUBSET Intents /\ IsFiniteSet(OfJob(rec', j))
          BY <4>1, <4>2, FS_Subset
        <5> QED
          BY <5>1, <4>2, <1>8, SumType
      <4> QED
        BY <4>4, <4>5, <4>6, <1>7
    <3> QED
      BY <3>1, <3>2
  <2> QED
    BY <2>6, <2>7, <2>8
<1>14. Exposure(rec', limits', latest')
  BY <1>0, <1>13 DEF Exposure
<1> QED
  BY <1>6, <1>14 DEF ExposureInv

LEMMA ExposureInit == Init => ExposureInv
<1> SUFFICES ASSUME Init PROVE ExposureInv
  OBVIOUS
<1>1. rec \in [Intents -> Record] /\ \A i \in Intents : rec[i] = Absent
  BY DEF Init, Record, Absent, States
<1>2. ChargedIn(rec) = {}
  BY <1>1 DEF ChargedIn, Absent
<1>3. \A i \in Intents : rec[i].reservedAt <= 0 /\ rec[i].lastAt <= 0
  BY <1>1 DEF Absent
<1>4. IsFiniteSet(ChargedIn(rec))
  BY <1>2, FS_EmptySet
<1> QED
  BY <1>1, <1>2, <1>3, <1>4 DEF Init, ExposureInv, JournalOK, Exposure

(* Nothing is charged before the allowances are configured. *)
LEMMA ExposureConfigure ==
  ASSUME ExposureInv, NEW now \in 0..MaxDay, NEW l \in Limits, Configure(l, now)
  PROVE  ExposureInv'
<1>1. /\ now \in Nat /\ latest \in Nat /\ latest <= now /\ latest' = now /\ rec' = rec
      /\ limits' = {l} /\ limits = {}
  BY Naturals DEF Configure, ClockAdvances, Configured, ExposureInv, JournalOK
<1>2. ChargedIn(rec) = {} /\ rec \in [Intents -> Record]
  BY <1>1 DEF ExposureInv, JournalOK
<1>3. \A i \in Intents : rec[i].reservedAt <= now /\ rec[i].lastAt <= now
  <2> TAKE i \in Intents
  <2>1. rec[i].reservedAt <= latest /\ rec[i].lastAt <= latest
    BY DEF ExposureInv, JournalOK
  <2>2. rec[i].reservedAt \in Nat /\ rec[i].lastAt \in Nat
    BY <1>2 DEF Record
  <2> QED
    BY <1>1, <2>1, <2>2
<1>4. JournalOK'
  BY <1>1, <1>2, <1>3 DEF ExposureInv, JournalOK
<1>5. l.daily \in Nat /\ l.monthly \in Nat /\ l.perJob \in Nat
  BY SpendAssumption DEF SpendAssumption
<1>6. \A at : OfDay(rec, at) = {} /\ OfMonth(rec, at) = {}
  BY <1>2 DEF OfDay, OfMonth
<1>7. \A job : OfJob(rec, job) = {}
  BY <1>2 DEF OfJob
<1>8. /\ \A at : SumOf(ForetoldIn(rec), OfDay(rec, at)) = 0 /\ SumOf(ForetoldIn(rec), OfMonth(rec, at)) = 0
      /\ \A job : SumOf(ForetoldIn(rec), OfJob(rec, job)) = 0
  BY <1>6, <1>7, SumEmpty
<1>9. /\ \A at : SumOf(ForetoldIn(rec), OfDay(rec, at)) <= l.daily /\ SumOf(ForetoldIn(rec), OfMonth(rec, at)) <= l.monthly
      /\ \A job : SumOf(ForetoldIn(rec), OfJob(rec, job)) <= l.perJob
  BY <1>5, <1>8
<1>10. Exposure(rec', limits', latest')
  BY <1>1, <1>9 DEF Exposure
<1> QED
  BY <1>4, <1>10 DEF ExposureInv

(* An event of a held record that leaves it held or releases it. *)
LEMMA ExposureEvent ==
  ASSUME ExposureInv, NEW now \in 0..MaxDay, NEW i \in Intents, NEW s \in States, ClockAdvances(now),
         Held(rec[i]), Event(i, s, now), limits' = limits,
         (s \in {"dispatched", "uncertain"}) \/ (s = "released" /\ rec[i].settled = 0)
  PROVE  ExposureInv'
<1> DEFINE t == [rec[i] EXCEPT !.state = s, !.lastAt = now]
<1>1. /\ now \in Nat /\ latest \in Nat /\ latest <= now /\ latest' = now
      /\ rec[i] \in Record /\ rec[i].reservedAt \in Nat /\ rec[i].reservedAt <= latest
  BY Naturals DEF ClockAdvances, Event, ExposureInv, JournalOK, Record
<1>2. /\ t \in Record /\ t.state = s /\ t.job = rec[i].job /\ t.reserve = rec[i].reserve
      /\ t.settled = rec[i].settled /\ t.reservedAt = rec[i].reservedAt /\ t.lastAt = now
  BY <1>1 DEF Record
<1>3. Rewrites(i, t)
  BY DEF Event, Rewrites
<1> HIDE DEF t
<1>4. t.reservedAt <= latest' /\ t.lastAt <= latest' /\ latest' \in Nat /\ latest <= latest' /\ s # "absent"
  BY <1>1, <1>2
<1>5. ForeseenPart(t) <= ForeseenPart(rec[i])
  BY <1>1, <1>2 DEF ForeseenPart, Held, Record
<1> QED
  BY <1>2, <1>3, <1>4, <1>5, ExposureRewrite

(* A held record has settled nothing. *)
HoldsUnsettled == \A i \in Intents : Held(rec[i]) => rec[i].settled = 0

LEMMA ExposureStep ==
  ASSUME ExposureInv, GrantInv, [Next]_spendVars,
         \A i \in Intents : Held(rec[i]) => rec[i].settled = 0
  PROVE  ExposureInv' /\ (\A i \in Intents : Held(rec[i]) => rec[i].settled = 0)'
<1>0. rec \in [Intents -> Record]
  BY DEF ExposureInv, JournalOK
<1>1. CASE UNCHANGED spendVars
  BY <1>1 DEF spendVars, ExposureInv, JournalOK
<1>2. ASSUME NEW now \in 0..MaxDay, NEW l \in Limits, Configure(l, now)
      PROVE  ExposureInv' /\ (\A i \in Intents : Held(rec[i]) => rec[i].settled = 0)'
  BY <1>2, ExposureConfigure DEF Configure
<1>3. ASSUME NEW now \in 0..MaxDay, NEW i \in Intents, NEW job \in Jobs, NEW amount \in Amounts,
             Reserve(i, job, amount, now)
      PROVE  ExposureInv' /\ (\A j \in Intents : Held(rec[j]) => rec[j].settled = 0)'
  <2>1. \A j \in Intents : Held(rec'[j]) => rec'[j].settled = 0
    BY <1>0, <1>3 DEF Reserve, Absent
  <2> QED
    BY <1>3, <2>1, ExposureReserve
<1>4. ASSUME NEW now \in 0..MaxDay, NEW i \in Intents, NEW s \in States, Event(i, s, now), Held(rec[i])
      PROVE  \A j \in Intents : Held(rec'[j]) => rec'[j].settled = 0
  BY <1>0, <1>4 DEF Event, Record
<1>5. ASSUME NEW now \in 0..MaxDay, NEW i \in Intents,
             Dispatch(i, now) \/ Uncertain(i, now) \/ Release(i, now)
      PROVE  ExposureInv' /\ (\A j \in Intents : Held(rec[j]) => rec[j].settled = 0)'
  <2>1. /\ ClockAdvances(now) /\ Held(rec[i]) /\ limits' = limits
        /\ \E s \in States : s \in {"dispatched", "uncertain", "released"} /\ Event(i, s, now)
    BY <1>5 DEF Dispatch, Uncertain, Release, Held, States
  <2>2. PICK s \in States : s \in {"dispatched", "uncertain", "released"} /\ Event(i, s, now)
    BY <2>1
  <2>3. rec[i].settled = 0
    BY <2>1
  <2>4. ExposureInv'
    BY <2>1, <2>2, <2>3, ExposureEvent
  <2> QED
    BY <2>1, <2>2, <2>4, <1>4
<1>6. ASSUME NEW now \in 0..MaxDay, NEW i \in Intents, NEW amount \in Amounts, NEW e \in Evidence,
             Settle(i, amount, e, now)
      PROVE  ExposureInv' /\ (\A j \in Intents : Held(rec[j]) => rec[j].settled = 0)'
  <2> DEFINE t == [rec[i] EXCEPT !.state = "settled", !.lastAt = now,
                                 !.settled = amount, !.evidence = e]
  <2>1. /\ now \in Nat /\ latest \in Nat /\ latest <= now /\ latest' = now /\ amount \in Nat
        /\ rec[i] \in Record /\ rec[i].reservedAt \in Nat /\ rec[i].reservedAt <= latest
        /\ Held(rec[i]) /\ limits' = limits
    BY <1>6, Naturals DEF Settle, ClockAdvances, ExposureInv, JournalOK, Record, Held
  <2>2. /\ t \in Record /\ t.state = "settled" /\ t.job = rec[i].job /\ t.reserve = rec[i].reserve
        /\ t.settled = amount /\ t.reservedAt = rec[i].reservedAt /\ t.lastAt = now
    BY <2>1 DEF Record, States
  <2>3. Rewrites(i, t)
    BY <1>6 DEF Settle, Rewrites
  <2> HIDE DEF t
  <2>4. t.reservedAt <= latest' /\ t.lastAt <= latest' /\ latest' \in Nat /\ latest <= latest'
    BY <2>1, <2>2
  <2>5. ForeseenPart(t) <= ForeseenPart(rec[i])
    <3>1. rec[i].reserve \in Nat /\ ForeseenPart(rec[i]) = rec[i].reserve /\ ~Held(t)
      BY <2>1, <2>2 DEF ForeseenPart, Held, Record
    <3> QED
      BY <2>1, <2>2, <3>1 DEF ForeseenPart
  <2>6. ExposureInv'
    <3>1. t.state # "absent"
      BY <2>2
    <3> QED
      BY <2>1, <2>2, <2>3, <2>4, <2>5, <3>1, ExposureRewrite
  <2>7. \A j \in Intents : Held(rec'[j]) => rec'[j].settled = 0
    BY <1>0, <2>2, <2>3 DEF Rewrites, Held
  <2> QED
    BY <2>6, <2>7
<1> QED
  BY <1>1, <1>2, <1>3, <1>5, <1>6 DEF Next

LEMMA ExposureHolds == ExposureInv => ExposureWithinAllowance
<1> SUFFICES ASSUME ExposureInv PROVE ExposureWithinAllowance
  OBVIOUS
<1>1. Charged = ChargedIn(rec)
  BY DEF Charged, ChargedIn, Recorded
<1>2. \A S \in SUBSET ChargedIn(rec) : Foreseen(S) = SumOf(ForetoldIn(rec), S)
  <2> TAKE S \in SUBSET ChargedIn(rec)
  <2>1. S \in SUBSET Intents /\ IsFiniteSet(S)
    BY FS_Subset DEF ExposureInv, JournalOK, ChargedIn
  <2> QED
    BY <2>1, ForeseenIsSum
<1>3. /\ \A now : OfDay(rec, now) \in SUBSET ChargedIn(rec) /\ OfMonth(rec, now) \in SUBSET ChargedIn(rec)
      /\ \A job : OfJob(rec, job) \in SUBSET ChargedIn(rec)
  BY DEF OfDay, OfMonth, OfJob
<1>4. \A l \in limits, now \in latest..MaxDay :
        /\ Foreseen(OfDay(rec, now)) <= l.daily
        /\ Foreseen(OfMonth(rec, now)) <= l.monthly
        /\ \A job \in Jobs : Foreseen(OfJob(rec, job)) <= l.perJob
  BY <1>2, <1>3 DEF ExposureInv, Exposure
<1> QED
  BY <1>1, <1>4 DEF ExposureWithinAllowance, OfDay, OfMonth, OfJob

(* Whatever the order of holds, releases and late bills, the foreseen part *)
(* of the charges of every day, month and job to come fits the configured  *)
(* allowance: reserve's checks at its own clock bound them all.            *)
THEOREM WithinAllowance == Spec => []ExposureWithinAllowance
<1>1. Init => ExposureInv /\ GrantInv /\ HoldsUnsettled
  BY ExposureInit, GrantInvInit DEF Init, HoldsUnsettled, Absent
<1>2. ExposureInv /\ GrantInv /\ HoldsUnsettled /\ [Next]_spendVars
        => ExposureInv' /\ GrantInv' /\ HoldsUnsettled'
  BY ExposureStep, GrantInvStep DEF HoldsUnsettled
<1>3. Spec => [](ExposureInv /\ GrantInv /\ HoldsUnsettled)
  BY <1>1, <1>2, PTL DEF Spec
<1> QED
  BY <1>3, ExposureHolds, PTL

-----------------------------------------------------------------------------
(* Type correctness and the overrun latch.                                 *)

LimitsOK == limits \subseteq Limits /\ latest \in 0..MaxDay /\ \A k, l \in limits : k = l

LEMMA LimitsInit == Init => LimitsOK
  BY SpendAssumption DEF Init, LimitsOK, SpendAssumption

LEMMA LimitsStep == LimitsOK /\ [Next]_spendVars => LimitsOK'
<1> SUFFICES ASSUME LimitsOK, [Next]_spendVars PROVE LimitsOK'
  OBVIOUS
<1>1. CASE UNCHANGED spendVars
  BY <1>1 DEF spendVars, LimitsOK
<1>2. ASSUME NEW now \in 0..MaxDay, NEW l \in Limits, Configure(l, now) PROVE LimitsOK'
  BY <1>2 DEF Configure, LimitsOK
<1>3. ASSUME NEW now \in 0..MaxDay, latest' = now, limits' = limits PROVE LimitsOK'
  BY <1>3 DEF LimitsOK
<1> QED
  BY <1>1, <1>2, <1>3 DEF Next, Reserve, Dispatch, Uncertain, Release, Settle, Event

(* At most one limit record is configured, and every record is well formed. *)
THEOREM JournalTyped == Spec => []SpendTypeOK
<1>1. Spec => []GrantInv
  BY GrantInvInit, GrantInvStep, PTL DEF Spec
<1>2. Spec => []LimitsOK
  BY LimitsInit, LimitsStep, PTL DEF Spec
<1>3. GrantInv /\ LimitsOK => SpendTypeOK
  <2> SUFFICES ASSUME GrantInv, LimitsOK PROVE SpendTypeOK
    OBVIOUS
  <2>1. Cardinality(limits) <= 1
    <3>1. CASE limits = {}
      BY <3>1, FS_EmptySet
    <3>2. CASE limits # {}
      <4>1. PICK l \in limits : TRUE
        BY <3>2
      <4>2. limits = {l}
        BY <4>1 DEF LimitsOK
      <4> QED
        BY <4>2, FS_Singleton
    <3> QED
      BY <3>1, <3>2
  <2> QED
    BY <2>1 DEF SpendTypeOK, GrantInv, RecOK, LimitsOK
<1> QED
  BY <1>1, <1>2, <1>3, PTL

LEMMA OverrunStep ==
  GrantInv /\ [Next]_spendVars
    => (Overruns # {} => Overruns \subseteq Overruns' /\ Recorded' = Recorded /\ grants' = grants)
<1> SUFFICES ASSUME GrantInv, [Next]_spendVars, Overruns # {}
             PROVE  Overruns \subseteq Overruns' /\ Recorded' = Recorded /\ grants' = grants
  OBVIOUS
<1>0. rec \in [Intents -> Record]
  BY DEF GrantInv, RecOK
<1>1. CASE UNCHANGED spendVars
  BY <1>1 DEF spendVars, Overruns, Recorded
<1>2. ASSUME NEW now \in 0..MaxDay, NEW l \in Limits, Configure(l, now)
      PROVE  Overruns \subseteq Overruns' /\ Recorded' = Recorded /\ grants' = grants
  BY <1>2 DEF Configure, Overruns, Recorded
<1>3. ASSUME NEW now \in 0..MaxDay, NEW i \in Intents, NEW s \in States, Event(i, s, now),
             s # "absent", rec[i].state \in {"reserved", "dispatched"}
      PROVE  Overruns \subseteq Overruns' /\ Recorded' = Recorded
  <2>1. /\ \A j \in Intents : j # i => rec'[j] = rec[j]
        /\ rec'[i].state = s
    BY <1>0, <1>3 DEF Event, Record
  <2> QED
    BY <1>3, <2>1 DEF Overruns, Recorded
<1>4. ASSUME NEW now \in 0..MaxDay, NEW i \in Intents, Uncertain(i, now) \/ Release(i, now)
      PROVE  Overruns \subseteq Overruns' /\ Recorded' = Recorded /\ grants' = grants
  BY <1>3, <1>4 DEF Uncertain, Release, States
<1>5. ASSUME NEW now \in 0..MaxDay, NEW i \in Intents, NEW amount \in Amounts, NEW e \in Evidence,
             Settle(i, amount, e, now)
      PROVE  Overruns \subseteq Overruns' /\ Recorded' = Recorded /\ grants' = grants
  <2>1. /\ \A j \in Intents : j # i => rec'[j] = rec[j]
        /\ rec'[i].state = "settled" /\ rec[i].state \in {"dispatched", "uncertain"} /\ grants' = grants
    BY <1>0, <1>5 DEF Settle, Record
  <2> QED
    BY <2>1 DEF Overruns, Recorded
<1> QED
  BY <1>1, <1>2, <1>4, <1>5 DEF Next, Reserve, Dispatch

(* Once a bill above its reserve is recorded, no step reserves or grants   *)
(* anything, and the overrun stays recorded.                               *)
THEOREM OverrunLatch == Spec => OverrunStopsSpending
<1>1. Spec => []GrantInv
  BY GrantInvInit, GrantInvStep, PTL DEF Spec
<1> QED
  BY <1>1, OverrunStep, PTL DEF Spec, OverrunStopsSpending

-----------------------------------------------------------------------------
(* The batch worker, over the journal.                                     *)


(* The typing the proofs rest on: rows, workers, and a busy worker's job. *)
RowsOK ==
    /\ batch \in [Jobs -> Job]
    /\ work \in [Workers -> Attempt]
    /\ created \subseteq Jobs \X Batches
    /\ \A w \in Workers :
          /\ ~At(w, "idle") => work[w].job \in Jobs
          /\ At(w, "answered") => work[w].receipt # None

(* A job that the journal knows has its reservation. *)
LEMMA KnownReservation ==
  ASSUME RowsOK, NEW j \in Jobs, batch[j].intent # None
  PROVE  batch[j].intent \in Intents
  BY DEF RowsOK, Job

-----------------------------------------------------------------------------
(* Each operation's spending effect is a step of the spending journal.     *)

LEMMA DoubtIsSpending ==
  ASSUME RowsOK, NEW j \in Jobs, NEW now \in 0..MaxDay, WorkerClock(j, now), DoubtSpending(j, now)
  PROVE  [Next]_spendVars
<1>1. batch[j].intent \in Intents
  BY KnownReservation DEF WorkerClock
<1>2. CASE Reservation(j).state = "dispatched"
  <2>1. Uncertain(batch[j].intent, now)
    BY <1>2 DEF DoubtSpending
  <2> QED BY <1>1, <2>1 DEF Next
<1>3. CASE Reservation(j).state # "dispatched"
  BY <1>3 DEF DoubtSpending
<1> QED BY <1>2, <1>3

LEMMA AcquireIsSpending ==
  ASSUME RowsOK, NEW j \in Jobs, NEW owner, NEW now \in 0..MaxDay, Acquire(j, owner, now)
  PROVE  [Next]_spendVars
  BY DoubtIsSpending DEF Acquire

LEMMA BeginIsSpending ==
  ASSUME RowsOK, NEW j \in Jobs, NEW owner, NEW fence, NEW now \in 0..MaxDay,
         Begin(j, owner, fence, now)
  PROVE  [Next]_spendVars
<1>1. batch[j].intent \in Intents /\ Dispatch(batch[j].intent, now)
  BY KnownReservation DEF Begin, WorkerClock
<1> QED BY <1>1 DEF Next

LEMMA RecordDoubtIsSpending ==
  ASSUME RowsOK, NEW j \in Jobs, NEW owner, NEW fence, NEW now \in 0..MaxDay,
         RecordDoubt(j, owner, fence, now)
  PROVE  [Next]_spendVars
  BY DoubtIsSpending DEF RecordDoubt

LEMMA StepIsSpending == RowsOK /\ [BatchNext]_batchVars => [Next]_spendVars
<1> SUFFICES ASSUME RowsOK, [BatchNext]_batchVars PROVE [Next]_spendVars
  OBVIOUS
<1>1. CASE UNCHANGED batchVars
  BY <1>1 DEF batchVars, spendVars
<1>2. ASSUME NEW now \in 0..MaxDay, NEW w \in Workers, AskGrant(w, now) PROVE [Next]_spendVars
  <2>1. work[w].job \in Jobs
    BY <1>2 DEF AskGrant, At, RowsOK
  <2> QED BY <1>2, <2>1, BeginIsSpending DEF AskGrant, Journal
<1>3. ASSUME NEW now \in 0..MaxDay, NEW w \in Workers, Retain(w, now) PROVE [Next]_spendVars
  BY <1>3 DEF Retain, ObserveAck, Journal
<1>4. ASSUME NEW now \in 0..MaxDay, NEW w \in Workers, Accept(w, now) PROVE [Next]_spendVars
  BY <1>4 DEF Accept, Adopt, Journal
<1>5. ASSUME NEW now \in 0..MaxDay, NEW w \in Workers, Doubt(w, now) PROVE [Next]_spendVars
  <2>1. work[w].job \in Jobs
    BY <1>5 DEF Doubt, At, RowsOK
  <2> QED BY <1>5, <2>1, RecordDoubtIsSpending DEF Doubt, Journal
<1>6. ASSUME NEW now \in 0..MaxDay, NEW w \in Workers, NEW j \in Jobs,
             Lease(w, j, now) \/ Reconcile(w, j, now) PROVE [Next]_spendVars
  BY <1>6, AcquireIsSpending DEF Lease, Reconcile, Adopt
<1>7. ASSUME NEW now \in 0..MaxDay, NEW j \in Jobs, NEW receipt \in Batches \cup Garbage,
             LateAck(j, receipt, now) PROVE [Next]_spendVars
  BY <1>7 DEF LateAck, ObserveAck
<1>8. ASSUME NEW now \in 0..MaxDay, NEW j \in Jobs, NEW i \in Intents, NEW amount \in Amounts,
             Prepare(j, i, amount, now) PROVE [Next]_spendVars
  BY <1>8 DEF Prepare, Register, ReservedAlready, Next
<1>9. ASSUME NEW w \in Workers, Submit(w) \/ Die(w) PROVE [Next]_spendVars
  BY <1>9 DEF Submit, Die, Journal
<1>10. CASE Spending
  BY <1>10 DEF Spending
<1> QED
  BY <1>1, <1>2, <1>3, <1>4, <1>5, <1>6, <1>7, <1>8, <1>9, <1>10 DEF BatchNext

-----------------------------------------------------------------------------
(* Typing: each operation leaves well-formed rows and workers.             *)

LEMMA ReplaceRow ==
  ASSUME RowsOK, NEW j \in Jobs, NEW r \in Job, batch' = [batch EXCEPT ![j] = r]
  PROVE  batch' \in [Jobs -> Job]
  BY DEF RowsOK

LEMMA AcquireRows ==
  ASSUME RowsOK, NEW j \in Jobs, NEW w \in Workers, NEW now \in 0..MaxDay,
         Acquire(j, OwnerOf[w], now)
  PROVE  batch' \in [Jobs -> Job]
<1> DEFINE r(d) == [batch[j] EXCEPT !.fence = batch[j].fence + 1, !.owner = OwnerOf[w],
                                    !.expires = now + LeaseTime, !.doubted = d]
<1>1. /\ batch[j] \in Job
      /\ now + LeaseTime \in Nat
      /\ batch[j].fence + 1 \in Nat
      /\ OwnerOf[w] \in {OwnerOf[v] : v \in Workers} \cup {None}
  BY SpendAssumption, BatchAssumption DEF SpendAssumption, BatchAssumption, RowsOK, Job
<1>2. ASSUME NEW d \in BOOLEAN, NEW n \in Nat, NEW x \in Nat,
             NEW o \in {OwnerOf[v] : v \in Workers} \cup {None}
      PROVE  [batch[j] EXCEPT !.fence = n, !.owner = o, !.expires = x, !.doubted = d] \in Job
  BY <1>1 DEF Job
<1>3. (batch[j].doubted \/ (batch[j].grant # 0 /\ batch[j].adopted = None)) \in BOOLEAN
  OBVIOUS
<1>4. \/ batch' = batch
      \/ batch' = [batch EXCEPT ![j] =
                      r(batch[j].doubted \/ (batch[j].grant # 0 /\ batch[j].adopted = None))]
  BY DEF Acquire
<1>5. r(batch[j].doubted \/ (batch[j].grant # 0 /\ batch[j].adopted = None)) \in Job
  BY <1>1, <1>2, <1>3
<1> HIDE DEF r
<1> QED BY <1>4, <1>5, ReplaceRow DEF RowsOK

LEMMA BeginRows ==
  ASSUME RowsOK, NEW j \in Jobs, NEW owner, NEW fence \in Nat, NEW now \in 0..MaxDay,
         Begin(j, owner, fence, now)
  PROVE  batch' \in [Jobs -> Job]
<1> DEFINE r == [batch[j] EXCEPT !.grant = fence]
<1>1. r \in Job
  BY DEF RowsOK, Job
<1>2. batch' = [batch EXCEPT ![j] = r]
  BY DEF Begin
<1> HIDE DEF r
<1> QED BY <1>1, <1>2, ReplaceRow

LEMMA RecordDoubtRows ==
  ASSUME RowsOK, NEW j \in Jobs, NEW owner, NEW fence, NEW now \in 0..MaxDay,
         RecordDoubt(j, owner, fence, now)
  PROVE  batch' \in [Jobs -> Job]
<1> DEFINE r == [batch[j] EXCEPT !.doubted = TRUE]
<1>1. r \in Job
  BY DEF RowsOK, Job
<1>2. batch' = [batch EXCEPT ![j] = r]
  BY DEF RecordDoubt
<1> HIDE DEF r
<1> QED BY <1>1, <1>2, ReplaceRow

LEMMA ObserveAckRows ==
  ASSUME RowsOK, NEW j \in Jobs, NEW receipt \in Batches \cup Garbage, NEW now \in 0..MaxDay,
         ObserveAck(j, receipt, now)
  PROVE  batch' \in [Jobs -> Job]
<1> DEFINE r == [batch[j] EXCEPT !.acks = batch[j].acks \cup {receipt}]
<1>1. r \in Job
  BY DEF RowsOK, Job
<1>2. batch' = batch \/ batch' = [batch EXCEPT ![j] = r]
  BY DEF ObserveAck
<1> HIDE DEF r
<1> QED BY <1>1, <1>2, ReplaceRow DEF RowsOK

LEMMA AdoptRows ==
  ASSUME RowsOK, NEW j \in Jobs, NEW owner, NEW fence, NEW receipt, NEW now \in 0..MaxDay,
         Adopt(j, owner, fence, receipt, now)
  PROVE  batch' \in [Jobs -> Job]
<1> DEFINE r == [batch[j] EXCEPT !.adopted = receipt]
<1>1. r \in Job
  BY DEF RowsOK, Job, Adopt, Named
<1>2. batch' = [batch EXCEPT ![j] = r]
  BY DEF Adopt
<1> HIDE DEF r
<1> QED BY <1>1, <1>2, ReplaceRow

LEMMA RegisterRows ==
  ASSUME RowsOK, NEW j \in Jobs, NEW i \in Intents, NEW amount, NEW now \in 0..MaxDay,
         Register(j, i, amount, now)
  PROVE  batch' \in [Jobs -> Job]
<1> DEFINE r == [batch[j] EXCEPT !.intent = i, !.registered = now]
<1>0. now \in Nat /\ batch[j] \in Job
  BY DEF RowsOK
<1>1. r \in Job
  BY <1>0 DEF Job
<1>2. batch' = [batch EXCEPT ![j] = r]
  BY DEF Register
<1> HIDE DEF r
<1> QED BY <1>1, <1>2, ReplaceRow

(* A worker that moves on to another step of the same attempt, or stops. *)
LEMMA GoWork ==
  ASSUME RowsOK, NEW w \in Workers, ~At(w, "idle"),
         batch' \in [Jobs -> Job], created' \subseteq Jobs \X Batches,
         Stop(w) \/ \E pc \in Steps \ {"answered"} : Go(w, pc)
  PROVE  RowsOK'
<1>1. CASE Stop(w)
  BY <1>1 DEF RowsOK, Stop, Resting, Attempt, Steps, At
<1>2. CASE \E pc \in Steps \ {"answered"} : Go(w, pc)
  <2>1. PICK pc \in Steps \ {"answered"} : work' = [work EXCEPT ![w] = [work[w] EXCEPT !.pc = pc]]
    BY <1>2 DEF Go
  <2>2. [work[w] EXCEPT !.pc = pc] \in Attempt /\ work[w].job \in Jobs
    BY DEF RowsOK, Attempt
  <2>3. /\ [work[w] EXCEPT !.pc = pc].job = work[w].job
        /\ [work[w] EXCEPT !.pc = pc].pc # "answered"
    BY DEF RowsOK, Attempt
  <2> QED BY <2>1, <2>2, <2>3 DEF RowsOK, At
<1> QED BY <1>1, <1>2

LEMMA JournalKept == UNCHANGED Journal => batch' = batch
  BY DEF Journal, spendVars

LEMMA RowsInit == BatchInit => RowsOK
  BY DEF BatchInit, RowsOK, Job, Unregistered, Resting, Attempt, Steps, At

LEMMA RowsStep == RowsOK /\ [BatchNext]_batchVars => RowsOK'
<1> SUFFICES ASSUME RowsOK, [BatchNext]_batchVars PROVE RowsOK'
  OBVIOUS
<1>0. /\ batch \in [Jobs -> Job]
      /\ created \subseteq Jobs \X Batches
      /\ \A w \in Workers : work[w].fence \in Nat
      /\ \A w \in Workers : ~At(w, "idle") => work[w].job \in Jobs
  BY DEF RowsOK, Attempt
<1>s. {"granted", "doubt", "retained"} \subseteq Steps \ {"answered"}
  BY DEF Steps
<1>1. CASE UNCHANGED batchVars
  BY <1>1 DEF batchVars, RowsOK, At
<1>2. ASSUME NEW now \in 0..MaxDay, NEW w \in Workers, AskGrant(w, now) PROVE RowsOK'
  <2>1. ~At(w, "idle") /\ created' = created
    BY <1>2 DEF AskGrant, At
  <2>2. batch' \in [Jobs -> Job]
    <3>1. CASE Begin(work[w].job, OwnerOf[w], work[w].fence, now)
      BY <1>0, <2>1, <3>1, BeginRows
    <3>2. CASE UNCHANGED Journal
      BY <1>0, <3>2, JournalKept
    <3> QED BY <1>2, <3>1, <3>2 DEF AskGrant
  <2>3. Go(w, "granted") \/ Go(w, "doubt") \/ Stop(w)
    BY <1>2 DEF AskGrant
  <2> QED BY <1>0, <1>s, <2>1, <2>2, <2>3, GoWork
<1>3. ASSUME NEW now \in 0..MaxDay, NEW w \in Workers, Retain(w, now) PROVE RowsOK'
  <2>1. ~At(w, "idle") /\ created' = created /\ work[w].receipt \in Batches \cup Garbage
    BY <1>3 DEF Retain, At, RowsOK, Attempt
  <2>2. batch' \in [Jobs -> Job]
    <3>1. CASE ObserveAck(work[w].job, work[w].receipt, now)
      BY <1>0, <2>1, <3>1, ObserveAckRows
    <3>2. CASE UNCHANGED Journal
      BY <1>0, <3>2, JournalKept
    <3> QED BY <1>3, <3>1, <3>2 DEF Retain
  <2>3. Go(w, "retained") \/ Go(w, "doubt")
    BY <1>3 DEF Retain
  <2> QED BY <1>0, <1>s, <2>1, <2>2, <2>3, GoWork
<1>4. ASSUME NEW now \in 0..MaxDay, NEW w \in Workers, Accept(w, now) PROVE RowsOK'
  <2>1. ~At(w, "idle") /\ created' = created
    BY <1>4 DEF Accept, At
  <2>2. batch' \in [Jobs -> Job]
    <3>1. CASE Adopt(work[w].job, OwnerOf[w], work[w].fence, work[w].receipt, now)
      BY <1>0, <2>1, <3>1, AdoptRows
    <3>2. CASE UNCHANGED Journal
      BY <1>0, <3>2, JournalKept
    <3> QED BY <1>4, <3>1, <3>2 DEF Accept
  <2> QED BY <1>0, <1>4, <2>1, <2>2, GoWork DEF Accept
<1>5. ASSUME NEW now \in 0..MaxDay, NEW w \in Workers, Doubt(w, now) PROVE RowsOK'
  <2>1. ~At(w, "idle") /\ created' = created
    BY <1>5 DEF Doubt, At
  <2>2. batch' \in [Jobs -> Job]
    <3>1. CASE RecordDoubt(work[w].job, OwnerOf[w], work[w].fence, now)
      BY <1>0, <2>1, <3>1, RecordDoubtRows
    <3>2. CASE UNCHANGED Journal
      BY <1>0, <3>2, JournalKept
    <3> QED BY <1>5, <3>1, <3>2 DEF Doubt
  <2> QED BY <1>0, <1>5, <2>1, <2>2, GoWork DEF Doubt
<1>6. ASSUME NEW now \in 0..MaxDay, NEW w \in Workers, NEW j \in Jobs, Lease(w, j, now)
      PROVE  RowsOK'
  <2>1. batch' \in [Jobs -> Job] /\ created' = created
    BY <1>6, AcquireRows DEF Lease
  <2>2. batch'[j].fence \in Nat
    BY <2>1 DEF Job
  <2> DEFINE t == [pc |-> "leased", job |-> j, fence |-> batch'[j].fence, receipt |-> None]
  <2>3. t \in Attempt /\ t.pc = "leased" /\ t.job \in Jobs
    BY <2>2 DEF Attempt, Steps
  <2>4. work' = [work EXCEPT ![w] = t]
    BY <1>6 DEF Lease
  <2> HIDE DEF t
  <2> QED BY <2>1, <2>3, <2>4 DEF RowsOK, At
<1>7. ASSUME NEW now \in 0..MaxDay, NEW w \in Workers, NEW j \in Jobs, Reconcile(w, j, now)
      PROVE  RowsOK'
  <2>1. batch' \in [Jobs -> Job]
    BY <1>7, AdoptRows DEF Reconcile
  <2> QED BY <1>7, <2>1 DEF Reconcile, RowsOK, At
<1>8. ASSUME NEW now \in 0..MaxDay, NEW j \in Jobs, NEW receipt \in Batches \cup Garbage,
             LateAck(j, receipt, now) PROVE RowsOK'
  <2>1. batch' \in [Jobs -> Job]
    BY <1>8, ObserveAckRows DEF LateAck
  <2> QED BY <1>8, <2>1 DEF LateAck, RowsOK, At
<1>9. ASSUME NEW now \in 0..MaxDay, NEW j \in Jobs, NEW i \in Intents, NEW amount \in Amounts,
             Prepare(j, i, amount, now) PROVE RowsOK'
  <2>1. batch' \in [Jobs -> Job]
    BY <1>9, RegisterRows DEF Prepare
  <2> QED BY <1>9, <2>1 DEF Prepare, RowsOK, At
<1>10. ASSUME NEW w \in Workers, Submit(w) PROVE RowsOK'
  <2>0. At(w, "granted") /\ UNCHANGED Journal
    BY <1>10 DEF Submit
  <2>1. ~At(w, "idle") /\ batch' = batch /\ work[w].job \in Jobs
    BY <1>0, <2>0, JournalKept DEF At
  <2>a. created' \subseteq Jobs \X Batches
    <3>1. CASE created' = created
      BY <1>0, <3>1
    <3>2. CASE \E b \in Batches : created' = created \cup {<<work[w].job, b>>}
      BY <1>0, <2>1, <3>2
    <3> QED BY <1>10, <3>1, <3>2 DEF Submit
  <2>2. CASE Go(w, "doubt")
    BY <1>0, <1>s, <2>1, <2>a, <2>2, GoWork
  <2>3. CASE \E r \in Batches \cup Garbage :
               work' = [work EXCEPT ![w] = [work[w] EXCEPT !.pc = "answered", !.receipt = r]]
    <3>1. PICK r \in Batches \cup Garbage :
               work' = [work EXCEPT ![w] = [work[w] EXCEPT !.pc = "answered", !.receipt = r]]
      BY <2>3
    <3> DEFINE t == [work[w] EXCEPT !.pc = "answered", !.receipt = r]
    <3>2. t \in Attempt /\ t.job \in Jobs /\ t.receipt = r /\ t.pc # "idle"
      BY <2>1 DEF RowsOK, Attempt, Steps
    <3>3. r # None
      BY BatchAssumption DEF BatchAssumption
    <3> HIDE DEF t
    <3> QED BY <2>1, <2>a, <3>1, <3>2, <3>3 DEF RowsOK, At, t
  <2> QED BY <1>10, <2>2, <2>3 DEF Submit
<1>11. ASSUME NEW w \in Workers, Die(w) PROVE RowsOK'
  BY <1>0, <1>11, GoWork DEF Die, Journal
<1>12. CASE Spending
  BY <1>12 DEF Spending, RowsOK, At
<1> QED
  BY <1>1, <1>2, <1>3, <1>4, <1>5, <1>6, <1>7, <1>8, <1>9, <1>10, <1>11, <1>12 DEF BatchNext

-----------------------------------------------------------------------------
(* One submission per job, and its money charged.                          *)

Spent == {"dispatched", "uncertain", "settled"}

(* Inductive: a grant has its reservation spent, only one worker holds an   *)
(* unused one, and what the provider created was granted and used up.      *)
SubmitInv ==
    /\ \A j \in Jobs : batch[j].grant # 0 => batch[j].intent # None /\ Reservation(j).state \in Spent
    /\ \A w \in Workers : At(w, "granted") =>
          /\ batch[work[w].job].grant # 0
          /\ \A c \in created : c[1] # work[w].job
          /\ \A v \in Workers : At(v, "granted") /\ work[v].job = work[w].job => v = w
    /\ \A c \in created : batch[c[1]].grant # 0
    /\ \A c, d \in created : c[1] = d[1] => c = d

(* A grant, and the reservation it was made on, stay as they are. *)
GrantsKept ==
    \A j \in Jobs : /\ batch'[j].grant = batch[j].grant
                    /\ batch[j].grant # 0 => batch'[j].intent = batch[j].intent

(* No worker comes to hold an unused grant. *)
HoldersKept ==
    \A w \in Workers : work'[w].pc = "granted" =>
                          work[w].pc = "granted" /\ work'[w].job = work[w].job

(* The spending journal never takes back that money is spent. *)
LEMMA SpentForGood ==
  ASSUME RecOK, [Next]_spendVars, NEW i \in Intents, rec[i].state \in Spent
  PROVE  rec'[i].state \in Spent
<1>0. rec \in [Intents -> Record]
  BY DEF RecOK
<1>1. CASE UNCHANGED spendVars
  BY <1>1 DEF spendVars
<1>2. ASSUME NEW k \in Intents, NEW s, NEW now, Event(k, s, now), s \in Spent \/ rec[k].state \notin Spent
      PROVE  rec'[i].state \in Spent
  <2>1. rec' = [rec EXCEPT ![k] = [rec[k] EXCEPT !.state = s, !.lastAt = now]]
    BY <1>2 DEF Event
  <2>2. [rec[k] EXCEPT !.state = s, !.lastAt = now].state = s
    BY <1>0 DEF Record
  <2> QED BY <1>0, <1>2, <2>1, <2>2
<1>3. ASSUME NEW now \in 0..MaxDay, NEW l \in Limits, Configure(l, now) PROVE rec'[i].state \in Spent
  BY <1>3 DEF Configure
<1>4. ASSUME NEW now \in 0..MaxDay, NEW k \in Intents, NEW job \in Jobs, NEW amount \in Amounts,
             Reserve(k, job, amount, now) PROVE rec'[i].state \in Spent
  <2>1. k # i
    BY <1>4 DEF Reserve, Spent
  <2> QED BY <1>0, <1>4, <2>1 DEF Reserve
<1>5. ASSUME NEW now \in 0..MaxDay, NEW k \in Intents,
             Dispatch(k, now) \/ Uncertain(k, now) \/ Release(k, now) PROVE rec'[i].state \in Spent
  BY <1>2, <1>5 DEF Dispatch, Uncertain, Release, Spent
<1>6. ASSUME NEW now \in 0..MaxDay, NEW k \in Intents, NEW amount \in Amounts, NEW e \in Evidence,
             Settle(k, amount, e, now) PROVE rec'[i].state \in Spent
  <2> DEFINE t == [rec[k] EXCEPT !.state = "settled", !.lastAt = now,
                                 !.settled = amount, !.evidence = e]
  <2>1. t.state = "settled" /\ rec' = [rec EXCEPT ![k] = t]
    BY <1>0, <1>6 DEF Settle, Record
  <2> HIDE DEF t
  <2> QED BY <1>0, <2>1 DEF Spent
<1> QED BY <1>1, <1>3, <1>4, <1>5, <1>6 DEF Next

LEMMA KeepSubmitInv ==
  ASSUME RowsOK, RowsOK', RecOK, SubmitInv, [Next]_spendVars, GrantsKept, HoldersKept,
         created' = created
  PROVE  SubmitInv'
<1>1. ASSUME NEW j \in Jobs, batch'[j].grant # 0
      PROVE  batch'[j].intent # None /\ rec'[batch'[j].intent].state \in Spent
  <2>1. batch[j].grant # 0 /\ batch[j].intent # None /\ batch'[j].intent = batch[j].intent
    BY <1>1 DEF GrantsKept, SubmitInv
  <2>2. rec[batch[j].intent].state \in Spent /\ batch[j].intent \in Intents
    BY <2>1, KnownReservation DEF SubmitInv, Reservation
  <2> QED BY <2>1, <2>2, SpentForGood
<1>2. ASSUME NEW w \in Workers, work'[w].pc = "granted"
      PROVE  /\ batch'[work'[w].job].grant # 0
             /\ \A c \in created' : c[1] # work'[w].job
             /\ \A v \in Workers : work'[v].pc = "granted" /\ work'[v].job = work'[w].job => v = w
  <2>1. At(w, "granted") /\ work'[w].job = work[w].job /\ work[w].job \in Jobs
    BY <1>2 DEF HoldersKept, At, RowsOK
  <2> QED BY <2>1 DEF SubmitInv, GrantsKept, HoldersKept, At
<1>3. \A c \in created' : batch'[c[1]].grant # 0
  BY DEF SubmitInv, GrantsKept, RowsOK
<1>4. \A c, d \in created' : c[1] = d[1] => c = d
  BY DEF SubmitInv
<1> QED BY <1>1, <1>2, <1>3, <1>4 DEF SubmitInv, At, Reservation

(* Replacing a row without touching its grant. *)
LEMMA RowKeepsGrants ==
  ASSUME RowsOK, NEW j \in Jobs, NEW r, batch' = [batch EXCEPT ![j] = r],
         r.grant = batch[j].grant, batch[j].grant # 0 => r.intent = batch[j].intent
  PROVE  GrantsKept
  BY DEF RowsOK, GrantsKept

LEMMA AcquireKeepsGrants ==
  ASSUME RowsOK, NEW j \in Jobs, NEW owner, NEW now \in 0..MaxDay, Acquire(j, owner, now)
  PROVE  GrantsKept
<1> DEFINE r(d) == [batch[j] EXCEPT !.fence = batch[j].fence + 1, !.owner = owner,
                                    !.expires = now + LeaseTime, !.doubted = d]
<1>1. ASSUME NEW d PROVE r(d).grant = batch[j].grant /\ r(d).intent = batch[j].intent
  BY DEF RowsOK, Job
<1>2. \/ batch' = batch
      \/ \E d \in BOOLEAN : batch' = [batch EXCEPT ![j] = r(d)]
  <2>1. (batch[j].doubted \/ (batch[j].grant # 0 /\ batch[j].adopted = None)) \in BOOLEAN
    OBVIOUS
  <2> QED BY <2>1 DEF Acquire
<1> HIDE DEF r
<1>3. CASE batch' = batch
  BY <1>3 DEF GrantsKept
<1> QED BY <1>1, <1>2, <1>3, RowKeepsGrants

LEMMA ObserveAckKeepsGrants ==
  ASSUME RowsOK, NEW j \in Jobs, NEW receipt, NEW now \in 0..MaxDay, ObserveAck(j, receipt, now)
  PROVE  GrantsKept
<1> DEFINE r == [batch[j] EXCEPT !.acks = batch[j].acks \cup {receipt}]
<1>1. r.grant = batch[j].grant /\ r.intent = batch[j].intent
  BY DEF RowsOK, Job
<1>2. batch' = batch \/ batch' = [batch EXCEPT ![j] = r]
  BY DEF ObserveAck
<1> HIDE DEF r
<1>3. CASE batch' = batch
  BY <1>3 DEF GrantsKept
<1> QED BY <1>1, <1>2, <1>3, RowKeepsGrants

LEMMA AdoptKeepsGrants ==
  ASSUME RowsOK, NEW j \in Jobs, NEW owner, NEW fence, NEW receipt, NEW now \in 0..MaxDay,
         Adopt(j, owner, fence, receipt, now)
  PROVE  GrantsKept
<1> DEFINE r == [batch[j] EXCEPT !.adopted = receipt]
<1>1. r.grant = batch[j].grant /\ r.intent = batch[j].intent
  BY DEF RowsOK, Job
<1>2. batch' = [batch EXCEPT ![j] = r]
  BY DEF Adopt
<1> HIDE DEF r
<1> QED BY <1>1, <1>2, RowKeepsGrants

LEMMA RecordDoubtKeepsGrants ==
  ASSUME RowsOK, NEW j \in Jobs, NEW owner, NEW fence, NEW now \in 0..MaxDay,
         RecordDoubt(j, owner, fence, now)
  PROVE  GrantsKept
<1> DEFINE r == [batch[j] EXCEPT !.doubted = TRUE]
<1>1. r.grant = batch[j].grant /\ r.intent = batch[j].intent
  BY DEF RowsOK, Job
<1>2. batch' = [batch EXCEPT ![j] = r]
  BY DEF RecordDoubt
<1> HIDE DEF r
<1> QED BY <1>1, <1>2, RowKeepsGrants

(* A job is registered before it is granted. *)
LEMMA RegisterKeepsGrants ==
  ASSUME RowsOK, SubmitInv, NEW j \in Jobs, NEW i \in Intents, NEW amount, NEW now \in 0..MaxDay,
         Register(j, i, amount, now)
  PROVE  GrantsKept
<1> DEFINE r == [batch[j] EXCEPT !.intent = i, !.registered = now]
<1>1. r.grant = batch[j].grant /\ batch[j].grant = 0
  BY DEF RowsOK, Job, Register, SubmitInv
<1>2. batch' = [batch EXCEPT ![j] = r]
  BY DEF Register
<1> HIDE DEF r
<1> QED BY <1>1, <1>2, RowKeepsGrants

(* The one grant: nobody held or used one of this job before. *)
LEMMA BeginKeepsSubmitInv ==
  ASSUME RowsOK, RowsOK', RecOK, SubmitInv, [Next]_spendVars,
         NEW w \in Workers, NEW now \in 0..MaxDay, At(w, "leased"), created' = created,
         Begin(work[w].job, OwnerOf[w], work[w].fence, now), Go(w, "granted") \/ Go(w, "doubt")
  PROVE  SubmitInv'
<1> DEFINE j == work[w].job
           r == [batch[j] EXCEPT !.grant = work[w].fence]
<1>1. j \in Jobs /\ batch[j].grant = 0 /\ batch[j].intent \in Intents
  BY KnownReservation DEF RowsOK, At, Begin, WorkerClock
<1>2. batch' = [batch EXCEPT ![j] = r] /\ r.grant # 0 /\ r.intent = batch[j].intent
  BY <1>1 DEF Begin, Owns, LeaseActive, RowsOK, Job
<1>3. rec'[batch[j].intent].state = "dispatched"
  <2> DEFINE t == [rec[batch[j].intent] EXCEPT !.state = "dispatched", !.lastAt = now]
  <2>1. rec' = [rec EXCEPT ![batch[j].intent] = t]
    BY DEF Begin, Dispatch, Event
  <2>2. t.state = "dispatched"
    BY <1>1 DEF RecOK, Record
  <2> HIDE DEF t
  <2> QED BY <1>1, <2>1, <2>2 DEF RecOK
<1> HIDE DEF r
<1>4. \A k \in Jobs : k # j => batch'[k] = batch[k]
  BY <1>2 DEF RowsOK
<1>5. batch'[j] = r
  BY <1>1, <1>2 DEF RowsOK
<1>6. \A v \in Workers : At(v, "granted") => work[v].job # j
  BY <1>1 DEF SubmitInv
<1>7. \A c \in created : c[1] # j
  BY <1>1 DEF SubmitInv
<1>8. \A v \in Workers : v # w => work'[v] = work[v]
  BY DEF RowsOK, Go
<1>9. work'[w].job = j
  BY DEF RowsOK, Attempt, Go
<1>10. ASSUME NEW k \in Jobs, batch'[k].grant # 0
       PROVE  batch'[k].intent # None /\ rec'[batch'[k].intent].state \in Spent
  <2>1. CASE k = j
    BY <1>1, <1>2, <1>3, <1>5, <2>1, BatchAssumption DEF Spent, BatchAssumption
  <2>2. CASE k # j
    <3>1. batch[k].intent \in Intents /\ batch[k].intent # None /\ rec[batch[k].intent].state \in Spent
      BY <1>4, <1>10, <2>2, KnownReservation DEF SubmitInv, Reservation
    <3> QED BY <1>4, <2>2, <3>1, SpentForGood
  <2> QED BY <2>1, <2>2
<1>11. ASSUME NEW v \in Workers, work'[v].pc = "granted"
       PROVE  /\ batch'[work'[v].job].grant # 0
              /\ \A c \in created' : c[1] # work'[v].job
              /\ \A u \in Workers : work'[u].pc = "granted" /\ work'[u].job = work'[v].job => u = v
  <2>1. CASE v = w
    BY <1>2, <1>5, <1>6, <1>7, <1>8, <1>9, <2>1 DEF At
  <2>2. CASE v # w
    <3>1. At(v, "granted") /\ work'[v] = work[v] /\ work[v].job # j /\ work[v].job \in Jobs
      BY <1>6, <1>8, <1>11, <2>2 DEF At, RowsOK
    <3> QED BY <1>4, <1>8, <1>9, <3>1 DEF SubmitInv, At
  <2> QED BY <2>1, <2>2
<1>12. \A c \in created' : batch'[c[1]].grant # 0
  BY <1>4, <1>7 DEF SubmitInv, RowsOK
<1>13. \A c, d \in created' : c[1] = d[1] => c = d
  BY DEF SubmitInv
<1> QED BY <1>10, <1>11, <1>12, <1>13 DEF SubmitInv, At, Reservation

(* The provider call uses the grant up, whatever it answers. *)
LEMMA SubmitKeepsSubmitInv ==
  ASSUME RowsOK, RowsOK', RecOK, SubmitInv, [Next]_spendVars, NEW w \in Workers, Submit(w)
  PROVE  SubmitInv'
<1>1. At(w, "granted") /\ work[w].job \in Jobs /\ batch' = batch
  BY JournalKept DEF Submit, At, RowsOK
<1>2. work'[w].pc # "granted" /\ \A v \in Workers : v # w => work'[v] = work[v]
  BY DEF Submit, Go, RowsOK, Attempt
<1>3. GrantsKept /\ HoldersKept
  BY <1>1, <1>2 DEF GrantsKept, HoldersKept, At
<1>4. CASE created' = created
  BY <1>3, <1>4, KeepSubmitInv
<1>5. ASSUME NEW b \in Batches, created' = created \cup {<<work[w].job, b>>} PROVE SubmitInv'
  <2>1. ASSUME NEW k \in Jobs, batch'[k].grant # 0
        PROVE  batch'[k].intent # None /\ rec'[batch'[k].intent].state \in Spent
    <3>1. batch[k].intent \in Intents /\ batch[k].intent # None /\ rec[batch[k].intent].state \in Spent
      BY <1>1, <2>1, KnownReservation DEF SubmitInv, Reservation
    <3> QED BY <1>1, <3>1, SpentForGood
  <2>2. ASSUME NEW v \in Workers, work'[v].pc = "granted"
        PROVE  /\ batch'[work'[v].job].grant # 0
               /\ \A c \in created' : c[1] # work'[v].job
               /\ \A u \in Workers : work'[u].pc = "granted" /\ work'[u].job = work'[v].job => u = v
    <3>1. v # w /\ At(v, "granted") /\ work'[v] = work[v]
      BY <1>2, <2>2 DEF At
    <3>2. work[v].job # work[w].job
      BY <1>1, <3>1 DEF SubmitInv
    <3>3. \A u \in Workers : work'[u].pc = "granted" => At(u, "granted") /\ work'[u] = work[u]
      BY <1>2 DEF At
    <3> QED BY <1>1, <1>5, <3>1, <3>2, <3>3 DEF SubmitInv
  <2>3. \A c \in created' : batch'[c[1]].grant # 0
    BY <1>1, <1>5 DEF SubmitInv
  <2>4. \A c, d \in created' : c[1] = d[1] => c = d
    BY <1>1, <1>5 DEF SubmitInv
  <2> QED BY <2>1, <2>2, <2>3, <2>4 DEF SubmitInv, At, Reservation
<1> QED BY <1>4, <1>5 DEF Submit

BatchInv == RowsOK /\ GrantInv /\ SubmitInv

LEMMA BatchInvInit == BatchInit => BatchInv
<1> SUFFICES ASSUME BatchInit PROVE SubmitInv
  BY RowsInit, GrantInvInit DEF BatchInit, BatchInv
<1> QED BY DEF BatchInit, SubmitInv, Unregistered, Resting, At

LEMMA BatchInvStep == BatchInv /\ [BatchNext]_batchVars => BatchInv'
<1> SUFFICES ASSUME BatchInv, [BatchNext]_batchVars PROVE SubmitInv'
  BY RowsStep, StepIsSpending, GrantInvStep DEF BatchInv
<1>0. RowsOK /\ RowsOK' /\ RecOK /\ SubmitInv /\ [Next]_spendVars
  BY RowsStep, StepIsSpending DEF BatchInv, GrantInv
<1>k. UNCHANGED Journal => GrantsKept
  BY JournalKept DEF GrantsKept
<1>h. \A w \in Workers, pc \in {"doubt", "retained"} : Stop(w) \/ Go(w, pc) => HoldersKept
  BY <1>0 DEF Stop, Go, RowsOK, Attempt, Resting, HoldersKept
<1>i. work' = work => HoldersKept
  BY DEF HoldersKept
<1>1. CASE UNCHANGED batchVars
  <2>1. batch' = batch /\ work' = work /\ created' = created
    BY <1>1 DEF batchVars
  <2>2. GrantsKept
    BY <2>1 DEF GrantsKept
  <2> QED BY <1>0, <1>i, <2>1, <2>2, KeepSubmitInv
<1>2. ASSUME NEW now \in 0..MaxDay, NEW w \in Workers, AskGrant(w, now) PROVE SubmitInv'
  <2>1. CASE Begin(work[w].job, OwnerOf[w], work[w].fence, now) /\ (Go(w, "granted") \/ Go(w, "doubt"))
    BY <1>0, <1>2, <2>1, BeginKeepsSubmitInv DEF AskGrant
  <2>2. CASE UNCHANGED Journal /\ (Go(w, "doubt") \/ Stop(w))
    BY <1>0, <1>2, <1>h, <1>k, <2>2, KeepSubmitInv DEF AskGrant
  <2> QED BY <1>2, <2>1, <2>2 DEF AskGrant
<1>3. ASSUME NEW now \in 0..MaxDay, NEW w \in Workers, Retain(w, now) PROVE SubmitInv'
  <2>1. work[w].job \in Jobs
    BY <1>0, <1>3 DEF Retain, At, RowsOK
  <2>2. GrantsKept
    BY <1>0, <1>3, <1>k, <2>1, ObserveAckKeepsGrants DEF Retain
  <2> QED BY <1>0, <1>3, <1>h, <2>2, KeepSubmitInv DEF Retain
<1>4. ASSUME NEW now \in 0..MaxDay, NEW w \in Workers, Accept(w, now) PROVE SubmitInv'
  <2>1. work[w].job \in Jobs
    BY <1>0, <1>4 DEF Accept, At, RowsOK
  <2>2. GrantsKept
    BY <1>0, <1>4, <1>k, <2>1, AdoptKeepsGrants DEF Accept
  <2> QED BY <1>0, <1>4, <1>h, <2>2, KeepSubmitInv DEF Accept
<1>5. ASSUME NEW now \in 0..MaxDay, NEW w \in Workers, Doubt(w, now) PROVE SubmitInv'
  <2>1. work[w].job \in Jobs
    BY <1>0, <1>5 DEF Doubt, At, RowsOK
  <2>2. GrantsKept
    BY <1>0, <1>5, <1>k, <2>1, RecordDoubtKeepsGrants DEF Doubt
  <2> QED BY <1>0, <1>5, <1>h, <2>2, KeepSubmitInv DEF Doubt
<1>6. ASSUME NEW now \in 0..MaxDay, NEW w \in Workers, NEW j \in Jobs, Lease(w, j, now)
      PROVE  SubmitInv'
  <2>1. GrantsKept /\ created' = created
    BY <1>0, <1>6, AcquireKeepsGrants DEF Lease
  <2>2. HoldersKept
    BY <1>0, <1>6 DEF Lease, RowsOK, HoldersKept
  <2> QED BY <1>0, <2>1, <2>2, KeepSubmitInv
<1>7. ASSUME NEW now \in 0..MaxDay, NEW w \in Workers, NEW j \in Jobs, Reconcile(w, j, now)
      PROVE  SubmitInv'
  <2>1. GrantsKept
    BY <1>0, <1>7, AdoptKeepsGrants DEF Reconcile
  <2> QED BY <1>0, <1>7, <1>i, <2>1, KeepSubmitInv DEF Reconcile
<1>8. ASSUME NEW now \in 0..MaxDay, NEW j \in Jobs, NEW receipt \in Batches \cup Garbage,
             LateAck(j, receipt, now) PROVE SubmitInv'
  <2>1. GrantsKept
    BY <1>0, <1>8, ObserveAckKeepsGrants DEF LateAck
  <2> QED BY <1>0, <1>8, <1>i, <2>1, KeepSubmitInv DEF LateAck
<1>9. ASSUME NEW now \in 0..MaxDay, NEW j \in Jobs, NEW i \in Intents, NEW amount \in Amounts,
             Prepare(j, i, amount, now) PROVE SubmitInv'
  <2>1. GrantsKept
    BY <1>0, <1>9, RegisterKeepsGrants DEF Prepare
  <2> QED BY <1>0, <1>9, <1>i, <2>1, KeepSubmitInv DEF Prepare
<1>10. ASSUME NEW w \in Workers, Submit(w) PROVE SubmitInv'
  BY <1>0, <1>10, SubmitKeepsSubmitInv
<1>11. ASSUME NEW w \in Workers, Die(w) PROVE SubmitInv'
  BY <1>0, <1>11, <1>h, <1>k, KeepSubmitInv DEF Die
<1>12. CASE Spending
  <2>1. batch' = batch /\ work' = work /\ created' = created
    BY <1>12 DEF Spending
  <2>2. GrantsKept
    BY <2>1 DEF GrantsKept
  <2> QED BY <1>0, <1>i, <2>1, <2>2, KeepSubmitInv
<1> QED
  BY <1>1, <1>2, <1>3, <1>4, <1>5, <1>6, <1>7, <1>8, <1>9, <1>10, <1>11, <1>12 DEF BatchNext

(* Through lost grants, dead workers and leases that change hands, the      *)
(* provider creates at most one batch for a job, and its money is charged.  *)
THEOREM BatchCreatedOnce == BatchSpec => []CreatedOnceAndCharged
<1>1. BatchInv => CreatedOnceAndCharged
  <2> SUFFICES ASSUME BatchInv PROVE CreatedOnceAndCharged
    OBVIOUS
  <2>1. \A c \in created : Reservation(c[1]).state \in Spent
    BY DEF BatchInv, SubmitInv, RowsOK
  <2>2. \A w \in Workers : At(w, "granted") => Reservation(work[w].job).state \in Spent
    BY DEF BatchInv, SubmitInv, RowsOK, At
  <2> QED BY <2>1, <2>2 DEF BatchInv, SubmitInv, CreatedOnceAndCharged, Spent
<1>2. BatchSpec => []BatchInv
  BY BatchInvInit, BatchInvStep, PTL DEF BatchSpec
<1> QED BY <1>1, <1>2, PTL

-----------------------------------------------------------------------------
(* What a step makes of a reservation, and of the row of one job.          *)

(* A reservation's state only moves on. *)
StateMoves(s, t) ==
    \/ t = s
    \/ s = "absent" /\ t = "reserved"
    \/ s = "reserved" /\ t \in {"dispatched", "released"}
    \/ s = "dispatched" /\ t \in {"uncertain", "settled"}
    \/ s = "uncertain" /\ t = "settled"

LEMMA SpendingMoves ==
  ASSUME RecOK, [Next]_spendVars, NEW i \in Intents
  PROVE  StateMoves(rec[i].state, rec'[i].state)
<1>0. rec \in [Intents -> Record]
  BY DEF RecOK
<1>1. CASE UNCHANGED rec
  BY <1>1 DEF StateMoves
<1>2. ASSUME NEW k \in Intents, NEW t, rec' = [rec EXCEPT ![k] = t], StateMoves(rec[k].state, t.state)
      PROVE  StateMoves(rec[i].state, rec'[i].state)
  BY <1>0, <1>2 DEF StateMoves
<1>3. ASSUME NEW k \in Intents, NEW s, NEW now, Event(k, s, now), StateMoves(rec[k].state, s)
      PROVE  StateMoves(rec[i].state, rec'[i].state)
  <2> DEFINE t == [rec[k] EXCEPT !.state = s, !.lastAt = now]
  <2>1. rec' = [rec EXCEPT ![k] = t] /\ t.state = s
    BY <1>0, <1>3 DEF Event, Record
  <2> HIDE DEF t
  <2> QED BY <1>2, <1>3, <2>1
<1>4. ASSUME NEW now \in 0..MaxDay, NEW k \in Intents, NEW job \in Jobs, NEW amount \in Amounts,
             Reserve(k, job, amount, now) PROVE StateMoves(rec[i].state, rec'[i].state)
  <2> DEFINE t == [Absent EXCEPT !.state = "reserved", !.job = job, !.reserve = amount,
                                 !.reservedAt = now, !.lastAt = now]
  <2>1. rec' = [rec EXCEPT ![k] = t] /\ t.state = "reserved" /\ rec[k].state = "absent"
    BY <1>4 DEF Reserve, Absent
  <2> HIDE DEF t
  <2> QED BY <1>2, <2>1 DEF StateMoves
<1>5. ASSUME NEW now \in 0..MaxDay, NEW k \in Intents,
             Dispatch(k, now) \/ Uncertain(k, now) \/ Release(k, now)
      PROVE  StateMoves(rec[i].state, rec'[i].state)
  BY <1>3, <1>5 DEF Dispatch, Uncertain, Release, StateMoves
<1>6. ASSUME NEW now \in 0..MaxDay, NEW k \in Intents, NEW amount \in Amounts, NEW e \in Evidence,
             Settle(k, amount, e, now) PROVE StateMoves(rec[i].state, rec'[i].state)
  <2> DEFINE t == [rec[k] EXCEPT !.state = "settled", !.lastAt = now,
                                 !.settled = amount, !.evidence = e]
  <2>1. rec' = [rec EXCEPT ![k] = t] /\ t.state = "settled" /\ rec[k].state \in {"dispatched", "uncertain"}
    BY <1>0, <1>6 DEF Settle, Record
  <2> HIDE DEF t
  <2> QED BY <1>2, <2>1 DEF StateMoves
<1>7. ASSUME NEW now \in 0..MaxDay, NEW l \in Limits, Configure(l, now) PROVE UNCHANGED rec
  BY <1>7 DEF Configure
<1> QED BY <1>1, <1>4, <1>5, <1>6, <1>7 DEF Next, spendVars

(* What an operation makes of a row b and the state s of its reservation.  *)
Registered(b, c, t) ==
    /\ b.intent = None /\ c.intent \in Intents /\ t = "reserved"
    /\ c.fence = b.fence /\ c.expires = b.expires /\ c.grant = b.grant
    /\ c.doubted = b.doubted /\ c.acks = b.acks /\ c.adopted = b.adopted

Leased(b, c, t) ==
    /\ b.intent # None /\ c.intent = b.intent
    /\ c.fence = b.fence + 1 /\ c.grant = b.grant /\ c.acks = b.acks /\ c.adopted = b.adopted
    /\ b.doubted => c.doubted
    /\ c.doubted => b.doubted \/ (b.grant # 0 /\ b.adopted = None)
    /\ b.grant # 0 /\ b.adopted = None => c.doubted /\ t # "dispatched"

Granted(b, c, s, t) ==
    /\ b.intent # None /\ c.intent = b.intent /\ s = "reserved" /\ t = "dispatched"
    /\ b.grant = 0 /\ b.fence > 0 /\ c.grant = b.fence
    /\ c.fence = b.fence /\ c.expires = b.expires
    /\ c.doubted = b.doubted /\ c.acks = b.acks /\ c.adopted = b.adopted

Doubted(b, c, t) ==
    /\ b.intent # None /\ c.intent = b.intent /\ b.grant # 0 /\ c.doubted /\ t # "dispatched"
    /\ c.fence = b.fence /\ c.expires = b.expires /\ c.grant = b.grant
    /\ c.acks = b.acks /\ c.adopted = b.adopted

Acknowledged(b, c) ==
    /\ b.intent # None /\ c.intent = b.intent /\ b.grant # 0
    /\ \E receipt : receipt \notin b.acks /\ c.acks = b.acks \cup {receipt}
    /\ Cardinality(b.acks) < MaxReceipts
    /\ c.fence = b.fence /\ c.expires = b.expires /\ c.grant = b.grant
    /\ c.doubted = b.doubted /\ c.adopted = b.adopted

AdoptedOne(b, c) ==
    /\ b.intent # None /\ c.intent = b.intent
    /\ c.adopted \in b.acks \cap Batches /\ b.adopted \in {None, c.adopted}
    /\ c.fence = b.fence /\ c.expires = b.expires /\ c.grant = b.grant
    /\ c.doubted = b.doubted /\ c.acks = b.acks

Moves(b, c, s, t) ==
    c = b \/ Registered(b, c, t) \/ Leased(b, c, t) \/ Granted(b, c, s, t) \/ Doubted(b, c, t)
          \/ Acknowledged(b, c) \/ AdoptedOne(b, c)

RowMoves(j) == Moves(batch[j], batch'[j], Reservation(j).state, rec'[batch'[j].intent].state)

LEMMA ReplacedRow ==
  ASSUME RowsOK, NEW j \in Jobs, NEW r, batch' = [batch EXCEPT ![j] = r],
         Moves(batch[j], r, Reservation(j).state, rec'[r.intent].state)
  PROVE  \A k \in Jobs : RowMoves(k)
<1>1. batch'[j] = r /\ \A k \in Jobs : k # j => batch'[k] = batch[k]
  BY DEF RowsOK
<1> QED BY <1>1 DEF RowMoves, Moves

LEMMA KeptRows == batch' = batch => \A k \in Jobs : RowMoves(k)
  BY DEF RowMoves, Moves

(* A doubt that is shared leaves no reservation plainly dispatched. *)
LEMMA DoubtMoves ==
  ASSUME RowsOK, RecOK, NEW j \in Jobs, NEW now, batch[j].intent \in Intents, DoubtSpending(j, now)
  PROVE  rec'[batch[j].intent].state # "dispatched"
<1> DEFINE i == batch[j].intent
<1>1. CASE Reservation(j).state = "dispatched"
  <2> DEFINE t == [rec[i] EXCEPT !.state = "uncertain", !.lastAt = now]
  <2>1. rec' = [rec EXCEPT ![i] = t] /\ t.state = "uncertain"
    BY <1>1 DEF DoubtSpending, Uncertain, Event, RecOK, Record
  <2> HIDE DEF t
  <2> QED BY <2>1 DEF RecOK
<1>2. CASE Reservation(j).state # "dispatched"
  BY <1>2 DEF DoubtSpending, spendVars, Reservation
<1> QED BY <1>1, <1>2

LEMMA AcquireMoves ==
  ASSUME RowsOK, RecOK, NEW j \in Jobs, NEW owner, NEW now \in 0..MaxDay, Acquire(j, owner, now)
  PROVE  \A k \in Jobs : RowMoves(k)
<1> DEFINE doubt == batch[j].grant # 0 /\ batch[j].adopted = None
           r == [batch[j] EXCEPT !.fence = batch[j].fence + 1, !.owner = owner,
                                 !.expires = now + LeaseTime, !.doubted = batch[j].doubted \/ doubt]
<1>1. CASE batch' = batch
  BY <1>1, KeptRows
<1>2. CASE batch' = [batch EXCEPT ![j] = r] /\ (doubt => DoubtSpending(j, now))
  <2>1. batch[j].intent # None /\ batch[j].intent \in Intents /\ batch[j] \in Job
    BY KnownReservation DEF Acquire, WorkerClock, RowsOK
  <2>2. /\ r.intent = batch[j].intent /\ r.fence = batch[j].fence + 1 /\ r.grant = batch[j].grant
        /\ r.acks = batch[j].acks /\ r.adopted = batch[j].adopted
        /\ r.doubted = (batch[j].doubted \/ doubt)
    BY <2>1 DEF Job
  <2>3. doubt => rec'[batch[j].intent].state # "dispatched"
    BY <1>2, <2>1, DoubtMoves
  <2>4. Leased(batch[j], r, rec'[r.intent].state)
    BY <2>1, <2>2, <2>3 DEF Leased
  <2> HIDE DEF r
  <2> QED BY <1>2, <2>4, ReplacedRow DEF Moves
<1> QED BY <1>1, <1>2 DEF Acquire

LEMMA BeginMoves ==
  ASSUME RowsOK, RecOK, NEW j \in Jobs, NEW owner, NEW fence, NEW now \in 0..MaxDay,
         Begin(j, owner, fence, now)
  PROVE  \A k \in Jobs : RowMoves(k)
<1> DEFINE r == [batch[j] EXCEPT !.grant = fence]
           i == batch[j].intent
<1>1. i # None /\ i \in Intents /\ batch[j] \in Job
  BY KnownReservation DEF Begin, WorkerClock, RowsOK
<1>2. batch[j].grant = 0 /\ batch[j].fence = fence /\ batch[j].fence > 0
  BY DEF Begin, Owns, LeaseActive
<1>3. batch' = [batch EXCEPT ![j] = r] /\ rec[i].state = "reserved"
  BY DEF Begin, Dispatch
<1>4. rec'[i].state = "dispatched"
  <2> DEFINE t == [rec[i] EXCEPT !.state = "dispatched", !.lastAt = now]
  <2>1. rec' = [rec EXCEPT ![i] = t] /\ t.state = "dispatched"
    BY <1>1 DEF Begin, Dispatch, Event, RecOK, Record
  <2> HIDE DEF t
  <2> QED BY <1>1, <2>1 DEF RecOK
<1>5. /\ r.intent = i /\ r.fence = batch[j].fence /\ r.grant = batch[j].fence
      /\ r.expires = batch[j].expires /\ r.doubted = batch[j].doubted
      /\ r.acks = batch[j].acks /\ r.adopted = batch[j].adopted
  BY <1>1, <1>2 DEF Job
<1>6. Granted(batch[j], r, Reservation(j).state, rec'[r.intent].state)
  BY <1>1, <1>2, <1>3, <1>4, <1>5 DEF Granted, Reservation
<1> HIDE DEF r
<1> QED BY <1>3, <1>6, ReplacedRow DEF Moves

LEMMA RecordDoubtMoves ==
  ASSUME RowsOK, RecOK, NEW j \in Jobs, NEW owner, NEW fence, NEW now \in 0..MaxDay,
         RecordDoubt(j, owner, fence, now)
  PROVE  \A k \in Jobs : RowMoves(k)
<1> DEFINE r == [batch[j] EXCEPT !.doubted = TRUE]
<1>1. batch[j].intent # None /\ batch[j].intent \in Intents /\ batch[j] \in Job
  BY KnownReservation DEF RecordDoubt, WorkerClock, RowsOK
<1>2. batch' = [batch EXCEPT ![j] = r] /\ batch[j].grant # 0
  BY DEF RecordDoubt
<1>3. rec'[batch[j].intent].state # "dispatched"
  BY <1>1, DoubtMoves DEF RecordDoubt
<1>4. /\ r.intent = batch[j].intent /\ r.fence = batch[j].fence /\ r.grant = batch[j].grant
      /\ r.expires = batch[j].expires /\ r.doubted
      /\ r.acks = batch[j].acks /\ r.adopted = batch[j].adopted
  BY <1>1 DEF Job
<1>5. Doubted(batch[j], r, rec'[r.intent].state)
  BY <1>1, <1>2, <1>3, <1>4 DEF Doubted
<1> HIDE DEF r
<1> QED BY <1>2, <1>5, ReplacedRow DEF Moves

LEMMA ObserveAckMoves ==
  ASSUME RowsOK, NEW j \in Jobs, NEW receipt, NEW now \in 0..MaxDay, ObserveAck(j, receipt, now)
  PROVE  \A k \in Jobs : RowMoves(k)
<1> DEFINE r == [batch[j] EXCEPT !.acks = batch[j].acks \cup {receipt}]
<1>1. batch[j].intent # None /\ batch[j] \in Job /\ batch[j].grant # 0
  BY DEF ObserveAck, WorkerClock, RowsOK
<1>2. CASE batch' = batch
  BY <1>2, KeptRows
<1>3. CASE batch' = [batch EXCEPT ![j] = r] /\ receipt \notin batch[j].acks
           /\ Cardinality(batch[j].acks) < MaxReceipts
  <2>1. /\ r.intent = batch[j].intent /\ r.fence = batch[j].fence /\ r.grant = batch[j].grant
        /\ r.expires = batch[j].expires /\ r.doubted = batch[j].doubted
        /\ r.acks = batch[j].acks \cup {receipt} /\ r.adopted = batch[j].adopted
    BY <1>1 DEF Job
  <2>2. Acknowledged(batch[j], r)
    BY <1>1, <1>3, <2>1 DEF Acknowledged
  <2> HIDE DEF r
  <2> QED BY <1>3, <2>2, ReplacedRow DEF Moves
<1> QED BY <1>2, <1>3 DEF ObserveAck

LEMMA AdoptMoves ==
  ASSUME RowsOK, NEW j \in Jobs, NEW owner, NEW fence, NEW receipt, NEW now \in 0..MaxDay,
         Adopt(j, owner, fence, receipt, now)
  PROVE  \A k \in Jobs : RowMoves(k)
<1> DEFINE r == [batch[j] EXCEPT !.adopted = receipt]
<1>1. batch[j].intent # None /\ batch[j] \in Job
  BY DEF Adopt, WorkerClock, RowsOK
<1>2. batch' = [batch EXCEPT ![j] = r] /\ receipt \in batch[j].acks \cap Batches
      /\ batch[j].adopted \in {None, receipt}
  BY DEF Adopt, Named
<1>3. /\ r.intent = batch[j].intent /\ r.fence = batch[j].fence /\ r.grant = batch[j].grant
      /\ r.expires = batch[j].expires /\ r.doubted = batch[j].doubted
      /\ r.acks = batch[j].acks /\ r.adopted = receipt
  BY <1>1 DEF Job
<1>4. AdoptedOne(batch[j], r)
  BY <1>1, <1>2, <1>3 DEF AdoptedOne
<1> HIDE DEF r
<1> QED BY <1>2, <1>4, ReplacedRow DEF Moves

LEMMA RegisterMoves ==
  ASSUME RowsOK, RecOK, NEW j \in Jobs, NEW i \in Intents, NEW amount, NEW now \in 0..MaxDay,
         Register(j, i, amount, now)
  PROVE  \A k \in Jobs : RowMoves(k)
<1> DEFINE r == [batch[j] EXCEPT !.intent = i, !.registered = now]
<1>1. batch[j] \in Job /\ batch[j].intent = None
  BY DEF Register, RowsOK
<1>2. batch' = [batch EXCEPT ![j] = r]
  BY DEF Register
<1>a. ASSUME ReservedAlready(i, j, amount, now) PROVE rec'[i].state = "reserved"
  BY <1>a DEF ReservedAlready, spendVars
<1>b. ASSUME Reserve(i, j, amount, now) PROVE rec'[i].state = "reserved"
  <2> DEFINE t == [Absent EXCEPT !.state = "reserved", !.job = j, !.reserve = amount,
                                 !.reservedAt = now, !.lastAt = now]
  <2>1. rec' = [rec EXCEPT ![i] = t] /\ t.state = "reserved"
    BY <1>b DEF Reserve, Absent
  <2> HIDE DEF t
  <2> QED BY <2>1 DEF RecOK
<1>3. rec'[i].state = "reserved"
  BY <1>a, <1>b DEF Register
<1>4. /\ r.intent = i /\ r.fence = batch[j].fence /\ r.grant = batch[j].grant
      /\ r.expires = batch[j].expires /\ r.doubted = batch[j].doubted
      /\ r.acks = batch[j].acks /\ r.adopted = batch[j].adopted
  BY <1>1 DEF Job
<1>5. Registered(batch[j], r, rec'[r.intent].state)
  BY <1>1, <1>3, <1>4 DEF Registered
<1> HIDE DEF r
<1> QED BY <1>2, <1>5, ReplacedRow DEF Moves

LEMMA StepMovesRows == RowsOK /\ RecOK /\ [BatchNext]_batchVars => \A j \in Jobs : RowMoves(j)
<1> SUFFICES ASSUME RowsOK, RecOK, [BatchNext]_batchVars PROVE \A j \in Jobs : RowMoves(j)
  OBVIOUS
<1>j. \A w \in Workers : ~At(w, "idle") => work[w].job \in Jobs
  BY DEF RowsOK
<1>k. UNCHANGED Journal => \A j \in Jobs : RowMoves(j)
  BY JournalKept, KeptRows
<1>1. CASE UNCHANGED batchVars
  BY <1>1, KeptRows DEF batchVars
<1>2. ASSUME NEW now \in 0..MaxDay, NEW w \in Workers, AskGrant(w, now) PROVE \A j \in Jobs : RowMoves(j)
  BY <1>2, <1>j, <1>k, BeginMoves DEF AskGrant, At
<1>3. ASSUME NEW now \in 0..MaxDay, NEW w \in Workers, Retain(w, now) PROVE \A j \in Jobs : RowMoves(j)
  BY <1>3, <1>j, <1>k, ObserveAckMoves DEF Retain, At
<1>4. ASSUME NEW now \in 0..MaxDay, NEW w \in Workers, Accept(w, now) PROVE \A j \in Jobs : RowMoves(j)
  BY <1>4, <1>j, <1>k, AdoptMoves DEF Accept, At
<1>5. ASSUME NEW now \in 0..MaxDay, NEW w \in Workers, Doubt(w, now) PROVE \A j \in Jobs : RowMoves(j)
  BY <1>5, <1>j, <1>k, RecordDoubtMoves DEF Doubt, At
<1>6. ASSUME NEW now \in 0..MaxDay, NEW w \in Workers, NEW j \in Jobs,
             Lease(w, j, now) \/ Reconcile(w, j, now) PROVE \A k \in Jobs : RowMoves(k)
  BY <1>6, AcquireMoves, AdoptMoves DEF Lease, Reconcile
<1>7. ASSUME NEW now \in 0..MaxDay, NEW j \in Jobs, NEW receipt \in Batches \cup Garbage,
             LateAck(j, receipt, now) PROVE \A k \in Jobs : RowMoves(k)
  BY <1>7, ObserveAckMoves DEF LateAck
<1>8. ASSUME NEW now \in 0..MaxDay, NEW j \in Jobs, NEW i \in Intents, NEW amount \in Amounts,
             Prepare(j, i, amount, now) PROVE \A k \in Jobs : RowMoves(k)
  BY <1>8, RegisterMoves DEF Prepare
<1>9. ASSUME NEW w \in Workers, Submit(w) \/ Die(w) PROVE \A j \in Jobs : RowMoves(j)
  BY <1>9, <1>k DEF Submit, Die
<1>10. CASE Spending
  BY <1>10, KeptRows DEF Spending
<1> QED
  BY <1>1, <1>2, <1>3, <1>4, <1>5, <1>6, <1>7, <1>8, <1>9, <1>10 DEF BatchNext

-----------------------------------------------------------------------------
(* What every row keeps.                                                   *)

(* A row b of which s is the reservation's state: its answers are counted,  *)
(* its grant was made under one of its fences and on money then spent, what *)
(* it adopted is among its answers, and a doubt is shared.                  *)
AcksOK(b) == IsFiniteSet(b.acks) /\ Cardinality(b.acks) <= MaxReceipts
AdoptedOK(b) == b.adopted # None => b.adopted \in b.acks \cap Batches
GrantOK(b, s) ==
    /\ b.grant <= b.fence
    /\ b.grant # 0 => b.intent # None /\ s \in Spent
    /\ b.doubted => b.grant # 0
    /\ b.intent # None => s # "absent"
DoubtOK(b, s) ==
    /\ b.doubted => s \in {"uncertain", "settled"}
    /\ b.grant # 0 /\ b.fence # b.grant /\ s = "dispatched" => b.adopted # None

RowOK(b, s) == AcksOK(b) /\ AdoptedOK(b) /\ GrantOK(b, s) /\ DoubtOK(b, s)

LEMMA AcksKept ==
  ASSUME NEW b, NEW c, NEW s, NEW t, AcksOK(b), Moves(b, c, s, t)
  PROVE  AcksOK(c)
<1>1. CASE c.acks = b.acks
  BY <1>1 DEF AcksOK
<1>2. CASE Acknowledged(b, c)
  <2>1. PICK receipt : receipt \notin b.acks /\ c.acks = b.acks \cup {receipt}
    BY <1>2 DEF Acknowledged
  <2>2. IsFiniteSet(c.acks) /\ Cardinality(c.acks) = Cardinality(b.acks) + 1
    BY <2>1, FS_AddElement DEF AcksOK
  <2>3. Cardinality(b.acks) \in Nat /\ Cardinality(b.acks) < MaxReceipts
    BY <1>2, FS_CardinalityType DEF AcksOK, Acknowledged
  <2> QED BY <2>2, <2>3, BatchAssumption DEF AcksOK
<1> QED BY <1>1, <1>2 DEF Moves, Registered, Leased, Granted, Doubted, AdoptedOne

LEMMA AdoptedKept ==
  ASSUME NEW b, NEW c, NEW s, NEW t, AdoptedOK(b), Moves(b, c, s, t)
  PROVE  AdoptedOK(c)
<1>1. CASE Acknowledged(b, c)
  BY <1>1 DEF Acknowledged, AdoptedOK
<1>2. CASE AdoptedOne(b, c)
  BY <1>2 DEF AdoptedOne, AdoptedOK
<1>3. CASE c.acks = b.acks /\ c.adopted = b.adopted
  BY <1>3 DEF AdoptedOK
<1> QED BY <1>1, <1>2, <1>3 DEF Moves, Registered, Leased, Granted, Doubted

LEMMA GrantDoubtKept ==
  ASSUME NEW b \in Job, NEW c \in Job, NEW s, NEW t,
         GrantOK(b, s), DoubtOK(b, s), Moves(b, c, s, t), b.intent # None => StateMoves(s, t)
  PROVE  GrantOK(c, t) /\ DoubtOK(c, t)
<1>1. b.grant \in Nat /\ b.fence \in Nat
  BY DEF Job
<1>2. CASE Registered(b, c, t)
  BY <1>1, <1>2 DEF Registered, GrantOK, DoubtOK
<1>3. CASE Leased(b, c, t)
  BY <1>1, <1>3 DEF Leased, GrantOK, DoubtOK, StateMoves, Spent
<1>4. CASE Granted(b, c, s, t)
  BY <1>1, <1>4 DEF Granted, GrantOK, DoubtOK, Spent
<1>5. CASE Doubted(b, c, t)
  BY <1>1, <1>5 DEF Doubted, GrantOK, DoubtOK, StateMoves, Spent
<1>6. CASE Acknowledged(b, c)
  BY <1>1, <1>6 DEF Acknowledged, GrantOK, DoubtOK, StateMoves, Spent
<1>7. CASE AdoptedOne(b, c)
  BY <1>1, <1>7, BatchAssumption DEF AdoptedOne, GrantOK, DoubtOK, StateMoves, Spent
<1>8. CASE c = b
  BY <1>1, <1>8 DEF GrantOK, DoubtOK, StateMoves, Spent
<1> QED BY <1>2, <1>3, <1>4, <1>5, <1>6, <1>7, <1>8 DEF Moves

JobsInv == \A j \in Jobs : RowOK(batch[j], Reservation(j).state)

LEMMA JobsInvInit == BatchInit => JobsInv
<1> SUFFICES ASSUME BatchInit, NEW j \in Jobs PROVE RowOK(batch[j], Reservation(j).state)
  BY DEF JobsInv
<1>1. batch[j] = Unregistered
  BY DEF BatchInit
<1>2. AcksOK(Unregistered)
  BY FS_EmptySet, BatchAssumption DEF AcksOK, Unregistered
<1>3. \A s : AdoptedOK(Unregistered) /\ GrantOK(Unregistered, s) /\ DoubtOK(Unregistered, s)
  BY DEF AdoptedOK, GrantOK, DoubtOK, Unregistered
<1> QED BY <1>1, <1>2, <1>3 DEF RowOK

LEMMA JobsInvStep ==
  ASSUME RowsOK, RecOK, JobsInv, [BatchNext]_batchVars PROVE JobsInv'
<1> SUFFICES ASSUME NEW j \in Jobs PROVE RowOK(batch[j], Reservation(j).state)'
  BY DEF JobsInv
<1> DEFINE b == batch[j]
           c == batch'[j]
           s == rec[batch[j].intent].state
           t == rec'[batch'[j].intent].state
<1>1. RowsOK' /\ [Next]_spendVars
  BY RowsStep, StepIsSpending
<1>2. b \in Job /\ c \in Job
  BY <1>1 DEF RowsOK
<1>3. Moves(b, c, s, t)
  BY StepMovesRows DEF RowMoves, Reservation
<1>4. b.intent # None => StateMoves(s, t)
  <2>1. ASSUME b.intent # None PROVE b.intent \in Intents /\ c.intent = b.intent
    BY <1>3, <2>1, KnownReservation
    DEF Moves, Registered, Leased, Granted, Doubted, Acknowledged, AdoptedOne
  <2> QED BY <1>1, <2>1, SpendingMoves
<1>5. RowOK(b, s)
  BY DEF JobsInv, Reservation
<1> HIDE DEF b, c, s, t
<1>6. RowOK(c, t)
  BY <1>2, <1>3, <1>4, <1>5, AcksKept, AdoptedKept, GrantDoubtKept DEF RowOK
<1> QED BY <1>6 DEF c, t, Reservation, RowOK, AcksOK, AdoptedOK, GrantOK, DoubtOK

JobsHold == RowsOK /\ GrantInv /\ JobsInv

LEMMA JobsHoldInit == BatchInit => JobsHold
  BY RowsInit, GrantInvInit, JobsInvInit DEF BatchInit, JobsHold

LEMMA JobsHoldStep == JobsHold /\ [BatchNext]_batchVars => JobsHold'
  BY RowsStep, StepIsSpending, GrantInvStep, JobsInvStep DEF JobsHold, GrantInv

(* An attempt the worker journal holds in doubt is no longer plainly         *)
(* dispatched in the spending journal, whoever recorded the doubt.           *)
THEOREM DoubtReachesSpending == BatchSpec => []DoubtIsShared
<1>1. JobsHold => DoubtIsShared
  <2> SUFFICES ASSUME JobsHold, NEW j \in Jobs
               PROVE  /\ batch[j].doubted => Reservation(j).state \in {"uncertain", "settled"}
                      /\ (/\ batch[j].grant # 0
                          /\ batch[j].fence # batch[j].grant
                          /\ Reservation(j).state = "dispatched"
                          => batch[j].adopted # None)
    BY DEF DoubtIsShared
  <2>1. RowOK(batch[j], Reservation(j).state)
    BY DEF JobsHold, JobsInv
  <2> QED BY <2>1 DEF RowOK, DoubtOK
<1> QED BY <1>1, JobsHoldInit, JobsHoldStep, PTL DEF BatchSpec

(* The batch a job reports is among no other job's answers.                  *)
THEOREM ReportedUndisputed == BatchSpec => []ReportedIsUndisputed
<1>1. JobsHold => ReportedIsUndisputed
  <2> SUFFICES ASSUME JobsHold, NEW j \in Jobs, NEW k \in Jobs,
                      j # k, View(j, worked) = "submitted"
               PROVE  batch[j].adopted \notin batch[k].acks
    BY DEF ReportedIsUndisputed
  <2>1. AdoptedOK(batch[j])
    BY DEF JobsHold, JobsInv, RowOK
  <2>2. ~Conflict(j) /\ batch[j].adopted # None
    BY DEF View
  <2>3. Named(j) \cap Named(k) = {}
    BY <2>2 DEF Conflict
  <2> QED BY <2>1, <2>2, <2>3 DEF AdoptedOK, Named
<1> QED BY <1>1, JobsHoldInit, JobsHoldStep, PTL DEF BatchSpec

-----------------------------------------------------------------------------
(* Type correctness.                                                       *)

LedgerOK == limits \subseteq Limits /\ IsFiniteSet(limits) /\ Cardinality(limits) <= 1 /\ latest <= MaxDay

LEMMA LedgerStep == LedgerOK /\ [Next]_spendVars => LedgerOK'
<1> SUFFICES ASSUME LedgerOK, [Next]_spendVars PROVE LedgerOK'
  OBVIOUS
<1>1. ASSUME NEW now \in 0..MaxDay, NEW l \in Limits, Configure(l, now) PROVE LedgerOK'
  <2>1. IsFiniteSet({l}) /\ Cardinality({l}) = 1
    BY FS_Singleton
  <2> QED BY <1>1, <2>1, SpendAssumption DEF Configure, LedgerOK
<1>2. ASSUME NEW now \in 0..MaxDay, latest' = now, UNCHANGED limits PROVE LedgerOK'
  BY <1>2, SpendAssumption DEF LedgerOK
<1>3. CASE UNCHANGED spendVars
  BY <1>3 DEF spendVars, LedgerOK
<1> QED BY <1>1, <1>2, <1>3 DEF Next, Reserve, Dispatch, Uncertain, Release, Settle, Event

LEMMA WorkedStep == worked \in 0..MaxDay /\ [BatchNext]_batchVars => worked' \in 0..MaxDay
<1> SUFFICES ASSUME worked \in 0..MaxDay, [BatchNext]_batchVars PROVE worked' \in 0..MaxDay
  OBVIOUS
<1>1. CASE worked' = worked
  BY <1>1
<1>2. CASE \E now \in 0..MaxDay : worked' = now
  BY <1>2
<1>3. ASSUME NEW now \in 0..MaxDay, NEW w \in Workers, AskGrant(w, now) \/ Doubt(w, now)
      PROVE  worked' = worked \/ worked' = now
  BY <1>3 DEF AskGrant, Begin, Doubt, RecordDoubt, Journal
<1>4. ASSUME NEW now \in 0..MaxDay, NEW w \in Workers, Retain(w, now) \/ Accept(w, now)
      PROVE  worked' = worked \/ worked' = now
  BY <1>4 DEF Retain, ObserveAck, Accept, Adopt, Journal
<1>5. ASSUME NEW now \in 0..MaxDay, NEW w \in Workers, NEW j \in Jobs, Lease(w, j, now) \/ Reconcile(w, j, now)
      PROVE  worked' = worked \/ worked' = now
  BY <1>5 DEF Lease, Acquire, Reconcile, Adopt
<1>6. ASSUME NEW now \in 0..MaxDay, NEW j \in Jobs, NEW receipt, LateAck(j, receipt, now)
      PROVE  worked' = worked \/ worked' = now
  BY <1>6 DEF LateAck, ObserveAck
<1>7. ASSUME NEW now, NEW j \in Jobs, NEW i, NEW amount, Prepare(j, i, amount, now) PROVE worked' = worked
  BY <1>7 DEF Prepare, Register
<1>8. ASSUME NEW w \in Workers, Submit(w) \/ Die(w) PROVE worked' = worked
  BY <1>8 DEF Submit, Die, Journal
<1>9. CASE Spending \/ UNCHANGED batchVars
  BY <1>9 DEF Spending, batchVars
<1> QED BY <1>1, <1>2, <1>3, <1>4, <1>5, <1>6, <1>7, <1>8, <1>9 DEF BatchNext

(* Rows, workers and reservations keep their types, a job never retains more *)
(* answers than it may, and no clock shows a time after the last.            *)
THEOREM BatchTyped == BatchSpec => []BatchTypeOK
<1> DEFINE Typing == JobsHold /\ LedgerOK /\ worked \in 0..MaxDay
<1>1. BatchInit => Typing
  <2>1. IsFiniteSet({}) /\ Cardinality({}) = 0
    BY FS_EmptySet
  <2> QED BY <2>1, JobsHoldInit, SpendAssumption DEF BatchInit, Init, LedgerOK
<1>2. Typing /\ [BatchNext]_batchVars => Typing'
  BY JobsHoldStep, LedgerStep, WorkedStep, StepIsSpending DEF JobsHold
<1>3. Typing => BatchTypeOK
  <2> SUFFICES ASSUME Typing PROVE BatchTypeOK
    OBVIOUS
  <2>1. SpendTypeOK
    BY SpendAssumption DEF JobsHold, GrantInv, RecOK, LedgerOK, SpendTypeOK
  <2>2. \A j \in Jobs : Cardinality(batch[j].acks) <= MaxReceipts
    BY DEF JobsHold, JobsInv, RowOK, AcksOK
  <2> QED BY <2>1, <2>2 DEF JobsHold, RowsOK, BatchTypeOK
<1> HIDE DEF Typing
<1> QED BY <1>1, <1>2, <1>3, PTL DEF BatchSpec

-----------------------------------------------------------------------------
(* What a job reports.                                                     *)

(* The answers of a job only grow. *)
LEMMA AnswersGrow ==
  ASSUME NEW b, NEW c, NEW s, NEW t, Moves(b, c, s, t) PROVE b.acks \subseteq c.acks
  BY DEF Moves, Registered, Leased, Granted, Doubted, Acknowledged, AdoptedOne

LEMMA ConflictStays ==
  ASSUME JobsHold, JobsHold', NEW j \in Jobs, \A k \in Jobs : RowMoves(k), Conflict(j)
  PROVE  Conflict(j)'
<1>1. \A k \in Jobs : Named(k) \subseteq Named(k)'
  BY AnswersGrow DEF Named, RowMoves
<1>2. CASE Cardinality(Named(j)) > 1
  <2>1. IsFiniteSet(batch[j].acks) /\ IsFiniteSet(batch'[j].acks)
    BY DEF JobsHold, JobsInv, RowOK, AcksOK
  <2>2. IsFiniteSet(Named(j)) /\ IsFiniteSet(Named(j)')
    BY <2>1, FS_Subset DEF Named
  <2>3. Cardinality(Named(j)) <= Cardinality(Named(j)') /\ Cardinality(Named(j)) \in Nat
        /\ Cardinality(Named(j)') \in Nat
    BY <1>1, <2>2, FS_Subset, FS_CardinalityType
  <2> QED BY <1>2, <2>3 DEF Conflict
<1>3. ASSUME NEW k \in Jobs \ {j}, Named(j) \cap Named(k) # {} PROVE Conflict(j)'
  <2>1. Named(j)' \cap Named(k)' # {}
    BY <1>1, <1>3
  <2> QED BY <2>1 DEF Conflict
<1> QED BY <1>2, <1>3 DEF Conflict

(* Where the report of a job stands, by its row; now, and after a step.     *)
Doubtful(b, now) == b.doubted \/ b.fence # b.grant \/ now >= b.expires

Stands(b, reserved, conflict, now, n) ==
    /\ b.grant = 0 /\ reserved => n = 0
    /\ b.grant = 0 /\ ~reserved => n = 5
    /\ b.grant # 0 /\ conflict => n = 4
    /\ b.grant # 0 /\ ~conflict /\ b.adopted # None => n = 3
    /\ b.grant # 0 /\ ~conflict /\ b.adopted = None /\ Doubtful(b, now) => n = 2
    /\ b.grant # 0 /\ ~conflict /\ b.adopted = None /\ ~Doubtful(b, now) => n = 1

LEMMA Standings ==
    /\ Standing("reserved") = 0 /\ Standing("submitting") = 1 /\ Standing("submission_uncertain") = 2
    /\ Standing("submitted") = 3 /\ Standing("acknowledgment_conflict") = 4
    /\ Standing("reservation_unavailable") = 5
  BY DEF Standing

LEMMA StandsNow ==
  ASSUME NEW j, NEW now
  PROVE  Stands(batch[j], Reservation(j).state = "reserved", Conflict(j), now, Standing(View(j, now)))
  BY Standings DEF View, Stands, Doubtful

LEMMA StandsNext ==
  ASSUME NEW j, NEW now
  PROVE  Stands(batch'[j], Reservation(j)'.state = "reserved", Conflict(j)', now, Standing(View(j, now)'))
  BY Standings DEF View, Stands, Doubtful

(* One row: what is reported later stands no lower. *)
LEMMA StandingGrows ==
  ASSUME NEW b \in Job, NEW c \in Job, NEW s, NEW t, NEW x \in BOOLEAN, NEW y \in BOOLEAN,
         NEW now \in Nat, NEW later \in Nat, now <= later, NEW m, NEW n,
         b.intent # None, GrantOK(b, s), AdoptedOK(b), StateMoves(s, t), Moves(b, c, s, t), x => y,
         Stands(b, s = "reserved", x, now, m), Stands(c, t = "reserved", y, later, n)
  PROVE  m <= n
<1>1. b.grant \in Nat /\ b.fence \in Nat /\ b.expires \in Nat /\ b.grant <= b.fence /\ s # "absent"
  BY DEF Job, GrantOK
<1>2. CASE b.grant = 0 /\ s = "reserved"
  <2>1. m = 0
    BY <1>2 DEF Stands
  <2>2. n \in {0, 1, 2, 3, 4, 5}
    BY DEF Stands
  <2> QED BY <2>1, <2>2
<1>3. CASE b.grant = 0 /\ s # "reserved"
  <2>1. t # "reserved"
    BY <1>1, <1>3 DEF StateMoves
  <2>2. c.grant = 0
    BY <1>3 DEF Moves, Registered, Leased, Granted, Doubted, Acknowledged, AdoptedOne
  <2> QED BY <1>3, <2>1, <2>2 DEF Stands
<1>4. ASSUME b.grant # 0 PROVE c.grant = b.grant
  BY <1>4 DEF Moves, Registered, Leased, Granted, Doubted, Acknowledged, AdoptedOne
<1>5. CASE b.grant # 0 /\ x
  BY <1>4, <1>5 DEF Stands
<1>6. CASE b.grant # 0 /\ ~x /\ b.adopted # None
  <2>1. m = 3 /\ c.adopted # None
    BY <1>6, BatchAssumption
    DEF Stands, Moves, Registered, Leased, Granted, Doubted, Acknowledged, AdoptedOne
  <2>2. n \in {3, 4}
    BY <1>4, <1>6, <2>1 DEF Stands
  <2> QED BY <2>1, <2>2
<1>7. CASE b.grant # 0 /\ ~x /\ b.adopted = None /\ Doubtful(b, now)
  <2>1. Doubtful(c, later)
    BY <1>1, <1>4, <1>7
    DEF Doubtful, Moves, Registered, Leased, Granted, Doubted, Acknowledged, AdoptedOne
  <2>2. m = 2 /\ n \in {2, 3, 4}
    BY <1>4, <1>7, <2>1 DEF Stands
  <2> QED BY <2>2
<1>8. CASE b.grant # 0 /\ ~x /\ b.adopted = None /\ ~Doubtful(b, now)
  <2>1. m = 1 /\ n \in {1, 2, 3, 4}
    BY <1>4, <1>8 DEF Stands
  <2> QED BY <2>1
<1> QED BY <1>2, <1>3, <1>5, <1>6, <1>7, <1>8

LEMMA ViewStep ==
  ASSUME JobsHold, worked \in Nat, worked' \in Nat, [BatchNext]_batchVars, NEW j \in Jobs, batch[j].intent # None,
         NEW now \in worked..MaxDay, NEW later \in worked'..MaxDay, now <= later
  PROVE  /\ Standing(View(j, now)) <= Standing(View(j, later)')
         /\ View(j, now) = "submitted" => batch'[j].adopted = batch[j].adopted
<1> DEFINE b == batch[j]
           c == batch'[j]
           s == Reservation(j).state
           t == rec'[batch'[j].intent].state
<1>1. JobsHold' /\ RowsOK /\ RecOK /\ [Next]_spendVars
  BY JobsHoldStep, StepIsSpending DEF JobsHold, GrantInv
<1>2. b \in Job /\ c \in Job
  BY <1>1 DEF JobsHold, RowsOK
<1>3. \A k \in Jobs : RowMoves(k)
  BY <1>1, StepMovesRows
<1>4. Moves(b, c, s, t)
  BY <1>3 DEF RowMoves
<1>5. GrantOK(b, s) /\ AdoptedOK(b)
  BY DEF JobsHold, JobsInv, RowOK
<1>6. c.intent = b.intent /\ b.intent \in Intents
  BY <1>1, <1>4, KnownReservation DEF Moves, Registered, Leased, Granted, Doubted, Acknowledged, AdoptedOne
<1>7. StateMoves(s, t)
  BY <1>1, <1>6, SpendingMoves DEF Reservation
<1>8. Conflict(j) => Conflict(j)'
  BY <1>1, <1>3, ConflictStays
<1>9. Stands(b, s = "reserved", Conflict(j), now, Standing(View(j, now)))
  BY StandsNow
<1>10. Stands(c, t = "reserved", Conflict(j)', later, Standing(View(j, later)'))
  <2>1. Reservation(j)'.state = t
    BY DEF Reservation
  <2> QED BY <2>1, StandsNext
<1>11. now \in Nat /\ later \in Nat /\ Conflict(j) \in BOOLEAN /\ Conflict(j)' \in BOOLEAN
  BY SpendAssumption DEF Conflict
<1>12. View(j, now) = "submitted" => b.adopted # None
  BY DEF View
<1>13. View(j, now) = "submitted" => c.adopted = b.adopted
  BY <1>4, <1>6, <1>12 DEF Moves, Registered, Leased, Granted, Doubted, Acknowledged, AdoptedOne
<1> DEFINE x == Conflict(j)
           y == Conflict(j)'
           m == Standing(View(j, now))
           n == Standing(View(j, later)')
<1>14. x \in BOOLEAN /\ y \in BOOLEAN /\ (x => y) /\ Stands(b, s = "reserved", x, now, m)
       /\ Stands(c, t = "reserved", y, later, n)
  BY <1>8, <1>9, <1>10, <1>11
<1>15. b.intent # None
  OBVIOUS
<1> HIDE DEF x, y, m, n, b, c, s, t
<1>16. m <= n
  BY <1>2, <1>4, <1>5, <1>7, <1>11, <1>14, <1>15, StandingGrows
<1> QED BY <1>13, <1>16 DEF m, n, b, c

(* What a job reports at any time is never taken back at a later one.        *)
THEOREM ViewOnlyAdvances == BatchSpec => ViewNeverGoesBack
<1> DEFINE Typing == JobsHold /\ worked \in 0..MaxDay
<1>1. BatchInit => Typing
  BY JobsHoldInit, SpendAssumption DEF BatchInit
<1>2. Typing /\ [BatchNext]_batchVars => Typing'
  BY JobsHoldStep, WorkedStep
<1>3. Typing /\ [BatchNext]_batchVars =>
         [\A j \in Jobs, t \in worked..MaxDay, u \in worked'..MaxDay :
             batch[j].intent # None /\ t <= u =>
                 /\ Standing(View(j, t)) <= Standing(View(j, u)')
                 /\ View(j, t) = "submitted" => batch'[j].adopted = batch[j].adopted]_batchVars
  <2> SUFFICES ASSUME Typing, [BatchNext]_batchVars, NEW j \in Jobs, NEW t \in worked..MaxDay,
                      NEW u \in worked'..MaxDay, batch[j].intent # None, t <= u
               PROVE  /\ Standing(View(j, t)) <= Standing(View(j, u)')
                      /\ View(j, t) = "submitted" => batch'[j].adopted = batch[j].adopted
    OBVIOUS
  <2>1. worked \in Nat /\ worked' \in Nat
    BY WorkedStep, SpendAssumption
  <2> QED BY <2>1, ViewStep
<1> HIDE DEF Typing
<1> QED BY <1>1, <1>2, <1>3, PTL DEF BatchSpec, ViewNeverGoesBack
=============================================================================
