----------------------- MODULE ViewingExpirySweepProofs ----------------------
(***************************************************************************)
(* Proofs about the sweep of overdue offers and interest requests, for any *)
(* number of them, any size of a batch and any failures: its cursor passes *)
(* over nothing that was due when the sweep began, and returns to nothing. *)
(***************************************************************************)
EXTENDS ViewingExpirySweep, FiniteSetTheorems, WellFoundedInduction, TLAPS

-----------------------------------------------------------------------------
(***************************************************************************)
(* The inductive invariant.                                                *)
(***************************************************************************)
TypeOK ==
  /\ clock \in Nat \ {0}
  /\ due \in [Targets -> Nat]
  /\ {pending, proposals, targets, left, owed, tried} \subseteq SUBSET Targets
  /\ sweepBefore \in Nat
  /\ after \in Targets \cup {NoTarget}
  /\ pc \in {"idle", "proposals", "interests", "process"}
  /\ faults \in Nat

\* Whatever the sweep has met has a deadline, which never changes.
Dated ==
  /\ \A t \in pending \cup proposals \cup targets \cup tried : due[t] # NoDate
  /\ after # NoTarget => due[after] # NoDate

\* What a poll has read is behind the cursor and within the horizon.
Within ==
  /\ sweepBefore = NoDate => after = NoTarget /\ pc = "idle" /\ owed = {}
  /\ pc # "interests" => proposals = {}
  /\ pc # "process" => targets = {}
  /\ left \subseteq targets
  /\ \A t \in proposals \cup targets : IsAfter(t) /\ due[t] <= sweepBefore

\* T is a full batch, all of it before t.
FullBefore(T, t) == Cardinality(T) >= BatchSize /\ \A u \in T : Precedes(u, t)

\* What is owed lies ahead: behind the cursor, and once the poll has read its kind,
\* in what it has read, or behind all of a full batch.
OwedAhead ==
  \A t \in owed :
    /\ t \in pending /\ due[t] <= sweepBefore
    /\ pc # "process" => IsAfter(t)
    /\ pc = "interests" /\ Kind(t) = "proposal" => t \in proposals \/ FullBefore(proposals, t)
    /\ pc = "process" => t \in left \/ FullBefore(targets, t)

\* What was tried is not behind the cursor, or it belongs to the batch.
TriedBehind ==
  sweepBefore # NoDate =>
    \A t \in tried : (after # NoTarget /\ ~IsAfter(t)) \/ t \in targets \ left

SweepInv == TypeOK /\ Dated /\ Within /\ OwedAhead /\ TriedBehind

-----------------------------------------------------------------------------
(***************************************************************************)
(* The order of a batch.                                                   *)
(***************************************************************************)
\* There are finitely many targets.
LEMMA TargetsAreFinite == IsFiniteSet(Targets) /\ \A S \in SUBSET Targets : IsFiniteSet(S)
<1> DEFINE kinds == {"proposal", "interest"}
           ids == ProposalIds \cup ViewingIds
<1>1. IsFiniteSet(kinds)
  <2>1. IsFiniteSet({"proposal"}) /\ kinds = {"proposal"} \cup {"interest"}
    BY FS_Singleton
  <2> QED BY <2>1, FS_AddElement
<1>2. IsFiniteSet(ids)
  BY SweepAssumption
<1>3. IsFiniteSet(kinds \X ids)
  BY <1>1, <1>2, FS_Product
<1>4. Targets \subseteq kinds \X ids
  BY DEF Targets
<1>5. IsFiniteSet(Targets)
  BY <1>3, <1>4, FS_Subset
<1> QED BY <1>5, FS_Subset

\* A target is its kind and its identity.
LEMMA TargetsArePairs ==
  /\ \A t \in Targets : Kind(t) \in {"proposal", "interest"} /\ Id(t) \in Nat
  /\ \A t, u \in Targets : Kind(t) = Kind(u) /\ Id(t) = Id(u) => t = u
  /\ NoTarget \notin Targets
  /\ BatchSize \in Nat \ {0}
BY SweepAssumption DEF Targets, Kind, Id, NoTarget

\* The order is strict and leaves no two targets undecided.
LEMMA Order ==
  ASSUME due \in [Targets -> Nat]
  PROVE  /\ \A t \in Targets : ~Precedes(t, t)
         /\ \A t, u, v \in Targets : Precedes(t, u) /\ Precedes(u, v) => Precedes(t, v)
         /\ \A t, u \in Targets : t = u \/ Precedes(t, u) \/ Precedes(u, t)
<1>1. \A t \in Targets : due[t] \in Nat /\ Id(t) \in Nat /\ Kind(t) \in {"proposal", "interest"}
  BY TargetsArePairs
<1>2. \A t \in Targets : ~Precedes(t, t)
  BY <1>1 DEF Precedes
<1>3. \A t, u, v \in Targets : Precedes(t, u) /\ Precedes(u, v) => Precedes(t, v)
  BY <1>1 DEF Precedes
<1>4. \A t, u \in Targets : t = u \/ Precedes(t, u) \/ Precedes(u, t)
  BY <1>1, TargetsArePairs DEF Precedes
<1> QED BY <1>2, <1>3, <1>4

\* The condition on the cursor is the order.
LEMMA CursorIsOrder ==
  ASSUME TypeOK, NEW t \in Targets
  PROVE  IsAfter(t) <=> after = NoTarget \/ Precedes(after, t)
<1>1. CASE after = NoTarget
  BY <1>1 DEF IsAfter
<1>2. CASE after \in Targets
  <2>1. /\ due[after] \in Nat /\ due[t] \in Nat /\ Id(after) \in Nat /\ Id(t) \in Nat /\ after # NoTarget
    BY <1>2, TargetsArePairs DEF TypeOK
  <2> QED BY <2>1 DEF IsAfter, Precedes
<1> QED BY <1>1, <1>2 DEF TypeOK

\* While deadlines stay as they are, so does the order.
LEMMA SameOrder ==
  ASSUME NEW t, NEW u, due'[t] = due[t], due'[u] = due[u]
  PROVE  Precedes(t, u)' <=> Precedes(t, u)
BY DEF Precedes

\* Of some targets, one is the first by any count.
LEMMA LeastOf ==
  ASSUME NEW S, S # {}, NEW f \in [S -> Nat]
  PROVE  \E t \in S : \A u \in S : f[t] <= f[u]
<1> DEFINE D == {f[t] : t \in S}
           R == OpToRel(<, Nat)
<1>1. \A m, n \in Nat : m < n => <<m, n>> \in R
  BY DEF OpToRel
<1>2. D \in SUBSET Nat /\ D # {} /\ (\A t \in S : f[t] \in D) /\ (\A d \in D : \E t \in S : d = f[t])
  OBVIOUS
<1>3. IsWellFoundedOn(R, Nat)
  BY NatLessThanWellFounded
<1> HIDE DEF D, R
<1>4. PICK d \in D : \A e \in D : ~ (<<e, d>> \in R)
  BY <1>2, <1>3, WFMin
<1>5. \A e \in D : d <= e
  <2> TAKE e \in D
  <2>1. d \in Nat /\ e \in Nat /\ ~ (<<e, d>> \in R)
    BY <1>2, <1>4
  <2> QED BY <1>1, <2>1
<1> QED BY <1>2, <1>5

\* Fewer elements.
LEMMA FewerIn ==
  ASSUME NEW S \in SUBSET Targets, NEW T \in SUBSET S
  PROVE  /\ Cardinality(S) \in Nat /\ Cardinality(T) \in Nat
         /\ Cardinality(T) <= Cardinality(S)
         /\ T # S => Cardinality(T) < Cardinality(S)
<1>1. IsFiniteSet(S) /\ IsFiniteSet(T)
  BY TargetsAreFinite
<1> QED BY <1>1, FS_CardinalityType, FS_Subset

\* The last target of a batch is in it, and the others are before it.
LEMMA LastIsLast ==
  ASSUME TypeOK, NEW S \in SUBSET Targets, S # {}
  PROVE  Last(S) \in S /\ \A u \in S : u = Last(S) \/ Precedes(u, Last(S))
<1> DEFINE over(t) == {u \in S : Precedes(t, u)}
           count == [t \in S |-> Cardinality(over(t))]
<1>0. due \in [Targets -> Nat]
  BY DEF TypeOK
<1>1. \A t \in S : over(t) \in SUBSET S /\ over(t) \in SUBSET Targets
  OBVIOUS
<1>2. \A t \in S : Cardinality(over(t)) \in Nat
  BY <1>1, FewerIn
<1>3. count \in [S -> Nat] /\ \A t \in S : count[t] = Cardinality(over(t))
  BY <1>2
<1> HIDE DEF count
<1>4. PICK t \in S : \A u \in S : count[t] <= count[u]
  BY <1>3, LeastOf
<1>5. ASSUME NEW u \in S, u # t, ~Precedes(u, t) PROVE FALSE
  <2>1. Precedes(t, u)
    BY <1>0, <1>5, Order
  <2>2. over(u) \subseteq over(t)
    BY <1>0, <2>1, Order
  <2>3. u \in over(t) /\ u \notin over(u)
    BY <1>0, <2>1, Order
  <2>4. Cardinality(over(u)) < Cardinality(over(t))
    <3> HIDE DEF over
    <3> QED BY <1>1, <2>2, <2>3, FewerIn
  <2> QED BY <1>2, <1>3, <1>4, <2>4
<1>6. \E v \in S : \A u \in S : u = v \/ Precedes(u, v)
  BY <1>5
<1> QED BY <1>6 DEF Last

-----------------------------------------------------------------------------
(***************************************************************************)
(* The first of some targets: what is left out comes after a full batch.   *)
(***************************************************************************)
\* Behind BatchSize targets of S, one is not among the first of S, and these are a full batch before it.
LEMMA BatchIsFirst ==
  ASSUME TypeOK, NEW S \in SUBSET Targets, NEW t \in Targets,
         NEW D \in SUBSET S, Cardinality(D) >= BatchSize, \A u \in D : Precedes(u, t)
  PROVE  t \notin First(S) /\ FullBefore(First(S), t)
<1> DEFINE under(u) == {v \in S : Precedes(v, u)}
           count == [u \in S |-> Cardinality(under(u))]
<1>0. due \in [Targets -> Nat] /\ BatchSize \in Nat
  BY TargetsArePairs DEF TypeOK
<1>1. \A u : under(u) \in SUBSET S /\ under(u) \in SUBSET Targets
  OBVIOUS
<1>2. \A u : Cardinality(under(u)) \in Nat
  BY <1>1, FewerIn
<1>3. First(S) \in SUBSET S /\ \A u \in S : u \in First(S) <=> Cardinality(under(u)) < BatchSize
  BY DEF First
<1>4. ASSUME NEW u \in Targets, D \subseteq under(u) PROVE Cardinality(under(u)) >= BatchSize
  <2> HIDE DEF under
  <2>1. Cardinality(D) <= Cardinality(under(u)) /\ Cardinality(D) \in Nat
    BY <1>1, <1>4, FewerIn
  <2> QED BY <1>0, <1>2, <2>1
<1>5. t \notin First(S)
  <2>1. D \subseteq under(t)
    OBVIOUS
  <2> HIDE DEF under
  <2>2. Cardinality(under(t)) \in Nat /\ Cardinality(under(t)) >= BatchSize
    BY <1>2, <1>4, <2>1
  <2> QED BY <1>0, <1>3, <2>2
<1>6. \A u \in First(S) : Precedes(u, t)
  <2>1. ASSUME NEW u \in First(S), ~Precedes(u, t) PROVE FALSE
    <3>1. u \in S /\ u # t
      BY <1>3, <1>5
    <3>2. Precedes(t, u)
      BY <1>0, <2>1, <3>1, Order
    <3>3. D \subseteq under(u)
      BY <1>0, <3>1, <3>2, Order
    <3> HIDE DEF under
    <3>4. Cardinality(under(u)) \in Nat /\ Cardinality(under(u)) >= BatchSize
      BY <1>2, <1>4, <3>1, <3>3
    <3> QED BY <1>0, <1>3, <2>1, <3>1, <3>4
  <2> QED BY <2>1
<1>7. Cardinality(First(S)) >= BatchSize
  <2>1. CASE D \subseteq First(S)
    <3>1. First(S) \in SUBSET Targets
      BY <1>3
    <3>2. /\ Cardinality(D) <= Cardinality(First(S))
          /\ Cardinality(D) \in Nat /\ Cardinality(First(S)) \in Nat
      BY <2>1, <3>1, FewerIn
    <3> QED BY <1>0, <3>2
  <2>2. CASE ~(D \subseteq First(S))
    <3> DEFINE rest == S \ First(S)
               few == [u \in rest |-> Cardinality(under(u))]
    <3>1. rest # {} /\ few \in [rest -> Nat] /\ \A u \in rest : few[u] = Cardinality(under(u))
      BY <1>2, <2>2
    <3> HIDE DEF few
    <3>2. PICK m \in rest : \A u \in rest : few[m] <= few[u]
      BY <3>1, LeastOf
    <3>3. ASSUME NEW v \in under(m), v \notin First(S) PROVE FALSE
      <4>1. v \in rest /\ Precedes(v, m) /\ m \in Targets /\ v \in Targets
        BY <3>3
      <4>2. under(v) \subseteq under(m) /\ v \notin under(v) /\ v \in under(m)
        BY <1>0, <3>3, <4>1, Order
      <4>3. Cardinality(under(v)) < Cardinality(under(m))
        <5> HIDE DEF under
        <5> QED BY <1>1, <4>2, FewerIn
      <4> QED BY <1>2, <3>1, <3>2, <4>1, <4>3
    <3>4. under(m) \subseteq First(S)
      BY <3>3
    <3>5. /\ Cardinality(under(m)) <= Cardinality(First(S))
          /\ Cardinality(First(S)) \in Nat
      <4> HIDE DEF under
      <4> QED BY <1>3, <3>4, FewerIn
    <3>6. Cardinality(under(m)) >= BatchSize
      BY <1>0, <1>2, <1>3, <3>2
    <3> QED BY <1>0, <1>2, <3>5, <3>6
  <2> QED BY <2>1, <2>2
<1> QED BY <1>5, <1>6, <1>7 DEF FullBefore

\* So does what is among them and left out.
LEMMA LeftOutIsBehind ==
  ASSUME TypeOK, NEW S \in SUBSET Targets, NEW t \in S, t \notin First(S)
  PROVE  FullBefore(First(S), t)
<1> DEFINE D == {u \in S : Precedes(u, t)}
<1>1. D \in SUBSET S /\ \A u \in D : Precedes(u, t)
  OBVIOUS
<1>2. ~(Cardinality(D) < BatchSize)
  BY DEF First
<1>3. Cardinality(D) \in Nat /\ BatchSize \in Nat
  <2> HIDE DEF D
  <2> QED BY <1>1, FewerIn, TargetsArePairs
<1> HIDE DEF D
<1>4. Cardinality(D) >= BatchSize
  BY <1>2, <1>3
<1> QED BY <1>1, <1>4, BatchIsFirst

\* A batch is full or nothing is left out of it.
LEMMA FullHas ==
  ASSUME NEW T \in SUBSET Targets, NEW t, FullBefore(T, t)
  PROVE  ~(Cardinality(T) < BatchSize) /\ T # {}
<1>1. Cardinality(T) >= BatchSize /\ Cardinality(T) \in Nat /\ BatchSize \in Nat \ {0}
  BY FewerIn, TargetsArePairs DEF FullBefore
<1>2. T # {}
  BY <1>1, FS_EmptySet
<1> QED BY <1>1, <1>2

\* What a query for one kind finds: it lies behind the cursor, and what is owed and
\* not found lies behind a full batch of it.
LEMMA FoundIsFirst ==
  ASSUME TypeOK, NEW kind
  PROVE  /\ Found(kind) \in SUBSET pending
         /\ \A t \in Found(kind) : Kind(t) = kind /\ IsAfter(t) /\ due[t] <= sweepBefore
         /\ \A t \in pending : Kind(t) = kind /\ due[t] <= sweepBefore /\ IsAfter(t) =>
              t \in Found(kind) \/ FullBefore(Found(kind), t)
<1> DEFINE S == {t \in pending : Kind(t) = kind /\ due[t] <= sweepBefore /\ IsAfter(t)}
<1>1. S \in SUBSET Targets /\ Found(kind) = First(S)
  BY DEF Found, TypeOK
<1>2. First(S) \in SUBSET S
  BY DEF First
<1>3. \A t \in S : t \in First(S) \/ FullBefore(First(S), t)
  <2> HIDE DEF S
  <2> QED BY <1>1, LeftOutIsBehind
<1> QED BY <1>1, <1>2, <1>3

\* What a poll comes to: a batch that leaves out nothing owed but what lies behind all of it.
LEMMA CandidatesAreFirst ==
  ASSUME SweepInv, pc = "interests"
  PROVE  /\ Candidates \in SUBSET Targets
         /\ Candidates \subseteq proposals \cup pending
         /\ \A t \in Candidates : IsAfter(t) /\ due[t] <= sweepBefore
         /\ \A t \in owed : t \in Candidates \/ FullBefore(Candidates, t)
<1> DEFINE found == Found("interest")
           S == proposals \cup found
<1>0. TypeOK /\ pending \in SUBSET Targets /\ proposals \in SUBSET Targets /\ owed \in SUBSET Targets
  BY DEF SweepInv, TypeOK
<1>1. /\ found \in SUBSET pending
      /\ \A t \in found : IsAfter(t) /\ due[t] <= sweepBefore
      /\ \A t \in pending : Kind(t) = "interest" /\ due[t] <= sweepBefore /\ IsAfter(t) =>
           t \in found \/ FullBefore(found, t)
  BY <1>0, FoundIsFirst
<1>2. S \in SUBSET Targets /\ Candidates = First(S)
  BY <1>0, <1>1 DEF Candidates
<1>3. First(S) \in SUBSET S
  BY DEF First
<1>4. \A t \in S : IsAfter(t) /\ due[t] <= sweepBefore
  BY <1>1 DEF SweepInv, Within
<1>5. ASSUME NEW t \in owed PROVE t \in First(S) \/ FullBefore(First(S), t)
  <2>1. /\ t \in pending /\ due[t] <= sweepBefore /\ IsAfter(t) /\ t \in Targets
        /\ Kind(t) = "proposal" => t \in proposals \/ FullBefore(proposals, t)
    BY <1>0 DEF SweepInv, OwedAhead
  <2>2. Kind(t) = "proposal" \/ Kind(t) = "interest"
    BY <2>1, TargetsArePairs
  <2>3. t \in S \/ FullBefore(proposals, t) \/ FullBefore(found, t)
    BY <1>1, <2>1, <2>2
  <2>4. proposals \in SUBSET S /\ found \in SUBSET S
    OBVIOUS
  <2> HIDE DEF S, found
  <2>5. CASE t \in S
    BY <1>0, <1>2, <2>5, LeftOutIsBehind
  <2>6. CASE FullBefore(proposals, t)
    BY <1>0, <1>2, <2>1, <2>4, <2>6, BatchIsFirst DEF FullBefore
  <2>7. CASE FullBefore(found, t)
    BY <1>0, <1>2, <2>1, <2>4, <2>7, BatchIsFirst DEF FullBefore
  <2> QED BY <2>3, <2>5, <2>6, <2>7
<1> QED BY <1>1, <1>2, <1>3, <1>4, <1>5

-----------------------------------------------------------------------------
(***************************************************************************)
(* The steps.                                                              *)
(***************************************************************************)
\* Deadlines and cursor as they are leave the order and the condition on the cursor.
LEMMA SameOrders ==
  ASSUME UNCHANGED due
  PROVE  /\ \A T, t : FullBefore(T, t)' <=> FullBefore(T, t)
         /\ after' = after => \A t : IsAfter(t)' <=> IsAfter(t)
BY DEF FullBefore, Precedes, IsAfter

\* Steps beside the sweep: time passes, or a target is settled.
LEMMA BesideKeeps ==
  ASSUME SweepInv, clock' \in Nat \ {0}, pending' \subseteq pending, owed' \subseteq owed \cap pending',
         UNCHANGED <<due, sweepBefore, after, pc, proposals, targets, left, faults, tried>>
  PROVE  SweepInv'
<1>0. TypeOK /\ Dated /\ Within /\ OwedAhead /\ TriedBehind
  BY DEF SweepInv
<1>1. /\ \A T, t : FullBefore(T, t)' <=> FullBefore(T, t)
      /\ \A t : IsAfter(t)' <=> IsAfter(t)
  BY SameOrders
<1>2. TypeOK'
  BY <1>0 DEF TypeOK
<1>3. Dated'
  BY <1>0 DEF Dated
<1>4. Within'
  BY <1>0, <1>1 DEF Within
<1>5. OwedAhead'
  BY <1>0, <1>1 DEF OwedAhead
<1>6. TriedBehind'
  BY <1>0, <1>1 DEF TriedBehind
<1> QED BY <1>2, <1>3, <1>4, <1>5, <1>6 DEF SweepInv

\* A new target has had no deadline, so that the sweep has not met it.
LEMMA AriseKeeps ==
  ASSUME SweepInv, NEW t \in Targets, Arise(t)
  PROVE  SweepInv'
<1>0. TypeOK /\ Dated /\ Within /\ OwedAhead /\ TriedBehind
  BY DEF SweepInv
<1>1. PICK date \in (clock + 1)..MaxClock : due' = [due EXCEPT ![t] = date]
  BY DEF Arise
<1>2. /\ due[t] = NoDate /\ pending' = pending \cup {t}
      /\ UNCHANGED <<clock, poisoned, sweepBefore, after, pc, proposals, targets, left, faults, owed, tried>>
  BY DEF Arise, ghosts
<1>3. date \in Nat /\ date # NoDate
  BY <1>0, SweepAssumption DEF TypeOK, NoDate
<1>4. /\ due' \in [Targets -> Nat] /\ due'[t] # NoDate
      /\ \A u : u # t => due'[u] = due[u]
  BY <1>0, <1>1, <1>3 DEF TypeOK
<1>5. \A u : due[u] # NoDate => due'[u] = due[u] /\ due'[u] # NoDate
  BY <1>2, <1>4
<1>6. \A u, v : due[u] # NoDate /\ due[v] # NoDate => (Precedes(u, v)' <=> Precedes(u, v))
  BY <1>5 DEF Precedes
<1>7. \A u : due[u] # NoDate => (IsAfter(u)' <=> IsAfter(u))
  BY <1>0, <1>2, <1>5 DEF IsAfter, Dated
<1>8. \A T, u : due[u] # NoDate /\ (\A v \in T : due[v] # NoDate) => (FullBefore(T, u)' <=> FullBefore(T, u))
  BY <1>6 DEF FullBefore
<1>9. TypeOK'
  BY <1>0, <1>2, <1>4 DEF TypeOK
<1>10. Dated'
  BY <1>0, <1>2, <1>4, <1>5 DEF Dated
<1>11. Within'
  BY <1>0, <1>2, <1>5, <1>7 DEF Within, Dated
<1>12. OwedAhead'
  <2>1. \A u \in owed : u \in pending /\ due[u] # NoDate
    BY <1>0 DEF OwedAhead, Dated
  <2>2. (\A v \in proposals : due[v] # NoDate) /\ (\A v \in targets : due[v] # NoDate)
    BY <1>0 DEF Dated
  <2>3. \A u \in owed : /\ FullBefore(proposals, u)' <=> FullBefore(proposals, u)
                        /\ FullBefore(targets, u)' <=> FullBefore(targets, u)
    BY <1>2, <1>6, <2>1, <2>2 DEF FullBefore
  <2> QED BY <1>0, <1>2, <1>5, <1>7, <2>1, <2>3 DEF OwedAhead
<1>13. TriedBehind'
  BY <1>0, <1>2, <1>7 DEF TriedBehind, Dated
<1> QED BY <1>9, <1>10, <1>11, <1>12, <1>13 DEF SweepInv

\* A sweep begins: what is due is owed, and nothing is behind the cursor yet.
LEMMA BeginningKeeps ==
  ASSUME SweepInv, sweepBefore' = clock, owed' = DueBy(clock), tried' = {}, after' = NoTarget,
         pc' = "proposals", proposals' = {}, targets' = {}, left' = {},
         UNCHANGED <<clock, due, pending, faults>>
  PROVE  SweepInv'
<1>0. TypeOK /\ Dated
  BY DEF SweepInv
<1>1. clock # NoDate /\ DueBy(clock) \in SUBSET pending /\ \A t \in DueBy(clock) : due[t] <= clock
  BY <1>0 DEF TypeOK, NoDate, DueBy
<1>2. \A t : IsAfter(t)'
  BY DEF IsAfter
<1>3. TypeOK'
  BY <1>0, <1>1 DEF TypeOK
<1>4. Dated'
  BY <1>0 DEF Dated
<1>5. Within'
  BY <1>1 DEF Within
<1>6. OwedAhead'
  BY <1>1, <1>2 DEF OwedAhead
<1>7. TriedBehind'
  BY DEF TriedBehind
<1> QED BY <1>3, <1>4, <1>5, <1>6, <1>7 DEF SweepInv

\* A poll begins, in a sweep that is under way or with a new one.
LEMMA PollKeeps ==
  ASSUME SweepInv, Poll
  PROVE  SweepInv'
<1>0. TypeOK /\ Dated /\ Within /\ OwedAhead /\ TriedBehind
  BY DEF SweepInv
<1>1. /\ pc = "idle" /\ pc' = "proposals" /\ proposals = {} /\ targets = {} /\ left = {}
      /\ UNCHANGED <<clock, due, pending, after, proposals, targets, left, faults>>
  BY <1>0 DEF Poll, store, Within
<1>2. CASE sweepBefore = NoDate
  <2>1. sweepBefore' = clock /\ owed' = DueBy(clock) /\ tried' = {} /\ after' = NoTarget
    BY <1>0, <1>1, <1>2 DEF Poll, Horizon, Within
  <2> QED BY <1>1, <2>1, BeginningKeeps
<1>3. CASE sweepBefore # NoDate
  <2>1. UNCHANGED <<sweepBefore, owed, tried>>
    BY <1>3 DEF Poll, Horizon, ghosts
  <2>2. \A t : IsAfter(t)' <=> IsAfter(t)
    BY <1>1, SameOrders
  <2>3. TypeOK'
    BY <1>0, <1>1, <2>1 DEF TypeOK
  <2>4. Dated'
    BY <1>0, <1>1, <2>1 DEF Dated
  <2>5. Within'
    BY <1>1, <1>3, <2>1 DEF Within
  <2>6. OwedAhead'
    BY <1>0, <1>1, <2>1, <2>2 DEF OwedAhead
  <2>7. TriedBehind'
    BY <1>0, <1>1, <2>1, <2>2 DEF TriedBehind
  <2> QED BY <2>3, <2>4, <2>5, <2>6, <2>7 DEF SweepInv
<1> QED BY <1>2, <1>3

\* The first query, for offers.
LEMMA ReadProposalsKeeps ==
  ASSUME SweepInv, ReadProposals
  PROVE  SweepInv'
<1>0. TypeOK /\ Dated /\ Within /\ OwedAhead /\ TriedBehind
  BY DEF SweepInv
<1>1. /\ pc = "proposals" /\ pc' = "interests" /\ proposals' = Found("proposal") /\ targets = {}
      /\ UNCHANGED <<clock, due, pending, sweepBefore, after, targets, left, faults, owed, tried>>
  BY <1>0 DEF ReadProposals, store, ghosts, Within
<1>2. /\ \A T, t : FullBefore(T, t)' <=> FullBefore(T, t)
      /\ \A t : IsAfter(t)' <=> IsAfter(t)
  BY <1>1, SameOrders
<1>3. /\ Found("proposal") \in SUBSET pending
      /\ \A t \in Found("proposal") : IsAfter(t) /\ due[t] <= sweepBefore
      /\ \A t \in pending : Kind(t) = "proposal" /\ due[t] <= sweepBefore /\ IsAfter(t) =>
           t \in Found("proposal") \/ FullBefore(Found("proposal"), t)
  BY <1>0, FoundIsFirst
<1>4. TypeOK'
  BY <1>0, <1>1, <1>3 DEF TypeOK
<1>5. Dated'
  BY <1>0, <1>1, <1>3 DEF Dated
<1>6. Within'
  BY <1>0, <1>1, <1>2, <1>3 DEF Within
<1>7. \A t : FullBefore(proposals, t)' <=> FullBefore(Found("proposal"), t)
  BY <1>1 DEF FullBefore, Precedes
<1>8. OwedAhead'
  BY <1>0, <1>1, <1>2, <1>3, <1>7 DEF OwedAhead
<1>9. TriedBehind'
  BY <1>0, <1>1, <1>2 DEF TriedBehind
<1> QED BY <1>4, <1>5, <1>6, <1>8, <1>9 DEF SweepInv

\* The second query, for interest, and the batch.
LEMMA ReadInterestsKeeps ==
  ASSUME SweepInv, ReadInterests
  PROVE  SweepInv'
<1>0. TypeOK /\ Dated /\ Within /\ OwedAhead /\ TriedBehind
  BY DEF SweepInv
<1>1. /\ pc = "interests" /\ pc' = "process" /\ proposals' = {} /\ targets = {} /\ left = {}
      /\ targets' = Candidates /\ left' = Candidates
      /\ UNCHANGED <<clock, due, pending, sweepBefore, after, faults, owed, tried>>
  BY <1>0 DEF ReadInterests, store, ghosts, Within
<1>2. /\ \A T, t : FullBefore(T, t)' <=> FullBefore(T, t)
      /\ \A t : IsAfter(t)' <=> IsAfter(t)
  BY <1>1, SameOrders
<1>3. /\ Candidates \in SUBSET Targets
      /\ Candidates \subseteq proposals \cup pending
      /\ \A t \in Candidates : IsAfter(t) /\ due[t] <= sweepBefore
      /\ \A t \in owed : t \in Candidates \/ FullBefore(Candidates, t)
  BY <1>1, CandidatesAreFirst
<1>4. TypeOK'
  BY <1>0, <1>1, <1>3 DEF TypeOK
<1>5. Dated'
  BY <1>0, <1>1, <1>3 DEF Dated
<1>6. Within'
  BY <1>0, <1>1, <1>2, <1>3 DEF Within
<1>7. \A t : FullBefore(targets, t)' <=> FullBefore(Candidates, t)
  BY <1>1 DEF FullBefore, Precedes
<1>8. OwedAhead'
  BY <1>0, <1>1, <1>3, <1>7 DEF OwedAhead
<1>9. TriedBehind'
  BY <1>0, <1>1, <1>2 DEF TriedBehind
<1> QED BY <1>4, <1>5, <1>6, <1>8, <1>9 DEF SweepInv

\* Nothing is left behind the cursor: then nothing is owed.
LEMMA WrapKeeps ==
  ASSUME SweepInv, Wrap
  PROVE  SweepInv' /\ owed = {}
<1>0. TypeOK /\ Within
  BY DEF SweepInv
<1>1. /\ pc = "interests" /\ Candidates = {} /\ pc' = "proposals" /\ after' = NoTarget
      /\ sweepBefore' = clock /\ owed' = DueBy(clock) /\ tried' = {} /\ proposals' = {}
      /\ targets' = {} /\ left' = {}
      /\ UNCHANGED <<clock, due, pending, faults>>
  BY <1>0 DEF Wrap, store, Within
<1>2. owed = {}
  <2>1. \A t \in owed : FullBefore({}, t)
    BY <1>1, CandidatesAreFirst
  <2>2. \A t : ~FullBefore({}, t)
    BY FullHas
  <2> QED BY <2>1, <2>2
<1> QED BY <1>1, <1>2, BeginningKeeps

\* A target is tried, whatever comes of it.
LEMMA ProcessKeeps ==
  ASSUME SweepInv, NEW t \in Targets, Process(t)
  PROVE  SweepInv' /\ t \notin tried /\ due[t] <= sweepBefore
<1>0. TypeOK /\ Dated /\ Within /\ OwedAhead /\ TriedBehind
  BY DEF SweepInv
<1>1. /\ pc = "process" /\ t \in left
      /\ pending \ {t} \subseteq pending' /\ pending' \subseteq pending
      /\ faults' \in Nat
      /\ left' = left \ {t} /\ owed' = owed \ {t} /\ tried' = tried \cup {t}
      /\ UNCHANGED <<clock, due, sweepBefore, after, pc, proposals, targets>>
  <2>1. faults + 1 \in Nat /\ faults \in Nat
    BY <1>0 DEF TypeOK
  <2> QED BY <2>1 DEF Process
<1>2. /\ \A T, u : FullBefore(T, u)' <=> FullBefore(T, u)
      /\ \A u : IsAfter(u)' <=> IsAfter(u)
  BY <1>1, SameOrders
<1>3. t \in targets /\ IsAfter(t) /\ due[t] <= sweepBefore /\ sweepBefore # NoDate
  BY <1>0, <1>1 DEF Within
<1>4. t \notin tried
  BY <1>0, <1>1, <1>3 DEF TriedBehind
<1>5. TypeOK'
  BY <1>0, <1>1 DEF TypeOK
<1>6. Dated'
  BY <1>0, <1>1, <1>3 DEF Dated
<1>7. Within'
  BY <1>0, <1>1, <1>2 DEF Within
<1>8. \A u : FullBefore(targets, u)' <=> FullBefore(targets, u)
  BY <1>1 DEF FullBefore, Precedes
<1>9. OwedAhead'
  BY <1>0, <1>1, <1>8 DEF OwedAhead
<1>10. TriedBehind'
  BY <1>0, <1>1, <1>2, <1>3 DEF TriedBehind
<1> QED BY <1>3, <1>4, <1>5, <1>6, <1>7, <1>9, <1>10 DEF SweepInv

\* A batch is over: one that was not full left nothing out, and behind a full one the
\* cursor has what is owed ahead of it and what was tried behind.
LEMMA FinishKeeps ==
  ASSUME SweepInv, Finish
  PROVE  SweepInv' /\ (after' = NoTarget => owed = {})
<1>0. TypeOK /\ Dated /\ Within /\ OwedAhead /\ TriedBehind
  BY DEF SweepInv
<1>1. /\ pc = "process" /\ left = {} /\ pc' = "idle" /\ targets' = {} /\ proposals = {}
      /\ sweepBefore # NoDate /\ targets \in SUBSET Targets
      /\ UNCHANGED <<clock, due, pending, proposals, left, faults, owed, tried>>
  BY <1>0 DEF Finish, store, ghosts, Within, TypeOK
<1>2. \A t \in owed : FullBefore(targets, t)
  BY <1>0, <1>1 DEF OwedAhead
<1>3. CASE Cardinality(targets) < BatchSize
  <2>1. after' = NoTarget /\ sweepBefore' = NoDate
    BY <1>3 DEF Finish
  <2>2. owed = {}
    BY <1>1, <1>2, <1>3, FullHas
  <2>3. TypeOK'
    BY <1>0, <1>1, <2>1 DEF TypeOK, NoDate
  <2>4. Dated'
    BY <1>0, <1>1, <2>1 DEF Dated
  <2>5. Within'
    BY <1>1, <2>1, <2>2 DEF Within
  <2>6. OwedAhead' /\ TriedBehind'
    BY <1>1, <2>1, <2>2 DEF OwedAhead, TriedBehind
  <2> QED BY <2>2, <2>3, <2>4, <2>5, <2>6 DEF SweepInv
<1>4. CASE ~(Cardinality(targets) < BatchSize)
  <2> DEFINE last == Last(targets)
  <2>1. after' = last /\ sweepBefore' = sweepBefore
    BY <1>4 DEF Finish
  <2>2. targets # {}
    <3>1. BatchSize \in Nat \ {0}
      BY TargetsArePairs
    <3> QED BY <1>4, <3>1, FS_EmptySet
  <2>3. last \in targets /\ \A u \in targets : u = last \/ Precedes(u, last)
    BY <1>0, <1>1, <2>2, LastIsLast
  <2>4. last # NoTarget /\ last \in Targets /\ after' \in Targets
    BY <1>1, <2>1, <2>3, TargetsArePairs
  <2> HIDE DEF last
  <2>5. TypeOK'
    BY <1>0, <1>1, <2>1, <2>4 DEF TypeOK
  <2>6. Dated'
    BY <1>0, <1>1, <2>1, <2>3 DEF Dated
  <2>7. Within'
    BY <1>1, <2>1 DEF Within
  <2>8. \A t \in Targets : IsAfter(t)' <=> Precedes(last, t)
    <3>1. \A t \in Targets : due[t] \in Nat /\ Id(t) \in Nat
      BY <1>0, TargetsArePairs DEF TypeOK
    <3> QED BY <1>1, <2>1, <2>4, <3>1 DEF IsAfter, Precedes
  <2>9. OwedAhead'
    <3>1. \A t \in owed : t \in Targets /\ Precedes(last, t) /\ t \in pending /\ due[t] <= sweepBefore
      BY <1>0, <1>2, <2>3 DEF OwedAhead, FullBefore, TypeOK
    <3> QED BY <1>1, <2>1, <2>8, <3>1 DEF OwedAhead
  <2>10. TriedBehind'
    <3>1. due \in [Targets -> Nat]
      BY <1>0 DEF TypeOK
    <3>2. ASSUME NEW t \in tried PROVE ~Precedes(last, t)
      <4>1. t \in Targets
        BY <1>0 DEF TypeOK
      <4>2. CASE t \in targets
        BY <2>3, <2>4, <3>1, <4>1, <4>2, Order
      <4>3. CASE t \notin targets
        <5>1. after # NoTarget /\ ~IsAfter(t)
          BY <1>0, <1>1, <4>3 DEF TriedBehind
        <5>2. ~Precedes(after, t) /\ after \in Targets
          BY <1>0, <4>1, <5>1, CursorIsOrder DEF TypeOK
        <5>3. Precedes(after, last)
          BY <1>0, <2>3, <2>4, <5>1, CursorIsOrder DEF Within
        <5> QED BY <2>4, <3>1, <4>1, <5>2, <5>3, Order
      <4> QED BY <4>2, <4>3
    <3>3. tried \subseteq Targets
      BY <1>0 DEF TypeOK
    <3> QED BY <1>1, <2>1, <2>4, <2>8, <3>2, <3>3 DEF TriedBehind
  <2> QED BY <2>1, <2>4, <2>5, <2>6, <2>7, <2>9, <2>10 DEF SweepInv
<1> QED BY <1>3, <1>4

\* A query fails: the next poll reads from the same cursor.
LEMMA PollFailsKeeps ==
  ASSUME SweepInv, PollFails
  PROVE  SweepInv'
<1>0. TypeOK /\ Dated /\ Within /\ OwedAhead /\ TriedBehind
  BY DEF SweepInv
<1>1. /\ pc \in {"proposals", "interests"} /\ pc' = "idle" /\ proposals' = {} /\ targets = {}
      /\ faults' = faults + 1
      /\ UNCHANGED <<clock, due, pending, sweepBefore, after, targets, left, owed, tried>>
  BY <1>0 DEF PollFails, store, ghosts, Within
<1>2. \A t : IsAfter(t)' <=> IsAfter(t)
  BY <1>1, SameOrders
<1>3. TypeOK'
  BY <1>0, <1>1 DEF TypeOK
<1>4. Dated'
  BY <1>0, <1>1 DEF Dated
<1>5. Within'
  BY <1>0, <1>1 DEF Within
<1>6. OwedAhead'
  BY <1>0, <1>1, <1>2 DEF OwedAhead
<1>7. TriedBehind'
  BY <1>0, <1>1, <1>2 DEF TriedBehind
<1> QED BY <1>3, <1>4, <1>5, <1>6, <1>7 DEF SweepInv

\* A restart forgets the sweep.
LEMMA RestartKeeps ==
  ASSUME SweepInv, Restart
  PROVE  SweepInv'
<1>0. TypeOK /\ Dated
  BY DEF SweepInv
<1>1. /\ faults' = faults + 1 /\ sweepBefore' = NoDate /\ after' = NoTarget /\ pc' = "idle"
      /\ proposals' = {} /\ targets' = {} /\ left' = {} /\ owed' = {} /\ tried' = {}
      /\ UNCHANGED <<clock, due, pending>>
  BY DEF Restart, store
<1>2. TypeOK'
  BY <1>0, <1>1 DEF TypeOK, NoDate
<1>3. Dated' /\ Within' /\ OwedAhead' /\ TriedBehind'
  BY <1>0, <1>1 DEF Dated, Within, OwedAhead, TriedBehind
<1> QED BY <1>2, <1>3 DEF SweepInv

-----------------------------------------------------------------------------
\* The invariant holds initially.
LEMMA InitSweep == Init => SweepInv
<1> SUFFICES ASSUME Init PROVE SweepInv
  OBVIOUS
<1>1. TypeOK
  BY DEF Init, TypeOK, NoDate
<1>2. Dated /\ Within /\ OwedAhead /\ TriedBehind
  BY DEF Init, Dated, Within, OwedAhead, TriedBehind
<1> QED BY <1>1, <1>2 DEF SweepInv

\* The invariant is inductive.
LEMMA StepSweep == SweepInv /\ [Next]_vars => SweepInv'
<1> SUFFICES ASSUME SweepInv, [Next]_vars PROVE SweepInv'
  OBVIOUS
<1>0. /\ clock \in Nat \ {0} /\ clock + 1 \in Nat \ {0}
      /\ \A t \in owed : t \in pending
  BY DEF SweepInv, TypeOK, OwedAhead
<1>1. CASE Tick
  BY <1>0, <1>1, BesideKeeps DEF Tick, ghosts
<1>2. ASSUME NEW t \in Targets, Settle(t) PROVE SweepInv'
  BY <1>0, <1>2, BesideKeeps DEF Settle
<1>3. CASE UNCHANGED vars
  BY <1>0, <1>3, BesideKeeps DEF vars, store, ghosts
<1> QED BY <1>1, <1>2, <1>3, AriseKeeps, PollKeeps, ReadProposalsKeeps, ReadInterestsKeeps,
           WrapKeeps, ProcessKeeps, FinishKeeps, PollFailsKeeps, RestartKeeps DEF Next, Sweep

\* What a step ends it does not owe, and what it tries is tried for the first time.
LEMMA StepTriesOnce == SweepInv /\ [Next]_vars => CoversHorizon /\ TriesOnce
<1> SUFFICES ASSUME SweepInv, [Next]_vars PROVE CoversHorizon /\ TriesOnce
  OBVIOUS
<1>0. /\ sweepBefore = NoDate => after = NoTarget
      /\ faults \in Nat
  BY DEF SweepInv, Within, TypeOK
<1>1. ASSUME UNCHANGED <<sweepBefore, after, left>> PROVE CoversHorizon /\ TriesOnce
  BY <1>1 DEF CoversHorizon, TriesOnce
<1>2. CASE Tick \/ ReadProposals \/ PollFails \/ UNCHANGED vars
  BY <1>1, <1>2 DEF Tick, ReadProposals, PollFails, vars
<1>3. ASSUME NEW t \in Targets, Arise(t) \/ Settle(t) PROVE CoversHorizon /\ TriesOnce
  BY <1>1, <1>3 DEF Arise, Settle
<1>4. CASE Poll
  BY <1>0, <1>4 DEF Poll, Horizon, CoversHorizon, TriesOnce
<1>5. CASE ReadInterests
  BY <1>5 DEF ReadInterests, CoversHorizon, TriesOnce
<1>6. CASE Wrap
  <2>1. owed = {} /\ pc' # "process"
    BY <1>6, WrapKeeps DEF Wrap
  <2> QED BY <2>1 DEF CoversHorizon, TriesOnce
<1>7. ASSUME NEW t \in Targets, Process(t) PROVE CoversHorizon /\ TriesOnce
  <2>1. t \notin tried /\ due[t] <= sweepBefore
    BY <1>7, ProcessKeeps
  <2>2. left' = left \ {t} /\ UNCHANGED <<sweepBefore, after>>
    BY <1>7 DEF Process
  <2> QED BY <2>1, <2>2 DEF CoversHorizon, TriesOnce
<1>8. CASE Finish
  <2>1. after' = NoTarget => owed = {}
    BY <1>8, FinishKeeps
  <2>2. pc' # "process" /\ (sweepBefore' # sweepBefore => after' = NoTarget)
    BY <1>8 DEF Finish
  <2> QED BY <2>1, <2>2 DEF CoversHorizon, TriesOnce
<1>9. CASE Restart
  <2>1. faults' # faults /\ pc' # "process"
    BY <1>0, <1>9 DEF Restart
  <2> QED BY <2>1 DEF CoversHorizon, TriesOnce
<1> QED BY <1>2, <1>3, <1>4, <1>5, <1>6, <1>7, <1>8, <1>9 DEF Next, Sweep

\* The cursor, the batch and the ghosts have their types.
THEOREM TypeCorrect == Spec => []TypeOK
<1>1. SweepInv => TypeOK
  BY DEF SweepInv
<1> QED BY <1>1, InitSweep, StepSweep, PTL DEF Spec

\* A sweep tries each target that was due when it began exactly once, unless it is settled first.
THEOREM EachIsTriedOnce == Spec => SweepTriesEachOnce
<1>1. Spec => [][Next]_vars /\ []SweepInv
  BY InitSweep, StepSweep, PTL DEF Spec
<1>2. SweepInv /\ [Next]_vars => [CoversHorizon /\ TriesOnce]_vars
  BY StepTriesOnce
<1> QED BY <1>1, <1>2, PTL DEF SweepTriesEachOnce

=============================================================================
