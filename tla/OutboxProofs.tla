---------------------------- MODULE OutboxProofs ----------------------------
(***************************************************************************)
(* What holds of the outbox for every number of rows and dispatchers, and  *)
(* for every batch size, lease, deadline, backoff and number of faults.    *)
(***************************************************************************)
EXTENDS Outbox, TLAPS

\* The states of a dispatcher that has a row at hand.
Working == {"publish", "mark", "release"}

\* What a dispatcher remembers of its rows is still so: rows of the batch are
\* other rows than the one at hand, and theirs is the claim while the lease runs.
ClaimsHeld ==
  \A d \in Dispatchers :
    /\ pc[d] \in Working => event[d] \in Events /\ event[d] \notin batch[d]
    /\ pc[d] = "mark" => event[d] \in emitted
    /\ \A e \in batch[d] : left[d] > 0 => Holds(d, e) /\ lease[e] >= left[d]

\* Only pending rows that are due are under a lease, and a claim has been counted.
LeasesArePending ==
  \A e \in Events : /\ lease[e] >= 0 => state[e] = "pending" /\ due[e] = 0
                    /\ token[e] # NoOne => attempts[e] > 0

IInv == TypeOK /\ ClaimsHeld /\ LeasesArePending /\ OnlyPublishedIsDropped

USE EventsAssumption, ConfigAssumption DEF Quiesced, Unclaimed, Working, rows, loops

-----------------------------------------------------------------------------
\* The initial states satisfy the inductive invariant.
LEMMA InitInv == Init => IInv
  BY DEF Init, IInv, TypeOK, ClaimsHeld, LeasesArePending, OnlyPublishedIsDropped

\* The next attempt of a failed row is in the future or quiesced.
LEMMA RetryType ==
  ASSUME TypeOK, NEW e \in Events, attempts[e] > 0
  PROVE  Retry(e) \in Nat \cup {Quiesced}
<1>1. attempts[e] \in 1..MaxAttempts
  BY DEF TypeOK
<1> QED BY <1>1 DEF Retry

\* A claim takes rows that are pending and under no lease.
LEMMA OldestClaimable == Oldest(Claimable) \subseteq Claimable
  BY DEF Oldest

\* Every step keeps the types.
LEMMA StepType == IInv /\ [Next]_vars => TypeOK'
<1> SUFFICES ASSUME IInv, [Next]_vars PROVE TypeOK'
  OBVIOUS
<1>0. TypeOK
  BY DEF IInv
<1>1. ASSUME NEW e \in Events, Append(e) \/ Retain(e) PROVE TypeOK'
  BY <1>0, <1>1 DEF TypeOK, Append, Retain
<1>2. ASSUME NEW d \in Dispatchers, Claim(d) PROVE TypeOK'
  <2> DEFINE claimed == Oldest(Claimable)
  <2>1. claimed \subseteq Events
    BY DEF Oldest, Claimable
  <2>2. \A e \in Events : AtMostMaxAttempts(attempts[e] + 1) \in 0..MaxAttempts
    BY <1>0 DEF TypeOK, AtMostMaxAttempts
  <2>3. /\ attempts' = [e \in Events |-> IF e \in claimed THEN AtMostMaxAttempts(attempts[e] + 1)
                                         ELSE attempts[e]]
        /\ token' = [e \in Events |-> IF e \in claimed THEN d ELSE token[e]]
        /\ lease' = [e \in Events |-> IF e \in claimed THEN Lease ELSE lease[e]]
        /\ pc' = [pc EXCEPT ![d] = "loop"]
        /\ batch' = [batch EXCEPT ![d] = claimed]
        /\ left' = [left EXCEPT ![d] = Lease]
        /\ UNCHANGED <<state, due, event, spent, faults, emitted, tried>>
    BY <1>2 DEF Claim
  <2> HIDE DEF claimed
  <2>4. attempts' \in [Events -> 0..MaxAttempts]
    BY <1>0, <2>2, <2>3 DEF TypeOK
  <2>5. token' \in [Events -> Dispatchers \cup {NoOne}] /\ lease' \in [Events -> Unclaimed..Lease]
    BY <1>0, <2>3 DEF TypeOK
  <2>6. /\ pc' \in [Dispatchers -> {"idle", "loop", "publish", "mark", "release"}]
        /\ batch' \in [Dispatchers -> SUBSET Events]
        /\ left' \in [Dispatchers -> 0..Lease]
    BY <1>0, <2>1, <2>3 DEF TypeOK
  <2> QED BY <1>0, <2>3, <2>4, <2>5, <2>6 DEF TypeOK
<1>3. ASSUME NEW d \in Dispatchers, Begin(d) PROVE TypeOK'
  <2>1. PICK e \in batch[d] :
          /\ event' = [event EXCEPT ![d] = e]
          /\ batch' = [batch EXCEPT ![d] = @ \ {e}]
          /\ tried' = [tried EXCEPT ![e] = AtMostMaxAttempts(@ + 1)]
    BY <1>3 DEF Begin
  <2>2. e \in Events
    BY <1>0 DEF TypeOK
  <2>3. AtMostMaxAttempts(tried[e] + 1) \in 0..MaxAttempts
    BY <1>0, <2>2 DEF TypeOK, AtMostMaxAttempts
  <2>4. tried' \in [Events -> 0..MaxAttempts]
    BY <1>0, <2>1, <2>2, <2>3 DEF TypeOK
  <2> QED BY <1>0, <1>3, <2>1, <2>2, <2>4 DEF TypeOK, Begin
<1>4. ASSUME NEW d \in Dispatchers, Break(d) \/ Abandon(d) PROVE TypeOK'
  <2>1. PollEnds(d)
    BY <1>4 DEF Break, Abandon
  <2>2. faults' \in 0..MaxFaults
    BY <1>0, <1>4 DEF TypeOK, Break, Abandon, Fault
  <2> QED BY <1>0, <2>1, <2>2 DEF TypeOK, PollEnds
<1>5. ASSUME NEW d \in Dispatchers, Published(d) PROVE TypeOK'
  BY <1>0, <1>5 DEF IInv, ClaimsHeld, TypeOK, Published
<1>6. ASSUME NEW d \in Dispatchers, Refused(d) \/ MarkFails(d) PROVE TypeOK'
  <2>1. /\ pc' = [pc EXCEPT ![d] = "release"]
        /\ UNCHANGED <<rows, batch, event, left, spent, emitted, tried>>
    BY <1>6 DEF Refused, MarkFails
  <2>2. faults' \in 0..MaxFaults
    BY <1>0, <1>6 DEF TypeOK, Refused, MarkFails, Fault
  <2> QED BY <1>0, <2>1, <2>2 DEF TypeOK
<1>7. ASSUME NEW d \in Dispatchers, Mark(d) PROVE TypeOK'
  <2>1. /\ state' \in [Events -> {"none", "pending", "dispatched", "deleted"}]
        /\ token' \in [Events -> Dispatchers \cup {NoOne}]
        /\ lease' \in [Events -> Unclaimed..Lease]
    <3>1. CASE Holds(d, event[d])
      <4>1. /\ state' = [state EXCEPT ![event[d]] = "dispatched"]
            /\ token' = [token EXCEPT ![event[d]] = NoOne]
            /\ lease' = [lease EXCEPT ![event[d]] = Unclaimed]
        BY <1>7, <3>1 DEF Mark
      <4>2. state' \in [Events -> {"none", "pending", "dispatched", "deleted"}]
        BY <1>0, <4>1 DEF TypeOK
      <4>3. token' \in [Events -> Dispatchers \cup {NoOne}]
        BY <1>0, <4>1 DEF TypeOK
      <4>4. lease' \in [Events -> Unclaimed..Lease]
        <5>1. lease \in [Events -> Unclaimed..Lease] /\ Unclaimed \in Unclaimed..Lease
          BY <1>0 DEF TypeOK
        <5>2. lease' = [lease EXCEPT ![event[d]] = Unclaimed]
          BY <4>1
        <5> HIDE DEF Unclaimed
        <5> QED BY <5>1, <5>2
      <4> QED BY <4>2, <4>3, <4>4
    <3>2. CASE ~Holds(d, event[d])
      BY <1>0, <1>7, <3>2 DEF TypeOK, Mark
    <3> QED BY <3>1, <3>2
  <2>2. /\ pc' = [pc EXCEPT ![d] = "loop"]
        /\ UNCHANGED <<attempts, due, batch, event, left, spent, faults, emitted, tried>>
    BY <1>7 DEF Mark
  <2> QED BY <1>0, <2>1, <2>2 DEF TypeOK
<1>8. ASSUME NEW d \in Dispatchers, Release(d) PROVE TypeOK'
  <2>1. /\ due' \in [Events -> Nat \cup {Quiesced}]
        /\ token' \in [Events -> Dispatchers \cup {NoOne}]
        /\ lease' \in [Events -> Unclaimed..Lease]
    <3>1. CASE Holds(d, event[d])
      <4>1. event[d] \in Events /\ attempts[event[d]] > 0
        BY <1>8, <3>1 DEF IInv, ClaimsHeld, LeasesArePending, Holds, Release
      <4>2. Retry(event[d]) \in Nat \cup {Quiesced}
        BY <1>0, <4>1, RetryType
      <4>3. /\ due' = [due EXCEPT ![event[d]] = Retry(event[d])]
            /\ token' = [token EXCEPT ![event[d]] = NoOne]
            /\ lease' = [lease EXCEPT ![event[d]] = Unclaimed]
        BY <1>8, <3>1 DEF Release
      <4> QED BY <1>0, <4>1, <4>2, <4>3 DEF TypeOK
    <3>2. CASE ~Holds(d, event[d])
      BY <1>0, <1>8, <3>2 DEF TypeOK, Release
    <3> QED BY <3>1, <3>2
  <2>2. /\ pc' = [pc EXCEPT ![d] = "loop"]
        /\ UNCHANGED <<state, attempts, batch, event, left, spent, faults, emitted, tried>>
    BY <1>8 DEF Release
  <2> QED BY <1>0, <2>1, <2>2 DEF TypeOK
<1>9. CASE Tick
  <2>1. /\ due' \in [Events -> Nat \cup {Quiesced}] /\ lease' \in [Events -> Unclaimed..Lease]
        /\ left' \in [Dispatchers -> 0..Lease] /\ spent' \in [Dispatchers -> Nat]
    BY <1>0, <1>9 DEF TypeOK, Tick
  <2> QED BY <1>0, <1>9, <2>1 DEF TypeOK, Tick
<1>10. CASE UNCHANGED vars
  BY <1>0, <1>10 DEF TypeOK, vars
<1> QED BY <1>1, <1>2, <1>3, <1>4, <1>5, <1>6, <1>7, <1>8, <1>9, <1>10 DEF Next, Dispatch

\* Every step keeps the leases on pending rows and the history of publications.
LEMMA StepRows == IInv /\ [Next]_vars => (LeasesArePending /\ OnlyPublishedIsDropped)'
<1> SUFFICES ASSUME IInv, [Next]_vars PROVE (LeasesArePending /\ OnlyPublishedIsDropped)'
  OBVIOUS
<1>0. TypeOK /\ LeasesArePending /\ OnlyPublishedIsDropped
  BY DEF IInv
<1> USE DEF LeasesArePending, OnlyPublishedIsDropped
<1>1. ASSUME NEW e \in Events, Append(e) \/ Retain(e) PROVE (LeasesArePending /\ OnlyPublishedIsDropped)'
  BY <1>0, <1>1 DEF TypeOK, Append, Retain
<1>2. ASSUME NEW d \in Dispatchers, Claim(d) PROVE (LeasesArePending /\ OnlyPublishedIsDropped)'
  <2>1. \A e \in Oldest(Claimable) : state[e] = "pending" /\ due[e] = 0
    BY OldestClaimable DEF Claimable
  <2>2. \A e \in Events : AtMostMaxAttempts(attempts[e] + 1) > 0
    BY <1>0 DEF TypeOK, AtMostMaxAttempts
  <2>3. \A e \in Events :
          IF e \in Oldest(Claimable)
          THEN attempts'[e] = AtMostMaxAttempts(attempts[e] + 1)
          ELSE token'[e] = token[e] /\ lease'[e] = lease[e] /\ attempts'[e] = attempts[e]
    BY <1>2 DEF Claim
  <2>4. UNCHANGED <<state, due, emitted>>
    BY <1>2 DEF Claim
  <2> QED BY <1>0, <2>1, <2>2, <2>3, <2>4
<1>3. ASSUME NEW d \in Dispatchers, Begin(d) \/ Break(d) \/ Abandon(d) \/ Refused(d) \/ MarkFails(d)
      PROVE (LeasesArePending /\ OnlyPublishedIsDropped)'
  BY <1>0, <1>3 DEF Begin, Break, Abandon, PollEnds, Refused, MarkFails
<1>4. ASSUME NEW d \in Dispatchers, Published(d) PROVE (LeasesArePending /\ OnlyPublishedIsDropped)'
  BY <1>0, <1>4 DEF Published
<1>5. ASSUME NEW d \in Dispatchers, Mark(d) PROVE (LeasesArePending /\ OnlyPublishedIsDropped)'
  <2>1. event[d] \in emitted
    BY <1>5 DEF IInv, ClaimsHeld, Mark
  <2>2. UNCHANGED <<attempts, due, emitted>>
    BY <1>5 DEF Mark
  <2>3. \A e \in Events :
          \/ state'[e] = state[e] /\ token'[e] = token[e] /\ lease'[e] = lease[e]
          \/ e = event[d] /\ state'[e] = "dispatched" /\ token'[e] = NoOne /\ lease'[e] = Unclaimed
    BY <1>0, <1>5 DEF TypeOK, Mark
  <2> QED BY <1>0, <2>1, <2>2, <2>3
<1>6. ASSUME NEW d \in Dispatchers, Release(d) PROVE (LeasesArePending /\ OnlyPublishedIsDropped)'
  <2>1. UNCHANGED <<state, attempts, emitted>>
    BY <1>6 DEF Release
  <2>2. \A e \in Events :
          \/ due'[e] = due[e] /\ token'[e] = token[e] /\ lease'[e] = lease[e]
          \/ token'[e] = NoOne /\ lease'[e] = Unclaimed
    <3>1. CASE Holds(d, event[d])
      <4>1. /\ due' = [due EXCEPT ![event[d]] = Retry(event[d])]
            /\ token' = [token EXCEPT ![event[d]] = NoOne]
            /\ lease' = [lease EXCEPT ![event[d]] = Unclaimed]
        BY <1>6, <3>1 DEF Release
      <4> QED BY <1>0, <4>1 DEF TypeOK
    <3>2. CASE ~Holds(d, event[d])
      BY <1>0, <1>6, <3>2 DEF TypeOK, Release
    <3> QED BY <3>1, <3>2
  <2>3. ASSUME NEW e \in Events
        PROVE  /\ lease'[e] >= 0 => state'[e] = "pending" /\ due'[e] = 0
               /\ token'[e] # NoOne => attempts'[e] > 0
    BY <1>0, <2>1, <2>2
  <2> QED BY <1>0, <2>1, <2>3
<1>7. CASE Tick
  BY <1>0, <1>7 DEF TypeOK, Tick
<1>8. CASE UNCHANGED vars
  BY <1>0, <1>8 DEF vars
<1> QED BY <1>1, <1>2, <1>3, <1>4, <1>5, <1>6, <1>7, <1>8 DEF Next, Dispatch

\* Every step keeps what the dispatchers remember true.
LEMMA StepClaims == IInv /\ [Next]_vars => ClaimsHeld'
<1> SUFFICES ASSUME IInv, [Next]_vars PROVE ClaimsHeld'
  OBVIOUS
<1>0. TypeOK /\ ClaimsHeld /\ LeasesArePending
  BY DEF IInv
<1>1. ASSUME NEW e \in Events, Append(e) \/ Retain(e) PROVE ClaimsHeld'
  <2>1. /\ UNCHANGED <<token, lease, loops, emitted>>
        /\ \A f \in Events : state[f] = "pending" => state'[f] = "pending"
    BY <1>0, <1>1 DEF TypeOK, Append, Retain
  <2> QED BY <1>0, <2>1 DEF TypeOK, ClaimsHeld, Holds
<1>2. ASSUME NEW d \in Dispatchers, Claim(d) PROVE ClaimsHeld'
  <2> DEFINE claimed == Oldest(Claimable)
  <2>1. \A e \in claimed : e \in Events /\ state[e] = "pending" /\ lease[e] < 0
    BY OldestClaimable DEF Claimable
  <2>2. /\ token' = [e \in Events |-> IF e \in claimed THEN d ELSE token[e]]
        /\ lease' = [e \in Events |-> IF e \in claimed THEN Lease ELSE lease[e]]
        /\ pc' = [pc EXCEPT ![d] = "loop"]
        /\ batch' = [batch EXCEPT ![d] = claimed]
        /\ left' = [left EXCEPT ![d] = Lease]
        /\ UNCHANGED <<state, due, event, spent, faults, emitted, tried>>
    BY <1>2 DEF Claim
  <2> HIDE DEF claimed
  <2> SUFFICES ASSUME NEW c \in Dispatchers
               PROVE  (/\ pc[c] \in Working => event[c] \in Events /\ event[c] \notin batch[c]
                       /\ pc[c] = "mark" => event[c] \in emitted
                       /\ \A e \in batch[c] : left[c] > 0 => Holds(c, e) /\ lease[e] >= left[c])'
    BY DEF ClaimsHeld
  <2>3. CASE c = d
    BY <1>0, <2>1, <2>2, <2>3 DEF TypeOK, Holds
  <2>4. CASE c # d
    <3>1. pc'[c] = pc[c] /\ batch'[c] = batch[c] /\ left'[c] = left[c] /\ event'[c] = event[c]
      BY <1>0, <2>2, <2>4 DEF TypeOK
    <3>2. ASSUME NEW e \in batch[c], left[c] > 0
          PROVE  (Holds(c, e) /\ lease[e] >= left[c])'
      <4>1. Holds(c, e) /\ lease[e] >= left[c] /\ e \in Events /\ lease[e] \in Int /\ left[c] \in Nat
        BY <1>0, <3>2 DEF ClaimsHeld, TypeOK
      <4>2. e \notin claimed
        BY <2>1, <3>2, <4>1
      <4> QED BY <2>2, <3>1, <4>1, <4>2 DEF Holds
    <3> QED BY <1>0, <2>2, <3>1, <3>2 DEF ClaimsHeld
  <2> QED BY <2>3, <2>4
<1>3. ASSUME NEW d \in Dispatchers, Begin(d) PROVE ClaimsHeld'
  <2>1. PICK f \in batch[d] :
          /\ event' = [event EXCEPT ![d] = f]
          /\ batch' = [batch EXCEPT ![d] = @ \ {f}]
    BY <1>3 DEF Begin
  <2>2. f \in Events
    BY <1>0 DEF TypeOK
  <2> QED BY <1>0, <1>3, <2>1, <2>2 DEF TypeOK, ClaimsHeld, Holds, Begin
<1>4. ASSUME NEW d \in Dispatchers, Break(d) \/ Abandon(d) PROVE ClaimsHeld'
  <2>1. PollEnds(d)
    BY <1>4 DEF Break, Abandon
  <2> QED BY <1>0, <2>1 DEF TypeOK, ClaimsHeld, Holds, PollEnds
<1>5. ASSUME NEW d \in Dispatchers, Published(d) \/ Refused(d) \/ MarkFails(d) PROVE ClaimsHeld'
  <2>1. /\ UNCHANGED <<rows, batch, event, left>>
        /\ pc[d] \in Working /\ emitted \subseteq emitted'
        /\ \/ pc' = [pc EXCEPT ![d] = "mark"] /\ event[d] \in emitted'
           \/ pc' = [pc EXCEPT ![d] = "release"]
    BY <1>5 DEF Published, Refused, MarkFails
  <2>2. ASSUME NEW c \in Dispatchers
        PROVE  /\ c # d => pc'[c] = pc[c]
               /\ c = d => pc'[c] \in Working /\ (pc'[c] = "mark" => event[c] \in emitted')
    BY <1>0, <2>1 DEF TypeOK
  <2> QED BY <1>0, <2>1, <2>2 DEF ClaimsHeld, Holds
<1>6. ASSUME NEW d \in Dispatchers, Mark(d) \/ Release(d) PROVE ClaimsHeld'
  <2> SUFFICES ASSUME NEW c \in Dispatchers
               PROVE  (/\ pc[c] \in Working => event[c] \in Events /\ event[c] \notin batch[c]
                       /\ pc[c] = "mark" => event[c] \in emitted
                       /\ \A e \in batch[c] : left[c] > 0 => Holds(c, e) /\ lease[e] >= left[c])'
    BY DEF ClaimsHeld
  <2>1. /\ UNCHANGED <<batch, event, left, emitted>>
        /\ pc' = [pc EXCEPT ![d] = "loop"]
    BY <1>6 DEF Mark, Release
  <2>2. event[d] \in Events /\ event[d] \notin batch[d]
    BY <1>0, <1>6 DEF ClaimsHeld, Mark, Release
  <2>3. ASSUME NEW e \in Events, e # event[d] \/ ~Holds(d, e)
        PROVE  token'[e] = token[e] /\ state'[e] = state[e] /\ lease'[e] = lease[e]
    BY <1>0, <1>6, <2>3 DEF TypeOK, Mark, Release
  <2>4. ASSUME NEW e \in batch[c], left[c] > 0
        PROVE  (Holds(c, e) /\ lease[e] >= left[c])'
    <3>1. Holds(c, e) /\ lease[e] >= left[c] /\ e \in Events
      BY <1>0, <2>4 DEF ClaimsHeld, TypeOK
    <3>2. e # event[d] \/ ~Holds(d, e)
      BY <2>2, <3>1 DEF Holds
    <3> QED BY <2>1, <2>3, <3>1, <3>2 DEF Holds
  <2> QED BY <1>0, <2>1, <2>4 DEF ClaimsHeld, TypeOK
<1>7. CASE Tick
  BY <1>0, <1>7 DEF TypeOK, ClaimsHeld, Holds, Tick
<1>8. CASE UNCHANGED vars
  BY <1>0, <1>8 DEF ClaimsHeld, Holds, vars
<1> QED BY <1>1, <1>2, <1>3, <1>4, <1>5, <1>6, <1>7, <1>8 DEF Next, Dispatch

\* The inductive invariant is one.
LEMMA Invariant == Spec => []IInv
<1>1. IInv /\ [Next]_vars => IInv'
  BY StepType, StepRows, StepClaims DEF IInv
<1> QED BY <1>1, InitInv, PTL DEF Spec

-----------------------------------------------------------------------------
\* The outbox keeps its types.
THEOREM TypeCorrect == Spec => []TypeOK
<1>1. IInv => TypeOK
  BY DEF IInv
<1> QED BY <1>1, Invariant, PTL

\* No row is marked dispatched or deleted before it has been published, however
\* many dispatchers, crashes and failed statements there are.
THEOREM NothingIsLost == Spec => []OnlyPublishedIsDropped
<1>1. IInv => OnlyPublishedIsDropped
  BY DEF IInv
<1> QED BY <1>1, Invariant, PTL

\* A dispatcher publishes only rows that are pending and under its own claim.
THEOREM ClaimedWhenPublished == Spec => PublishesUnderClaim
<1> DEFINE Claimed == \A d \in Dispatchers :
                        pc[d] = "loop" /\ pc'[d] = "publish" => Holds(d, event'[d])
<1>1. IInv /\ [Next]_vars => [Claimed]_vars
  <2> SUFFICES ASSUME IInv, Next, NEW d \in Dispatchers, pc[d] = "loop", pc'[d] = "publish"
               PROVE  Holds(d, event'[d])
    BY DEF Claimed
  <2>0. TypeOK
    BY DEF IInv
  <2>1. Begin(d)
    <3>1. ASSUME NEW e \in Events, Append(e) \/ Retain(e) PROVE FALSE
      BY <3>1 DEF Append, Retain
    <3>2. CASE Tick
      BY <3>2 DEF Tick
    <3>3. ASSUME NEW c \in Dispatchers, MarkFails(c) \/ Abandon(c) PROVE FALSE
      BY <2>0, <3>3 DEF TypeOK, MarkFails, Abandon, PollEnds
    <3>4. ASSUME NEW c \in Dispatchers, Dispatch(c) PROVE Begin(d)
      BY <2>0, <3>4 DEF TypeOK, Dispatch, Claim, Begin, Break, PollEnds, Published, Refused, Mark, Release
    <3> QED BY <3>1, <3>2, <3>3, <3>4 DEF Next
  <2> QED BY <2>0, <2>1 DEF IInv, ClaimsHeld, TypeOK, Begin
<1>2. IInv => IInv
  OBVIOUS
<1> QED BY <1>1, Invariant, PTL DEF Spec, PublishesUnderClaim

\* Whoever lost a claim cannot disturb the one who has it.
THEOREM LeaseHolds == Spec => LeaseIsRespected
<1> DEFINE Kept == \A e \in Events, d \in Dispatchers :
                     /\ token[e] = d /\ lease[e] >= 0
                     /\ state'[e] # state[e] \/ due'[e] # due[e] \/ token'[e] # token[e]
                     => pc[d] \in {"mark", "release"} /\ pc'[d] = "loop" /\ event[d] = e
<1>1. IInv /\ [Next]_vars => [Kept]_vars
  <2> SUFFICES ASSUME IInv, Next, NEW e \in Events, NEW d \in Dispatchers,
                      token[e] = d, lease[e] >= 0,
                      state'[e] # state[e] \/ due'[e] # due[e] \/ token'[e] # token[e]
               PROVE  pc[d] \in {"mark", "release"} /\ pc'[d] = "loop" /\ event[d] = e
    BY DEF Kept
  <2>0. TypeOK /\ LeasesArePending
    BY DEF IInv
  <2>1. ASSUME NEW f \in Events, Append(f) \/ Retain(f) PROVE FALSE
    BY <2>0, <2>1 DEF TypeOK, LeasesArePending, Append, Retain
  <2>2. ASSUME NEW c \in Dispatchers, Claim(c) PROVE FALSE
    <3>0. e \notin Claimable
      BY <2>0 DEF Claimable, TypeOK
    <3>1. e \notin Oldest(Claimable)
      BY <3>0, OldestClaimable
    <3> QED BY <2>0, <2>2, <3>1 DEF TypeOK, Claim
  <2>3. ASSUME NEW c \in Dispatchers,
               Begin(c) \/ Break(c) \/ Published(c) \/ Refused(c) \/ MarkFails(c) \/ Abandon(c)
        PROVE  FALSE
    BY <2>3 DEF Begin, Break, PollEnds, Published, Refused, MarkFails, Abandon
  <2>4. ASSUME NEW c \in Dispatchers, Mark(c) \/ Release(c)
        PROVE  pc[d] \in {"mark", "release"} /\ pc'[d] = "loop" /\ event[d] = e
    <3>1. Holds(c, event[c]) /\ event[c] = e
      BY <2>0, <2>4 DEF TypeOK, Mark, Release
    <3>2. c = d
      BY <3>1 DEF Holds
    <3> QED BY <2>0, <2>4, <3>1, <3>2 DEF TypeOK, Mark, Release
  <2>5. CASE Tick
    BY <2>0, <2>5 DEF TypeOK, LeasesArePending, Tick
  <2> QED BY <2>1, <2>2, <2>3, <2>4, <2>5 DEF Next, Dispatch
<1> QED BY <1>1, Invariant, PTL DEF Spec, LeaseIsRespected
=============================================================================
