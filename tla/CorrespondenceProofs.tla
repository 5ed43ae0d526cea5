------------------------ MODULE CorrespondenceProofs ------------------------
(***************************************************************************)
(* Proofs about Correspondence for any number of transactions, messages    *)
(* and notifications, any retention and any size of a page.                *)
(*                                                                         *)
(* A client that is stale is told, because a view changes in three ways    *)
(* only: with the application, and then an event reaches both sides        *)
(* whatever they may see; by a write that has an event of its own for      *)
(* those who see it; and by the passing of time, which the bell has        *)
(* announced.  The last needs `Covered': every notification on a bell is   *)
(* looked at again when it expires.                                        *)
(***************************************************************************)
EXTENDS Correspondence, FiniteSetTheorems, TLAPS

-----------------------------------------------------------------------------
(***************************************************************************)
(* Types.                                                                  *)
(***************************************************************************)
ApplicationType ==
  [status : {"WAITING", "ACTIVE", "REJECTED", "WITHDRAWN", "ACCEPTED"}, active : BOOLEAN,
   reason : {"NONE", "NOT_SELECTED", "PROFILE_NO_LONGER_ELIGIBLE", "LISTING_RENTED",
             "POST_VIEWING_RESPONSE_EXPIRED"},
   listing : {"PUBLISHED", "PAUSED", "DRAFT", "RENTED"}]

Message == [from : Sides, read : BOOLEAN]

ConversationType == [opened : BOOLEAN, replies : BOOLEAN, messages : Seq(Message)]

NotificationType ==
  [id : Nat, to : Sides, appointment : Nat, createdAt : Nat, read : BOOLEAN, listed : BOOLEAN]

ReadingType == [pc : {"IDLE", "FOUND", "UPDATED"}, id : Nat, time : Nat]

ClientType == [through : Nat, asOf : Nat, revalidate : Nat \cup {Never}, stale : SUBSET Views]

TypeOK ==
  /\ application \in ApplicationType
  /\ conversation \in ConversationType
  /\ notifications \in SUBSET NotificationType
  /\ now \in Nat
  /\ began \in Nat \cup {Never}
  /\ reading \in [Sides -> ReadingType]
  /\ client \in [Sides -> ClientType]
  /\ made \in [transactions : Nat, notifications : Nat]

\* A notification is told each side once, and numbered as it is made.
NumbersIssued ==
  /\ \A n \in notifications : n.id <= made.notifications
  /\ \A m, n \in notifications : m.id = n.id /\ m.to = n.to => m = n

Told(s, v) == \E event \in outbox : v \in Hints(event, s)

Due(s) == client[s].revalidate # Never /\ client[s].revalidate <= now

\* What is on the bell is looked at again by the time it expires.
Covered(s) ==
  \/ Told(s, "bell")
  \/ Due(s)
  \/ \A n \in Visible(s, now) :
       client[s].revalidate # Never /\ client[s].revalidate <= n.createdAt + Retention

TellsInv ==
  /\ TypeOK
  /\ NumbersIssued
  /\ \A s \in Sides : Covered(s)
  /\ StaleClientsAreTold

-----------------------------------------------------------------------------
(***************************************************************************)
(* Helpers.                                                                *)
(***************************************************************************)
\* The least of a nonempty set of numbers.
LEMMA MinIsLeast ==
  ASSUME NEW D \in SUBSET Nat, D # {}
  PROVE  Min(D) \in D /\ \A d \in D : Min(D) <= d
<1> DEFINE R == OpToRel(<, Nat)
<1>1. \A m, n \in Nat : m < n => <<m, n>> \in R
  BY DEF OpToRel
<1> HIDE DEF R
<1>2. IsWellFoundedOn(R, Nat)
  BY NatLessThanWellFounded DEF R
<1>3. PICK d \in D : \A e \in D : ~ (<<e, d>> \in R)
  BY <1>2, WFMin
<1>4. \A e \in D : d <= e
  <2> TAKE e \in D
  <2>1. d \in Nat /\ e \in Nat /\ ~ (<<e, d>> \in R)
    BY <1>3
  <2> QED BY <1>1, <2>1
<1> QED BY <1>4 DEF Min

\* The bounds are numbers, and no time is none.
LEMMA Bounds == Retention \in Nat /\ PageLimit \in Nat /\ Never \notin Nat
BY CorrespondenceAssumption

\* A client that grows stale keeps what it has fetched.
LEMMA Growing ==
  ASSUME TypeOK, GrowStale
  PROVE  /\ client' \in [Sides -> ClientType]
         /\ \A s \in Sides :
              /\ client'[s].through = client[s].through
              /\ client'[s].asOf = client[s].asOf
              /\ client'[s].revalidate = client[s].revalidate
              /\ \A v \in Views : v \in client'[s].stale <=> v \in client[s].stale \/ Shows(s, v)' # Shows(s, v)
<1> DEFINE grown(s, more) == [client[s] EXCEPT !.stale = @ \cup more]
           other(s) == {v \in Views : Shows(s, v)' # Shows(s, v)}
<1>1. ASSUME NEW s \in Sides, NEW more \in SUBSET Views
      PROVE  /\ grown(s, more) \in ClientType
             /\ grown(s, more).through = client[s].through /\ grown(s, more).asOf = client[s].asOf
             /\ grown(s, more).revalidate = client[s].revalidate
             /\ grown(s, more).stale = client[s].stale \cup more
  <2>1. client[s] \in ClientType
    BY DEF TypeOK
  <2> QED BY <2>1 DEF ClientType
<1>2. client' = [s \in Sides |-> grown(s, other(s))]
  BY DEF GrowStale
<1>3. \A s \in Sides : /\ other(s) \in SUBSET Views
                       /\ \A v \in Views : v \in other(s) <=> Shows(s, v)' # Shows(s, v)
  OBVIOUS
<1> HIDE DEF other, grown
<1> QED BY <1>1, <1>2, <1>3

\* What a client has fetched has its type; what it asked for is no longer stale.
LEMMA FetchedHas ==
  ASSUME TypeOK, NEW s \in Sides, NEW views
  PROVE  /\ Fetched(s, views) \in ClientType
         /\ Fetched(s, views).stale = client[s].stale \ views
         /\ Fetched(s, views).revalidate = IF "bell" \in views THEN NextRevalidate(s) ELSE client[s].revalidate
         /\ NextRevalidate(s) # Never =>
              NextRevalidate(s) \in Nat /\ \A n \in Visible(s, now) : NextRevalidate(s) <= n.createdAt + Retention
         /\ NextRevalidate(s) = Never <=> Visible(s, now) = {}
<1>1. client[s] \in ClientType
  BY DEF TypeOK
<1>2. ASSUME "conversation" \in views
      PROVE  Min({Len(conversation.messages), client[s].through + PageLimit}) \in Nat
  <2>1. Len(conversation.messages) \in Nat
    BY DEF TypeOK, ConversationType
  <2>2. client[s].through + PageLimit \in Nat
    BY <1>1, Bounds DEF ClientType
  <2> DEFINE D == {Len(conversation.messages), client[s].through + PageLimit}
  <2>3. D \in SUBSET Nat /\ D # {}
    BY <2>1, <2>2
  <2> HIDE DEF D
  <2>4. Min(D) \in Nat
    BY <2>3, MinIsLeast
  <2> QED BY <2>4 DEF D
<1>3. CASE Visible(s, now) = {}
  <2>1. NextRevalidate(s) = Never
    BY <1>3 DEF NextRevalidate
  <2> QED BY <1>1, <1>2, <1>3, <2>1 DEF Fetched, ClientType, TypeOK
<1>4. CASE Visible(s, now) # {}
  <2> DEFINE D == {n.createdAt : n \in Visible(s, now)}
  <2>1. \A n \in Visible(s, now) : n.createdAt \in Nat
    BY DEF Visible, TypeOK, NotificationType
  <2>2. D \in SUBSET Nat /\ D # {}
    BY <1>4, <2>1
  <2>3. NextRevalidate(s) = Min(D) + Retention
    BY <1>4 DEF NextRevalidate
  <2>4. Min(D) \in Nat /\ \A n \in Visible(s, now) : Min(D) <= n.createdAt
    <3>1. \A n \in Visible(s, now) : n.createdAt \in D
      OBVIOUS
    <3> HIDE DEF D
    <3>2. Min(D) \in D /\ \A d \in D : Min(D) <= d
      BY <2>2, MinIsLeast
    <3> QED BY <2>2, <3>1, <3>2
  <2> HIDE DEF D
  <2>5. NextRevalidate(s) \in Nat /\ \A n \in Visible(s, now) : NextRevalidate(s) <= n.createdAt + Retention
    BY <2>1, <2>3, <2>4, Bounds
  <2>6. NextRevalidate(s) # Never
    BY <2>5, Bounds
  <2> QED BY <1>1, <1>2, <1>4, <2>5, <2>6 DEF Fetched, ClientType, TypeOK
<1> QED BY <1>3, <1>4

\* An event of the lifecycle makes both sides fetch all, whatever they may see.
LEMMA LifecycleTells ==
  ASSUME Lifecycle \in outbox'
  PROVE  \A s \in Sides, v \in Views : Told(s, v)'
<1>1. \A s \in Sides, v \in Views : v \in Hints(Lifecycle, s)'
  BY DEF Hints, ApplicationHints, Lifecycle, Viewing
<1> QED BY <1>1 DEF Told

\* An event of a viewing makes both sides fetch the bell.
LEMMA ViewingTells ==
  ASSUME Viewing \in outbox'
  PROVE  \A s \in Sides : Told(s, "bell")'
<1>1. \A s \in Sides : "bell" \in Hints(Viewing, s)'
  BY DEF Hints, ApplicationHints, Lifecycle, Viewing, Views
<1> QED BY <1>1 DEF Told

\* What is announced stays so while the application is as it was and the conversation open.
LEMMA StillTold ==
  ASSUME UNCHANGED application, conversation.opened => conversation'.opened,
         NEW s \in Sides, NEW v, NEW gone, outbox \ {gone} \subseteq outbox', v \notin Hints(gone, s)
  PROVE  Told(s, v) => Told(s, v)'
<1>1. \A event : v \in Hints(event, s) => v \in Hints(event, s)'
  BY DEF Hints, ApplicationHints, ConversationHints, Authorized, ProviderSees
<1> QED BY <1>1 DEF Told

\* The same of a step that takes no event back.
LEMMA StillToldAll ==
  ASSUME UNCHANGED application, conversation.opened => conversation'.opened, outbox \subseteq outbox'
  PROVE  \A s \in Sides, v \in Views : Told(s, v) => Told(s, v)'
<1>1. \A s \in Sides, v \in Views : \A event : v \in Hints(event, s) => v \in Hints(event, s)'
  BY DEF Hints, ApplicationHints, ConversationHints, Authorized, ProviderSees
<1> QED BY <1>1 DEF Told

-----------------------------------------------------------------------------
(***************************************************************************)
(* The rows of notifications.                                              *)
(***************************************************************************)
\* Every row comes from one of before that is equal, but it may have been read or listed.
RowsFollow ==
  /\ notifications' \in SUBSET NotificationType
  /\ \A n \in notifications' : \E m \in notifications :
       /\ n.id = m.id /\ n.to = m.to /\ n.createdAt = m.createdAt
       /\ n.appointment = m.appointment /\ (m.read => n.read) /\ (m.listed => n.listed)

\* What an activity tells is numbered, dated by its transaction and unread.
LEMMA Telling ==
  ASSUME TypeOK, NumbersIssued, NEW activity, activity.appointment \in Nat, began \in Nat, Tell(activity)
  PROVE  /\ notifications' \in SUBSET NotificationType
         /\ made' \in [transactions : Nat, notifications : Nat]
         /\ NumbersIssued'
         /\ notifications \subseteq notifications' /\ made'.notifications >= made.notifications
         /\ \A n \in notifications' : n \in notifications \/ (~n.read /\ n.id > made.notifications)
<1> DEFINE told == {s \in Recipients(activity) : ~AlreadyTold(activity, s)}
           next == made.notifications + 1
           new(s) == [id |-> next, to |-> s, appointment |-> activity.appointment,
                      createdAt |-> began, read |-> FALSE, listed |-> FALSE]
<1>1. made.notifications \in Nat /\ made.transactions \in Nat /\ next \in Nat
  BY DEF TypeOK
<1>2. told \in SUBSET Sides
  BY DEF Recipients
<1>3. \A s \in Sides : /\ new(s) \in NotificationType
                       /\ new(s).id = next /\ new(s).to = s /\ ~new(s).read
  BY <1>1 DEF NotificationType
<1>4. /\ notifications' = notifications \cup {new(s) : s \in told}
      /\ made' = [transactions |-> made.transactions + 1,
                  notifications |-> made.notifications + (IF told = {} THEN 0 ELSE 1)]
  BY DEF Tell
<1> HIDE DEF told, new
<1>5. \A n \in notifications' : n \in notifications \/ \E s \in told : n = new(s)
  BY <1>4
<1>6. notifications' \in SUBSET NotificationType
  BY <1>2, <1>3, <1>5 DEF TypeOK
<1>7. /\ made' \in [transactions : Nat, notifications : Nat]
      /\ made'.notifications = IF told = {} THEN made.notifications ELSE next
  BY <1>1, <1>4
<1>8. NumbersIssued'
  <2>1. \A n \in notifications : n.id \in Nat /\ n.id <= made.notifications
    BY DEF TypeOK, NotificationType, NumbersIssued
  <2>2. \A n \in notifications' : n.id <= made'.notifications
    BY <1>1, <1>2, <1>3, <1>5, <1>7, <2>1
  <2>3. ASSUME NEW m \in notifications', NEW n \in notifications', m.id = n.id, m.to = n.to
        PROVE  m = n
    <3>1. CASE m \in notifications /\ n \in notifications
      BY <2>3, <3>1 DEF NumbersIssued
    <3>2. CASE m \notin notifications /\ n \notin notifications
      BY <1>2, <1>3, <1>5, <2>3, <3>2
    <3>3. CASE m \in notifications /\ n \notin notifications
      BY <1>1, <1>2, <1>3, <1>5, <2>1, <2>3, <3>3
    <3>4. CASE m \notin notifications /\ n \in notifications
      BY <1>1, <1>2, <1>3, <1>5, <2>1, <2>3, <3>4
    <3> QED BY <3>1, <3>2, <3>3, <3>4
  <2> QED BY <2>2, <2>3 DEF NumbersIssued
<1>9. ASSUME NEW n \in notifications', n \notin notifications
      PROVE  ~n.read /\ n.id > made.notifications
  <2>1. n.id = next /\ ~n.read
    BY <1>2, <1>3, <1>5, <1>9
  <2>2. next > made.notifications
    BY <1>1
  <2> QED BY <2>1, <2>2
<1>10. made'.notifications >= made.notifications
  BY <1>1, <1>7
<1> QED BY <1>4, <1>6, <1>7, <1>8, <1>9, <1>10

\* Marking rows changes nothing but whether they are read.
LEMMA Marking ==
  ASSUME TypeOK, NumbersIssued, NEW S \in SUBSET notifications, Mark(S), made' = made
  PROVE  /\ RowsFollow /\ NumbersIssued'
         /\ \A n \in notifications' : n \in notifications \/ \E m \in S : n.id = m.id /\ n.to = m.to
         /\ notifications \ S \subseteq notifications'
<1> DEFINE marked(n) == [n EXCEPT !.read = TRUE]
<1>1. ASSUME NEW n \in NotificationType
      PROVE  /\ marked(n) \in NotificationType
             /\ marked(n).id = n.id /\ marked(n).to = n.to /\ marked(n).createdAt = n.createdAt
             /\ marked(n).appointment = n.appointment /\ marked(n).read
             /\ marked(n).listed = n.listed
  BY DEF NotificationType
<1>2. notifications' = (notifications \ S) \cup {marked(n) : n \in S}
  BY DEF Mark
<1> HIDE DEF marked
<1>3. \A n \in notifications' : n \in notifications \ S \/ \E m \in S : n = marked(m)
  BY <1>2
<1>4. \A n \in notifications : n \in NotificationType
  BY DEF TypeOK
<1>5. RowsFollow
  <2>1. notifications' \in SUBSET NotificationType
    BY <1>1, <1>3, <1>4
  <2>2. ASSUME NEW n \in notifications'
        PROVE  \E m \in notifications :
                 /\ n.id = m.id /\ n.to = m.to /\ n.createdAt = m.createdAt
                 /\ n.appointment = m.appointment /\ (m.read => n.read) /\ (m.listed => n.listed)
    BY <1>1, <1>3, <1>4
  <2> QED BY <2>1, <2>2 DEF RowsFollow
<1>6. NumbersIssued'
  <2>1. \A m, n \in notifications : m.id = n.id /\ m.to = n.to => m = n
    BY DEF NumbersIssued
  <2>2. \A n \in notifications' : n.id <= made'.notifications
    BY <1>1, <1>3, <1>4 DEF NumbersIssued
  <2>3. ASSUME NEW m \in notifications', NEW n \in notifications', m.id = n.id, m.to = n.to
        PROVE  m = n
    <3>1. CASE m \in notifications \ S /\ n \in notifications \ S
      BY <2>1, <2>3, <3>1
    <3>2. CASE m \in notifications \ S /\ \E k \in S : n = marked(k)
      BY <1>1, <1>4, <2>1, <2>3, <3>2
    <3>3. CASE n \in notifications \ S /\ \E k \in S : m = marked(k)
      BY <1>1, <1>4, <2>1, <2>3, <3>3
    <3>4. CASE (\E k \in S : m = marked(k)) /\ (\E k \in S : n = marked(k))
      <4>1. PICK j \in S, k \in S : m = marked(j) /\ n = marked(k)
        BY <3>4
      <4>2. j.id = k.id /\ j.to = k.to
        BY <1>1, <1>4, <2>3, <4>1
      <4>3. j = k
        BY <2>1, <4>2
      <4> QED BY <4>1, <4>3
    <3> QED BY <1>3, <3>1, <3>2, <3>3, <3>4
  <2> QED BY <2>2, <2>3 DEF NumbersIssued
<1>7. \A n \in notifications' : n \in notifications \/ \E m \in S : n.id = m.id /\ n.to = m.to
  BY <1>1, <1>3, <1>4
<1> QED BY <1>2, <1>5, <1>6, <1>7

\* Showing rows in a list changes nothing but whether they have been listed.
LEMMA Listing ==
  ASSUME TypeOK, NumbersIssued, NEW S, Listed(S), made' = made
  PROVE  /\ RowsFollow /\ NumbersIssued'
         /\ \A n \in notifications' : \E m \in notifications : n.id = m.id /\ n.to = m.to /\ n.read = m.read
<1> DEFINE shown(n) == n.to \in S /\ n \in Visible(n.to, now)
           listed(n) == [n EXCEPT !.listed = @ \/ shown(n)]
<1>1. ASSUME NEW n \in NotificationType
      PROVE  /\ listed(n) \in NotificationType
             /\ listed(n).id = n.id /\ listed(n).to = n.to /\ listed(n).createdAt = n.createdAt
             /\ listed(n).appointment = n.appointment /\ listed(n).read = n.read
             /\ (n.listed => listed(n).listed)
  <2>1. (n.listed \/ shown(n)) \in BOOLEAN
    BY DEF NotificationType
  <2> QED BY <2>1 DEF NotificationType
<1>2. notifications' = {listed(n) : n \in notifications}
  BY DEF Listed
<1> HIDE DEF listed
<1>3. \A n \in notifications' : \E m \in notifications : n = listed(m)
  BY <1>2
<1>4. \A n \in notifications : n \in NotificationType
  BY DEF TypeOK
<1>5. RowsFollow
  <2>1. notifications' \in SUBSET NotificationType
    BY <1>1, <1>3, <1>4
  <2>2. ASSUME NEW n \in notifications'
        PROVE  \E m \in notifications :
                 /\ n.id = m.id /\ n.to = m.to /\ n.createdAt = m.createdAt
                 /\ n.appointment = m.appointment /\ (m.read => n.read) /\ (m.listed => n.listed)
    BY <1>1, <1>3, <1>4
  <2> QED BY <2>1, <2>2 DEF RowsFollow
<1>6. NumbersIssued'
  <2>1. \A m, n \in notifications : m.id = n.id /\ m.to = n.to => m = n
    BY DEF NumbersIssued
  <2>2. \A n \in notifications' : n.id <= made'.notifications
    BY <1>1, <1>3, <1>4 DEF NumbersIssued
  <2>3. ASSUME NEW m \in notifications', NEW n \in notifications', m.id = n.id, m.to = n.to
        PROVE  m = n
    <3>1. PICK j \in notifications, k \in notifications : m = listed(j) /\ n = listed(k)
      BY <1>3
    <3>2. j.id = k.id /\ j.to = k.to
      BY <1>1, <1>4, <2>3, <3>1
    <3>3. j = k
      BY <2>1, <3>2
    <3> QED BY <3>1, <3>3
  <2> QED BY <2>2, <2>3 DEF NumbersIssued
<1>7. \A n \in notifications' : \E m \in notifications : n.id = m.id /\ n.to = m.to /\ n.read = m.read
  BY <1>1, <1>3, <1>4
<1> QED BY <1>5, <1>6, <1>7

\* A subset of the rows follows them.
LEMMA Fewer ==
  ASSUME TypeOK, NumbersIssued, notifications' \subseteq notifications, made' = made
  PROVE  RowsFollow /\ NumbersIssued'
<1>1. RowsFollow
  BY DEF RowsFollow, TypeOK
<1> QED BY <1>1 DEF NumbersIssued

-----------------------------------------------------------------------------
(***************************************************************************)
(* The transactions that write, and the step of each kind.                 *)
(***************************************************************************)
\* A transaction tells of an activity, or of none.
Tells == Silent \/ \E activity : activity.appointment \in Nat /\ Tell(activity)

\* What every transaction that writes has in common.
LEMMA Committing ==
  ASSUME TypeOK, NumbersIssued, NEW events, Commits(events), Tells,
         application' \in ApplicationType, conversation' \in ConversationType
  PROVE  /\ TypeOK' /\ NumbersIssued'
         /\ events \subseteq outbox' /\ outbox \subseteq outbox' /\ now' = now
         /\ notifications \subseteq notifications' /\ made'.notifications >= made.notifications
         /\ \A n \in notifications' : n \in notifications \/ (~n.read /\ n.id > made.notifications)
<1>1. /\ began \in Nat /\ began' = Never /\ outbox' = outbox \cup events
      /\ now' = now /\ reading' = reading /\ GrowStale
  BY DEF Commits, TypeOK
<1>2. client' \in [Sides -> ClientType]
  BY <1>1, Growing
<1>3. /\ notifications' \in SUBSET NotificationType
      /\ made' \in [transactions : Nat, notifications : Nat]
      /\ NumbersIssued'
      /\ notifications \subseteq notifications' /\ made'.notifications >= made.notifications
      /\ \A n \in notifications' : n \in notifications \/ (~n.read /\ n.id > made.notifications)
  <2>1. CASE Silent
    <3>1. notifications' = notifications /\ made' = [made EXCEPT !.transactions = @ + 1]
      BY <2>1 DEF Silent
    <3>2. made' \in [transactions : Nat, notifications : Nat] /\ made'.notifications = made.notifications
      BY <3>1 DEF TypeOK
    <3> QED BY <3>1, <3>2 DEF TypeOK, NumbersIssued
  <2>2. CASE \E activity : activity.appointment \in Nat /\ Tell(activity)
    BY <1>1, <2>2, Telling
  <2> QED BY <2>1, <2>2 DEF Tells
<1>4. TypeOK'
  BY <1>1, <1>2, <1>3 DEF TypeOK
<1> QED BY <1>1, <1>3, <1>4

\* Every activity of an appointment names it by a number.
LEMMA ActivitiesNumbered ==
  /\ \A actor, visibility : By(actor, visibility).appointment \in Nat
  /\ \A activity \in ViewingActivities : activity.appointment \in Nat
<1> DEFINE considered == [By("PROVIDER", "BOTH") EXCEPT !.appointment = 1]
<1>1. \A actor, visibility : By(actor, visibility).appointment = 0
  BY DEF By
<1>2. considered.appointment = 1
  BY DEF By
<1>3. \A activity \in ViewingActivities :
        (\E actor, visibility : activity = By(actor, visibility)) \/ activity = considered
  BY DEF ViewingActivities
<1> HIDE DEF considered
<1>4. ASSUME NEW activity \in ViewingActivities PROVE activity.appointment \in Nat
  <2>1. activity.appointment = 0 \/ activity.appointment = 1
    BY <1>1, <1>2, <1>3
  <2> QED BY <2>1
<1> QED BY <1>1, <1>4

\* The transactions of the lifecycle announce it to both sides.
LEMMA LifecycleStep ==
  ASSUME TypeOK, LifecycleNext
  PROVE  /\ \E events : Commits(events) /\ Lifecycle \in events
         /\ Tells /\ application' \in ApplicationType /\ conversation' = conversation
<1>0. /\ application \in ApplicationType
      /\ application.status \in {"WAITING", "ACTIVE", "REJECTED", "WITHDRAWN", "ACCEPTED"}
      /\ application.active \in BOOLEAN
      /\ application.reason \in {"NONE", "NOT_SELECTED", "PROFILE_NO_LONGER_ELIGIBLE", "LISTING_RENTED",
                                 "POST_VIEWING_RESPONSE_EXPIRED"}
      /\ application.listing \in {"PUBLISHED", "PAUSED", "DRAFT", "RENTED"}
  BY DEF TypeOK, ApplicationType
<1> DEFINE Goal == /\ \E events : Commits(events) /\ Lifecycle \in events
                   /\ Tells /\ application' \in ApplicationType /\ conversation' = conversation
<1>1. ASSUME NEW actor, NEW visibility, LifecycleChanges(By(actor, visibility)), application' \in ApplicationType
      PROVE  Goal
  <2>1. Tells
    BY <1>1, ActivitiesNumbered DEF LifecycleChanges, Tells
  <2> QED BY <1>1, <2>1 DEF LifecycleChanges
<1> HIDE DEF Goal
<1>2. CASE Promote
  <2>1. application' \in ApplicationType
    BY <1>0, <1>2 DEF Promote, ApplicationType
  <2> QED BY <1>1, <1>2, <2>1 DEF Promote, Goal
<1>3. CASE RejectByProvider
  <2>1. application' \in ApplicationType
    BY <1>0, <1>3 DEF RejectByProvider, ApplicationType
  <2> QED BY <1>1, <1>3, <2>1 DEF RejectByProvider, Goal
<1>4. CASE LoseEligibility
  <2>1. application' \in ApplicationType
    BY <1>0, <1>4 DEF LoseEligibility, ApplicationType
  <2> QED BY <1>1, <1>4, <2>1 DEF LoseEligibility, Goal
<1>5. CASE RestoreToActive
  <2>1. application' \in ApplicationType
    BY <1>0, <1>5 DEF RestoreToActive, ApplicationType
  <2> QED BY <1>1, <1>5, <2>1 DEF RestoreToActive, Goal
<1>6. CASE RestoreToWaiting
  <2>1. application' \in ApplicationType
    BY <1>0, <1>6 DEF RestoreToWaiting, ApplicationType
  <2> QED BY <1>1, <1>6, <2>1 DEF RestoreToWaiting, Goal
<1>7. CASE WithdrawApplication
  <2>1. application' \in ApplicationType
    BY <1>0, <1>7 DEF WithdrawApplication, Becomes, ApplicationType
  <2> QED BY <1>1, <1>7, <2>1 DEF WithdrawApplication, Goal
<1>8. CASE Rent
  <2>1. application' \in ApplicationType
    <3>1. [application EXCEPT !.status = "ACCEPTED", !.listing = "RENTED"] \in ApplicationType
      BY <1>0 DEF ApplicationType
    <3>2. [application EXCEPT !.status = "REJECTED", !.reason = "LISTING_RENTED", !.listing = "RENTED"] \in ApplicationType
      BY <1>0 DEF ApplicationType
    <3> QED BY <1>8, <3>1, <3>2 DEF Rent
  <2> QED BY <1>1, <1>8, <2>1 DEF Rent, Goal
<1>9. CASE ListingMoves
  <2>1. PICK to \in {"PUBLISHED", "PAUSED", "DRAFT"} :
          /\ UNCHANGED conversation
          /\ \/ application' = [application EXCEPT !.listing = to] /\ Silent /\ Commits(ListingInvalidates)
             \/ /\ application' = [application EXCEPT !.listing = to, !.status = "ACTIVE", !.active = TRUE]
                /\ Tell(By("SYSTEM", "BOTH")) /\ Commits(ListingInvalidates)
             \/ /\ application' = [application EXCEPT !.listing = to]
                /\ Tell(By("PROVIDER", "BOTH")) /\ Commits(ListingInvalidates \cup {Viewing})
    BY <1>9 DEF ListingMoves
  <2>2. /\ [application EXCEPT !.listing = to] \in ApplicationType
        /\ [application EXCEPT !.listing = to, !.status = "ACTIVE", !.active = TRUE] \in ApplicationType
    BY <1>0 DEF ApplicationType
  <2>3. application' \in ApplicationType
    BY <2>1, <2>2
  <2>4. Tells
    BY <2>1, ActivitiesNumbered DEF Tells
  <2>5. \E events : Commits(events) /\ Lifecycle \in events
    BY <2>1 DEF ListingInvalidates
  <2> QED BY <2>1, <2>3, <2>4, <2>5 DEF Goal
<1>10. CASE ExpireInterest
  <2>1. application' \in ApplicationType
    BY <1>0, <1>10 DEF ExpireInterest, ApplicationType
  <2>2. Tells
    BY <1>10, ActivitiesNumbered DEF ExpireInterest, Tells
  <2>3. Commits({Lifecycle, Viewing}) /\ conversation' = conversation
    BY <1>10 DEF ExpireInterest
  <2> QED BY <2>1, <2>2, <2>3 DEF Goal
<1> QED BY <1>2, <1>3, <1>4, <1>5, <1>6, <1>7, <1>8, <1>9, <1>10 DEF LifecycleNext, Goal

\* The viewings announce themselves, and change nothing else.
LEMMA ViewingStep ==
  ASSUME ViewingNext
  PROVE  Commits({Viewing}) /\ Tells /\ UNCHANGED <<application, conversation>>
<1>1. ASSUME NEW activity, activity.appointment \in Nat, ViewingWrites(activity)
      PROVE  Commits({Viewing}) /\ Tells /\ UNCHANGED <<application, conversation>>
  BY <1>1 DEF ViewingWrites, Tells
<1>2. CASE ViewingHappens
  BY <1>1, <1>2, ActivitiesNumbered DEF ViewingHappens
<1>3. CASE RecordOutcome
  BY <1>1, <1>3, ActivitiesNumbered DEF RecordOutcome
<1>4. CASE \E s \in Sides : Reconcile(s)
  BY <1>1, <1>4, ActivitiesNumbered DEF Reconcile
<1> QED BY <1>2, <1>3, <1>4 DEF ViewingNext

\* The transactions of the conversation announce it, and open it if it was not.
LEMMA ConversationStep ==
  ASSUME TypeOK, ConversationNext
  PROVE  /\ \E event \in {"message", "permission", "read"} : Commits({event})
         /\ Silent /\ UNCHANGED application
         /\ conversation' \in ConversationType /\ conversation'.opened
<1>0. /\ conversation \in ConversationType /\ conversation.messages \in Seq(Message)
      /\ conversation.opened \in BOOLEAN /\ conversation.replies \in BOOLEAN
  BY DEF TypeOK, ConversationType
<1> DEFINE Goal == /\ \E event \in {"message", "permission", "read"} : Commits({event})
                   /\ Silent /\ UNCHANGED application
                   /\ conversation' \in ConversationType /\ conversation'.opened
<1>1. ASSUME NEW event \in {"message", "permission", "read"}, ConversationWrites(event),
             conversation' \in ConversationType, conversation'.opened
      PROVE  Goal
  BY <1>1 DEF ConversationWrites
<1> HIDE DEF Goal
<1>2. ASSUME NEW s \in Sides, Send(s) PROVE Goal
  <2>1. conversation' = [conversation EXCEPT !.opened = TRUE,
                           !.messages = Append(@, [from |-> s, read |-> FALSE])]
    BY <1>2 DEF Send
  <2>2. [from |-> s, read |-> FALSE] \in Message
    BY DEF Message
  <2>3. Append(conversation.messages, [from |-> s, read |-> FALSE]) \in Seq(Message)
    BY <1>0, <2>2
  <2>4. conversation' \in ConversationType /\ conversation'.opened
    BY <1>0, <2>1, <2>3 DEF ConversationType
  <2> QED BY <1>1, <1>2, <2>4 DEF Send
<1>3. ASSUME NEW enabled \in BOOLEAN, SetReplies(enabled) PROVE Goal
  <2>1. conversation' \in ConversationType /\ conversation'.opened
    BY <1>0, <1>3 DEF SetReplies, ConversationType
  <2> QED BY <1>1, <1>3, <2>1 DEF SetReplies
<1>4. ASSUME NEW s \in Sides, MarkRead(s) PROVE Goal
  <2>1. ASSUME NEW through PROVE Marked(conversation.messages, s, through) \in Seq(Message)
    <3>1. \A i \in DOMAIN conversation.messages : conversation.messages[i] \in Message
      BY <1>0
    <3>2. \A m \in Message : [m EXCEPT !.read = TRUE] \in Message
      BY DEF Message
    <3>3. \A i \in 1..Len(conversation.messages) :
            (IF i <= through /\ i \in Unread(conversation.messages, s)
             THEN [conversation.messages[i] EXCEPT !.read = TRUE] ELSE conversation.messages[i]) \in Message
      BY <1>0, <3>1, <3>2
    <3>4. DOMAIN conversation.messages = 1..Len(conversation.messages) /\ Len(conversation.messages) \in Nat
      BY <1>0
    <3> QED BY <3>3, <3>4 DEF Marked
  <2>2. PICK through \in 1..client[s].through :
          /\ conversation' = [conversation EXCEPT !.messages = Marked(@, s, through)]
          /\ conversation.opened
    BY <1>4 DEF MarkRead
  <2>3. conversation' \in ConversationType /\ conversation'.opened
    BY <1>0, <2>1, <2>2 DEF ConversationType
  <2> QED BY <1>1, <1>4, <2>3 DEF MarkRead
<1> QED BY <1>2, <1>3, <1>4 DEF ConversationNext, Goal

-----------------------------------------------------------------------------
(***************************************************************************)
(* What is on the bell, and the steps.                                     *)
(***************************************************************************)
\* What side s sees on its bell it saw before, with the same dates.
BellShrinks(s) ==
  \A n \in Visible(s, now)' : \E m \in Visible(s, now) : m.createdAt = n.createdAt

\* The bell looks the same while the rows do and time stands still.
LEMMA SameBell ==
  ASSUME NEW s, Visible(s, now)' = Visible(s, now)
  PROVE  Bell(s)' = Bell(s)
BY DEF Bell

\* The summary depends on the application and the conversation.
LEMMA SameSummary ==
  ASSUME UNCHANGED <<application, conversation>>
  PROVE  \A s : Shows(s, "conversation")' = Shows(s, "conversation")
BY DEF Shows, Summary, Authorized, ProviderSees, CanSend, CanManageReplies, AllowsMutation

\* Rows that follow those of before show no more on a bell.
LEMMA FollowingShrinks ==
  ASSUME RowsFollow, UNCHANGED application, now \in Nat, now' \in Nat, now' >= now, TypeOK
  PROVE  \A s \in Sides : BellShrinks(s)
<1> SUFFICES ASSUME NEW s \in Sides, NEW n \in Visible(s, now)'
             PROVE  \E m \in Visible(s, now) : m.createdAt = n.createdAt
  BY DEF BellShrinks
<1>1. n \in notifications' /\ n.to = s /\ n.createdAt + Retention > now' /\ Authorized(s)
  BY DEF Visible, Authorized, ProviderSees
<1>2. PICK m \in notifications : m.to = n.to /\ m.createdAt = n.createdAt
  BY <1>1 DEF RowsFollow
<1>3. m.createdAt \in Nat
  BY DEF TypeOK, NotificationType
<1>4. m.createdAt + Retention > now
  BY <1>1, <1>2, <1>3, Bounds
<1> QED BY <1>1, <1>2, <1>4 DEF Visible

\* What was covered or told stays so, in a step that takes nothing back.
LEMMA StaysCovered ==
  ASSUME TypeOK, NEW s \in Sides, now' \in Nat, now' >= now,
         client'[s].revalidate = client[s].revalidate
  PROVE  /\ Due(s) => Due(s)'
         /\ Covered(s) /\ (Told(s, "bell") => Told(s, "bell")') /\ BellShrinks(s) => Covered(s)'
<1>1. client[s].revalidate \in Nat \cup {Never} /\ now \in Nat
  BY DEF TypeOK, ClientType
<1>2. Due(s) => Due(s)'
  BY <1>1, Bounds DEF Due
<1>3. ASSUME Covered(s), Told(s, "bell") => Told(s, "bell")', BellShrinks(s) PROVE Covered(s)'
  <2>1. CASE Told(s, "bell")
    BY <1>3, <2>1 DEF Covered
  <2>2. CASE Due(s)
    BY <1>2, <2>2 DEF Covered
  <2>3. CASE \A n \in Visible(s, now) :
               client[s].revalidate # Never /\ client[s].revalidate <= n.createdAt + Retention
    <3>1. ASSUME NEW n \in Visible(s, now)'
          PROVE  client'[s].revalidate # Never /\ client'[s].revalidate <= n.createdAt + Retention
      <4>1. PICK m \in Visible(s, now) : m.createdAt = n.createdAt
        BY <1>3 DEF BellShrinks
      <4> QED BY <2>3, <4>1
    <3> QED BY <3>1 DEF Covered
  <2> QED BY <1>3, <2>1, <2>2, <2>3 DEF Covered
<1> QED BY <1>2, <1>3

\* What a view that is stale after a step needs.
Announced(s, v) == Told(s, v)' \/ (v = "bell" /\ Due(s)')

\* With it for every view, and every bell covered, the invariant is kept.
LEMMA StepAnnounces ==
  ASSUME TellsInv, TypeOK', NumbersIssued',
         \A s \in Sides : Covered(s)',
         \A s \in Sides, v \in Views : v \in client'[s].stale => Announced(s, v)
  PROVE  TellsInv'
<1>1. \A s \in Sides : client'[s].stale \subseteq Views
  BY DEF TypeOK, ClientType
<1>2. StaleClientsAreTold'
  BY <1>1 DEF StaleClientsAreTold, Announced, Told, Due
<1> QED BY <1>2 DEF TellsInv

\* What was stale is announced as before, in a step that takes nothing back.
LEMMA StaysAnnounced ==
  ASSUME TellsInv, NEW s \in Sides, NEW v \in client[s].stale, now' \in Nat, now' >= now,
         client'[s].revalidate = client[s].revalidate, Told(s, v) => Told(s, v)'
  PROVE  Announced(s, v)
<1>1. Told(s, v) \/ (v = "bell" /\ Due(s))
  BY DEF TellsInv, StaleClientsAreTold, Told, Due
<1>2. Due(s) => Due(s)'
  BY StaysCovered DEF TellsInv
<1> QED BY <1>1, <1>2 DEF Announced

-----------------------------------------------------------------------------
\* The clients after a step with GrowStale that takes no event back: only what newly
\* differs, and the bells with more on them, have to be announced.
LEMMA GrowingStep ==
  ASSUME TellsInv, TypeOK', NumbersIssued', GrowStale, now' >= now,
         \A s \in Sides, v \in Views : Told(s, v) => Told(s, v)',
         \A s \in Sides, v \in Views : Shows(s, v)' # Shows(s, v) => Announced(s, v),
         \A s \in Sides : BellShrinks(s) \/ Told(s, "bell")'
  PROVE  TellsInv'
<1>1. /\ TypeOK /\ now \in Nat /\ now' \in Nat
      /\ \A s \in Sides : client'[s].revalidate = client[s].revalidate
      /\ \A s \in Sides, v \in Views : v \in client'[s].stale => v \in client[s].stale \/ Shows(s, v)' # Shows(s, v)
  <2>1. TypeOK
    BY DEF TellsInv
  <2> QED BY <2>1, Growing DEF TypeOK
<1>2. ASSUME NEW s \in Sides PROVE Covered(s)'
  <2>1. CASE Told(s, "bell")'
    BY <2>1 DEF Covered
  <2>2. CASE BellShrinks(s)
    <3>1. Covered(s) /\ (Told(s, "bell") => Told(s, "bell")')
      BY DEF TellsInv, Views
    <3> QED BY <1>1, <2>2, <3>1, StaysCovered
  <2> QED BY <2>1, <2>2
<1>3. ASSUME NEW s \in Sides, NEW v \in Views, v \in client'[s].stale PROVE Announced(s, v)
  <2>1. CASE v \in client[s].stale
    BY <1>1, <2>1, StaysAnnounced
  <2>2. CASE Shows(s, v)' # Shows(s, v)
    BY <2>2
  <2> QED BY <1>1, <1>3, <2>1, <2>2
<1> QED BY <1>2, <1>3, StepAnnounces

\* The lifecycle: both sides are told all.
LEMMA LifecycleKeeps ==
  ASSUME TellsInv, LifecycleNext
  PROVE  TellsInv'
<1>1. PICK events : Commits(events) /\ Lifecycle \in events
  BY LifecycleStep DEF TellsInv
<1>2. Tells /\ application' \in ApplicationType /\ conversation' \in ConversationType
  BY LifecycleStep DEF TellsInv, TypeOK
<1>3. TypeOK' /\ NumbersIssued' /\ Lifecycle \in outbox'
  BY <1>1, <1>2, Committing DEF TellsInv
<1>4. \A s \in Sides, v \in Views : Told(s, v)'
  BY <1>3, LifecycleTells
<1>5. \A s \in Sides : Covered(s)'
  BY <1>4 DEF Covered, Views
<1> QED BY <1>3, <1>4, <1>5, StepAnnounces DEF Announced

\* A viewing: both bells are told, and nothing else changes.
LEMMA ViewingKeeps ==
  ASSUME TellsInv, ViewingNext
  PROVE  TellsInv'
<1>1. /\ Commits({Viewing}) /\ Tells /\ UNCHANGED <<application, conversation>>
      /\ application' \in ApplicationType /\ conversation' \in ConversationType
  BY ViewingStep DEF TellsInv, TypeOK
<1>2. TypeOK' /\ NumbersIssued' /\ Viewing \in outbox' /\ outbox \subseteq outbox' /\ now' = now
  BY <1>1, Committing DEF TellsInv
<1>3. \A s \in Sides : Told(s, "bell")'
  BY <1>2, ViewingTells
<1>4. \A s \in Sides, v \in Views : Told(s, v) => Told(s, v)'
  BY <1>1, <1>2, StillToldAll
<1>5. \A s \in Sides, v \in Views : Shows(s, v)' # Shows(s, v) => Announced(s, v)
  BY <1>1, <1>3, SameSummary DEF Announced, Views
<1>6. GrowStale /\ now' >= now
  BY <1>1, <1>2 DEF Commits, TypeOK, TellsInv
<1> QED BY <1>2, <1>3, <1>4, <1>5, <1>6, GrowingStep

\* The conversation: those who see it are told.
LEMMA ConversationKeeps ==
  ASSUME TellsInv, ConversationNext
  PROVE  TellsInv'
<1>1. PICK event \in {"message", "permission", "read"} : Commits({event})
  BY ConversationStep DEF TellsInv
<1>2. /\ Silent /\ Tells /\ application' = application /\ application' \in ApplicationType
      /\ conversation' \in ConversationType /\ conversation'.opened
  BY ConversationStep DEF TellsInv, TypeOK, Tells
<1>3. TypeOK' /\ NumbersIssued' /\ event \in outbox' /\ outbox \subseteq outbox' /\ now' = now
  BY <1>1, <1>2, Committing DEF TellsInv
<1>4. \A s \in Sides, v \in Views : Told(s, v) => Told(s, v)'
  BY <1>2, <1>3, StillToldAll
<1>5. ASSUME NEW s \in Sides
      PROVE  /\ Visible(s, now)' = Visible(s, now)
             /\ Shows(s, "bell")' = Shows(s, "bell")
             /\ Shows(s, "conversation")' # Shows(s, "conversation") => Told(s, "conversation")'
  <2>1. Visible(s, now)' = Visible(s, now)
    BY <1>2, <1>3 DEF Silent, Visible, Authorized, ProviderSees
  <2>2. Shows(s, "bell")' = Shows(s, "bell")
    BY <2>1, SameBell DEF Shows
  <2>3. ASSUME Shows(s, "conversation")' # Shows(s, "conversation") PROVE Told(s, "conversation")'
    <3>1. Authorized(s)' = Authorized(s)
      BY <1>2 DEF Authorized, ProviderSees
    <3>2. Authorized(s)'
      BY <2>3, <3>1 DEF Shows, Summary
    <3>3. "conversation" \in Hints(event, s)'
      BY <1>2, <3>2 DEF Hints, ConversationHints, Lifecycle, Viewing
    <3> QED BY <1>3, <3>3 DEF Told
  <2> QED BY <2>1, <2>2, <2>3
<1>6. \A s \in Sides, v \in Views : Shows(s, v)' # Shows(s, v) => Announced(s, v)
  BY <1>5 DEF Announced, Views
<1>7. GrowStale /\ now' >= now
  BY <1>1, <1>3 DEF Commits, TypeOK, TellsInv
<1>8. \A s \in Sides : BellShrinks(s)
  BY <1>5 DEF BellShrinks
<1> QED BY <1>3, <1>4, <1>6, <1>7, <1>8, GrowingStep

-----------------------------------------------------------------------------
\* Marking what one side sees, with the event for that side.
LEMMA MarkingKeeps ==
  ASSUME TellsInv, NEW s \in Sides, NEW S \in SUBSET {n \in notifications : n.to = s},
         Mark(S), Changed(s), GrowStale, UNCHANGED <<application, conversation, now, began, made>>,
         reading' \in [Sides -> ReadingType]
  PROVE  TellsInv'
<1>0. TypeOK /\ NumbersIssued /\ now \in Nat /\ S \in SUBSET notifications
  BY DEF TellsInv, TypeOK
<1>1. /\ RowsFollow /\ NumbersIssued'
      /\ \A n \in notifications' : n \in notifications \/ \E m \in S : n.id = m.id /\ n.to = m.to
      /\ notifications \ S \subseteq notifications'
  BY <1>0, Marking
<1>2. client' \in [Sides -> ClientType]
  BY <1>0, Growing
<1>3. TypeOK'
  BY <1>0, <1>1, <1>2 DEF TypeOK, RowsFollow
<1>4. outbox \subseteq outbox' /\ NotificationsChanged[s] \in outbox'
  BY DEF Changed
<1>5. \A t \in Sides, v \in Views : Told(t, v) => Told(t, v)'
  BY <1>4, StillToldAll
<1>6. Told(s, "bell")'
  <2>1. "bell" \in Hints(NotificationsChanged[s], s)'
    BY DEF Hints, NotificationsChanged, Sides, Lifecycle, Viewing
  <2> QED BY <1>4, <2>1 DEF Told
<1>7. \A t \in Sides : BellShrinks(t)
  BY <1>0, <1>1, FollowingShrinks
<1>8. ASSUME NEW t \in Sides, t # s PROVE Shows(t, "bell")' = Shows(t, "bell")
  <2>1. \A n \in notifications' : n.to = t => n \in notifications
    BY <1>1, <1>8
  <2>2. \A n \in notifications : n.to = t => n \in notifications'
    BY <1>1, <1>8
  <2>3. Visible(t, now)' = Visible(t, now)
    BY <2>1, <2>2 DEF Visible, Authorized, ProviderSees
  <2> QED BY <2>3, SameBell DEF Shows
<1>9. \A t \in Sides, v \in Views : Shows(t, v)' # Shows(t, v) => Announced(t, v)
  BY <1>6, <1>8, SameSummary DEF Announced, Views
<1>10. now' >= now
  BY <1>0
<1> QED BY <1>1, <1>3, <1>5, <1>7, <1>9, <1>10, GrowingStep

\* A step that leaves bells and summaries as they are, with GrowStale or without.
LEMMA NothingChanges ==
  ASSUME TellsInv, TypeOK', NumbersIssued', UNCHANGED <<application, conversation, now, outbox>>,
         GrowStale \/ UNCHANGED client,
         \A s \in Sides : Visible(s, now)' = Visible(s, now)
  PROVE  TellsInv'
<1>1. \A s \in Sides, v \in Views : Told(s, v) => Told(s, v)'
  BY StillToldAll
<1>2. \A s \in Sides : BellShrinks(s)
  BY DEF BellShrinks
<1>3. now \in Nat /\ now' >= now /\ now' \in Nat /\ TypeOK
  BY DEF TellsInv, TypeOK
<1>4. CASE GrowStale
  <2>1. \A s \in Sides : Shows(s, "bell")' = Shows(s, "bell")
    BY SameBell DEF Shows
  <2>2. \A s \in Sides, v \in Views : Shows(s, v)' # Shows(s, v) => Announced(s, v)
    BY <2>1, SameSummary DEF Views
  <2> QED BY <1>1, <1>2, <1>3, <1>4, <2>2, GrowingStep
<1>5. CASE UNCHANGED client
  <2>1. \A s \in Sides : Covered(s)'
    <3> TAKE s \in Sides
    <3>1. Covered(s) /\ (Told(s, "bell") => Told(s, "bell")') /\ client'[s].revalidate = client[s].revalidate
      BY <1>1, <1>5 DEF TellsInv, Views
    <3> QED BY <1>2, <1>3, <3>1, StaysCovered
  <2>2. ASSUME NEW s \in Sides, NEW v \in Views, v \in client'[s].stale PROVE Announced(s, v)
    BY <1>1, <1>3, <1>5, <2>2, StaysAnnounced
  <2> QED BY <2>1, <2>2, StepAnnounces
<1> QED BY <1>4, <1>5

\* The bell's requests, and what retention takes away.
LEMMA BellKeeps ==
  ASSUME TellsInv, BellNext
  PROVE  TellsInv'
<1>0. TypeOK /\ NumbersIssued /\ now \in Nat
  BY DEF TellsInv, TypeOK
<1>1. ASSUME NEW s \in Sides, FindNotification(s) PROVE TellsInv'
  <2>1. PICK n \in notifications : reading' = [reading EXCEPT ![s] = [pc |-> "FOUND", id |-> n.id, time |-> now]]
    BY <1>1 DEF FindNotification, Visible
  <2>2. [pc |-> "FOUND", id |-> n.id, time |-> now] \in ReadingType
    BY <1>0 DEF TypeOK, NotificationType, ReadingType
  <2>3. UNCHANGED <<application, conversation, notifications, now, began, outbox, client, made>>
    BY <1>1 DEF FindNotification
  <2>4. TypeOK' /\ NumbersIssued'
    BY <1>0, <2>1, <2>2, <2>3 DEF TypeOK, NumbersIssued
  <2>5. \A t \in Sides : Visible(t, now)' = Visible(t, now)
    BY <2>3 DEF Visible, Authorized, ProviderSees
  <2> QED BY <2>3, <2>4, <2>5, NothingChanges
<1>a. Idle \in ReadingType
  BY DEF Idle, ReadingType
<1>2. ASSUME NEW s \in Sides, UpdateNotification(s) PROVE TellsInv'
  <2>1. reading' \in [Sides -> ReadingType]
    <3>1. [reading[s] EXCEPT !.pc = "UPDATED"] \in ReadingType
      BY <1>0 DEF TypeOK, ReadingType
    <3>2. \E r \in ReadingType : reading' = [reading EXCEPT ![s] = r]
      BY <1>2, <1>a, <3>1 DEF UpdateNotification
    <3> QED BY <1>0, <3>2 DEF TypeOK
  <2>2. UNCHANGED <<application, conversation, notifications, now, began, outbox, client, made>>
    BY <1>2 DEF UpdateNotification
  <2>3. TypeOK' /\ NumbersIssued'
    BY <1>0, <2>1, <2>2 DEF TypeOK, NumbersIssued
  <2>4. \A t \in Sides : Visible(t, now)' = Visible(t, now)
    BY <2>2 DEF Visible, Authorized, ProviderSees
  <2> QED BY <2>2, <2>3, <2>4, NothingChanges
<1>3. ASSUME NEW s \in Sides, AnswerNotification(s) PROVE TellsInv'
  <2>1. /\ UNCHANGED <<application, conversation, now, began, made>> /\ GrowStale
        /\ reading' = [reading EXCEPT ![s] = Idle]
    BY <1>3 DEF AnswerNotification
  <2>2. reading' \in [Sides -> ReadingType]
    BY <1>0, <1>a, <2>1 DEF TypeOK
  <2>3. CASE Sought(s) # {}
    <3>1. Mark(Sought(s)) /\ Changed(s)
      BY <1>3, <2>3 DEF AnswerNotification
    <3>2. Sought(s) \in SUBSET {n \in notifications : n.to = s}
      BY DEF Sought, Visible
    <3> QED BY <2>1, <2>2, <3>1, <3>2, MarkingKeeps
  <2>4. CASE Sought(s) = {}
    <3>1. UNCHANGED <<notifications, outbox>>
      BY <1>3, <2>4 DEF AnswerNotification
    <3>2. client' \in [Sides -> ClientType]
      BY <1>0, <2>1, Growing
    <3>3. TypeOK' /\ NumbersIssued'
      BY <1>0, <2>1, <2>2, <3>1, <3>2 DEF TypeOK, NumbersIssued
    <3>4. \A t \in Sides : Visible(t, now)' = Visible(t, now)
      BY <2>1, <3>1 DEF Visible, Authorized, ProviderSees
    <3> QED BY <2>1, <3>1, <3>3, <3>4, NothingChanges
  <2> QED BY <2>3, <2>4
<1>4. ASSUME NEW s \in Sides, MarkAllRead(s) PROVE TellsInv'
  <2>0. PICK through \in 0..client[s].asOf :
          LET marked == {n \in Visible(s, now) : ~n.read /\ n.createdAt <= through}
          IN  marked # {} /\ Mark(marked) /\ Changed(s)
    BY <1>4 DEF MarkAllRead
  <2>1. PICK S : S = {n \in Visible(s, now) : ~n.read /\ n.createdAt <= through} /\ Mark(S) /\ Changed(s)
    BY <2>0
  <2>2. S \in SUBSET {n \in notifications : n.to = s}
    BY <2>1 DEF Visible
  <2>3. UNCHANGED <<application, conversation, now, began, reading, made>> /\ GrowStale
    BY <1>4 DEF MarkAllRead
  <2>4. reading' \in [Sides -> ReadingType]
    BY <1>0, <2>3 DEF TypeOK
  <2> QED BY <2>1, <2>2, <2>3, <2>4, MarkingKeeps
<1>5. ASSUME Purge PROVE TellsInv'
  <2>1. /\ notifications' = {n \in notifications : n.createdAt + Retention > now}
        /\ UNCHANGED <<application, conversation, now, began, outbox, reading, made>> /\ GrowStale
    BY <1>5 DEF Purge
  <2>2. client' \in [Sides -> ClientType]
    BY <1>0, <2>1, Growing
  <2>3. RowsFollow /\ NumbersIssued'
    BY <1>0, <2>1, Fewer
  <2>4. TypeOK'
    BY <1>0, <2>1, <2>2, <2>3 DEF TypeOK, RowsFollow
  <2>5. \A t \in Sides : Visible(t, now)' = Visible(t, now)
    BY <2>1 DEF Visible, Authorized, ProviderSees
  <2> QED BY <2>1, <2>3, <2>4, <2>5, NothingChanges
<1> QED BY <1>1, <1>2, <1>3, <1>4, <1>5 DEF BellNext

\* Clients that fetch some views, while an event that asks for no other is taken away.
LEMMA FetchingKeeps ==
  ASSUME TellsInv, NEW S, Listed(S), NEW gone,
         UNCHANGED <<application, conversation, now, began, reading, made>>,
         outbox \ {gone} \subseteq outbox',
         NEW views \in [Sides -> SUBSET Views],
         client' = [s \in Sides |-> Fetched(s, views[s])],
         gone \in outbox \ outbox' => \A s \in Sides : Hints(gone, s) \subseteq views[s]
  PROVE  TellsInv'
<1>0. TypeOK /\ NumbersIssued /\ now \in Nat /\ now' \in Nat /\ now' >= now
  BY DEF TellsInv, TypeOK
<1>1. RowsFollow /\ NumbersIssued'
  BY <1>0, Listing
<1>2. ASSUME NEW s \in Sides
      PROVE  /\ client'[s] \in ClientType
             /\ client'[s].stale = client[s].stale \ views[s]
             /\ client'[s].revalidate = IF "bell" \in views[s] THEN NextRevalidate(s) ELSE client[s].revalidate
  <2>1. client'[s] = Fetched(s, views[s])
    OBVIOUS
  <2> QED BY <1>0, <2>1, FetchedHas
<1>3. TypeOK'
  <2>1. client' \in [Sides -> ClientType]
    BY <1>2
  <2> QED BY <1>0, <1>1, <2>1 DEF TypeOK, RowsFollow
<1>4. \A s \in Sides : BellShrinks(s)
  BY <1>0, <1>1, FollowingShrinks
<1>5. ASSUME NEW s \in Sides, NEW v \in Views, v \notin views[s] PROVE Told(s, v) => Told(s, v)'
  <2>1. \A event : v \in Hints(event, s) => v \in Hints(event, s)'
    BY DEF Hints, ApplicationHints, ConversationHints, Authorized, ProviderSees
  <2>2. \A event \in outbox : v \in Hints(event, s) => event \in outbox'
    BY <1>5
  <2> QED BY <2>1, <2>2 DEF Told
<1>6. ASSUME NEW s \in Sides PROVE Covered(s)'
  <2>1. CASE "bell" \in views[s]
    <3>1. client'[s].revalidate = NextRevalidate(s)
      BY <1>2, <2>1
    <3>2. ASSUME NEW n \in Visible(s, now)'
          PROVE  client'[s].revalidate # Never /\ client'[s].revalidate <= n.createdAt + Retention
      <4>1. PICK m \in Visible(s, now) : m.createdAt = n.createdAt
        BY <1>4 DEF BellShrinks
      <4>2. NextRevalidate(s) # Never
        BY <1>0, <4>1, FetchedHas
      <4>3. NextRevalidate(s) <= m.createdAt + Retention
        BY <1>0, <4>1, <4>2, FetchedHas
      <4> QED BY <3>1, <4>1, <4>2, <4>3
    <3> QED BY <3>2 DEF Covered
  <2>2. CASE "bell" \notin views[s]
    <3>1. client'[s].revalidate = client[s].revalidate /\ (Told(s, "bell") => Told(s, "bell")') /\ Covered(s)
      BY <1>2, <1>5, <2>2 DEF Views, TellsInv
    <3> QED BY <1>0, <1>4, <3>1, StaysCovered
  <2> QED BY <2>1, <2>2
<1>7. ASSUME NEW s \in Sides, NEW v \in Views, v \in client'[s].stale PROVE Announced(s, v)
  <2>1. v \in client[s].stale /\ v \notin views[s]
    BY <1>2, <1>7
  <2>2. Told(s, v) => Told(s, v)'
    BY <1>5, <2>1
  <2>3. CASE "bell" \notin views[s]
    <3>1. client'[s].revalidate = client[s].revalidate
      BY <1>2, <2>3
    <3> QED BY <1>0, <2>1, <2>2, <3>1, StaysAnnounced
  <2>4. CASE "bell" \in views[s]
    <3>1. v # "bell"
      BY <2>1, <2>4
    <3>2. Told(s, v)
      BY <2>1, <3>1 DEF TellsInv, StaleClientsAreTold, Told
    <3> QED BY <2>2, <3>2 DEF Announced
  <2> QED BY <2>3, <2>4
<1> QED BY <1>1, <1>3, <1>6, <1>7, StepAnnounces

\* Time: what expires has been announced.
LEMMA TickKeeps ==
  ASSUME TellsInv, Tick
  PROVE  TellsInv'
<1>0. /\ TypeOK /\ NumbersIssued /\ now \in Nat /\ now' = now + 1 /\ now' \in Nat /\ now' >= now
      /\ UNCHANGED <<application, conversation, notifications, began, outbox, reading, made>> /\ GrowStale
  BY DEF Tick, TellsInv, TypeOK
<1>1. client' \in [Sides -> ClientType] /\ \A s \in Sides : client'[s].revalidate = client[s].revalidate
  BY <1>0, Growing
<1>2. TypeOK' /\ NumbersIssued'
  BY <1>0, <1>1 DEF TypeOK, NumbersIssued
<1>3. \A s \in Sides, v \in Views : Told(s, v) => Told(s, v)'
  BY <1>0, StillToldAll
<1>4. \A s \in Sides : BellShrinks(s)
  <2>1. RowsFollow
    BY <1>0, Fewer
  <2> QED BY <1>0, <2>1, FollowingShrinks
<1>5. ASSUME NEW s \in Sides, Shows(s, "bell")' # Shows(s, "bell") PROVE Announced(s, "bell")
  <2>1. Visible(s, now)' # Visible(s, now)
    BY <1>5, SameBell DEF Shows
  <2>2. PICK n \in Visible(s, now) : n.createdAt + Retention <= now'
    <3>1. \A n \in notifications : n.createdAt \in Nat
      BY <1>0 DEF TypeOK, NotificationType
    <3>2. Visible(s, now)' = {n \in Visible(s, now) : n.createdAt + Retention > now'}
      <4>1. \A n \in notifications : n.createdAt + Retention > now' => n.createdAt + Retention > now
        BY <1>0, <3>1, Bounds
      <4> QED BY <1>0, <4>1 DEF Visible, Authorized, ProviderSees
    <3>3. \A n \in Visible(s, now) : n.createdAt \in Nat
      BY <3>1 DEF Visible
    <3> QED BY <1>0, <2>1, <3>2, <3>3, Bounds
  <2>3. CASE Told(s, "bell")
    BY <1>3, <2>3 DEF Announced, Views
  <2>4. CASE Due(s)
    BY <1>0, <1>1, <2>4, StaysCovered DEF Announced
  <2>5. CASE client[s].revalidate # Never /\ client[s].revalidate <= n.createdAt + Retention
    <3>1. client[s].revalidate \in Nat /\ n.createdAt \in Nat
      BY <1>0, <2>5 DEF TypeOK, ClientType, Visible, NotificationType
    <3>2. client'[s].revalidate # Never /\ client'[s].revalidate <= now'
      BY <1>0, <1>1, <2>2, <2>5, <3>1, Bounds
    <3> QED BY <3>2 DEF Announced, Due
  <2>6. Covered(s)
    BY DEF TellsInv
  <2> QED BY <2>3, <2>4, <2>5, <2>6 DEF Covered
<1>6. \A s \in Sides, v \in Views : Shows(s, v)' # Shows(s, v) => Announced(s, v)
  BY <1>0, <1>5, SameSummary DEF Views
<1> QED BY <1>0, <1>2, <1>3, <1>4, <1>6, GrowingStep

-----------------------------------------------------------------------------
\* The invariant holds initially: the clients have fetched all there is.
LEMMA InitTells == Init => TellsInv
<1> SUFFICES ASSUME Init PROVE TellsInv
  OBVIOUS
<1>1. application \in ApplicationType
  <2>1. New("WAITING") \in ApplicationType /\ New("ACTIVE") \in ApplicationType
    BY DEF New, ApplicationType
  <2>2. Rejected \in ApplicationType
    BY DEF New, Rejected, ApplicationType
  <2> QED BY <2>1, <2>2 DEF Init
<1>2. conversation \in ConversationType
  <2>1. ASSUME NEW s \in Sides PROVE Opened(s) \in ConversationType
    <3> DEFINE one == <<[from |-> s, read |-> FALSE]>>
    <3>1. [from |-> s, read |-> FALSE] \in Message
      BY DEF Message
    <3>2. one \in Seq(Message) /\ Opened(s) = [opened |-> TRUE, replies |-> s = "APPLICANT", messages |-> one]
      BY <3>1 DEF Opened
    <3>3. (s = "APPLICANT") \in BOOLEAN
      OBVIOUS
    <3> HIDE DEF one
    <3> QED BY <3>2, <3>3 DEF ConversationType
  <2>2. [opened |-> FALSE, replies |-> FALSE, messages |-> <<>>] \in ConversationType
    <3>1. <<>> \in Seq(Message)
      OBVIOUS
    <3> QED BY <3>1 DEF ConversationType
  <2> QED BY <2>1, <2>2 DEF Init, Sides
<1>3. /\ notifications \in SUBSET NotificationType /\ notifications \subseteq {Earlier}
      /\ notifications # {} => made.notifications = 1
      /\ made \in [transactions : Nat, notifications : Nat]
  <2>1. Earlier \in NotificationType
    BY DEF Earlier, NotificationType, Sides
  <2>2. CASE notifications = {} /\ made = [transactions |-> 0, notifications |-> 0]
    BY <2>2
  <2>3. CASE notifications = {Earlier} /\ made = [transactions |-> 0, notifications |-> 1]
    BY <2>1, <2>3
  <2> QED BY <2>2, <2>3 DEF Init
<1>4. reading \in [Sides -> ReadingType]
  BY DEF Init, Idle, ReadingType
<1>5. now \in Nat /\ began \in Nat \cup {Never} /\ outbox = {}
  BY DEF Init
<1>6. ASSUME NEW s \in Sides
      PROVE  /\ NextRevalidate(s) \in Nat \cup {Never}
             /\ \A n \in Visible(s, now) : NextRevalidate(s) # Never /\ NextRevalidate(s) <= n.createdAt + Retention
  <2>1. CASE Visible(s, now) = {}
    BY <2>1 DEF NextRevalidate
  <2>2. CASE Visible(s, now) # {}
    <3>1. Visible(s, now) = {Earlier} /\ Earlier.createdAt = 0
      BY <1>3, <2>2 DEF Visible, Earlier
    <3> DEFINE D == {n.createdAt : n \in Visible(s, now)}
    <3>2. D = {0}
      BY <3>1
    <3>3. NextRevalidate(s) = Min(D) + Retention
      BY <2>2 DEF NextRevalidate
    <3> HIDE DEF D
    <3>5. Min(D) = 0
      <4>1. D \in SUBSET Nat /\ D # {}
        BY <3>2
      <4> QED BY <3>2, <4>1, MinIsLeast
    <3>4. NextRevalidate(s) = Retention
      BY <3>3, <3>5, Bounds
    <3> QED BY <3>1, <3>4, Bounds
  <2> QED BY <2>1, <2>2
<1>7. \A s \in Sides : /\ client[s] \in ClientType /\ client[s].stale = {}
                       /\ client[s].revalidate = NextRevalidate(s)
  BY <1>6 DEF Init, ClientType
<1>8. client \in [Sides -> ClientType]
  BY <1>7 DEF Init
<1>9. TypeOK
  BY <1>1, <1>2, <1>3, <1>4, <1>5, <1>8 DEF TypeOK
<1>10. NumbersIssued
  <2>1. Earlier.id = 1
    BY DEF Earlier
  <2>2. \A n \in notifications : n = Earlier /\ made.notifications = 1
    BY <1>3
  <2>3. \A n \in notifications : n.id <= made.notifications
    BY <2>1, <2>2
  <2> QED BY <2>2, <2>3 DEF NumbersIssued
<1>11. \A s \in Sides : Covered(s)
  BY <1>6, <1>7 DEF Covered
<1>12. StaleClientsAreTold
  BY <1>7 DEF StaleClientsAreTold
<1> QED BY <1>9, <1>10, <1>11, <1>12 DEF TellsInv

\* The invariant is inductive.
LEMMA StepTells == TellsInv /\ [Next]_vars => TellsInv'
<1> SUFFICES ASSUME TellsInv, [Next]_vars PROVE TellsInv'
  OBVIOUS
<1>0. TypeOK /\ NumbersIssued
  BY DEF TellsInv
<1>1. CASE Begin
  <2>1. /\ UNCHANGED <<application, conversation, notifications, now, outbox, reading, client, made>>
        /\ began' = now
    BY <1>1 DEF Begin
  <2>2. TypeOK' /\ NumbersIssued'
    BY <1>0, <2>1 DEF TypeOK, NumbersIssued
  <2>3. \A t \in Sides : Visible(t, now)' = Visible(t, now)
    BY <2>1 DEF Visible, Authorized, ProviderSees
  <2> QED BY <2>1, <2>2, <2>3, NothingChanges
<1>2. ASSUME NEW s \in Sides, NEW v \in Views, Fetch(s, v) PROVE TellsInv'
  <2> DEFINE views == [t \in Sides |-> IF t = s THEN {v} ELSE {}]
  <2>1. client' = [client EXCEPT ![s] = Fetched(s, {v})]
    BY <1>2 DEF Fetch
  <2>2. ASSUME NEW t \in Sides PROVE Fetched(t, {}) = client[t]
    <3>1. client[t] \in ClientType
      BY <1>0 DEF TypeOK
    <3> QED BY <3>1 DEF Fetched, ClientType
  <2>3. client' = [t \in Sides |-> Fetched(t, views[t])]
    BY <1>0, <2>1, <2>2 DEF TypeOK
  <2>4. views \in [Sides -> SUBSET Views]
    OBVIOUS
  <2>5. Listed(IF v = "bell" THEN {s} ELSE {})
        /\ UNCHANGED <<application, conversation, now, began, outbox, reading, made>>
    BY <1>2 DEF Fetch
  <2> HIDE DEF views
  <2> QED BY <2>3, <2>4, <2>5, FetchingKeeps
<1>3. ASSUME NEW event \in outbox, Deliver(event) PROVE TellsInv'
  <2> DEFINE views == [t \in Sides |-> Hints(event, t)]
  <2>1. views \in [Sides -> SUBSET Views]
    BY DEF Hints, ApplicationHints, ConversationHints, Views
  <2>2. client' = [t \in Sides |-> Fetched(t, views[t])] /\ outbox' = outbox \ {event}
    BY <1>3 DEF Deliver
  <2>3. Listed({s \in Sides : "bell" \in Hints(event, s)})
        /\ UNCHANGED <<application, conversation, now, began, reading, made>>
    BY <1>3 DEF Deliver
  <2>4. \A t \in Sides : Hints(event, t) \subseteq views[t]
    OBVIOUS
  <2> HIDE DEF views
  <2> QED BY <2>1, <2>2, <2>3, <2>4, FetchingKeeps
<1>4. CASE UNCHANGED vars
  <2>1. UNCHANGED <<application, conversation, notifications, now, began, outbox, reading, client, made>>
    BY <1>4 DEF vars
  <2>2. TypeOK' /\ NumbersIssued'
    BY <1>0, <2>1 DEF TypeOK, NumbersIssued
  <2>3. \A t \in Sides : Visible(t, now)' = Visible(t, now)
    BY <2>1 DEF Visible, Authorized, ProviderSees
  <2> QED BY <2>1, <2>2, <2>3, NothingChanges
<1> QED BY <1>1, <1>2, <1>3, <1>4, LifecycleKeeps, ViewingKeeps, ConversationKeeps, BellKeeps, TickKeeps DEF Next

\* The variables have their types.
THEOREM TypeCorrect == Spec => []TypeOK
<1>1. TellsInv => TypeOK
  BY DEF TellsInv
<1> QED BY <1>1, InitTells, StepTells, PTL DEF Spec

\* A client shows what it would fetch, or is told: by an event that is on its way, or by
\* the time that has come at which its bell asks again.
THEOREM StaleAreTold == Spec => []StaleClientsAreTold
<1>1. TellsInv => StaleClientsAreTold
  BY DEF TellsInv
<1> QED BY <1>1, InitTells, StepTells, PTL DEF Spec

-----------------------------------------------------------------------------
(***************************************************************************)
(* What is marked as read.                                                 *)
(***************************************************************************)
\* What a request has found was listed, and no row that is new can be taken for it.
SoughtListed ==
  \A s \in Sides : reading[s].pc # "IDLE" =>
    /\ reading[s].id <= made.notifications
    /\ \A n \in notifications : n.id = reading[s].id /\ n.to = s => n.listed

ReadsInv == TellsInv /\ SoughtListed

\* It stays so while requests seek what they sought and rows follow, or are new.
LEMMA StillListed ==
  ASSUME TypeOK, SoughtListed, made'.notifications \in Nat, made'.notifications >= made.notifications,
         \A n \in notifications' :
           \/ n.id > made.notifications
           \/ \E m \in notifications : m.id = n.id /\ m.to = n.to /\ (m.listed => n.listed),
         \A s \in Sides : reading'[s].pc # "IDLE" => reading[s].pc # "IDLE" /\ reading'[s].id = reading[s].id
  PROVE  SoughtListed'
<1> SUFFICES ASSUME NEW s \in Sides, reading'[s].pc # "IDLE"
             PROVE  /\ reading'[s].id <= made'.notifications
                    /\ \A n \in notifications' : n.id = reading'[s].id /\ n.to = s => n.listed
  BY DEF SoughtListed
<1>1. reading[s].pc # "IDLE" /\ reading'[s].id = reading[s].id
  OBVIOUS
<1>2. /\ reading[s].id \in Nat /\ made.notifications \in Nat /\ reading[s].id <= made.notifications
      /\ \A n \in notifications : n.id = reading[s].id /\ n.to = s => n.listed
  BY <1>1 DEF SoughtListed, TypeOK, ReadingType
<1>3. reading'[s].id <= made'.notifications
  BY <1>1, <1>2
<1>4. ASSUME NEW n \in notifications', n.id = reading'[s].id, n.to = s PROVE n.listed
  <2>1. ~ (n.id > made.notifications)
    BY <1>1, <1>2, <1>4
  <2>2. PICK m \in notifications : m.id = n.id /\ m.to = n.to /\ (m.listed => n.listed)
    BY <2>1
  <2> QED BY <1>1, <1>2, <1>4, <2>2
<1> QED BY <1>3, <1>4

\* The same of a transaction that writes.
LEMMA TellingLists ==
  ASSUME TypeOK, NumbersIssued, SoughtListed, NEW events, Commits(events), Tells,
         application' \in ApplicationType, conversation' \in ConversationType
  PROVE  SoughtListed'
<1>1. /\ made'.notifications >= made.notifications
      /\ \A n \in notifications' : n \in notifications \/ n.id > made.notifications
      /\ TypeOK'
  BY Committing
<1>2. made'.notifications \in Nat /\ reading' = reading
  BY <1>1 DEF TypeOK, Commits
<1> QED BY <1>1, <1>2, StillListed

\* The same of a step that makes no rows.
LEMMA FollowingLists ==
  ASSUME TypeOK, SoughtListed, RowsFollow \/ UNCHANGED notifications, made' = made,
         \A s \in Sides : reading'[s].pc # "IDLE" => reading[s].pc # "IDLE" /\ reading'[s].id = reading[s].id
  PROVE  SoughtListed'
<1>1. made'.notifications \in Nat /\ made'.notifications >= made.notifications
  BY DEF TypeOK
<1>2. \A n \in notifications' : \E m \in notifications : m.id = n.id /\ m.to = n.to /\ (m.listed => n.listed)
  BY DEF RowsFollow
<1> QED BY <1>1, <1>2, StillListed

\* The steps of the bell.
LEMMA BellLists ==
  ASSUME TypeOK, NumbersIssued, SoughtListed, BellNext
  PROVE  SoughtListed'
<1>0. \A s \in Sides : reading[s] \in ReadingType
  BY DEF TypeOK
<1>1. ASSUME NEW s \in Sides, FindNotification(s) PROVE SoughtListed'
  <2>1. PICK n \in Visible(s, now) :
          n.listed /\ reading' = [reading EXCEPT ![s] = [pc |-> "FOUND", id |-> n.id, time |-> now]]
    BY <1>1 DEF FindNotification
  <2>2. n \in notifications /\ n.to = s
    BY <2>1 DEF Visible
  <2>3. UNCHANGED <<notifications, made>>
    BY <1>1 DEF FindNotification
  <2>4. reading'[s].id = n.id /\ \A t \in Sides : t # s => reading'[t] = reading[t]
    BY <2>1 DEF TypeOK
  <2>5. \A m \in notifications : m.id = n.id /\ m.to = s => m = n
    BY <2>2 DEF NumbersIssued
  <2>6. n.id <= made.notifications
    BY <2>2 DEF NumbersIssued
  <2> QED BY <2>1, <2>3, <2>4, <2>5, <2>6 DEF SoughtListed
<1>2. ASSUME NEW s \in Sides, UpdateNotification(s) PROVE SoughtListed'
  <2>1. /\ reading[s].pc = "FOUND" /\ UNCHANGED <<notifications, made>>
        /\ \/ reading' = [reading EXCEPT ![s] = [reading[s] EXCEPT !.pc = "UPDATED"]]
           \/ reading' = [reading EXCEPT ![s] = Idle]
    BY <1>2 DEF UpdateNotification
  <2>2. \A t \in Sides : reading'[t].pc # "IDLE" => reading[t].pc # "IDLE" /\ reading'[t].id = reading[t].id
    <3>1. [reading[s] EXCEPT !.pc = "UPDATED"].id = reading[s].id /\ Idle.pc = "IDLE"
      BY <1>0 DEF ReadingType, Idle
    <3>2. \A t \in Sides : t # s => reading'[t] = reading[t]
      BY <2>1 DEF TypeOK
    <3>3. reading'[s] = [reading[s] EXCEPT !.pc = "UPDATED"] \/ reading'[s] = Idle
      BY <2>1 DEF TypeOK
    <3> QED BY <2>1, <3>1, <3>2, <3>3
  <2> QED BY <2>1, <2>2, FollowingLists
<1>3. ASSUME NEW s \in Sides, AnswerNotification(s) PROVE SoughtListed'
  <2>1. /\ reading' = [reading EXCEPT ![s] = Idle] /\ made' = made
        /\ Mark(Sought(s)) \/ UNCHANGED notifications
    BY <1>3 DEF AnswerNotification
  <2>2. Sought(s) \in SUBSET notifications
    BY DEF Sought, Visible
  <2>3. RowsFollow \/ UNCHANGED notifications
    BY <2>1, <2>2, Marking
  <2>4. \A t \in Sides : reading'[t].pc # "IDLE" => reading'[t] = reading[t]
    BY <2>1 DEF TypeOK, Idle
  <2> QED BY <2>1, <2>3, <2>4, FollowingLists
<1>4. ASSUME NEW s \in Sides, MarkAllRead(s) PROVE SoughtListed'
  <2>1. PICK through \in 0..client[s].asOf :
          LET marked == {n \in Visible(s, now) : ~n.read /\ n.createdAt <= through}
          IN  marked # {} /\ Mark(marked) /\ Changed(s)
    BY <1>4 DEF MarkAllRead
  <2>2. PICK S : S \in SUBSET notifications /\ Mark(S)
    BY <2>1 DEF Visible
  <2>3. made' = made /\ reading' = reading
    BY <1>4 DEF MarkAllRead
  <2>4. RowsFollow
    BY <2>2, <2>3, Marking
  <2> QED BY <2>3, <2>4, FollowingLists
<1>5. ASSUME Purge PROVE SoughtListed'
  <2>1. notifications' \subseteq notifications /\ made' = made /\ reading' = reading
    BY <1>5 DEF Purge
  <2> QED BY <2>1, Fewer, FollowingLists
<1> QED BY <1>1, <1>2, <1>3, <1>4, <1>5 DEF BellNext

\* A row that is read as the unread row of before would be, is that row: numbers are issued once.
LEMMA ReadWas ==
  ASSUME TypeOK, NumbersIssued, NEW n \in notifications, ~n.read
  PROVE  /\ [n EXCEPT !.read = TRUE].read
         /\ \A k \in notifications :
              k.id = [n EXCEPT !.read = TRUE].id /\ k.to = [n EXCEPT !.read = TRUE].to => k = n
<1>1. n \in NotificationType
  BY DEF TypeOK
<1> QED BY <1>1 DEF NumbersIssued, NotificationType

\* A step that reads nothing: every row is unread or as read as one of before.
LEMMA NothingIsRead ==
  ASSUME TypeOK, NumbersIssued,
         \A m \in notifications' :
           ~m.read \/ \E k \in notifications : m.id = k.id /\ m.to = k.to /\ m.read = k.read
  PROVE  NewerStaysUnread
<1>1. ASSUME NEW n \in notifications, ~n.read, [n EXCEPT !.read = TRUE] \in notifications'
      PROVE  FALSE
  <2> DEFINE m == [n EXCEPT !.read = TRUE]
  <2>1. m.read /\ \A k \in notifications : k.id = m.id /\ k.to = m.to => k = n
    BY <1>1, ReadWas
  <2>2. m \in notifications'
    BY <1>1
  <2> HIDE DEF m
  <2>3. PICK k \in notifications : m.id = k.id /\ m.to = k.to /\ m.read = k.read
    BY <2>1, <2>2
  <2> QED BY <1>1, <2>1, <2>3
<1> QED BY <1>1 DEF NewerStaysUnread

\* What the reader of a notification knows of it.
Known(n) == Authorized(n.to) /\ (n.listed \/ n.createdAt <= client[n.to].asOf)

\* A step that reads rows their recipients know of.
LEMMA KnownIsRead ==
  ASSUME TypeOK, NumbersIssued, NEW S \in SUBSET notifications, Mark(S), made' = made,
         \A n \in S : Known(n)
  PROVE  NewerStaysUnread
<1>1. \A n \in notifications' : n \in notifications \/ \E m \in S : n.id = m.id /\ n.to = m.to
  BY Marking
<1>2. ASSUME NEW n \in notifications, ~n.read, [n EXCEPT !.read = TRUE] \in notifications'
      PROVE  Known(n)
  <2> DEFINE m == [n EXCEPT !.read = TRUE]
  <2>1. m.read /\ \A k \in notifications : k.id = m.id /\ k.to = m.to => k = n
    BY <1>2, ReadWas
  <2>2. m \in notifications'
    BY <1>2
  <2> HIDE DEF m
  <2>3. m \notin notifications
    BY <1>2, <2>1
  <2>4. PICK k \in S : m.id = k.id /\ m.to = k.to
    BY <1>1, <2>2, <2>3
  <2>5. k = n
    BY <2>1, <2>4
  <2> QED BY <2>4, <2>5
<1> QED BY <1>2 DEF NewerStaysUnread, Known

\* Of the conversation, only MarkRead marks what is there, and only what its side has fetched.
LEMMA ConversationReads ==
  ASSUME TypeOK, ConversationNext
  PROVE  UnseenStaysUnread
<1>0. conversation.messages \in Seq(Message) /\ conversation \in ConversationType
  BY DEF TypeOK, ConversationType
<1>1. ASSUME NEW s \in Sides, Send(s) PROVE UnseenStaysUnread
  <2> DEFINE sent == [from |-> s, read |-> FALSE]
  <2>1. conversation'.messages = Append(conversation.messages, sent)
    BY <1>0, <1>1 DEF Send, ConversationType
  <2>2. sent \in Message
    BY DEF Message
  <2> HIDE DEF sent
  <2>3. \A i \in DOMAIN conversation.messages : conversation'.messages[i] = conversation.messages[i]
    BY <1>0, <2>1, <2>2
  <2> QED BY <2>3 DEF UnseenStaysUnread
<1>2. ASSUME NEW enabled \in BOOLEAN, SetReplies(enabled) PROVE UnseenStaysUnread
  <2>1. conversation'.messages = conversation.messages
    BY <1>0, <1>2 DEF SetReplies, ConversationType
  <2> QED BY <2>1 DEF UnseenStaysUnread
<1>3. ASSUME NEW s \in Sides, MarkRead(s) PROVE UnseenStaysUnread
  <2>1. PICK through \in 1..client[s].through :
          conversation'.messages = Marked(conversation.messages, s, through)
    BY <1>0, <1>3 DEF MarkRead, ConversationType
  <2>2. ASSUME NEW i \in DOMAIN conversation.messages,
               ~conversation.messages[i].read, conversation'.messages[i].read
        PROVE  i <= client[s].through /\ conversation.messages[i].from = Other(s)
    <3>1. i <= through /\ conversation.messages[i].from = Other(s)
      BY <2>1, <2>2 DEF Marked, Unread
    <3>2. client[s].through \in Nat /\ i \in Nat
      BY <1>0 DEF TypeOK, ClientType
    <3> QED BY <3>1, <3>2
  <2>3. Other(Other(s)) = s
    BY DEF Other, Sides
  <2> QED BY <2>2, <2>3 DEF UnseenStaysUnread
<1> QED BY <1>1, <1>2, <1>3 DEF ConversationNext

\* The transactions that write tell, and read nothing in the bell.
LEMMA TellingReads ==
  ASSUME TypeOK, NumbersIssued, NEW events, Commits(events), Tells,
         application' \in ApplicationType, conversation' \in ConversationType
  PROVE  NewerStaysUnread
<1>1. \A n \in notifications' : n \in notifications \/ ~n.read
  BY Committing
<1> QED BY <1>1, NothingIsRead

\* The steps of the bell read what its side knows of.
LEMMA BellReads ==
  ASSUME TypeOK, NumbersIssued, SoughtListed, BellNext
  PROVE  NewerStaysUnread /\ UnseenStaysUnread
<1>0. ASSUME notifications' \subseteq notifications PROVE NewerStaysUnread
  BY <1>0, NothingIsRead
<1>1. UNCHANGED conversation
  BY DEF BellNext, FindNotification, UpdateNotification, AnswerNotification, MarkAllRead, Purge
<1>2. UnseenStaysUnread
  BY <1>1 DEF UnseenStaysUnread
<1>3. ASSUME NEW s \in Sides, FindNotification(s) \/ UpdateNotification(s) PROVE NewerStaysUnread
  <2>1. notifications' = notifications
    BY <1>3 DEF FindNotification, UpdateNotification
  <2> QED BY <1>0, <2>1
<1>4. ASSUME NEW s \in Sides, AnswerNotification(s) PROVE NewerStaysUnread
  <2>1. made' = made /\ (Mark(Sought(s)) \/ notifications' = notifications)
    BY <1>4 DEF AnswerNotification
  <2>2. Sought(s) \in SUBSET notifications /\ \A n \in Sought(s) : n.to = s /\ n.id = reading[s].id /\ Authorized(n.to)
    BY DEF Sought, Visible
  <2>3. \A n \in notifications : n.id = reading[s].id /\ n.to = s => n.listed
    BY <1>4 DEF AnswerNotification, SoughtListed
  <2>4. \A n \in Sought(s) : Known(n)
    BY <2>2, <2>3 DEF Known
  <2> QED BY <1>0, <2>1, <2>2, <2>4, KnownIsRead
<1>5. ASSUME NEW s \in Sides, MarkAllRead(s) PROVE NewerStaysUnread
  <2>1. PICK through \in 0..client[s].asOf :
          LET marked == {n \in Visible(s, now) : ~n.read /\ n.createdAt <= through}
          IN  marked # {} /\ Mark(marked) /\ Changed(s)
    BY <1>5 DEF MarkAllRead
  <2> DEFINE marked == {n \in Visible(s, now) : ~n.read /\ n.createdAt <= through}
  <2>2. made' = made /\ Mark(marked)
    BY <1>5, <2>1 DEF MarkAllRead
  <2>3. /\ marked \in SUBSET notifications
        /\ \A n \in marked : n.to = s /\ Authorized(n.to) /\ n.createdAt <= through
    BY DEF Visible
  <2> HIDE DEF marked
  <2>4. client[s].asOf \in Nat /\ \A n \in notifications : n.createdAt \in Nat
    BY DEF TypeOK, ClientType, NotificationType
  <2>5. \A n \in marked : Known(n)
    BY <2>1, <2>3, <2>4 DEF Known
  <2> QED BY <2>2, <2>3, <2>5, KnownIsRead
<1>6. ASSUME Purge PROVE NewerStaysUnread
  <2>1. notifications' \subseteq notifications
    BY <1>6 DEF Purge
  <2> QED BY <1>0, <2>1
<1> QED BY <1>2, <1>3, <1>4, <1>5, <1>6 DEF BellNext

\* No step reads what is newer than what its recipient knows of.
LEMMA StepReads ==
  ReadsInv /\ [Next]_vars => NewerStaysUnread /\ UnseenStaysUnread /\ SoughtListed'
<1> SUFFICES ASSUME ReadsInv, [Next]_vars PROVE NewerStaysUnread /\ UnseenStaysUnread /\ SoughtListed'
  OBVIOUS
<1> DEFINE Goal == NewerStaysUnread /\ UnseenStaysUnread /\ SoughtListed'
<1>0. /\ TypeOK /\ NumbersIssued /\ application \in ApplicationType /\ conversation \in ConversationType
      /\ SoughtListed
  BY DEF ReadsInv, TellsInv, TypeOK
<1>1. ASSUME UNCHANGED conversation PROVE UnseenStaysUnread
  BY <1>1 DEF UnseenStaysUnread
<1>2. ASSUME UNCHANGED <<notifications, conversation, reading, made>> PROVE Goal
  <2>1. NewerStaysUnread
    BY <1>0, <1>2, NothingIsRead
  <2>2. SoughtListed'
    BY <1>0, <1>2, FollowingLists
  <2> QED BY <1>1, <1>2, <2>1, <2>2
<1>3. ASSUME NEW S, Listed(S), UNCHANGED <<conversation, reading, made>> PROVE Goal
  <2>1. RowsFollow /\ \A n \in notifications' : \E m \in notifications : n.id = m.id /\ n.to = m.to /\ n.read = m.read
    BY <1>0, <1>3, Listing
  <2>2. SoughtListed'
    BY <1>0, <1>3, <2>1, FollowingLists
  <2> QED BY <1>0, <1>1, <1>3, <2>1, <2>2, NothingIsRead
<1>4. CASE LifecycleNext
  <2>1. PICK events : Commits(events)
    BY <1>0, <1>4, LifecycleStep
  <2>2. Tells /\ application' \in ApplicationType /\ conversation' = conversation
    BY <1>0, <1>4, LifecycleStep
  <2> QED BY <1>0, <1>1, <2>1, <2>2, TellingReads, TellingLists
<1>5. CASE ViewingNext
  <2>1. Commits({Viewing}) /\ Tells /\ UNCHANGED <<application, conversation>>
    BY <1>5, ViewingStep
  <2> QED BY <1>0, <1>1, <2>1, TellingReads, TellingLists
<1>6. CASE ConversationNext
  <2>1. PICK event \in {"message", "permission", "read"} : Commits({event})
    BY <1>0, <1>6, ConversationStep
  <2>2. Tells /\ application' \in ApplicationType /\ conversation' \in ConversationType
    BY <1>0, <1>6, ConversationStep DEF Tells
  <2> QED BY <1>0, <1>6, <2>1, <2>2, TellingReads, TellingLists, ConversationReads
<1>7. CASE BellNext
  BY <1>0, <1>7, BellReads, BellLists
<1>8. CASE Begin \/ Tick \/ UNCHANGED vars
  BY <1>2, <1>8 DEF Begin, Tick, vars
<1>9. ASSUME NEW s \in Sides, NEW v \in Views, Fetch(s, v) PROVE Goal
  BY <1>3, <1>9 DEF Fetch
<1>10. ASSUME NEW event \in outbox, Deliver(event) PROVE Goal
  BY <1>3, <1>10 DEF Deliver
<1> QED BY <1>4, <1>5, <1>6, <1>7, <1>8, <1>9, <1>10 DEF Next

\* No request marks what is hidden from its side or newer than what its client knows of:
\* messages of pages it has shown, notifications it has listed or that had begun by then.
THEOREM ReadIsEarlier == Spec => OnlyEarlierIsRead
<1>1. Init => ReadsInv
  BY InitTells DEF ReadsInv, SoughtListed, Init, Idle
<1>2. ReadsInv /\ [Next]_vars => ReadsInv'
  BY StepTells, StepReads DEF ReadsInv
<1>3. Spec => [][Next]_vars /\ []ReadsInv
  BY <1>1, <1>2, PTL DEF Spec
<1>4. ReadsInv /\ [Next]_vars => [NewerStaysUnread /\ UnseenStaysUnread]_vars
  BY StepReads
<1> QED BY <1>3, <1>4, PTL DEF OnlyEarlierIsRead

=============================================================================
