--------------------------- MODULE AdmissionQueue ---------------------------
(***************************************************************************)
(* What the application lifecycle promises about one listing, whatever     *)
(* tables and dates it keeps: `Capacity' slots and a first-in first-out    *)
(* queue behind them.  While the listing is open, a slot that becomes free *)
(* goes to the first in the queue who is eligible at that moment; whoever  *)
(* is not eligible keeps the place without holding up the others; a        *)
(* newcomer gets a slot only when nobody eligible is waiting, and          *)
(* otherwise the queue's last place.                                       *)
(***************************************************************************)
EXTENDS Integers, FiniteSets

CONSTANTS Candidates, Capacity

VARIABLES
  open,       \* does the listing accept applications?
  eligible,   \* the candidates the listing would accept now
  active,     \* the candidates in a slot
  queue       \* those who wait, each with the ones who came before: [waiting -> SUBSET waiting]

vars == <<open, eligible, active, queue>>

-----------------------------------------------------------------------------
Waiting == DOMAIN queue

\* The queue q without the candidates in S.
Without(q, S) == [c \in DOMAIN q \ S |-> q[c] \ S]

\* The queue q with candidate c at its end.
Joined(q, c) == [d \in DOMAIN q \cup {c} |-> IF d = c THEN DOMAIN q ELSE q[d]]

\* Those who get the free slots beside `act' when q is served in order.
Served(act, q, elig) ==
  {c \in DOMAIN q \cap elig : Cardinality(q[c] \cap elig) < Capacity - Cardinality(act)}

Init ==
  /\ open \in BOOLEAN
  /\ eligible \in SUBSET Candidates
  /\ active = {}
  /\ Waiting = {}

\* The slots and the queue become act and q, after q has been served.
Serve(act, q, elig) ==
  /\ active' = act \cup Served(act, q, elig)
  /\ queue' = Without(q, Served(act, q, elig))

Enter(c) ==
  LET served == Served(active, queue, eligible)
      left == Without(queue, served)
  IN  /\ open
      /\ c \in eligible
      /\ c \notin active \cup Waiting
      /\ IF Cardinality(active \cup served) < Capacity
         THEN active' = active \cup served \cup {c} /\ queue' = left
         ELSE active' = active \cup served /\ queue' = Joined(left, c)
      /\ UNCHANGED <<open, eligible>>

\* Some candidates leave; a slot one of them held is offered to the queue.
Leave(gone) ==
  /\ gone # {}
  /\ gone \subseteq active \cup Waiting
  /\ IF open' /\ gone \cap active # {}
     THEN Serve(active \ gone, Without(queue, gone), eligible')
     ELSE active' = active \ gone /\ queue' = Without(queue, gone)

Exit == open' = open /\ eligible' = eligible /\ \E gone \in SUBSET Candidates : Leave(gone)

\* A candidate's eligibility changes, and one who loses it may have to leave.
Reassess ==
  /\ eligible' \in SUBSET Candidates
  /\ open' = open
  /\ \/ UNCHANGED <<active, queue>>
     \/ \E gone \in SUBSET (Candidates \ eligible') : Leave(gone)

Open ==
  /\ ~open
  /\ open' = TRUE
  /\ Serve(active, queue, eligible)
  /\ UNCHANGED eligible

\* Closing for good sends everybody away.
Close ==
  /\ open' = FALSE
  /\ UNCHANGED eligible
  /\ \/ UNCHANGED <<active, queue>>
     \/ active' = {} /\ Waiting' = {}

Catch == open /\ Serve(active, queue, eligible) /\ UNCHANGED <<open, eligible>>

Next ==
  \/ Reassess \/ Open \/ Close \/ Catch \/ Exit
  \/ \E c \in Candidates : Enter(c)

Spec == Init /\ [][Next]_vars

=============================================================================
