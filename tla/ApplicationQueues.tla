------------------------- MODULE ApplicationQueues -------------------------
(***************************************************************************)
(* The applications of a listing as the abstract queue of AdmissionQueue:  *)
(* who has a slot, and who waits behind whom.                              *)
(***************************************************************************)
EXTENDS Applications

AttemptsAt(l) == {a \in Attempts : ListingOf[a] = l}

\* The attempts a listing would accept, with the profiles and criteria given.
EligibleAt(prof, crit, l) == {a \in AttemptsAt(l) : Eligible(prof, crit, a)}

\* The waiting attempts of a listing in a table rw, each with those of a lower order.
Line(rw, l) ==
  LET waiting == WithStatus(rw, l, "WAITING")
  IN  [w \in waiting |-> {v \in waiting : rw[v].queueOrder < rw[w].queueOrder}]

Queue(l) == INSTANCE AdmissionQueue
  WITH Candidates <- AttemptsAt(l),
       Capacity   <- Limit,
       open       <- listingStatus[l] = "PUBLISHED",
       eligible   <- EligibleAt(profile, criteria, l),
       active     <- WithStatus(row, l, "ACTIVE"),
       queue      <- Line(row, l)

\* Every listing is a bounded first-in first-out queue: the operations on the
\* table, with its statuses, sequence and dates, are the steps of AdmissionQueue.
ImplementsQueue ==
  /\ \A l \in Listings : Queue(l)!Init
  /\ [][\A l \in Listings : UNCHANGED Queue(l)!vars \/ Queue(l)!Next]_vars

\* Whoever gets a slot, as a newcomer, by a restoration or from the line, no eligible
\* application that still waits was there before.
NobodyIsOvertaken ==
  [][\A a, w \in Attempts :
       /\ ListingOf[a] = ListingOf[w]
       /\ row[a].status # "ACTIVE" /\ row'[a].status = "ACTIVE"
       /\ row[w].status = "WAITING" /\ row'[w].status = "WAITING"
       /\ Eligible(profile', criteria', w)
       => row[a].status = "WAITING" /\ row[a].queueOrder < row[w].queueOrder]_vars
=============================================================================
