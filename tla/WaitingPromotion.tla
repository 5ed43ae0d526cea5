-------------------------- MODULE WaitingPromotion --------------------------
(***************************************************************************)
(* The paging loop of reconcileWithinTransaction() in                      *)
(* src/applications/application-waiting-promotion.service: it reads the    *)
(* waiting rows page by page after a cursor, promotes the eligible ones    *)
(* until the slots are full and stops at a short page.  Applications says  *)
(* at once whom it promotes; here is how it finds them.                    *)
(*                                                                         *)
(* The cursor is queueOrder: the id that breaks a tie of two rows from     *)
(* before the sequence is left out.                                        *)
(***************************************************************************)
EXTENDS Applications

CONSTANT BatchSize   \* PROMOTION_BATCH_SIZE

ASSUME BatchAssumption == BatchSize \in Nat \ {0}

Order(w) == row[w].queueOrder

\* The waiting rows after the cursor, of which a page has the first BatchSize.
Rest(l, cursor) == {w \in WithStatus(row, l, "WAITING") : Order(w) > cursor}

\* The first n of some rows, in the order of the queue.
FirstOf(rows, n) == {w \in rows : Cardinality({v \in rows : Order(v) < Order(w)}) < n}

Page(l, cursor) == FirstOf(Rest(l, cursor), BatchSize)

\* The rows of a page that fill `capacity' slots; ineligible ones are passed over.
ServedOf(page, capacity) == FirstOf({w \in page : Eligible(profile, criteria, w)}, capacity)

LastOrder(page) == CHOOSE o \in {Order(w) : w \in page} : \A w \in page : Order(w) <= o

\* Mutated form of ContinuesAfter: a page nobody is eligible on ends the search.
ContinuesAfterPromotion(page, served, left) ==
  Cardinality(page) = BatchSize /\ left > 0 /\ served # {}

ContinuesAfter(page, served, left) == Cardinality(page) = BatchSize /\ left > 0

\* What the loop does with the page after a cursor, whatever the slots that are free
\* then, and, with `next', from the pages that follow.
Turn(l, cursor, next) ==
  LET page == Page(l, cursor)
      last == LastOrder(page)
  IN  [capacity \in 0..Limit |->
         LET served == ServedOf(page, capacity)
             left == capacity - Cardinality(served)
         IN  IF capacity > 0 /\ ContinuesAfter(page, served, left)
             THEN [promoted |-> served \cup next[last][left].promoted,
                   remaining |-> next[last][left].remaining]
             ELSE [promoted |-> served, remaining |-> left]]

Loop(l) == LET loop[cursor \in 0..nextOrder] == Turn(l, cursor, loop) IN loop

\* The loop, from the start of the queue and the slots that are free.
Paged(l) == Loop(l)[0][Slots(row, l)]

\* Page boundaries, ineligible rows and pages full of them change nothing: the loop
\* promotes exactly the first eligible rows that the free slots admit, and it
\* reports capacity left only when nobody eligible is left waiting.
PagingPromotesTheSame ==
  \A l \in Listings :
    LET result == Paged(l)
    IN  /\ result.promoted = Promoted(row, profile, l)
        /\ result.remaining = Slots(row, l) - Cardinality(result.promoted)
        /\ result.remaining > 0 => EligibleWaiting(row, profile, l) \subseteq result.promoted
=============================================================================
