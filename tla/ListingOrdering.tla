--------------------------- MODULE ListingOrdering ---------------------------
(***************************************************************************)
(* The order in which a provider keeps the listings                        *)
(* (src/listings/listing-ordering.service.ts).  Every operation locks the  *)
(* provider's row first, so one at a time works on n listings.  The        *)
(* database accepts no two listings of a provider at one display order,    *)
(* and looks after every single statement, not at the end of the           *)
(* transaction.                                                            *)
(*                                                                         *)
(* A list of listings is a function from places, displayOrder the function *)
(* from listings to what their rows say.                                   *)
(***************************************************************************)
EXTENDS Integers

\* A list in which every place has a listing of its own.
Lists(n, Listing) ==
  {list \in [1..n -> Listing] : \A j, k \in 1..n : list[j] = list[k] => j = k}

\* loadProviderListings(): by display order, of which no two are the same.
IsLoaded(list, n, displayOrder) ==
  \A j, k \in 1..n : j < k => displayOrder[list[j]] < displayOrder[list[k]]

\* move(): the listing is taken out of its place, and put in at the one asked for.
MayMove(n, from, to) == from \in 1..n /\ to \in 1..n

Without(list, from, k) == IF k < from THEN list[k] ELSE list[k + 1]

Moved(list, n, from, to) ==
  [k \in 1..n |-> IF k = to THEN list[from]
                  ELSE Without(list, from, IF k < to THEN k ELSE k - 1)]

\* matchesContiguousOrder(): nothing has to be written.
MatchesContiguousOrder(loaded, ordered, n, displayOrder) ==
  \A k \in 1..n : loaded[k] = ordered[k] /\ displayOrder[loaded[k]] = k

\* highestDisplayOrder, which the positions of the migration and of this code
\* make that of the last listing.
Highest(loaded, n, displayOrder) == IF n = 0 THEN 0 ELSE displayOrder[loaded[n]]

\* persistVisibleOrder(): one update for each listing to a place behind all of them,
\* then one for each to its own.  The display orders after s of the 2 * n updates.
Persisted(loaded, ordered, n, displayOrder, s) ==
  [k \in 1..n |->
     IF s >= n + k THEN k
     ELSE IF s >= k THEN Highest(loaded, n, displayOrder) + n + k
     ELSE displayOrder[ordered[k]]]

\* What move() and getNextDisplayOrder() leave, in the order of the list they persist.
Settled(loaded, ordered, n, displayOrder) ==
  IF MatchesContiguousOrder(loaded, ordered, n, displayOrder) THEN [k \in 1..n |-> displayOrder[ordered[k]]]
  ELSE Persisted(loaded, ordered, n, displayOrder, 2 * n)

\* getNextDisplayOrder(), of a listing that is about to be created.
NextDisplayOrder(n) == n + 1
=============================================================================
