-------------------------- MODULE ListingDiscovery --------------------------
(***************************************************************************)
(* The query behind the published listings an applicant looks through      *)
(* (applicant-listing-discovery-query.ts and applicant-listings.service.ts *)
(* of src/listings): which listings match, in which order they come, and   *)
(* where the next page takes up.                                           *)
(*                                                                         *)
(* A listing is a record of the columns the query reads; its identifier is *)
(* a number, as only its order is looked at, and `texts' are the searches  *)
(* that find it.  A filter that is not asked for is Null.  The encoding of *)
(* a cursor is left out, with the older one of the newest that named no    *)
(* sort; a cursor of another sort than the one asked for is refused.       *)
(***************************************************************************)
EXTENDS Eligibility

Sorts == {"newest", "price-asc", "price-desc", "area-desc"}

\* A listing is published with a value in each of these, and an update leaves a field
\* out that it is given no value for: none of them is ever cleared.
PublishedListings ==
  [id : Nat, publishedAt : Int, coldRent : Int, livingArea : Int]

-----------------------------------------------------------------------------
(***************************************************************************)
(* buildWhere(), without the cursor.  A comparison with NULL is not true.  *)
(***************************************************************************)
Within(value, least, most) ==
  /\ least # Null => value # Null /\ value >= least
  /\ most # Null => value # Null /\ value <= most

\* toBerlinMidnight(), in hours: the day ends at 22 hours UTC, in winter too.
BerlinMidnight(day) == 24 * day + 22

AvailableBy(hour, day) == day # Null => hour # Null /\ hour < BerlinMidnight(day)

Matches(query, profile, listing) ==
  /\ listing.status = "PUBLISHED" /\ listing.publishedAt # Null
  /\ query.city # Null => listing.city = query.city
  /\ Within(listing.coldRent, query.minRent, query.maxRent)
  /\ Within(listing.rooms, query.minRooms, query.maxRooms)
  /\ Within(listing.livingArea, query.minLivingArea, query.maxLivingArea)
  /\ AvailableBy(listing.availableFrom, query.availableBy)
  /\ query.text # Null => query.text \in listing.texts
  /\ query.petsPolicy # Null => listing.criteria.petsPolicy = query.petsPolicy
  /\ query.onlyMatching => HardMatch(listing.criteria, profile)

-----------------------------------------------------------------------------
(***************************************************************************)
(* The order of the results.                                               *)
(***************************************************************************)
SortValue(sort, listing) ==
  CASE sort = "newest" -> listing.publishedAt
    [] sort \in {"price-asc", "price-desc"} -> listing.coldRent
    [] sort = "area-desc" -> listing.livingArea

Ascending(sort) == sort = "price-asc"

\* getSortOrder(): the field, then the identifier, in the same direction.
Precedes(sort, k, m) ==
  LET first == IF Ascending(sort) THEN k ELSE m
      second == IF Ascending(sort) THEN m ELSE k
  IN  \/ SortValue(sort, first) < SortValue(sort, second)
      \/ SortValue(sort, first) = SortValue(sort, second) /\ first.id < second.id

\* encodeCursor()
CursorOf(sort, listing) == [sort |-> sort, value |-> SortValue(sort, listing), id |-> listing.id]

\* The cursor's condition in buildWhere(), once its sort is the one asked for.
Beyond(cursor, listing) ==
  LET value == SortValue(cursor.sort, listing)
  IN  IF Ascending(cursor.sort)
      THEN \/ value > cursor.value
           \/ value = cursor.value /\ listing.id > cursor.id
      ELSE \/ value < cursor.value
           \/ value = cursor.value /\ listing.id < cursor.id

\* The first page has no cursor.
Continues(cursors, listing) == \A cursor \in cursors : Beyond(cursor, listing)

\* findPublishedForApplicant(): a page is the first of the results behind the cursor,
\* and ends with a cursor only when it has left some of them out.
IsPage(page, found, sort, cursors) ==
  LET results == {listing \in found : Continues(cursors, listing)}
  IN  /\ page \subseteq results
      /\ \A k \in page, m \in results \ page : Precedes(sort, k, m)

EndsPage(last, page, sort) ==
  last \in page /\ \A k \in page : k = last \/ Precedes(sort, k, last)
=============================================================================
