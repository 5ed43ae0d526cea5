---------------------------- MODULE ListingProofs ----------------------------
(***************************************************************************)
(* Theorems of the functions behind a listing: how it is found, page by    *)
(* page, and where its provider keeps it.  They hold for every query and   *)
(* lists of any length.  And what holds of its images for every number of  *)
(* them and of requests, however their statements interleave.              *)
(***************************************************************************)
EXTENDS ListingDiscovery, ListingOrdering, ListingImages, FiniteSetTheorems, TLAPS

-----------------------------------------------------------------------------
(***************************************************************************)
(* Discovery: the pages of published listings join without a gap or an     *)
(* overlap, in every sort and however many listings tie.                   *)
(***************************************************************************)
\* Published listings have a value in every sort.
LEMMA SortValueType ==
  ASSUME NEW sort \in Sorts, NEW k \in PublishedListings
  PROVE  SortValue(sort, k) \in Int
BY DEF SortValue, Sorts, PublishedListings

\* The order of the results is strict and leaves only one listing undecided: itself.
LEMMA OrderIsTotal ==
  ASSUME NEW sort \in Sorts, NEW k \in PublishedListings, NEW m \in PublishedListings
  PROVE  /\ ~(Precedes(sort, k, m) /\ Precedes(sort, m, k))
         /\ k.id # m.id => Precedes(sort, k, m) \/ Precedes(sort, m, k)
<1>1. SortValue(sort, k) \in Int /\ SortValue(sort, m) \in Int
  BY SortValueType
<1>2. k.id \in Nat /\ m.id \in Nat
  BY DEF PublishedListings
<1> QED
  BY <1>1, <1>2 DEF Precedes

\* And it goes through.
LEMMA OrderIsTransitive ==
  ASSUME NEW sort \in Sorts, NEW k \in PublishedListings, NEW m \in PublishedListings,
         NEW n \in PublishedListings, Precedes(sort, k, m), Precedes(sort, m, n)
  PROVE  Precedes(sort, k, n)
<1>1. SortValue(sort, k) \in Int /\ SortValue(sort, m) \in Int /\ SortValue(sort, n) \in Int
  BY SortValueType
<1>2. k.id \in Nat /\ m.id \in Nat /\ n.id \in Nat
  BY DEF PublishedListings
<1> QED
  BY <1>1, <1>2 DEF Precedes

\* The condition the cursor of a listing adds to the next query is the order of the
\* results: who comes behind that listing.
THEOREM CursorFollowsOrder ==
  \A sort \in Sorts, k, m \in PublishedListings :
    Beyond(CursorOf(sort, k), m) <=> Precedes(sort, k, m)
<1> SUFFICES ASSUME NEW sort \in Sorts, NEW k \in PublishedListings, NEW m \in PublishedListings
             PROVE  Beyond(CursorOf(sort, k), m) <=> Precedes(sort, k, m)
  OBVIOUS
<1>1. SortValue(sort, k) \in Int /\ SortValue(sort, m) \in Int
  BY SortValueType
<1>2. k.id \in Nat /\ m.id \in Nat
  BY DEF PublishedListings
<1>3. /\ CursorOf(sort, k).sort = sort /\ CursorOf(sort, k).id = k.id
      /\ CursorOf(sort, k).value = SortValue(sort, k)
  BY DEF CursorOf
<1> QED
  BY <1>1, <1>2, <1>3 DEF Beyond, Precedes

\* While the listings found do not change, a page and what the next query finds, with
\* the cursor the page ends with, are together what this query found, and share nothing:
\* whoever follows the cursors sees every listing once.
THEOREM PagesJoin ==
  ASSUME NEW sort \in Sorts, NEW found \in SUBSET PublishedListings,
         \A k, m \in found : k.id = m.id => k = m,
         NEW before \in PublishedListings,
         NEW cursors \in {{}, {CursorOf(sort, before)}},
         NEW page, IsPage(page, found, sort, cursors),
         NEW last, EndsPage(last, page, sort)
  PROVE  LET results == {k \in found : Continues(cursors, k)}
             next == {k \in found : Continues({CursorOf(sort, last)}, k)}
         IN  page \cap next = {} /\ results = page \cup next
<1> DEFINE results == {k \in found : Continues(cursors, k)}
           next == {k \in found : Continues({CursorOf(sort, last)}, k)}
<1>1. /\ page \subseteq results /\ results \subseteq found /\ last \in page
      /\ \A k \in page, m \in results \ page : Precedes(sort, k, m)
      /\ \A k \in page : k = last \/ Precedes(sort, k, last)
  BY DEF IsPage, EndsPage
<1>2. last \in found /\ last \in PublishedListings
  BY <1>1
<1>3. \A k \in found : k \in next <=> Precedes(sort, last, k)
  BY <1>2, CursorFollowsOrder DEF Continues
<1>4. page \cap next = {}
  BY <1>1, <1>2, <1>3, OrderIsTotal
<1>5. results \subseteq page \cup next
  BY <1>1, <1>3
<1>6. next \subseteq results
  <2> SUFFICES ASSUME NEW k \in next
               PROVE  k \in results
    OBVIOUS
  <2>1. k \in found /\ k \in PublishedListings /\ Precedes(sort, last, k)
    BY <1>3
  <2>2. Continues(cursors, last)
    BY <1>1
  <2>3. CASE cursors = {}
    BY <2>1, <2>3 DEF Continues
  <2>4. CASE cursors = {CursorOf(sort, before)}
    <3>1. Precedes(sort, before, last)
      BY <2>2, <2>4, <1>2, CursorFollowsOrder DEF Continues
    <3>2. Precedes(sort, before, k)
      BY <2>1, <1>2, <3>1, OrderIsTransitive
    <3> QED
      BY <2>1, <2>4, <3>2, CursorFollowsOrder DEF Continues
  <2> QED
    BY <2>3, <2>4
<1> QED
  BY <1>1, <1>4, <1>5, <1>6

-----------------------------------------------------------------------------
(***************************************************************************)
(* Ordering: the listings of a provider, whatever gaps the display orders  *)
(* have when an operation begins.                                          *)
(***************************************************************************)
\* Where the listing at place k is after one was moved.
PlaceAfter(k, from, to) ==
  LET rest == IF k < from THEN k ELSE k - 1
  IN  IF k = from THEN to ELSE IF rest < to THEN rest ELSE rest + 1

\* Moving a listing brings it to the place asked for, loses and doubles none of the
\* others and leaves them in the order they were in.
THEOREM MoveKeepsTheOthers ==
  ASSUME NEW n \in Nat, NEW Listing, NEW list \in Lists(n, Listing),
         NEW from, NEW to, MayMove(n, from, to)
  PROVE  /\ Moved(list, n, from, to)[to] = list[from]
         /\ Moved(list, n, from, to) \in Lists(n, Listing)
         /\ \A k \in 1..n : /\ PlaceAfter(k, from, to) \in 1..n
                            /\ Moved(list, n, from, to)[PlaceAfter(k, from, to)] = list[k]
         /\ \A j, k \in (1..n) \ {from} : j < k => PlaceAfter(j, from, to) < PlaceAfter(k, from, to)
<1> DEFINE moved == Moved(list, n, from, to)
           source(k) == IF k = to THEN from
                        ELSE LET i == IF k < to THEN k ELSE k - 1 IN IF i < from THEN i ELSE i + 1
<1>1. from \in 1..n /\ to \in 1..n /\ list \in [1..n -> Listing]
  BY DEF MayMove, Lists
<1>2. \A k \in 1..n : source(k) \in 1..n /\ moved[k] = list[source(k)]
  BY <1>1 DEF Moved, Without
<1>3. \A k \in 1..n : PlaceAfter(k, from, to) \in 1..n /\ source(PlaceAfter(k, from, to)) = k
  BY <1>1 DEF PlaceAfter
<1>4. \A j, k \in 1..n : source(j) = source(k) => j = k
  BY <1>1
<1>5. moved \in [1..n -> Listing]
  <2>1. moved = [k \in 1..n |-> moved[k]]
    BY DEF Moved
  <2> HIDE DEF moved, source
  <2> QED
    BY <2>1, <1>1, <1>2
<1>6. \A j, k \in 1..n : moved[j] = moved[k] => j = k
  <2> HIDE DEF moved, source
  <2> QED
    BY <1>2, <1>4 DEF Lists
<1>7. \A k \in 1..n : moved[PlaceAfter(k, from, to)] = list[k]
  <2> HIDE DEF moved, source
  <2> QED
    BY <1>2, <1>3
<1>8. \A j, k \in (1..n) \ {from} : j < k => PlaceAfter(j, from, to) < PlaceAfter(k, from, to)
  BY <1>1 DEF PlaceAfter
<1>9. moved[to] = list[from]
  BY <1>1 DEF Moved
<1> QED
  BY <1>3, <1>5, <1>6, <1>7, <1>8, <1>9 DEF Lists

\* No listing is behind the last one of those loaded.
LEMMA HighestIsHighest ==
  ASSUME NEW n \in Nat, NEW Listing, NEW loaded \in Lists(n, Listing),
         NEW displayOrder \in [Listing -> Nat], IsLoaded(loaded, n, displayOrder)
  PROVE  /\ Highest(loaded, n, displayOrder) \in Nat
         /\ \A k \in 1..n : displayOrder[loaded[k]] <= Highest(loaded, n, displayOrder)
<1>1. loaded \in [1..n -> Listing]
  BY DEF Lists
<1>2. \A k \in 1..n : displayOrder[loaded[k]] \in Nat
  BY <1>1
<1>3. CASE n = 0
  BY <1>3 DEF Highest
<1>4. CASE n # 0
  <2>1. n \in 1..n /\ Highest(loaded, n, displayOrder) = displayOrder[loaded[n]]
    BY <1>4 DEF Highest
  <2>2. \A k \in 1..n : k = n \/ displayOrder[loaded[k]] < displayOrder[loaded[n]]
    BY <2>1 DEF IsLoaded
  <2> QED
    BY <1>2, <2>1, <2>2
<1> QED
  BY <1>3, <1>4

\* After none of the updates do two listings have the same display order: the unique
\* index refuses none of them, whatever the gaps and the order to be persisted.
THEOREM UpdatesNeverCollide ==
  ASSUME NEW n \in Nat, NEW Listing,
         NEW loaded \in Lists(n, Listing), NEW ordered \in Lists(n, Listing),
         \A k \in 1..n : \E j \in 1..n : ordered[k] = loaded[j],
         NEW displayOrder \in [Listing -> Nat], IsLoaded(loaded, n, displayOrder),
         NEW s \in 0..(2 * n)
  PROVE  \A j, k \in 1..n :
           j # k => LET after == Persisted(loaded, ordered, n, displayOrder, s)
                    IN  after[j] # after[k]
<1> DEFINE highest == Highest(loaded, n, displayOrder)
           old(k) == displayOrder[ordered[k]]
           after(k) == IF s >= n + k THEN k ELSE IF s >= k THEN highest + n + k ELSE old(k)
<1>1. \A k \in 1..n : Persisted(loaded, ordered, n, displayOrder, s)[k] = after(k)
  BY DEF Persisted
<1>2. highest \in Nat
  BY HighestIsHighest
<1>3. \A k \in 1..n : old(k) \in Nat /\ old(k) <= highest
  BY HighestIsHighest DEF Lists
<1>4. \A j, k \in 1..n : j # k => old(j) # old(k)
  <2> SUFFICES ASSUME NEW j \in 1..n, NEW k \in 1..n, j # k
               PROVE  old(j) # old(k)
    OBVIOUS
  <2>1. PICK a, b \in 1..n : ordered[j] = loaded[a] /\ ordered[k] = loaded[b]
    OBVIOUS
  <2>2. a # b
    BY <2>1 DEF Lists
  <2>3. loaded[a] \in Listing /\ loaded[b] \in Listing
    BY DEF Lists
  <2>4. displayOrder[loaded[a]] < displayOrder[loaded[b]] \/ displayOrder[loaded[b]] < displayOrder[loaded[a]]
    BY <2>2 DEF IsLoaded
  <2> QED
    BY <2>1, <2>3, <2>4
<1> HIDE DEF highest, old
<1>5. \A j, k \in 1..n : j # k => after(j) # after(k)
  BY <1>2, <1>3, <1>4
<1> QED
  BY <1>1, <1>5

\* In the end the listings are at the places of the list, from one on and without a
\* gap, and the display order given to a new listing is the first that is free.
THEOREM OrderIsContiguous ==
  ASSUME NEW n \in Nat, NEW loaded, NEW ordered, NEW displayOrder
  PROVE  LET settled == Settled(loaded, ordered, n, displayOrder)
         IN  \A k \in 1..n : settled[k] = k /\ settled[k] < NextDisplayOrder(n)
<1>1. CASE MatchesContiguousOrder(loaded, ordered, n, displayOrder)
  BY <1>1 DEF Settled, MatchesContiguousOrder, NextDisplayOrder
<1>2. CASE ~MatchesContiguousOrder(loaded, ordered, n, displayOrder)
  <2>1. \A k \in 1..n : 2 * n >= n + k
    OBVIOUS
  <2> QED
    BY <1>2, <2>1 DEF Settled, Persisted, NextDisplayOrder
<1> QED
  BY <1>1, <1>2

-----------------------------------------------------------------------------
(***************************************************************************)
(* The images of a listing.  The inductive invariant begins with what      *)
(* holds whatever the requests do: a row that nobody has locked is as it   *)
(* was committed, and no two versions of rows that may both come to stand  *)
(* share a position.                                                       *)
(***************************************************************************)
Apart(v, w) == v.exists /\ w.exists => v.position # w.position

VersionsFit ==
  /\ \A i \in Images : lock[i] = Nobody => rows[i] = saved[i]
  /\ \A i \in Images, j \in Images :
       i # j => /\ Apart(rows[i], rows[j])
                /\ Apart(saved[i], saved[j])
                /\ lock[i] # Nobody /\ lock[j] # lock[i] => Apart(saved[i], rows[j])

Arrangements == Removals \cup Reorderings

\* A row in its place: the first is the cover.
InPlace(row) == row.exists /\ row.position >= 0 /\ row.cover = (row.position = 0)

\* Image i is written by r: an upload inserts its own, the others rearrange
\* what is there and take away the image of a removal.
Writes(r, i) ==
  \/ /\ r \in Uploads /\ i = ImageOf[r] /\ pc[r] \in {"push", "commit"}
     /\ InPlace(rows[i])
  \/ /\ r \in Removals /\ i = ImageOf[r] /\ pc[r] \in {"remaining", "apply", "photos", "commit"}
     /\ ~rows[i].exists
  \/ /\ r \in Arrangements /\ pc[r] \in {"apply", "photos", "commit"}
     /\ rows[i].exists /\ saved[i].exists /\ i \in Listed(r)

LocksFit == \A i \in Images : lock[i] # Nobody => Writes(lock[i], i)

UploadFits(u) ==
  LET i == ImageOf[u]
  IN  /\ saved[i].exists => pc[u] = "done" \/ (pc[u] = "cleanup" /\ i \in unsure)
      /\ pc[u] = "insert" => seen[u][1] \in Nat
      /\ pc[u] \in {"push", "commit"} => lock[i] = u
      /\ pc[u] \in {"latest", "insert", "push", "commit"} => i \in assets
      /\ pc[u] = "commit" => photos = savedPhotos \cup {i}

\* The images of the order are each there once, and those whose turn has come are
\* in their place.
ArrangementFits(r) ==
  LET order == seen[r]
      n == Len(order)
  IN  /\ pc[r] \in {"find", "delete", "remaining", "order"} => step[r] = 1
      /\ pc[r] \in {"apply", "photos", "commit"} =>
           /\ order \in Seq(Images)
           /\ \A l, m \in 1..n : order[l] = order[m] => l = m
           /\ step[r] <= 2 * n + 1
           /\ \A m \in 1..n :
                n + m < step[r] => lock[order[m]] = r /\ rows[order[m]] = Row(m - 1, m = 1)
      /\ pc[r] \in {"photos", "commit"} => step[r] = 2 * n + 1
      /\ pc[r] = "commit" => photos = Listed(r)

\* The image of a removal has been there, and will not be there again.
RemovalFits(r) ==
  LET i == ImageOf[r]
  IN  /\ pc[r] \in {"delete", "remaining", "apply", "photos", "commit", "cleanup"} =>
           \A u \in Uploads : ImageOf[u] = i => pc[u] \in {"cleanup", "done"}
      /\ pc[r] \in {"remaining", "apply", "photos", "commit"} =>
           ~View(r, i).exists
      /\ pc[r] \in {"apply", "photos", "commit"} => i \notin Listed(r)
      /\ pc[r] = "cleanup" => ~saved[i].exists

PhotosFit ==
  /\ photosLock = Nobody => photos = savedPhotos
  /\ \A r \in Requests : photosLock = r <=> pc[r] = "commit"

\* Who still answers for an asset without an image.
Answers(r, i) ==
  /\ r \in Uploads \cup Removals /\ ImageOf[r] = i
  /\ pc[r] \in {"cleanup"} \cup (IF r \in Uploads THEN {"latest", "insert", "push", "commit"} ELSE {})

AssetsFit ==
  /\ Exist(saved) \subseteq assets \cup unsure
  /\ \A i \in assets : i \in Exist(saved) \cup orphans \cup unsure \/ \E r \in Requests : Answers(r, i)

IInv ==
  /\ TypeOK /\ VersionsFit /\ LocksFit /\ PhotosFit /\ AssetsFit
  /\ \A u \in Uploads : UploadFits(u)
  /\ \A r \in Arrangements : ArrangementFits(r)
  /\ \A r \in Removals : RemovalFits(r)
  /\ \A i \in Exist(saved) : InPlace(saved[i])
  /\ savedPhotos \subseteq Exist(saved)

USE DEF table, listing, cloud

LEMMA RequestKinds ==
  /\ Uploads \subseteq Requests /\ Removals \subseteq Requests /\ Reorderings \subseteq Requests
  /\ Arrangements \subseteq Requests /\ Uploads \cap Arrangements = {}
  /\ \A r \in Uploads \cup Removals : ImageOf[r] \in Images
  /\ \A r \in Requests : r # Nobody
  BY RequestsAssumption DEF Requests, Arrangements

-----------------------------------------------------------------------------
(***************************************************************************)
(* Orders of finitely many images.                                         *)
(***************************************************************************)
\* Every set of images is finite.
LEMMA FinitelyMany ==
  ASSUME NEW S \in SUBSET Images
  PROVE  IsFiniteSet(S) /\ Cardinality(S) \in Nat
<1>1. IsFiniteSet(S)
  BY RequestsAssumption, FS_Subset
<1> QED BY <1>1, FS_CardinalityType

\* An order of a set is a sequence without repetitions that leaves no element out.
LEMMA OrderShape ==
  ASSUME NEW S \in SUBSET Images, NEW s \in Orders(S)
  PROVE  /\ s \in Seq(S) /\ Len(s) = Cardinality(S)
         /\ \A m, n \in 1..Len(s) : s[m] = s[n] => m = n
         /\ \A i \in S : \E m \in 1..Len(s) : s[m] = i
<1> DEFINE N == Cardinality(S)
<1>1. N \in Nat /\ IsFiniteSet(S)
  BY FinitelyMany
<1>2. /\ s \in [1..N -> S]
      /\ \A m, n \in 1..N : m # n => s[m] # s[n]
  BY DEF Orders
<1>3. s \in Injection(1..N, S)
  BY <1>2 DEF Injection, IsInjective
<1>4. Cardinality(1..N) = N
  BY <1>1, FS_Interval
<1>5. s \in Surjection(1..N, S)
  BY <1>1, <1>3, <1>4, FS_Injection
<1>6. \A i \in S : \E m \in 1..N : s[m] = i
  BY <1>5 DEF Surjection
<1>7. s \in Seq(S) /\ Len(s) = N
  BY <1>1, <1>2
<1> QED BY <1>2, <1>6, <1>7

\* Images whose keys differ can be put in the order of their keys.
LEMMA SortedOrderExists ==
  ASSUME NEW S \in SUBSET Images, NEW key \in [S -> Int],
         \A i, j \in S : i # j => key[i] # key[j]
  PROVE  \E s \in Orders(S) : \A m, n \in DOMAIN s : m < n => key[s[m]] < key[s[n]]
<1> DEFINE N == Cardinality(S)
           before(i) == {j \in S : key[j] < key[i]}
           rank == [i \in S |-> Cardinality(before(i)) + 1]
<1>1. N \in Nat /\ IsFiniteSet(S)
  BY FinitelyMany
<1>2. ASSUME NEW i \in S
      PROVE  /\ IsFiniteSet(before(i)) /\ Cardinality(before(i)) \in Nat
             /\ rank[i] = Cardinality(before(i)) + 1
             /\ rank[i] \in 1..N
  <2>1. before(i) \in SUBSET S /\ i \notin before(i)
    OBVIOUS
  <2>2. IsFiniteSet(before(i)) /\ Cardinality(before(i)) \in Nat
    BY <2>1, FinitelyMany
  <2>3. Cardinality(before(i)) <= N /\ Cardinality(before(i)) # N
    BY <1>1, <2>1, FS_Subset
  <2>4. rank[i] = Cardinality(before(i)) + 1
    OBVIOUS
  <2> HIDE DEF rank, before, N
  <2> QED BY <1>1, <2>2, <2>3, <2>4
<1>3. ASSUME NEW i \in S, NEW j \in S, key[i] < key[j]
      PROVE  rank[i] < rank[j]
  <2>1. before(i) \in SUBSET before(j) /\ i \in before(j) /\ i \notin before(i)
    BY <1>3
  <2>2. Cardinality(before(i)) <= Cardinality(before(j)) /\ Cardinality(before(i)) # Cardinality(before(j))
    <3>1. IsFiniteSet(before(j))
      BY <1>2
    <3>2. before(i) # before(j)
      BY <2>1
    <3> HIDE DEF rank, before, N
    <3> QED BY <2>1, <3>1, <3>2, FS_Subset
  <2> HIDE DEF rank, before, N
  <2> QED BY <1>2, <2>2
<1> HIDE DEF rank, before
<1>4. \A i, j \in S : i # j => rank[i] # rank[j]
  <2> SUFFICES ASSUME NEW i \in S, NEW j \in S, i # j PROVE rank[i] # rank[j]
    OBVIOUS
  <2>1. key[i] < key[j] \/ key[j] < key[i]
    OBVIOUS
  <2>2. rank[i] \in 1..N /\ rank[j] \in 1..N
    BY <1>2
  <2> QED BY <1>3, <2>1, <2>2
<1>5. rank \in Injection(S, 1..N)
  <2>1. rank \in [S -> 1..N]
    BY <1>2 DEF rank
  <2> QED BY <1>4, <2>1 DEF Injection, IsInjective
<1>6. rank \in Surjection(S, 1..N)
  <2>1. IsFiniteSet(1..N) /\ Cardinality(1..N) = N
    BY <1>1, FS_Interval
  <2> QED BY <1>5, <2>1, FS_Injection
<1>7. \A m \in 1..N : \E i \in S : rank[i] = m
  BY <1>6 DEF Surjection
<1> DEFINE s == [m \in 1..N |-> CHOOSE i \in S : rank[i] = m]
<1>8. \A m \in 1..N : s[m] \in S /\ rank[s[m]] = m
  BY <1>7
<1>9. s \in [1..N -> S] /\ DOMAIN s = 1..N
  BY <1>8
<1> HIDE DEF s
<1>10. s \in Orders(S)
  BY <1>8, <1>9 DEF Orders
<1>11. ASSUME NEW m \in 1..N, NEW n \in 1..N, m < n
       PROVE  key[s[m]] < key[s[n]]
  <2>1. s[m] # s[n]
    BY <1>8, <1>11
  <2>2. key[s[m]] < key[s[n]] \/ key[s[n]] < key[s[m]]
    BY <1>8, <2>1
  <2>3. ~(key[s[n]] < key[s[m]])
    <3>1. key[s[n]] < key[s[m]] => rank[s[n]] < rank[s[m]]
      BY <1>3, <1>8
    <3> QED BY <1>8, <1>11, <3>1
  <2> QED BY <2>2, <2>3
<1> QED BY <1>9, <1>10, <1>11

-----------------------------------------------------------------------------
(***************************************************************************)
(* The initial states.                                                     *)
(***************************************************************************)
LEMMA FirstIsAnOrder == First \in Orders(Present)
<1>1. Present \in SUBSET Images
  BY RequestsAssumption
<1> DEFINE N == Cardinality(Present)
<1>2. N \in Nat /\ ExistsBijection(1..N, Present)
  BY <1>1, FinitelyMany, FS_CardinalityType
<1>3. PICK s : s \in Bijection(1..N, Present)
  BY <1>2 DEF ExistsBijection
<1>4. s \in [1..N -> Present] /\ \A m, n \in 1..N : s[m] = s[n] => m = n
  BY <1>3 DEF Bijection, Injection, IsInjective
<1>5. s \in Orders(Present)
  BY <1>4 DEF Orders
<1> QED BY <1>5 DEF First

\* At first no row is locked, and the images are in their places.
LEMMA InitRows ==
  ASSUME Init
  PROVE  /\ saved \in [Images -> ImageRows]
         /\ Exist(saved) = Present
         /\ \A i \in Present : InPlace(saved[i])
         /\ \A i, j \in Images : i # j => Apart(saved[i], saved[j])
<1> DEFINE place(i) == CHOOSE m \in DOMAIN First : First[m] = i
<1>1. First \in Seq(Present) /\ \A i \in Present : \E m \in 1..Len(First) : First[m] = i
  BY FirstIsAnOrder, OrderShape, RequestsAssumption
<1>2. \A i \in Present : place(i) \in 1..Len(First) /\ First[place(i)] = i
  BY <1>1
<1>3. saved = [i \in Images |-> IF i \in Present THEN Row(place(i) - 1, place(i) = 1) ELSE NoRow]
  BY DEF Init
<1> HIDE DEF place
<1>4. Len(First) \in Nat
  BY <1>1
<1>5. \A i \in Present : place(i) \in Nat /\ place(i) > 0
  BY <1>2, <1>4
<1>6. \A i \in Images : saved[i] = IF i \in Present THEN Row(place(i) - 1, place(i) = 1) ELSE NoRow
  BY <1>3
<1>7. \A i \in Images \ Present : saved[i] = NoRow /\ ~saved[i].exists /\ saved[i] \in ImageRows
  <2>1. NoRow \in ImageRows /\ ~NoRow.exists
    BY DEF NoRow, ImageRows
  <2> QED BY <1>6, <2>1
<1>8. ASSUME NEW i \in Present
      PROVE  /\ saved[i] \in ImageRows /\ saved[i].exists /\ InPlace(saved[i])
             /\ saved[i].position = place(i) - 1
  <2>1. saved[i] = Row(place(i) - 1, place(i) = 1) /\ place(i) \in Nat /\ place(i) > 0
    BY <1>5, <1>6, RequestsAssumption
  <2> QED BY <2>1 DEF Row, ImageRows, InPlace
<1>9. ASSUME NEW i \in Images, NEW j \in Images, i # j
      PROVE  Apart(saved[i], saved[j])
  <2>1. CASE i \in Present /\ j \in Present
    <3>1. place(i) # place(j)
      BY <1>2, <1>9, <2>1
    <3>2. saved[i].position = place(i) - 1 /\ saved[j].position = place(j) - 1
      BY <1>8, <2>1
    <3> QED BY <1>5, <2>1, <3>1, <3>2 DEF Apart
  <2>2. CASE i \notin Present \/ j \notin Present
    BY <1>7, <2>2 DEF Apart
  <2> QED BY <2>1, <2>2
<1>10. saved \in [Images -> ImageRows]
  <2>1. \A i \in Images : saved[i] \in ImageRows
    BY <1>7, <1>8
  <2> QED BY <1>3, <2>1
<1>11. Exist(saved) = Present
  BY <1>7, <1>8, RequestsAssumption DEF Exist
<1> QED BY <1>8, <1>9, <1>10, <1>11

LEMMA InitInv == Init => IInv
<1> SUFFICES ASSUME Init PROVE IInv
  OBVIOUS
<1>1. /\ rows = saved /\ lock = [i \in Images |-> Nobody]
      /\ savedPhotos = Present /\ photos = Present /\ photosLock = Nobody
      /\ pc = [r \in Requests |-> IF r \in Uploads THEN "asset" ELSE IF r \in Removals THEN "find" ELSE "order"]
      /\ seen = [r \in Requests |-> <<>>] /\ step = [r \in Requests |-> 1]
      /\ assets = Present /\ orphans = {} /\ unsure = {}
  BY DEF Init
<1>2. \A i \in Images : lock[i] = Nobody
  BY <1>1
<1>3. ASSUME NEW r \in Requests
      PROVE  /\ \/ r \in Uploads /\ pc[r] = "asset"
                \/ r \in Removals /\ pc[r] = "find"
                \/ r \in Reorderings /\ pc[r] = "order"
             /\ pc[r] \in Labels /\ seen[r] \in Seq(Images \cup Nat) /\ step[r] = 1
  BY <1>1 DEF Requests, Labels
<1>4. TypeOK
  <2>1. saved \in [Images -> ImageRows] /\ rows \in [Images -> ImageRows]
    BY <1>1, InitRows
  <2>2. lock \in [Images -> Requests \cup {Nobody}] /\ photosLock \in Requests \cup {Nobody}
    BY <1>1
  <2>3. unsure \in SUBSET Images /\ savedPhotos \in SUBSET Images /\ photos \in SUBSET Images /\ assets \in SUBSET Images /\ orphans \in SUBSET Images
    BY <1>1, RequestsAssumption
  <2>4. pc \in [Requests -> Labels] /\ seen \in [Requests -> Seq(Images \cup Nat)] /\ step \in [Requests -> Nat \ {0}]
    BY <1>1, <1>3
  <2> QED BY <1>3, <2>1, <2>2, <2>3, <2>4 DEF TypeOK
<1>5. VersionsFit
  BY <1>1, <1>2, InitRows DEF VersionsFit
<1>6. LocksFit
  BY <1>2 DEF LocksFit
<1>7. PhotosFit
  BY <1>1, <1>3, RequestKinds DEF PhotosFit
<1>8. AssetsFit
  BY <1>1, InitRows DEF AssetsFit
<1>9. ASSUME NEW u \in Uploads PROVE UploadFits(u)
  <2>1. ImageOf[u] \notin Present /\ ImageOf[u] \in Images
    BY RequestsAssumption
  <2>2. ~saved[ImageOf[u]].exists
    BY <2>1, InitRows DEF Exist
  <2>3. pc[u] = "asset"
    BY <1>3, RequestsAssumption, RequestKinds
  <2> QED BY <2>2, <2>3 DEF UploadFits
<1>10. ASSUME NEW r \in Arrangements PROVE ArrangementFits(r)
  BY <1>3, RequestKinds DEF ArrangementFits
<1>11. ASSUME NEW r \in Removals PROVE RemovalFits(r)
  <2>1. pc[r] = "find"
    BY <1>3, RequestsAssumption, RequestKinds
  <2> QED BY <2>1 DEF RemovalFits
<1>12. \A i \in Exist(saved) : InPlace(saved[i])
  BY InitRows
<1>13. savedPhotos \subseteq Exist(saved)
  BY <1>1, InitRows
<1> QED BY <1>4, <1>5, <1>6, <1>7, <1>8, <1>9, <1>10, <1>11, <1>12, <1>13 DEF IInv

-----------------------------------------------------------------------------
(***************************************************************************)
(* What a request's place in its code says of it, and of the rows.         *)
(***************************************************************************)
LEMMA KindOf ==
  ASSUME TypeOK, NEW r \in Requests
  PROVE  /\ pc[r] \in {"asset", "latest", "insert", "push"} => r \in Uploads
         /\ pc[r] \in {"find", "delete", "remaining"} => r \in Removals
         /\ pc[r] = "order" => r \in Reorderings
         /\ pc[r] \in {"apply", "photos"} => r \in Arrangements
         /\ pc[r] = "cleanup" => r \in Uploads \cup Removals
         /\ r \in Uploads \/ r \in Arrangements
         /\ r \in Uploads => r \notin Removals /\ r \notin Reorderings
         /\ r \in Removals => r \notin Reorderings
<1>1. \/ r \in Uploads /\ pc[r] \in {"asset", "latest", "insert", "push", "commit", "cleanup", "done"}
      \/ r \in Removals /\ pc[r] \in {"find", "delete", "remaining", "apply", "photos", "commit", "cleanup", "done"}
      \/ r \in Reorderings /\ pc[r] \in {"order", "apply", "photos", "commit", "done"}
  BY DEF TypeOK
<1> QED BY <1>1, RequestsAssumption DEF Arrangements

\* The rows, versions and locks as the type invariant gives them.
LEMMA Typed ==
  ASSUME TypeOK
  PROVE  /\ \A i \in Images : /\ saved[i] \in ImageRows /\ saved[i].exists \in BOOLEAN /\ saved[i].position \in Int
                              /\ rows[i] \in ImageRows /\ rows[i].exists \in BOOLEAN /\ rows[i].position \in Int
                              /\ lock[i] \in Requests \cup {Nobody}
         /\ \A r \in Requests : step[r] \in Nat /\ step[r] > 0 /\ seen[r] \in Seq(Images \cup Nat) /\ Len(seen[r]) \in Nat
  BY DEF TypeOK, ImageRows

\* Nothing is locked by a request that has not begun to write, or is over.
LEMMA OwnsNothing ==
  ASSUME IInv, NEW r \in Requests,
         pc[r] \notin {"push", "remaining", "apply", "photos", "commit"}
  PROVE  \A i \in Images : lock[i] # r
<1> SUFFICES ASSUME NEW i \in Images, lock[i] = r PROVE FALSE
  OBVIOUS
<1>1. Writes(r, i)
  BY RequestKinds DEF IInv, LocksFit
<1> QED BY <1>1 DEF Writes

\* Images a transaction sees are at different positions.
LEMMA PositionsDiffer ==
  ASSUME TypeOK, VersionsFit, NEW r \in Requests, NEW i \in VisibleImages(r), NEW j \in VisibleImages(r), i # j
  PROVE  View(r, i).position # View(r, j).position
<1>1. i \in Images /\ j \in Images /\ View(r, i).exists /\ View(r, j).exists
  BY DEF VisibleImages
<1>2. /\ Apart(rows[i], rows[j]) /\ Apart(saved[i], saved[j])
      /\ lock[i] # Nobody /\ lock[j] # lock[i] => Apart(saved[i], rows[j])
      /\ lock[j] # Nobody /\ lock[i] # lock[j] => Apart(saved[j], rows[i])
      /\ lock[i] = Nobody => rows[i] = saved[i]
      /\ lock[j] = Nobody => rows[j] = saved[j]
  BY <1>1 DEF VersionsFit
<1>3. r # Nobody
  BY RequestKinds
<1>4. CASE lock[i] = r /\ lock[j] = r
  BY <1>1, <1>2, <1>4 DEF View, Own, Apart
<1>5. CASE lock[i] # r /\ lock[j] # r
  BY <1>1, <1>2, <1>5 DEF View, Own, Apart
<1>6. CASE lock[i] = r /\ lock[j] # r
  <2>1. View(r, i) = rows[i] /\ View(r, j) = saved[j]
    BY <1>6 DEF View, Own
  <2>2. Apart(rows[i], saved[j])
    BY <1>2, <1>6 DEF Apart
  <2> QED BY <1>1, <2>1, <2>2 DEF Apart
<1>7. CASE lock[i] # r /\ lock[j] = r
  <2>1. View(r, i) = saved[i] /\ View(r, j) = rows[j]
    BY <1>7 DEF View, Own
  <2>2. Apart(saved[i], rows[j])
    BY <1>2, <1>7 DEF Apart
  <2> QED BY <1>1, <2>1, <2>2 DEF Apart
<1> QED BY <1>4, <1>5, <1>6, <1>7

\* A row written where the unique index allows it fits the versions of the others.
LEMMA WriteFits ==
  ASSUME TypeOK, VersionsFit, NEW r \in Requests, NEW i \in Images, NEW row \in ImageRows,
         lock[i] \in {r, Nobody},
         row.exists => ~PositionAwaited(r, i, row.position) /\ ~PositionTaken(r, i, row.position),
         Write(r, i, row)
  PROVE  /\ VersionsFit'
         /\ saved' = saved
         /\ rows'[i] = row /\ lock'[i] = r
         /\ \A j \in Images \ {i} : rows'[j] = rows[j] /\ lock'[j] = lock[j]
<1>1. /\ saved' = saved
      /\ rows'[i] = row /\ lock'[i] = r
      /\ \A j \in Images \ {i} : rows'[j] = rows[j] /\ lock'[j] = lock[j]
  BY DEF Write, TypeOK
<1>2. r # Nobody
  BY RequestKinds
<1>3. ASSUME NEW j \in Images \ {i}
      PROVE  /\ Apart(row, rows[j])
             /\ lock[j] \notin {r, Nobody} => Apart(row, saved[j])
             /\ lock[j] # r => Apart(saved[i], rows[j])
  <2>1. CASE ~row.exists
    <3>1. Apart(row, rows[j]) /\ Apart(row, saved[j])
      BY <2>1 DEF Apart
    <3>2. Apart(saved[i], rows[j]) \/ lock[j] = r
      BY DEF VersionsFit
    <3> QED BY <3>1, <3>2
  <2>2. CASE row.exists
    <3>1. lock[j] \notin {r, Nobody} => Apart(row, rows[j]) /\ Apart(row, saved[j])
      BY <2>2 DEF PositionAwaited, HeldByOther, Apart
    <3>2. View(r, j).exists => View(r, j).position # row.position
      BY <2>2 DEF PositionTaken
    <3>3. lock[j] = r => Apart(row, rows[j])
      BY <3>2 DEF View, Own, Apart
    <3>4. lock[j] = Nobody => Apart(row, rows[j])
      <4>1. lock[j] = Nobody => View(r, j) = rows[j]
        BY <1>2 DEF View, Own, VersionsFit
      <4> QED BY <3>2, <4>1 DEF Apart
    <3>5. lock[j] # r => Apart(saved[i], rows[j])
      BY DEF VersionsFit
    <3> QED BY <3>1, <3>3, <3>4, <3>5
  <2> QED BY <2>1, <2>2
<1>4. \A j \in Images : lock'[j] = Nobody => rows'[j] = saved'[j]
  BY <1>1, <1>2 DEF VersionsFit
<1>5. ASSUME NEW a \in Images, NEW b \in Images, a # b
      PROVE  /\ Apart(rows'[a], rows'[b])
             /\ Apart(saved'[a], saved'[b])
             /\ lock'[a] # Nobody /\ lock'[b] # lock'[a] => Apart(saved'[a], rows'[b])
  <2>1. Apart(saved'[a], saved'[b])
    BY <1>1, <1>5 DEF VersionsFit
  <2>2. CASE a = i
    <3>1. Apart(rows'[a], rows'[b])
      BY <1>1, <1>3, <1>5, <2>2
    <3>2. lock[b] # r => Apart(saved'[a], rows'[b])
      BY <1>1, <1>3, <1>5, <2>2
    <3> QED BY <1>1, <1>5, <2>1, <2>2, <3>1, <3>2
  <2>3. CASE b = i
    <3>1. Apart(rows'[a], rows'[b])
      BY <1>1, <1>3, <1>5, <2>3 DEF Apart
    <3>2. lock[a] \notin {r, Nobody} => Apart(saved'[a], rows'[b])
      BY <1>1, <1>3, <1>5, <2>3 DEF Apart
    <3> QED BY <1>1, <1>5, <2>1, <2>3, <3>1, <3>2
  <2>4. CASE a # i /\ b # i
    <3>1. rows'[a] = rows[a] /\ rows'[b] = rows[b] /\ lock'[a] = lock[a] /\ lock'[b] = lock[b]
      BY <1>1, <2>4
    <3> QED BY <1>1, <1>5, <3>1 DEF VersionsFit
  <2> QED BY <2>2, <2>3, <2>4
<1>6. VersionsFit'
  BY <1>4, <1>5 DEF VersionsFit
<1> QED BY <1>1, <1>6

\* The rows after a rollback: those of the transaction are as committed, and free.
LEMMA RolledBackRows ==
  ASSUME TypeOK, VersionsFit, NEW r \in Requests, RolledBack(r)
  PROVE  /\ VersionsFit'
         /\ saved' = saved
         /\ \A i \in Images : IF lock[i] = r THEN rows'[i] = saved[i] /\ lock'[i] = Nobody
                              ELSE rows'[i] = rows[i] /\ lock'[i] = lock[i]
<1>1. /\ saved' = saved
      /\ \A i \in Images : IF lock[i] = r THEN rows'[i] = saved[i] /\ lock'[i] = Nobody
                           ELSE rows'[i] = rows[i] /\ lock'[i] = lock[i]
  BY DEF RolledBack, Own
<1>2. r # Nobody
  BY RequestKinds
<1>3. \A j \in Images : lock'[j] = Nobody => rows'[j] = saved'[j]
  BY <1>1 DEF VersionsFit
<1>4. ASSUME NEW a \in Images, NEW b \in Images, a # b
      PROVE  /\ Apart(rows'[a], rows'[b])
             /\ Apart(saved'[a], saved'[b])
             /\ lock'[a] # Nobody /\ lock'[b] # lock'[a] => Apart(saved'[a], rows'[b])
  <2>1. /\ Apart(rows[a], rows[b]) /\ Apart(saved[a], saved[b])
        /\ lock[a] # Nobody /\ lock[b] # lock[a] => Apart(saved[a], rows[b])
        /\ lock[b] # Nobody /\ lock[a] # lock[b] => Apart(saved[b], rows[a])
    BY <1>4 DEF VersionsFit
  <2>2. CASE lock[a] = r /\ lock[b] = r
    BY <1>1, <2>1, <2>2
  <2>3. CASE lock[a] = r /\ lock[b] # r
    <3>1. rows'[a] = saved[a] /\ rows'[b] = rows[b] /\ lock'[a] = Nobody
      BY <1>1, <2>3
    <3> QED BY <1>1, <1>2, <2>1, <2>3, <3>1
  <2>4. CASE lock[a] # r /\ lock[b] = r
    <3>1. rows'[a] = rows[a] /\ rows'[b] = saved[b]
      BY <1>1, <2>4
    <3>2. Apart(rows[a], saved[b])
      BY <1>2, <2>1, <2>4 DEF Apart
    <3> QED BY <1>1, <2>1, <3>1, <3>2
  <2>5. CASE lock[a] # r /\ lock[b] # r
    <3>1. rows'[a] = rows[a] /\ rows'[b] = rows[b] /\ lock'[a] = lock[a] /\ lock'[b] = lock[b]
      BY <1>1, <2>5
    <3> QED BY <1>1, <2>1, <3>1
  <2> QED BY <2>2, <2>3, <2>4, <2>5
<1>5. VersionsFit'
  BY <1>3, <1>4 DEF VersionsFit
<1> QED BY <1>1, <1>5

\* The rows after a commit: those the transaction wrote are there for all.
LEMMA CommittedRows ==
  ASSUME TypeOK, VersionsFit, NEW r \in Requests, Committed(r)
  PROVE  /\ VersionsFit'
         /\ rows' = rows
         /\ \A i \in Images : IF lock[i] = r THEN saved'[i] = rows[i] /\ lock'[i] = Nobody
                              ELSE saved'[i] = saved[i] /\ lock'[i] = lock[i]
<1>1. /\ rows' = rows
      /\ \A i \in Images : IF lock[i] = r THEN saved'[i] = rows[i] /\ lock'[i] = Nobody
                           ELSE saved'[i] = saved[i] /\ lock'[i] = lock[i]
  BY DEF Committed, Own
<1>2. r # Nobody
  BY RequestKinds
<1>3. \A j \in Images : lock'[j] = Nobody => rows'[j] = saved'[j]
  BY <1>1 DEF VersionsFit
<1>4. ASSUME NEW a \in Images, NEW b \in Images, a # b
      PROVE  /\ Apart(rows'[a], rows'[b])
             /\ Apart(saved'[a], saved'[b])
             /\ lock'[a] # Nobody /\ lock'[b] # lock'[a] => Apart(saved'[a], rows'[b])
  <2>1. /\ Apart(rows[a], rows[b]) /\ Apart(saved[a], saved[b])
        /\ lock[a] # Nobody /\ lock[b] # lock[a] => Apart(saved[a], rows[b])
        /\ lock[b] # Nobody /\ lock[a] # lock[b] => Apart(saved[b], rows[a])
    BY <1>4 DEF VersionsFit
  <2>2. CASE lock[a] = r /\ lock[b] = r
    BY <1>1, <2>1, <2>2
  <2>3. CASE lock[a] = r /\ lock[b] # r
    <3>1. saved'[a] = rows[a] /\ saved'[b] = saved[b] /\ lock'[a] = Nobody
      BY <1>1, <2>3
    <3>2. Apart(rows[a], saved[b])
      <4>1. lock[b] = Nobody => saved[b] = rows[b]
        BY DEF VersionsFit
      <4> QED BY <2>1, <2>3, <4>1 DEF Apart
    <3> QED BY <1>1, <2>1, <3>1, <3>2
  <2>4. CASE lock[a] # r /\ lock[b] = r
    <3>1. saved'[a] = saved[a] /\ saved'[b] = rows[b] /\ lock'[a] = lock[a]
      BY <1>1, <2>4
    <3>2. Apart(saved[a], rows[b])
      <4>1. lock[a] = Nobody => saved[a] = rows[a]
        BY DEF VersionsFit
      <4> QED BY <2>1, <2>4, <4>1
    <3> QED BY <1>1, <2>1, <3>1, <3>2
  <2>5. CASE lock[a] # r /\ lock[b] # r
    <3>1. saved'[a] = saved[a] /\ saved'[b] = saved[b] /\ lock'[a] = lock[a] /\ lock'[b] = lock[b]
      BY <1>1, <2>5
    <3> QED BY <1>1, <2>1, <3>1
  <2> QED BY <2>2, <2>3, <2>4, <2>5
<1>5. VersionsFit'
  BY <1>3, <1>4 DEF VersionsFit
<1> QED BY <1>1, <1>5

-----------------------------------------------------------------------------
(***************************************************************************)
(* Types.                                                                  *)
(***************************************************************************)
\* Every request is where its kind can be.
InCode ==
  /\ pc \in [Requests -> Labels]
  /\ \A q \in Requests :
       \/ q \in Uploads /\ pc[q] \in {"asset", "latest", "insert", "push", "commit", "cleanup", "done"}
       \/ q \in Removals /\ pc[q] \in {"find", "delete", "remaining", "apply", "photos", "commit", "cleanup", "done"}
       \/ q \in Reorderings /\ pc[q] \in {"order", "apply", "photos", "commit", "done"}

LEMMA GotoTyped ==
  ASSUME TypeOK, NEW r \in Requests, NEW label, Goto(r, label),
         \/ r \in Uploads /\ label \in {"asset", "latest", "insert", "push", "commit", "cleanup", "done"}
         \/ r \in Removals /\ label \in {"find", "delete", "remaining", "apply", "photos", "commit", "cleanup", "done"}
         \/ r \in Reorderings /\ label \in {"order", "apply", "photos", "commit", "done"}
  PROVE  InCode' /\ pc'[r] = label /\ \A q \in Requests \ {r} : pc'[q] = pc[q]
<1>1. label \in Labels
  BY DEF Labels
<1>2. pc \in [Requests -> Labels] /\ pc' = [pc EXCEPT ![r] = label]
  BY DEF Goto, TypeOK
<1>3. pc'[r] = label /\ \A q \in Requests \ {r} : pc'[q] = pc[q]
  BY <1>2
<1>4. pc' \in [Requests -> Labels]
  BY <1>1, <1>2
<1>5. ASSUME NEW q \in Requests
      PROVE  \/ q \in Uploads /\ pc'[q] \in {"asset", "latest", "insert", "push", "commit", "cleanup", "done"}
             \/ q \in Removals /\ pc'[q] \in {"find", "delete", "remaining", "apply", "photos", "commit", "cleanup", "done"}
             \/ q \in Reorderings /\ pc'[q] \in {"order", "apply", "photos", "commit", "done"}
  <2>1. CASE q = r
    BY <1>3, <2>1
  <2>2. CASE q # r
    <3>1. pc'[q] = pc[q]
      BY <1>3, <2>2
    <3> QED BY <3>1 DEF TypeOK
  <2> QED BY <2>1, <2>2
<1> QED BY <1>3, <1>4, <1>5 DEF InCode

\* A row written, and rows rolled back, are rows.
LEMMA WriteTyped ==
  ASSUME TypeOK, NEW r \in Requests, NEW i \in Images, NEW row \in ImageRows, Write(r, i, row)
  PROVE  /\ saved' \in [Images -> ImageRows] /\ rows' \in [Images -> ImageRows]
         /\ lock' \in [Images -> Requests \cup {Nobody}]
<1>1. saved \in [Images -> ImageRows] /\ rows \in [Images -> ImageRows] /\ lock \in [Images -> Requests \cup {Nobody}]
  BY DEF TypeOK
<1> QED BY <1>1 DEF Write

\* The order a request finds, and the one it is given, list images it sees.
LEMMA ByPositionShape ==
  ASSUME TypeOK, VersionsFit, NEW r \in Requests
  PROVE  /\ ByPosition(r, VisibleImages(r)) \in Orders(VisibleImages(r))
         /\ \A m, n \in DOMAIN ByPosition(r, VisibleImages(r)) :
              m < n => View(r, ByPosition(r, VisibleImages(r))[m]).position
                         < View(r, ByPosition(r, VisibleImages(r))[n]).position
<1> DEFINE S == VisibleImages(r)
           key == [i \in S |-> View(r, i).position]
<1>1. S \in SUBSET Images
  BY DEF VisibleImages
<1>2. \A i \in S : View(r, i).position \in Int
  BY <1>1, Typed DEF View
<1>3. key \in [S -> Int] /\ \A i \in S : key[i] = View(r, i).position
  BY <1>2
<1>4. \A i, j \in S : i # j => key[i] # key[j]
  BY <1>3, PositionsDiffer
<1> HIDE DEF key
<1>5. \E s \in Orders(S) : \A m, n \in DOMAIN s : m < n => key[s[m]] < key[s[n]]
  BY <1>1, <1>3, <1>4, SortedOrderExists
<1>6. PICK s \in Orders(S) : \A m, n \in DOMAIN s : m < n => key[s[m]] < key[s[n]]
  BY <1>5
<1>7. \A m \in DOMAIN s : s[m] \in S
  BY DEF Orders
<1>8. \A m, n \in DOMAIN s : m < n => View(r, s[m]).position < View(r, s[n]).position
  BY <1>3, <1>6, <1>7
<1> QED BY <1>6, <1>8 DEF ByPosition

LEMMA VisibleOrder ==
  ASSUME NEW r \in Requests, NEW s \in Orders(VisibleImages(r))
  PROVE  /\ s \in Seq(Images) /\ Len(s) \in Nat
         /\ \A m \in 1..Len(s) : s[m] \in VisibleImages(r)
         /\ \A m, n \in 1..Len(s) : s[m] = s[n] => m = n
<1>1. VisibleImages(r) \in SUBSET Images
  BY DEF VisibleImages
<1>2. /\ s \in Seq(VisibleImages(r))
      /\ \A m, n \in 1..Len(s) : s[m] = s[n] => m = n
  BY <1>1, OrderShape
<1>3. \A m \in 1..Len(s) : s[m] \in VisibleImages(r)
  BY <1>2
<1>4. s \in Seq(Images) /\ Len(s) \in Nat
  BY <1>1, <1>2
<1> QED BY <1>2, <1>3, <1>4

LEMMA SeenTyped ==
  ASSUME TypeOK, NEW r \in Requests, NEW s \in Seq(Images \cup Nat), seen' = [seen EXCEPT ![r] = s]
  PROVE  /\ seen' \in [Requests -> Seq(Images \cup Nat)]
         /\ seen'[r] = s /\ \A q \in Requests \ {r} : seen'[q] = seen[q]
<1>1. seen \in [Requests -> Seq(Images \cup Nat)]
  BY DEF TypeOK
<1> QED BY <1>1

-----------------------------------------------------------------------------
(***************************************************************************)
(* A step of one request, seen by the others: it goes on itself, leaves    *)
(* what they have locked alone, and lets no image appear but its upload's. *)
(***************************************************************************)
LeavesOthers(r) ==
  /\ pc[r] # "done"
  /\ \A q \in Requests \ {r} : pc'[q] = pc[q] /\ seen'[q] = seen[q] /\ step'[q] = step[q]
  /\ \A i \in Images, q \in Requests \ {r} :
       /\ lock'[i] = q <=> lock[i] = q
       /\ lock[i] = q => rows'[i] = rows[i] /\ saved'[i] = saved[i]
  /\ \A i \in Images :
       saved'[i].exists => saved[i].exists \/ (r \in Uploads /\ pc[r] = "commit" /\ i = ImageOf[r])
  /\ pc[r] = "cleanup" => pc'[r] = "done"
  /\ unsure \subseteq unsure'
  /\ \A q \in Requests \ {r} : pc[q] = "commit" => photos' = photos /\ savedPhotos' = savedPhotos
  /\ \A u \in Uploads \ {r} : pc[u] \in {"latest", "insert", "push", "commit"} => ImageOf[u] \in assets'

LEMMA OthersFit ==
  ASSUME IInv, NEW r \in Requests, LeavesOthers(r)
  PROVE  /\ \A i \in Images, q \in Requests \ {r} : lock'[i] = q => Writes(q, i)'
         /\ \A u \in Uploads \ {r} : UploadFits(u)'
         /\ \A q \in Arrangements \ {r} : ArrangementFits(q)'
         /\ \A q \in Removals \ {r} : RemovalFits(q)'
<1>1. \A q \in Requests \ {r} : pc'[q] = pc[q] /\ seen'[q] = seen[q] /\ step'[q] = step[q]
  BY DEF LeavesOthers
<1>2. \A i \in Images, q \in Requests \ {r} :
        /\ lock'[i] = q <=> lock[i] = q
        /\ lock[i] = q => rows'[i] = rows[i] /\ saved'[i] = saved[i]
  BY DEF LeavesOthers
<1>3. \A i \in Images :
        saved'[i].exists => saved[i].exists \/ (r \in Uploads /\ pc[r] = "commit" /\ i = ImageOf[r])
  BY DEF LeavesOthers
<1>4. ASSUME NEW i \in Images, NEW q \in Requests \ {r}, lock'[i] = q
      PROVE  Writes(q, i)'
  <2>1. lock[i] = q /\ rows'[i] = rows[i] /\ saved'[i] = saved[i]
    BY <1>2, <1>4
  <2>2. Writes(q, i)
    BY <2>1, RequestKinds DEF IInv, LocksFit
  <2>3. pc'[q] = pc[q] /\ Listed(q)' = Listed(q)
    BY <1>1 DEF Listed
  <2> QED BY <2>1, <2>2, <2>3 DEF Writes
<1>5. ASSUME NEW u \in Uploads \ {r}
      PROVE  UploadFits(u)'
  <2>1. u \in Requests \ {r} /\ ImageOf[u] \in Images
    BY RequestKinds
  <2>2. UploadFits(u)
    BY DEF IInv
  <2>3. pc'[u] = pc[u] /\ seen'[u] = seen[u]
    BY <1>1, <2>1
  <2>4. saved'[ImageOf[u]].exists => pc'[u] = "done" \/ (pc'[u] = "cleanup" /\ ImageOf[u] \in unsure')
    <3>1. r \in Uploads => ImageOf[u] # ImageOf[r]
      BY RequestsAssumption
    <3>2. unsure \subseteq unsure'
      BY DEF LeavesOthers
    <3> QED BY <1>3, <2>1, <2>2, <2>3, <3>1, <3>2 DEF UploadFits
  <2>5. pc'[u] \in {"push", "commit"} => lock'[ImageOf[u]] = u
    BY <1>2, <2>1, <2>2, <2>3 DEF UploadFits
  <2>6. pc'[u] \in {"latest", "insert", "push", "commit"} => ImageOf[u] \in assets'
    BY <2>3 DEF LeavesOthers
  <2>7. pc'[u] = "commit" => photos' = savedPhotos' \cup {ImageOf[u]}
    BY <2>1, <2>2, <2>3 DEF LeavesOthers, UploadFits
  <2>8. pc'[u] = "insert" => seen'[u][1] \in Nat
    BY <2>2, <2>3 DEF UploadFits
  <2> QED BY <2>4, <2>5, <2>6, <2>7, <2>8 DEF UploadFits
<1>6. ASSUME NEW q \in Arrangements \ {r}
      PROVE  ArrangementFits(q)'
  <2>1. q \in Requests \ {r} /\ ArrangementFits(q)
    BY RequestKinds DEF IInv
  <2>2. pc'[q] = pc[q] /\ seen'[q] = seen[q] /\ step'[q] = step[q] /\ Listed(q)' = Listed(q)
    BY <1>1, <2>1 DEF Listed
  <2>3. pc'[q] \in {"apply", "photos", "commit"} =>
          \A m \in 1..Len(seen'[q]) :
            Len(seen'[q]) + m < step'[q] => lock'[seen'[q][m]] = q /\ rows'[seen'[q][m]] = Row(m - 1, m = 1)
    <3> SUFFICES ASSUME pc[q] \in {"apply", "photos", "commit"},
                        NEW m \in 1..Len(seen[q]), Len(seen[q]) + m < step[q]
                 PROVE  lock'[seen[q][m]] = q /\ rows'[seen[q][m]] = Row(m - 1, m = 1)
      BY <2>2
    <3>1. lock[seen[q][m]] = q /\ rows[seen[q][m]] = Row(m - 1, m = 1) /\ seen[q] \in Seq(Images)
      BY <2>1 DEF ArrangementFits
    <3>2. seen[q][m] \in Images
      BY <3>1
    <3> QED BY <1>2, <2>1, <3>1, <3>2
  <2>4. pc'[q] = "commit" => photos' = Listed(q)'
    BY <2>1, <2>2 DEF LeavesOthers, ArrangementFits
  <2> QED BY <2>1, <2>2, <2>3, <2>4 DEF ArrangementFits
<1>7. ASSUME NEW q \in Removals \ {r}
      PROVE  RemovalFits(q)'
  <2>1. q \in Requests \ {r} /\ RemovalFits(q) /\ ImageOf[q] \in Images
    BY RequestKinds DEF IInv
  <2>2. pc'[q] = pc[q] /\ Listed(q)' = Listed(q)
    BY <1>1, <2>1 DEF Listed
  <2>3. pc[q] \in {"delete", "remaining", "apply", "photos", "commit", "cleanup"} =>
          /\ \A u \in Uploads : ImageOf[u] = ImageOf[q] => pc'[u] \in {"cleanup", "done"}
          /\ saved'[ImageOf[q]].exists => saved[ImageOf[q]].exists
    <3> SUFFICES ASSUME pc[q] \in {"delete", "remaining", "apply", "photos", "commit", "cleanup"}
                 PROVE  /\ \A u \in Uploads : ImageOf[u] = ImageOf[q] => pc'[u] \in {"cleanup", "done"}
                        /\ saved'[ImageOf[q]].exists => saved[ImageOf[q]].exists
      OBVIOUS
    <3>1. \A u \in Uploads : ImageOf[u] = ImageOf[q] => pc[u] \in {"cleanup", "done"}
      BY <2>1 DEF RemovalFits
    <3>2. r \in Uploads /\ ImageOf[r] = ImageOf[q] => pc[r] = "cleanup" /\ pc'[r] = "done"
      BY <3>1 DEF LeavesOthers
    <3>3. ASSUME NEW u \in Uploads, ImageOf[u] = ImageOf[q] PROVE pc'[u] \in {"cleanup", "done"}
      <4>1. CASE u = r
        BY <3>2, <3>3, <4>1
      <4>2. CASE u # r
        <5>1. u \in Requests \ {r}
          BY <4>2, RequestKinds
        <5> QED BY <1>1, <3>1, <3>3, <5>1
      <4> QED BY <4>1, <4>2
    <3>4. saved'[ImageOf[q]].exists => saved[ImageOf[q]].exists
      BY <1>3, <2>1, <3>2
    <3> QED BY <3>3, <3>4
  <2>4. pc[q] \in {"remaining", "apply", "photos", "commit"} => ~View(q, ImageOf[q])'.exists
    <3> SUFFICES ASSUME pc[q] \in {"remaining", "apply", "photos", "commit"}
                 PROVE  ~View(q, ImageOf[q])'.exists
      OBVIOUS
    <3>1. ~View(q, ImageOf[q]).exists
      BY <2>1 DEF RemovalFits
    <3>2. CASE lock[ImageOf[q]] = q
      BY <1>2, <2>1, <3>1, <3>2 DEF View, Own
    <3>3. CASE lock[ImageOf[q]] # q
      <4>1. lock'[ImageOf[q]] # q
        BY <1>2, <2>1, <3>3
      <4>2. ~saved[ImageOf[q]].exists
        BY <3>1, <3>3 DEF View, Own
      <4>3. ~saved'[ImageOf[q]].exists
        BY <2>3, <4>2
      <4> QED BY <4>1, <4>3 DEF View, Own
    <3> QED BY <3>2, <3>3
  <2>5. pc'[q] \in {"delete", "remaining", "apply", "photos", "commit", "cleanup"} =>
          \A u \in Uploads : ImageOf[u] = ImageOf[q] => pc'[u] \in {"cleanup", "done"}
    BY <2>2, <2>3
  <2>6. pc'[q] \in {"apply", "photos", "commit"} => ImageOf[q] \notin Listed(q)'
    BY <2>1, <2>2 DEF RemovalFits
  <2>7. pc'[q] = "cleanup" => ~saved'[ImageOf[q]].exists
    BY <2>1, <2>2, <2>3 DEF RemovalFits
  <2>8. pc'[q] \in {"remaining", "apply", "photos", "commit"} => ~View(q, ImageOf[q])'.exists
    BY <2>2, <2>4
  <2> QED BY <2>5, <2>6, <2>7, <2>8 DEF RemovalFits
<1> QED BY <1>4, <1>5, <1>6, <1>7

\* What is left to show of a step: that its own request fits, and the shared state.
LEMMA StepKeeps ==
  ASSUME IInv, NEW r \in Requests, LeavesOthers(r), TypeOK',
         \A i \in Images : lock'[i] = r => Writes(r, i)',
         r \in Uploads => UploadFits(r)',
         r \in Arrangements => ArrangementFits(r)',
         r \in Removals => RemovalFits(r)',
         VersionsFit', PhotosFit', AssetsFit',
         \A i \in Images : saved'[i].exists => InPlace(saved'[i]),
         savedPhotos' \subseteq Exist(saved)'
  PROVE  IInv'
<1>1. LocksFit'
  <2>1. \A i \in Images : lock'[i] \in Requests \cup {Nobody}
    BY DEF TypeOK
  <2>2. \A i \in Images, q \in Requests : lock'[i] = q => Writes(q, i)'
    BY OthersFit
  <2>3. ASSUME NEW i \in Images, lock'[i] # Nobody
        PROVE  Writes(lock[i], i)'
    <3>1. PICK q \in Requests : lock'[i] = q
      BY <2>1, <2>3
    <3>2. Writes(q, i)'
      BY <2>2, <3>1
    <3> QED BY <3>1, <3>2 DEF Writes
  <2> QED BY <2>3 DEF LocksFit
<1>2. \A u \in Uploads : UploadFits(u)'
  BY OthersFit
<1>3. \A q \in Arrangements : ArrangementFits(q)'
  BY OthersFit
<1>4. \A q \in Removals : RemovalFits(q)'
  BY OthersFit
<1>5. \A i \in Exist(saved)' : InPlace(saved'[i])
  BY DEF Exist
<1> QED BY <1>1, <1>2, <1>3, <1>4, <1>5 DEF IInv

\* A step that commits nothing leaves what readers find, and a step that leaves the
\* rows alone leaves them alone for the others too.
LEMMA SavedStays ==
  ASSUME IInv, saved' = saved
  PROVE  /\ Exist(saved)' = Exist(saved)
         /\ \A i \in Images : saved'[i].exists => InPlace(saved'[i])
         /\ savedPhotos' = savedPhotos => savedPhotos' \subseteq Exist(saved)'
<1>1. Exist(saved)' = Exist(saved)
  BY DEF Exist
<1>2. (\A i \in Exist(saved) : InPlace(saved[i])) /\ savedPhotos \subseteq Exist(saved)
  BY DEF IInv
<1>3. \A i \in Images : saved'[i].exists => InPlace(saved'[i])
  BY <1>2 DEF Exist
<1> QED BY <1>1, <1>2, <1>3

LEMMA TableStays ==
  ASSUME IInv, NEW r \in Requests, UNCHANGED table, pc[r] # "done", pc[r] = "cleanup" => pc'[r] = "done",
         unsure \subseteq unsure',
         \A q \in Requests \ {r} : pc'[q] = pc[q] /\ seen'[q] = seen[q] /\ step'[q] = step[q],
         \A q \in Requests \ {r} : pc[q] = "commit" => photos' = photos /\ savedPhotos' = savedPhotos,
         \A u \in Uploads \ {r} : pc[u] \in {"latest", "insert", "push", "commit"} => ImageOf[u] \in assets'
  PROVE  LeavesOthers(r) /\ VersionsFit'
<1>1. saved' = saved /\ rows' = rows /\ lock' = lock
  OBVIOUS
<1>2. LeavesOthers(r)
  BY <1>1 DEF LeavesOthers
<1>3. VersionsFit'
  BY <1>1 DEF IInv, VersionsFit
<1> QED BY <1>2, <1>3

\* Who is not at its commit does not hold the row of the listing.
LEMMA PhotosStay ==
  ASSUME IInv, NEW r \in Requests, UNCHANGED listing, pc[r] # "commit", pc'[r] # "commit",
         \A q \in Requests \ {r} : pc'[q] = pc[q]
  PROVE  PhotosFit'
<1>1. photosLock = Nobody => photos = savedPhotos
  BY DEF IInv, PhotosFit
<1>2. \A q \in Requests : photosLock = q <=> pc[q] = "commit"
  BY DEF IInv, PhotosFit
<1>3. \A q \in Requests : photosLock' = q <=> pc'[q] = "commit"
  <2> SUFFICES ASSUME NEW q \in Requests PROVE photosLock' = q <=> pc'[q] = "commit"
    OBVIOUS
  <2>1. CASE q = r
    BY <1>2, <2>1
  <2>2. CASE q # r
    BY <1>2, <2>2
  <2> QED BY <2>1, <2>2
<1> QED BY <1>1, <1>3 DEF PhotosFit

\* The assets and who answers for them, when none is stored or deleted.
LEMMA AssetsStay ==
  ASSUME IInv, NEW r \in Requests, saved' = saved, UNCHANGED cloud,
         \A q \in Requests \ {r} : pc'[q] = pc[q],
         pc[r] \in {"latest", "insert", "push", "commit"} /\ r \in Uploads =>
           pc'[r] \in {"latest", "insert", "push", "commit", "cleanup"},
         pc[r] # "cleanup"
  PROVE  /\ AssetsFit'
         /\ \A u \in Uploads : pc[u] \in {"latest", "insert", "push", "commit"} => ImageOf[u] \in assets'
<1>1. assets' = assets /\ orphans' = orphans /\ unsure' = unsure /\ Exist(saved)' = Exist(saved)
  BY SavedStays
<1>2. /\ Exist(saved) \subseteq assets \cup unsure
      /\ \A i \in assets : i \in Exist(saved) \cup orphans \cup unsure \/ \E q \in Requests : Answers(q, i)
  BY DEF IInv, AssetsFit
<1>3. ASSUME NEW i, NEW q \in Requests, Answers(q, i)
      PROVE  Answers(q, i)'
  <2>1. CASE q # r
    BY <1>3, <2>1 DEF Answers
  <2>2. CASE q = r
    <3>1. r \in Uploads /\ pc[r] \in {"latest", "insert", "push", "commit"}
      BY <1>3, <2>2 DEF Answers
    <3>2. pc'[r] \in {"latest", "insert", "push", "commit", "cleanup"}
      BY <3>1
    <3> QED BY <1>3, <2>2, <3>1, <3>2 DEF Answers
  <2> QED BY <2>1, <2>2
<1>4. AssetsFit'
  BY <1>1, <1>2, <1>3 DEF AssetsFit
<1>5. \A u \in Uploads : pc[u] \in {"latest", "insert", "push", "commit"} => ImageOf[u] \in assets'
  BY <1>1 DEF IInv, UploadFits
<1> QED BY <1>4, <1>5

\* A step that only reads, or finds nothing to write.
LEMMA QuietKeeps ==
  ASSUME IInv, NEW r \in Requests, TypeOK',
         UNCHANGED table, UNCHANGED listing, UNCHANGED cloud,
         \A q \in Requests \ {r} : pc'[q] = pc[q] /\ seen'[q] = seen[q] /\ step'[q] = step[q],
         pc[r] \notin {"commit", "cleanup", "done"}, pc'[r] # "commit",
         pc[r] \in {"latest", "insert", "push"} =>
           pc'[r] \in {"latest", "insert", "push", "cleanup"},
         \A i \in Images : lock[i] = r => Writes(r, i)',
         r \in Uploads => UploadFits(r)',
         r \in Arrangements => ArrangementFits(r)',
         r \in Removals => RemovalFits(r)'
  PROVE  IInv'
<1>1. AssetsFit' /\ \A u \in Uploads : pc[u] \in {"latest", "insert", "push", "commit"} => ImageOf[u] \in assets'
  BY AssetsStay
<1>2. LeavesOthers(r) /\ VersionsFit'
  BY <1>1, TableStays
<1>3. PhotosFit'
  BY PhotosStay
<1>4. /\ savedPhotos' \subseteq Exist(saved)'
      /\ \A i \in Images : saved'[i].exists => InPlace(saved'[i])
  BY SavedStays
<1>5. \A i \in Images : lock'[i] = r => Writes(r, i)'
  OBVIOUS
<1> QED BY <1>1, <1>2, <1>3, <1>4, <1>5, StepKeeps

-----------------------------------------------------------------------------
(***************************************************************************)
(* upload().                                                               *)
(***************************************************************************)
LEMMA UploadAssetKeeps ==
  ASSUME IInv, NEW r \in Requests, UploadAsset(r)
  PROVE  IInv'
<1>1. /\ pc[r] = "asset" /\ r \in Uploads /\ Goto(r, "latest")
      /\ assets' = assets \cup {ImageOf[r]} /\ orphans' = orphans /\ unsure' = unsure
      /\ UNCHANGED table /\ UNCHANGED listing /\ seen' = seen /\ step' = step
  BY DEF UploadAsset
<1>2. TypeOK /\ r \notin Removals /\ r \notin Arrangements /\ ImageOf[r] \in Images
  BY <1>1, RequestKinds DEF IInv, Arrangements
<1>3. /\ pc'[r] = "latest" /\ \A q \in Requests \ {r} : pc'[q] = pc[q]
      /\ TypeOK'
  <2>1. /\ pc'[r] = "latest" /\ \A q \in Requests \ {r} : pc'[q] = pc[q]
        /\ InCode'
    BY <1>1, <1>2, GotoTyped
  <2>2. assets' \in SUBSET Images
    BY <1>1, <1>2 DEF TypeOK
  <2> QED BY <1>1, <1>2, <2>1, <2>2 DEF TypeOK, InCode
<1>4. \A u \in Uploads : pc[u] \in {"latest", "insert", "push", "commit"} => ImageOf[u] \in assets'
  BY <1>1 DEF IInv, UploadFits
<1>5. LeavesOthers(r) /\ VersionsFit'
  BY <1>1, <1>3, <1>4, TableStays
<1>6. \A i \in Images : lock'[i] # r
  BY <1>1, OwnsNothing
<1>7. PhotosFit'
  BY <1>1, <1>3, PhotosStay
<1>8. /\ Exist(saved)' = Exist(saved) /\ savedPhotos' \subseteq Exist(saved)'
      /\ \A i \in Images : saved'[i].exists => InPlace(saved'[i])
  BY <1>1, SavedStays
<1>9. AssetsFit'
  <2>1. Exist(saved)' \subseteq assets' \cup unsure'
    BY <1>1, <1>8 DEF IInv, AssetsFit
  <2>2. ASSUME NEW i \in assets'
        PROVE  i \in Exist(saved)' \cup orphans' \cup unsure' \/ \E q \in Requests : Answers(q, i)'
    <3>1. CASE i = ImageOf[r]
      BY <1>1, <1>3, <3>1 DEF Answers
    <3>2. CASE i # ImageOf[r]
      <4>1. i \in Exist(saved) \cup orphans \cup unsure \/ \E q \in Requests : Answers(q, i)
        BY <1>1, <2>2, <3>2 DEF IInv, AssetsFit
      <4>2. \A q \in Requests : Answers(q, i) => Answers(q, i)'
        <5>1. ~Answers(r, i)
          BY <3>2 DEF Answers
        <5> QED BY <1>3, <5>1 DEF Answers
      <4> QED BY <1>1, <1>8, <4>1, <4>2
    <3> QED BY <3>1, <3>2
  <2> QED BY <2>1, <2>2 DEF AssetsFit
<1>10. UploadFits(r)'
  <2>1. ~saved[ImageOf[r]].exists
    BY <1>1 DEF IInv, UploadFits
  <2> QED BY <1>1, <1>3, <2>1 DEF UploadFits
<1> QED BY <1>2, <1>3, <1>5, <1>6, <1>7, <1>8, <1>9, <1>10, StepKeeps

\* An upload that is told of a failure leaves the table alone, and nobody is sure of its asset.
LEMMA UploadAssetUnansweredKeeps ==
  ASSUME IInv, NEW r \in Requests, UploadAssetUnanswered(r)
  PROVE  IInv'
<1>1. /\ pc[r] = "asset" /\ r \in Uploads /\ Goto(r, "done")
      /\ assets' = assets \cup {ImageOf[r]} /\ orphans' = orphans /\ unsure' = unsure \cup {ImageOf[r]}
      /\ UNCHANGED table /\ UNCHANGED listing /\ seen' = seen /\ step' = step
  BY DEF UploadAssetUnanswered, Unanswered
<1>2. TypeOK /\ r \notin Removals /\ r \notin Arrangements /\ ImageOf[r] \in Images
  BY <1>1, RequestKinds DEF IInv, Arrangements
<1>3. /\ pc'[r] = "done" /\ \A q \in Requests \ {r} : pc'[q] = pc[q]
      /\ TypeOK'
  <2>1. /\ pc'[r] = "done" /\ \A q \in Requests \ {r} : pc'[q] = pc[q]
        /\ InCode'
    BY <1>1, <1>2, GotoTyped
  <2>2. assets' \in SUBSET Images /\ unsure' \in SUBSET Images
    BY <1>1, <1>2 DEF TypeOK
  <2> QED BY <1>1, <1>2, <2>1, <2>2 DEF TypeOK, InCode
<1>4. \A u \in Uploads : pc[u] \in {"latest", "insert", "push", "commit"} => ImageOf[u] \in assets'
  BY <1>1 DEF IInv, UploadFits
<1>5. LeavesOthers(r) /\ VersionsFit'
  BY <1>1, <1>3, <1>4, TableStays
<1>6. \A i \in Images : lock'[i] # r
  BY <1>1, OwnsNothing
<1>7. PhotosFit'
  BY <1>1, <1>3, PhotosStay
<1>8. /\ Exist(saved)' = Exist(saved) /\ savedPhotos' \subseteq Exist(saved)'
      /\ \A i \in Images : saved'[i].exists => InPlace(saved'[i])
  BY <1>1, SavedStays
<1>9. AssetsFit'
  <2>1. Exist(saved)' \subseteq assets' \cup unsure'
    BY <1>1, <1>8 DEF IInv, AssetsFit
  <2>2. ASSUME NEW i \in assets'
        PROVE  i \in Exist(saved)' \cup orphans' \cup unsure' \/ \E q \in Requests : Answers(q, i)'
    <3>1. CASE i = ImageOf[r]
      BY <1>1, <3>1
    <3>2. CASE i # ImageOf[r]
      <4>1. i \in Exist(saved) \cup orphans \cup unsure \/ \E q \in Requests : Answers(q, i)
        BY <1>1, <2>2, <3>2 DEF IInv, AssetsFit
      <4>2. \A q \in Requests : Answers(q, i) => Answers(q, i)'
        <5>1. ~Answers(r, i)
          BY <3>2 DEF Answers
        <5> QED BY <1>3, <5>1 DEF Answers
      <4> QED BY <1>1, <1>8, <4>1, <4>2
    <3> QED BY <3>1, <3>2
  <2> QED BY <2>1, <2>2 DEF AssetsFit
<1>10. UploadFits(r)'
  BY <1>3 DEF UploadFits
<1> QED BY <1>2, <1>3, <1>5, <1>6, <1>7, <1>8, <1>9, <1>10, StepKeeps

\* An upload that has read the latest position takes the next one.
LEMMA NextPosition ==
  ASSUME IInv, NEW r \in Requests, pc[r] = "latest",
         NEW positions, positions = {View(r, i).position : i \in VisibleImages(r)}
  PROVE  (IF positions = {} THEN 0 ELSE 1 + CHOOSE m \in positions : \A n \in positions : n <= m) \in Nat
<1> DEFINE S == VisibleImages(r)
           s == ByPosition(r, S)
<1>1. positions \subseteq Nat
  <2> SUFFICES ASSUME NEW i \in S PROVE View(r, i).position \in Nat
    OBVIOUS
  <2>1. i \in Images /\ View(r, i).exists
    BY DEF VisibleImages
  <2>2. View(r, i) = saved[i]
    BY <2>1, OwnsNothing DEF View, Own
  <2>3. InPlace(saved[i]) /\ saved[i].position \in Int
    BY <2>1, <2>2, Typed DEF IInv, Exist
  <2> QED BY <2>2, <2>3 DEF InPlace
<1>2. CASE positions # {}
  <2>1. s \in Orders(S) /\ s \in Seq(S) /\ Len(s) \in Nat
        /\ \A i \in S : \E m \in 1..Len(s) : s[m] = i
    <3>1. S \in SUBSET Images
      BY DEF VisibleImages
    <3>2. s \in Orders(S)
      BY ByPositionShape DEF IInv
    <3> HIDE DEF s, S
    <3>3. s \in Seq(S) /\ \A i \in S : \E m \in 1..Len(s) : s[m] = i
      BY <3>1, <3>2, OrderShape
    <3> QED BY <3>2, <3>3
  <2>2. \A m, n \in DOMAIN s : m < n => View(r, s[m]).position < View(r, s[n]).position
    BY ByPositionShape DEF IInv
  <2> HIDE DEF s
  <2> DEFINE last == View(r, s[Len(s)]).position
  <2>3. last \in positions /\ \A n \in positions : n <= last
    <3>1. PICK i \in S : TRUE
      BY <1>2
    <3>2. Len(s) \in 1..Len(s) /\ DOMAIN s = 1..Len(s)
      BY <2>1, <3>1
    <3>3. s[Len(s)] \in S
      BY <2>1, <3>2
    <3>4. last \in positions
      BY <3>3
    <3>5. ASSUME NEW j \in S PROVE View(r, j).position <= last
      <4>1. PICK m \in 1..Len(s) : s[m] = j
        BY <2>1
      <4>2. CASE m = Len(s)
        BY <1>1, <3>4, <4>1, <4>2
      <4>3. CASE m # Len(s)
        <5>1. m < Len(s)
          BY <2>1, <4>3
        <5>2. View(r, s[m]).position < last
          BY <2>2, <3>2, <5>1
        <5>3. View(r, j).position \in Nat /\ last \in Nat
          BY <1>1, <3>4
        <5> QED BY <4>1, <5>2, <5>3
      <4> QED BY <4>2, <4>3
    <3> QED BY <3>4, <3>5
  <2> HIDE DEF last
  <2> DEFINE top == CHOOSE m \in positions : \A n \in positions : n <= m
  <2>4. top \in positions
    BY <2>3
  <2> HIDE DEF top
  <2>5. 1 + top \in Nat
    BY <1>1, <2>4
  <2> QED BY <1>2, <2>5 DEF top
<1> QED BY <1>2

LEMMA ReadLatestKeeps ==
  ASSUME IInv, NEW r \in Requests, ReadLatest(r)
  PROVE  IInv'
<1> DEFINE positions == {View(r, i).position : i \in VisibleImages(r)}
           p == IF positions = {} THEN 0 ELSE 1 + CHOOSE m \in positions : \A n \in positions : n <= m
<1>1. /\ pc[r] = "latest" /\ Goto(r, "insert")
      /\ seen' = [seen EXCEPT ![r] = <<p>>]
      /\ UNCHANGED table /\ UNCHANGED listing /\ step' = step /\ UNCHANGED cloud
  BY DEF ReadLatest
<1>2. /\ TypeOK /\ r \in Uploads /\ r \notin Removals /\ r \notin Arrangements
      /\ ImageOf[r] \in Images
  BY <1>1, KindOf, RequestKinds DEF IInv, Arrangements
<1>3. p \in Nat
  BY <1>1, NextPosition
<1> HIDE DEF p
<1>4. /\ seen' \in [Requests -> Seq(Images \cup Nat)]
      /\ seen'[r] = <<p>> /\ \A q \in Requests \ {r} : seen'[q] = seen[q]
  <2>1. <<p>> \in Seq(Images \cup Nat)
    BY <1>3
  <2> QED BY <1>1, <1>2, <2>1, SeenTyped
<1>5. /\ pc'[r] = "insert" /\ \A q \in Requests \ {r} : pc'[q] = pc[q]
      /\ TypeOK'
  <2>1. /\ pc'[r] = "insert" /\ \A q \in Requests \ {r} : pc'[q] = pc[q]
        /\ InCode'
    BY <1>1, <1>2, GotoTyped
  <2> QED BY <1>1, <1>2, <1>4, <2>1 DEF TypeOK, InCode
<1>6. UploadFits(r)'
  <2>1. ~saved[ImageOf[r]].exists /\ ImageOf[r] \in assets
    BY <1>1, <1>2 DEF IInv, UploadFits
  <2>2. seen'[r][1] \in Nat
    BY <1>3, <1>4
  <2> QED BY <1>1, <1>2, <1>5, <2>1, <2>2 DEF UploadFits
<1>7. \A i \in Images : lock[i] # r
  BY <1>1, OwnsNothing
<1> QED BY <1>1, <1>2, <1>4, <1>5, <1>6, <1>7, QuietKeeps

\* An upload inserts its image where there was none, at a position nobody has.
LEMMA InsertKeeps ==
  ASSUME IInv, NEW r \in Requests, Insert(r)
  PROVE  IInv'
<1> DEFINE i == ImageOf[r]
           p == seen[r][1]
<1>1. /\ pc[r] = "insert" /\ ~PositionAwaited(r, i, p)
      /\ \/ PositionTaken(r, i, p) /\ Goto(r, "cleanup") /\ UNCHANGED table
         \/ ~PositionTaken(r, i, p) /\ Write(r, i, Row(p, p = 0)) /\ Goto(r, "push")
      /\ UNCHANGED listing /\ seen' = seen /\ step' = step /\ UNCHANGED cloud
  BY DEF Insert
<1>2. /\ TypeOK /\ r \in Uploads /\ r \notin Removals /\ r \notin Arrangements
      /\ i \in Images
  BY <1>1, KindOf, RequestKinds DEF IInv, Arrangements
<1>3. p \in Nat /\ ~saved[i].exists /\ i \in assets
  BY <1>1, <1>2 DEF IInv, UploadFits
<1>4. \A j \in Images : lock[j] # r
  BY <1>1, OwnsNothing
<1> HIDE DEF i, p
<1>5. CASE PositionTaken(r, i, p) /\ Goto(r, "cleanup") /\ UNCHANGED table
  <2>1. InCode' /\ pc'[r] = "cleanup" /\ \A q \in Requests \ {r} : pc'[q] = pc[q]
    BY <1>2, <1>5, GotoTyped
  <2>2. TypeOK'
    BY <1>1, <1>2, <1>5, <2>1 DEF TypeOK, InCode
  <2>3. UploadFits(r)'
    BY <1>3, <1>5, <2>1 DEF UploadFits, i
  <2> QED BY <1>1, <1>2, <1>4, <1>5, <2>1, <2>2, <2>3, QuietKeeps
<1>6. CASE ~PositionTaken(r, i, p) /\ Write(r, i, Row(p, p = 0)) /\ Goto(r, "push")
  <2>1. InCode' /\ pc'[r] = "push" /\ \A q \in Requests \ {r} : pc'[q] = pc[q]
    BY <1>2, <1>6, GotoTyped
  <2>2. Row(p, p = 0) \in ImageRows /\ Row(p, p = 0).position = p /\ InPlace(Row(p, p = 0))
    BY <1>3 DEF Row, ImageRows, InPlace
  <2>3. TypeOK'
    <3>1. /\ saved' \in [Images -> ImageRows] /\ rows' \in [Images -> ImageRows]
          /\ lock' \in [Images -> Requests \cup {Nobody}]
      BY <1>2, <1>6, <2>2, WriteTyped
    <3> QED BY <1>1, <1>2, <2>1, <3>1 DEF TypeOK, InCode
  <2>4. lock[i] = Nobody
    <3> SUFFICES ASSUME lock[i] # Nobody PROVE FALSE
      OBVIOUS
    <3>1. lock[i] \in Requests
      BY <1>2, Typed
    <3>2. PICK q \in Requests : lock[i] = q /\ q # r
      BY <1>2, <1>4, <3>1
    <3>3. Writes(q, i)
      BY <1>2, <3>2 DEF IInv, LocksFit
    <3>4. ~(q \in Uploads /\ i = ImageOf[q])
      BY <1>2, <3>2, RequestsAssumption DEF i
    <3>5. ~(q \in Removals /\ i = ImageOf[q] /\ pc[q] \in {"remaining", "apply", "photos", "commit"})
      <4> SUFFICES ASSUME q \in Removals, i = ImageOf[q], pc[q] \in {"remaining", "apply", "photos", "commit"}
                   PROVE  FALSE
        OBVIOUS
      <4>1. RemovalFits(q)
        BY DEF IInv
      <4>2. pc[r] \in {"cleanup", "done"}
        BY <1>2, <4>1 DEF RemovalFits, i
      <4> QED BY <1>1, <4>2
    <3> QED BY <1>3, <3>3, <3>4, <3>5 DEF Writes
  <2>5. /\ VersionsFit'
        /\ saved' = saved
        /\ rows'[i] = Row(p, p = 0) /\ lock'[i] = r
        /\ \A j \in Images \ {i} : rows'[j] = rows[j] /\ lock'[j] = lock[j]
    <3>1. VersionsFit /\ lock[i] \in {r, Nobody}
      BY <2>4 DEF IInv
    <3> QED BY <1>1, <1>2, <1>6, <2>2, <3>1, WriteFits
  <2>6. AssetsFit' /\ \A u \in Uploads : pc[u] \in {"latest", "insert", "push", "commit"} => ImageOf[u] \in assets'
    BY <1>1, <2>1, <2>5, AssetsStay
  <2>7. LeavesOthers(r)
    <3>1. \A j \in Images, q \in Requests \ {r} :
            /\ lock'[j] = q <=> lock[j] = q
            /\ lock[j] = q => rows'[j] = rows[j] /\ saved'[j] = saved[j]
      BY <2>4, <2>5, RequestKinds
    <3> QED BY <1>1, <2>1, <2>5, <2>6, <3>1 DEF LeavesOthers
  <2>8. \A j \in Images : lock'[j] = r => Writes(r, j)'
    <3> SUFFICES ASSUME NEW j \in Images, lock'[j] = r PROVE Writes(r, j)'
      OBVIOUS
    <3>1. j = i
      BY <1>4, <2>5
    <3> QED BY <1>2, <2>1, <2>2, <2>5, <3>1 DEF Writes, i
  <2>9. UploadFits(r)'
    BY <1>1, <1>3, <2>1, <2>5 DEF UploadFits, i
  <2>10. PhotosFit'
    BY <1>1, <2>1, PhotosStay
  <2>11. /\ savedPhotos' \subseteq Exist(saved)'
         /\ \A j \in Images : saved'[j].exists => InPlace(saved'[j])
    BY <1>1, <2>5, SavedStays
  <2> QED BY <1>2, <2>3, <2>5, <2>6, <2>7, <2>8, <2>9, <2>10, <2>11, StepKeeps
<1> QED BY <1>1, <1>5, <1>6

\* The listing's photos are written by one request at a time, on what is committed.
LEMMA PhotosWritten ==
  ASSUME IInv, NEW r \in Requests, photosLock = Nobody, photosLock' = r, savedPhotos' = savedPhotos,
         pc'[r] = "commit", \A q \in Requests \ {r} : pc'[q] = pc[q]
  PROVE  /\ PhotosFit' /\ photos = savedPhotos
         /\ \A q \in Requests : pc[q] # "commit"
<1>1. photos = savedPhotos /\ \A q \in Requests : pc[q] # "commit"
  BY RequestKinds DEF IInv, PhotosFit
<1>2. \A q \in Requests : photosLock' = q <=> pc'[q] = "commit"
  BY <1>1
<1>3. photosLock' # Nobody
  BY RequestKinds
<1> QED BY <1>1, <1>2, <1>3 DEF PhotosFit

LEMMA PushPhotoKeeps ==
  ASSUME IInv, NEW r \in Requests, PushPhoto(r)
  PROVE  IInv'
<1>1. /\ pc[r] = "push" /\ photosLock = Nobody
      /\ photos' = photos \cup {ImageOf[r]} /\ photosLock' = r /\ Goto(r, "commit")
      /\ UNCHANGED table /\ savedPhotos' = savedPhotos /\ seen' = seen /\ step' = step /\ UNCHANGED cloud
  BY DEF PushPhoto
<1>2. /\ TypeOK /\ r \in Uploads /\ r \notin Removals /\ r \notin Arrangements
      /\ ImageOf[r] \in Images
  BY <1>1, KindOf, RequestKinds DEF IInv, Arrangements
<1>3. InCode' /\ pc'[r] = "commit" /\ \A q \in Requests \ {r} : pc'[q] = pc[q]
  BY <1>1, <1>2, GotoTyped
<1>4. TypeOK'
  <2>1. photos' \in SUBSET Images /\ photosLock' \in Requests \cup {Nobody}
    BY <1>1, <1>2 DEF TypeOK
  <2> QED BY <1>1, <1>2, <1>3, <2>1 DEF TypeOK, InCode
<1>5. /\ PhotosFit' /\ photos = savedPhotos
      /\ \A q \in Requests : pc[q] # "commit"
  BY <1>1, <1>3, PhotosWritten
<1>6. AssetsFit' /\ \A u \in Uploads : pc[u] \in {"latest", "insert", "push", "commit"} => ImageOf[u] \in assets'
  BY <1>1, <1>3, AssetsStay
<1>7. LeavesOthers(r) /\ VersionsFit'
  BY <1>1, <1>3, <1>5, <1>6, TableStays
<1>8. \A i \in Images : lock'[i] = r => Writes(r, i)'
  <2> SUFFICES ASSUME NEW i \in Images, lock[i] = r PROVE Writes(r, i)'
    BY <1>1
  <2>1. Writes(r, i)
    BY RequestKinds DEF IInv, LocksFit
  <2> QED BY <1>1, <1>2, <1>3, <2>1 DEF Writes
<1>9. UploadFits(r)'
  <2>1. UploadFits(r)
    BY <1>2 DEF IInv
  <2> QED BY <1>1, <1>3, <1>5, <2>1 DEF UploadFits
<1>10. /\ savedPhotos' \subseteq Exist(saved)'
       /\ \A i \in Images : saved'[i].exists => InPlace(saved'[i])
  BY <1>1, SavedStays
<1> QED BY <1>2, <1>4, <1>5, <1>6, <1>7, <1>8, <1>9, <1>10, StepKeeps

-----------------------------------------------------------------------------
(***************************************************************************)
(* remove() and reorder().                                                 *)
(***************************************************************************)
LEMMA FindImageKeeps ==
  ASSUME IInv, NEW r \in Requests, FindImage(r)
  PROVE  IInv'
<1> DEFINE i == ImageOf[r]
<1>1. /\ pc[r] = "find"
      /\ Goto(r, IF saved[i].exists THEN "delete" ELSE "done")
      /\ UNCHANGED table /\ UNCHANGED listing /\ seen' = seen /\ step' = step /\ UNCHANGED cloud
  BY DEF FindImage
<1>2. /\ TypeOK /\ r \in Removals /\ r \notin Uploads /\ r \in Arrangements
      /\ i \in Images
  BY <1>1, KindOf, RequestKinds DEF IInv, Arrangements
<1>3. /\ InCode' /\ pc'[r] = (IF saved[i].exists THEN "delete" ELSE "done")
      /\ \A q \in Requests \ {r} : pc'[q] = pc[q]
  BY <1>1, <1>2, GotoTyped
<1>4. TypeOK'
  BY <1>1, <1>2, <1>3 DEF TypeOK, InCode
<1>5. \A j \in Images : lock[j] # r
  BY <1>1, OwnsNothing
<1>6. ArrangementFits(r)'
  <2>1. ArrangementFits(r)
    BY <1>2 DEF IInv
  <2> QED BY <1>1, <1>3, <2>1 DEF ArrangementFits
<1>7. RemovalFits(r)'
  <2>1. saved[i].exists => \A u \in Uploads : ImageOf[u] = i => pc[u] \in {"cleanup", "done"} /\ u # r
    BY <1>2, RequestKinds DEF IInv, UploadFits
  <2>2. saved[i].exists => \A u \in Uploads : ImageOf[u] = i => pc'[u] \in {"cleanup", "done"}
    BY <1>3, <2>1, RequestKinds
  <2> QED BY <1>3, <2>2 DEF RemovalFits
<1> QED BY <1>1, <1>2, <1>3, <1>4, <1>5, <1>6, <1>7, QuietKeeps

\* A removal takes the row away, or finds that it is gone already.
LEMMA DeleteRowKeeps ==
  ASSUME IInv, NEW r \in Requests, DeleteRow(r)
  PROVE  IInv'
<1> DEFINE i == ImageOf[r]
<1>1. /\ pc[r] = "delete" /\ ~HeldByOther(r, i)
      /\ IF saved[i].exists THEN Write(r, i, NoRow) ELSE UNCHANGED table
      /\ Goto(r, "remaining")
      /\ UNCHANGED listing /\ seen' = seen /\ step' = step /\ UNCHANGED cloud
  BY DEF DeleteRow
<1>2. /\ TypeOK /\ r \in Removals /\ r \notin Uploads /\ r \in Arrangements
      /\ i \in Images
  BY <1>1, KindOf, RequestKinds DEF IInv, Arrangements
<1>3. InCode' /\ pc'[r] = "remaining" /\ \A q \in Requests \ {r} : pc'[q] = pc[q]
  BY <1>1, <1>2, GotoTyped
<1>4. \A j \in Images : lock[j] # r
  BY <1>1, OwnsNothing
<1>5. lock[i] = Nobody
  BY <1>1, <1>2, <1>4 DEF HeldByOther
<1>6. ArrangementFits(r)'
  <2>1. ArrangementFits(r)
    BY <1>2 DEF IInv
  <2> QED BY <1>1, <1>3, <2>1 DEF ArrangementFits
<1>7. \A u \in Uploads : ImageOf[u] = i => pc'[u] \in {"cleanup", "done"}
  <2>1. RemovalFits(r)
    BY <1>2 DEF IInv
  <2>2. \A u \in Uploads : ImageOf[u] = i => pc[u] \in {"cleanup", "done"} /\ u \in Requests \ {r}
    BY <1>1, <1>2, <2>1, RequestKinds DEF RemovalFits
  <2> QED BY <1>3, <2>2
<1> HIDE DEF i
<1>8. CASE ~saved[i].exists
  <2>1. UNCHANGED table
    BY <1>1, <1>8
  <2>2. TypeOK'
    BY <1>1, <1>2, <1>3, <2>1 DEF TypeOK, InCode
  <2>3. ~View(r, i)'.exists
    BY <1>2, <1>4, <1>8, <2>1 DEF View, Own
  <2>4. RemovalFits(r)'
    BY <1>3, <1>7, <2>3 DEF RemovalFits, i
  <2> QED BY <1>1, <1>2, <1>3, <1>4, <1>6, <2>1, <2>2, <2>4, QuietKeeps
<1>9. CASE saved[i].exists
  <2>1. Write(r, i, NoRow) /\ NoRow \in ImageRows /\ ~NoRow.exists
    BY <1>1, <1>9 DEF NoRow, ImageRows
  <2>2. TypeOK'
    <3>1. /\ saved' \in [Images -> ImageRows] /\ rows' \in [Images -> ImageRows]
          /\ lock' \in [Images -> Requests \cup {Nobody}]
      BY <1>2, <2>1, WriteTyped
    <3> QED BY <1>1, <1>2, <1>3, <3>1 DEF TypeOK, InCode
  <2>3. /\ VersionsFit'
        /\ saved' = saved
        /\ rows'[i] = NoRow /\ lock'[i] = r
        /\ \A j \in Images \ {i} : rows'[j] = rows[j] /\ lock'[j] = lock[j]
    <3>1. VersionsFit /\ lock[i] \in {r, Nobody}
      BY <1>5 DEF IInv
    <3> QED BY <1>2, <2>1, <3>1, WriteFits
  <2>4. AssetsFit' /\ \A u \in Uploads : pc[u] \in {"latest", "insert", "push", "commit"} => ImageOf[u] \in assets'
    BY <1>1, <1>2, <1>3, <2>3, AssetsStay
  <2>5. LeavesOthers(r)
    <3>1. \A j \in Images, q \in Requests \ {r} :
            /\ lock'[j] = q <=> lock[j] = q
            /\ lock[j] = q => rows'[j] = rows[j] /\ saved'[j] = saved[j]
      BY <1>5, <2>3, RequestKinds
    <3> QED BY <1>1, <1>3, <2>3, <2>4, <3>1 DEF LeavesOthers
  <2>6. \A j \in Images : lock'[j] = r => Writes(r, j)'
    <3> SUFFICES ASSUME NEW j \in Images, lock'[j] = r PROVE Writes(r, j)'
      OBVIOUS
    <3>1. j = i
      BY <1>4, <2>3
    <3> QED BY <1>2, <1>3, <2>1, <2>3, <3>1 DEF Writes, i
  <2>7. RemovalFits(r)'
    <3>1. ~View(r, i)'.exists
      BY <2>1, <2>3 DEF View, Own
    <3> QED BY <1>3, <1>7, <3>1 DEF RemovalFits, i
  <2>8. PhotosFit'
    BY <1>1, <1>3, PhotosStay
  <2>9. /\ savedPhotos' \subseteq Exist(saved)'
        /\ \A j \in Images : saved'[j].exists => InPlace(saved'[j])
    BY <1>1, <2>3, SavedStays
  <2> QED BY <1>2, <1>6, <2>2, <2>3, <2>4, <2>5, <2>6, <2>7, <2>8, <2>9, StepKeeps
<1> QED BY <1>8, <1>9

\* The order a request sets out to apply lists images it sees, each once.
LEMMA OrderRead ==
  ASSUME IInv, NEW r \in Arrangements, pc[r] \in {"remaining", "order"},
         NEW s \in Orders(VisibleImages(r)), seen' = [seen EXCEPT ![r] = s], step' = step,
         pc'[r] = "apply"
  PROVE  /\ seen' \in [Requests -> Seq(Images \cup Nat)]
         /\ \A q \in Requests \ {r} : seen'[q] = seen[q]
         /\ ArrangementFits(r)'
         /\ \A i \in Images : ~View(r, i).exists => i \notin Listed(r)'
<1>1. TypeOK /\ r \in Requests /\ ArrangementFits(r)
  BY RequestKinds DEF IInv
<1>2. /\ s \in Seq(Images) /\ Len(s) \in Nat
      /\ \A m \in 1..Len(s) : s[m] \in VisibleImages(r)
      /\ \A m, n \in 1..Len(s) : s[m] = s[n] => m = n
  BY <1>1, VisibleOrder
<1>3. /\ seen' \in [Requests -> Seq(Images \cup Nat)]
      /\ seen'[r] = s /\ \A q \in Requests \ {r} : seen'[q] = seen[q]
  <2>1. s \in Seq(Images \cup Nat)
    BY <1>2
  <2> QED BY <1>1, <2>1, SeenTyped
<1>4. step'[r] = 1
  BY <1>1 DEF ArrangementFits
<1>5. /\ step'[r] <= 2 * Len(s) + 1
      /\ \A m \in 1..Len(s) : ~(Len(s) + m < step'[r])
  BY <1>2, <1>4
<1>6. ArrangementFits(r)'
  BY <1>2, <1>3, <1>4, <1>5 DEF ArrangementFits
<1>7. Listed(r)' = {s[m] : m \in 1..Len(s)}
  BY <1>2, <1>3 DEF Listed
<1>8. ASSUME NEW i \in Images, ~View(r, i).exists PROVE i \notin Listed(r)'
  BY <1>2, <1>7, <1>8 DEF VisibleImages
<1> QED BY <1>3, <1>6, <1>8

LEMMA ReadRemainingKeeps ==
  ASSUME IInv, NEW r \in Requests, ReadRemaining(r)
  PROVE  IInv'
<1>1. /\ pc[r] = "remaining" /\ Goto(r, "apply")
      /\ seen' = [seen EXCEPT ![r] = ByPosition(r, VisibleImages(r))]
      /\ UNCHANGED table /\ UNCHANGED listing /\ step' = step /\ UNCHANGED cloud
  BY DEF ReadRemaining
<1>2. /\ TypeOK /\ VersionsFit /\ r \in Removals /\ r \notin Uploads /\ r \in Arrangements
      /\ ImageOf[r] \in Images
  BY <1>1, KindOf, RequestKinds DEF IInv, Arrangements
<1>3. InCode' /\ pc'[r] = "apply" /\ \A q \in Requests \ {r} : pc'[q] = pc[q]
  BY <1>1, <1>2, GotoTyped
<1>4. ByPosition(r, VisibleImages(r)) \in Orders(VisibleImages(r))
  BY <1>2, ByPositionShape
<1>5. /\ seen' \in [Requests -> Seq(Images \cup Nat)]
      /\ \A q \in Requests \ {r} : seen'[q] = seen[q]
      /\ ArrangementFits(r)'
      /\ \A i \in Images : ~View(r, i).exists => i \notin Listed(r)'
  BY <1>1, <1>2, <1>3, <1>4, OrderRead
<1>6. TypeOK'
  BY <1>1, <1>2, <1>3, <1>5 DEF TypeOK, InCode
<1>7. RemovalFits(r)'
  <2>1. RemovalFits(r)
    BY <1>2 DEF IInv
  <2>2. ~View(r, ImageOf[r]).exists /\ View(r, ImageOf[r])' = View(r, ImageOf[r])
    BY <1>1, <2>1 DEF RemovalFits, View, Own
  <2>3. \A u \in Uploads : ImageOf[u] = ImageOf[r] => pc'[u] \in {"cleanup", "done"}
    BY <1>1, <1>2, <1>3, <2>1, RequestKinds DEF RemovalFits
  <2> QED BY <1>2, <1>3, <1>5, <2>2, <2>3 DEF RemovalFits
<1>8. \A i \in Images : lock[i] = r => Writes(r, i)'
  <2> SUFFICES ASSUME NEW i \in Images, lock[i] = r PROVE Writes(r, i)'
    OBVIOUS
  <2>1. Writes(r, i)
    BY RequestKinds DEF IInv, LocksFit
  <2> QED BY <1>1, <1>2, <1>3, <2>1 DEF Writes
<1> QED BY <1>1, <1>2, <1>3, <1>5, <1>6, <1>7, <1>8, QuietKeeps

LEMMA ReadOrderKeeps ==
  ASSUME IInv, NEW r \in Requests, ReadOrder(r)
  PROVE  IInv'
<1>1. /\ pc[r] = "order"
      /\ \/ (\E s \in Orders(VisibleImages(r)) : seen' = [seen EXCEPT ![r] = s]) /\ Goto(r, "apply")
         \/ Goto(r, "done") /\ seen' = seen
      /\ UNCHANGED table /\ UNCHANGED listing /\ step' = step /\ UNCHANGED cloud
  BY DEF ReadOrder
<1>2. /\ TypeOK /\ r \in Reorderings /\ r \notin Uploads /\ r \notin Removals /\ r \in Arrangements
  BY <1>1, KindOf, RequestKinds DEF IInv, Arrangements
<1>3. \A i \in Images : lock[i] # r
  BY <1>1, OwnsNothing
<1>4. CASE (\E s \in Orders(VisibleImages(r)) : seen' = [seen EXCEPT ![r] = s]) /\ Goto(r, "apply")
  <2>1. InCode' /\ pc'[r] = "apply" /\ \A q \in Requests \ {r} : pc'[q] = pc[q]
    BY <1>2, <1>4, GotoTyped
  <2>2. PICK s \in Orders(VisibleImages(r)) : seen' = [seen EXCEPT ![r] = s]
    BY <1>4
  <2>3. /\ seen' \in [Requests -> Seq(Images \cup Nat)]
        /\ \A q \in Requests \ {r} : seen'[q] = seen[q]
        /\ ArrangementFits(r)'
    BY <1>1, <1>2, <2>1, <2>2, OrderRead
  <2>4. TypeOK'
    BY <1>1, <1>2, <2>1, <2>3 DEF TypeOK, InCode
  <2> QED BY <1>1, <1>2, <1>3, <2>1, <2>3, <2>4, QuietKeeps
<1>5. CASE Goto(r, "done") /\ seen' = seen
  <2>1. InCode' /\ pc'[r] = "done" /\ \A q \in Requests \ {r} : pc'[q] = pc[q]
    BY <1>2, <1>5, GotoTyped
  <2>2. TypeOK'
    BY <1>1, <1>2, <1>5, <2>1 DEF TypeOK, InCode
  <2>3. ArrangementFits(r)'
    BY <2>1 DEF ArrangementFits
  <2> QED BY <1>1, <1>2, <1>3, <1>5, <2>1, <2>2, <2>3, QuietKeeps
<1> QED BY <1>1, <1>4, <1>5

\* A transaction that is rolled back leaves what is committed, and what the others hold.
LEMMA RolledBackKeeps ==
  ASSUME IInv, NEW r \in Requests, Open(r), RolledBack(r)
  PROVE  IInv'
<1> DEFINE label == IF r \in Uploads THEN "cleanup" ELSE "done"
<1>1. /\ rows' = [i \in Images |-> IF Own(r, i) THEN saved[i] ELSE rows[i]]
      /\ lock' = [i \in Images |-> IF Own(r, i) THEN Nobody ELSE lock[i]]
      /\ IF photosLock = r THEN photos' = savedPhotos /\ photosLock' = Nobody ELSE photos' = photos /\ photosLock' = photosLock
      /\ Goto(r, label)
      /\ saved' = saved /\ savedPhotos' = savedPhotos /\ seen' = seen /\ step' = step /\ UNCHANGED cloud
  BY DEF RolledBack, AfterError
<1>2. /\ TypeOK /\ VersionsFit /\ PhotosFit
      /\ pc[r] \in {"latest", "insert", "push", "delete", "remaining", "order", "apply", "photos", "commit"}
  BY DEF IInv, Open
<1>3. \/ r \in Uploads /\ r \notin Removals /\ r \notin Arrangements /\ label = "cleanup"
      \/ r \in Arrangements /\ r \notin Uploads /\ label = "done" /\ (r \in Removals \/ r \in Reorderings)
  BY <1>2, KindOf, RequestKinds DEF Arrangements
<1> HIDE DEF label
<1>4. InCode' /\ pc'[r] = label /\ \A q \in Requests \ {r} : pc'[q] = pc[q]
  BY <1>1, <1>2, <1>3, GotoTyped DEF Arrangements
<1>5. /\ VersionsFit'
      /\ \A i \in Images : IF lock[i] = r THEN rows'[i] = saved[i] /\ lock'[i] = Nobody
                           ELSE rows'[i] = rows[i] /\ lock'[i] = lock[i]
  BY <1>2, RolledBackRows
<1>6. TypeOK'
  <2>1. rows' \in [Images -> ImageRows] /\ lock' \in [Images -> Requests \cup {Nobody}]
    BY <1>1, <1>2 DEF TypeOK
  <2>2. photos' \in SUBSET Images /\ photosLock' \in Requests \cup {Nobody}
    BY <1>1, <1>2 DEF TypeOK
  <2> QED BY <1>1, <1>2, <1>4, <2>1, <2>2 DEF TypeOK, InCode
<1>7. AssetsFit' /\ \A u \in Uploads : pc[u] \in {"latest", "insert", "push", "commit"} => ImageOf[u] \in assets'
  BY <1>1, <1>2, <1>3, <1>4, AssetsStay
<1>8. \A q \in Requests : photosLock = q <=> pc[q] = "commit"
  BY <1>2 DEF PhotosFit
<1>9. LeavesOthers(r)
  <2>1. \A j \in Images, q \in Requests \ {r} :
          /\ lock'[j] = q <=> lock[j] = q
          /\ lock[j] = q => rows'[j] = rows[j] /\ saved'[j] = saved[j]
    BY <1>1, <1>5, RequestKinds
  <2>2. \A q \in Requests \ {r} : pc[q] = "commit" => photos' = photos /\ savedPhotos' = savedPhotos
    BY <1>1, <1>8
  <2> QED BY <1>1, <1>2, <1>4, <1>7, <2>1, <2>2 DEF LeavesOthers
<1>10. \A i \in Images : lock'[i] # r
  BY <1>5, RequestKinds
<1>11. r \in Uploads => UploadFits(r)'
  <2> SUFFICES ASSUME r \in Uploads PROVE UploadFits(r)'
    OBVIOUS
  <2>1. ~saved[ImageOf[r]].exists
    BY <1>2 DEF IInv, UploadFits
  <2>2. pc'[r] = "cleanup"
    BY <1>3, <1>4
  <2> QED BY <1>1, <2>1, <2>2 DEF UploadFits
<1>12. r \in Arrangements => ArrangementFits(r)'
  BY <1>3, <1>4 DEF ArrangementFits
<1>13. r \in Removals => RemovalFits(r)'
  BY <1>3, <1>4 DEF RemovalFits
<1>14. PhotosFit'
  <2>1. photosLock' = Nobody => photos' = savedPhotos'
    BY <1>1, <1>2 DEF PhotosFit
  <2>2. ASSUME NEW q \in Requests PROVE photosLock' = q <=> pc'[q] = "commit"
    <3>1. CASE q = r
      <4>1. pc'[r] # "commit" /\ photosLock' # r
        BY <1>1, <1>3, <1>4, RequestKinds
      <4> QED BY <3>1, <4>1
    <3>2. CASE q # r
      <4>1. photosLock' = q <=> photosLock = q
        BY <1>1, <3>2, RequestKinds
      <4> QED BY <1>4, <1>8, <3>2, <4>1
    <3> QED BY <3>1, <3>2
  <2> QED BY <2>1, <2>2 DEF PhotosFit
<1>15. /\ savedPhotos' \subseteq Exist(saved)'
       /\ \A i \in Images : saved'[i].exists => InPlace(saved'[i])
  BY <1>1, SavedStays
<1> QED BY <1>5, <1>6, <1>7, <1>9, <1>10, <1>11, <1>12, <1>13, <1>14, <1>15, StepKeeps

\* The statement an arrangement is at: an image of its order, and where it goes.
LEMMA PlacedShape ==
  ASSUME IInv, NEW r \in Arrangements, pc[r] = "apply", step[r] <= 2 * Len(seen[r])
  PROVE  /\ Placed(r, step[r]).image \in Images /\ Placed(r, step[r]).position \in Int
         /\ Placed(r, step[r]).image \in Listed(r)
         /\ \A m \in 1..Len(seen[r]) :
              Len(seen[r]) + m < step[r] => seen[r][m] # Placed(r, step[r]).image
         /\ \A m \in 1..Len(seen[r]) :
              Len(seen[r]) + m = step[r] =>
                /\ Placed(r, step[r]).image = seen[r][m] /\ Placed(r, step[r]).position = m - 1
<1> DEFINE n == Len(seen[r])
           k == step[r]
<1>1. TypeOK /\ r \in Requests /\ ArrangementFits(r)
  BY RequestKinds DEF IInv
<1>2. /\ seen[r] \in Seq(Images) /\ n \in Nat /\ k \in Nat /\ k > 0
      /\ \A l, m \in 1..n : seen[r][l] = seen[r][m] => l = m
      /\ \A m \in 1..n : n + m < k => lock[seen[r][m]] = r
  BY <1>1, Typed DEF ArrangementFits
<1>3. CASE k <= n
  <2>1. k \in 1..n
    BY <1>2, <1>3
  <2>2. Placed(r, k).image = seen[r][k] /\ Placed(r, k).position = 0 - k
    BY <1>3 DEF Placed
  <2>3. \A m \in 1..n : ~(n + m < k) /\ ~(n + m = k)
    BY <1>2, <1>3
  <2> QED BY <1>2, <2>1, <2>2, <2>3 DEF Listed
<1>4. CASE k > n
  <2>1. k - n \in 1..n
    BY <1>2, <1>4
  <2>2. Placed(r, k).image = seen[r][k - n] /\ Placed(r, k).position = k - n - 1
    BY <1>2, <1>4 DEF Placed
  <2>3. seen[r][k - n] \in Images /\ seen[r][k - n] \in Listed(r) /\ k - n - 1 \in Int
    BY <1>2, <2>1 DEF Listed
  <2>4. ASSUME NEW m \in 1..n, n + m < k PROVE seen[r][m] # seen[r][k - n]
    <3>1. m # k - n
      BY <1>2, <2>4
    <3> QED BY <1>2, <2>1, <3>1
  <2>5. ASSUME NEW m \in 1..n, n + m = k PROVE m = k - n
    BY <1>2, <2>5
  <2> QED BY <2>2, <2>3, <2>4, <2>5
<1> QED BY <1>2, <1>3, <1>4

\* Each statement of an order writes an image the request still sees to a position
\* nobody has, or the whole is rolled back.
LEMMA ApplyOrderKeeps ==
  ASSUME IInv, NEW r \in Requests, ApplyOrder(r)
  PROVE  IInv'
<1> DEFINE n == Len(seen[r])
           k == step[r]
           i == Placed(r, k).image
           p == Placed(r, k).position
           row == Row(p, Cover(k, n, i))
<1>1. /\ pc[r] = "apply" /\ k <= 2 * n /\ ~HeldByOther(r, i)
      /\ ~View(r, i).exists \/ ~PositionAwaited(r, i, p)
      /\ \/ RolledBack(r)
         \/ /\ View(r, i).exists /\ ~PositionTaken(r, i, p)
            /\ Write(r, i, row) /\ step' = [step EXCEPT ![r] = @ + 1]
            /\ UNCHANGED listing /\ pc' = pc /\ seen' = seen /\ UNCHANGED cloud
  BY DEF ApplyOrder
<1>2. CASE RolledBack(r)
  BY <1>1, <1>2, RolledBackKeeps DEF Open
<1>3. CASE /\ View(r, i).exists /\ ~PositionTaken(r, i, p)
           /\ Write(r, i, row) /\ step' = [step EXCEPT ![r] = @ + 1]
           /\ UNCHANGED listing /\ pc' = pc /\ seen' = seen /\ UNCHANGED cloud
  <2>1. /\ TypeOK /\ VersionsFit /\ r \in Arrangements /\ r \notin Uploads
        /\ ArrangementFits(r)
    BY <1>1, KindOf, RequestKinds DEF IInv
  <2>2. /\ i \in Images /\ p \in Int /\ i \in Listed(r)
        /\ \A m \in 1..n : n + m < k => seen[r][m] # i
        /\ \A m \in 1..n : n + m = k => seen[r][m] = i /\ p = m - 1
    BY <1>1, <2>1, PlacedShape
  <2>3. k \in Nat /\ n \in Nat /\ k > 0 /\ n < k => row = Row(p, k = n + 1)
    BY <2>1, Typed DEF Cover
  <2>4. Cover(k, n, i) \in BOOLEAN
    BY <2>1, <2>2, Typed DEF Cover, ImageRows
  <2>5. row \in ImageRows /\ row.position = p /\ row.exists
    BY <2>2, <2>4 DEF Row, ImageRows
  <2>6. k \in Nat /\ n \in Nat /\ k > 0
    BY <2>1, Typed
  <2>7. lock[i] \in {r, Nobody}
    BY <1>1 DEF HeldByOther
  <2> HIDE DEF i, p, row
  <2>8. /\ VersionsFit'
        /\ saved' = saved
        /\ rows'[i] = row /\ lock'[i] = r
        /\ \A j \in Images \ {i} : rows'[j] = rows[j] /\ lock'[j] = lock[j]
    <3>1. row.exists => ~PositionAwaited(r, i, row.position) /\ ~PositionTaken(r, i, row.position)
      BY <1>1, <1>3, <2>5
    <3> QED BY <1>3, <2>1, <2>2, <2>5, <2>7, <3>1, WriteFits
  <2>9. step' \in [Requests -> Nat \ {0}] /\ step'[r] = k + 1 /\ \A q \in Requests \ {r} : step'[q] = step[q]
    <3>1. step \in [Requests -> Nat \ {0}]
      BY <2>1 DEF TypeOK
    <3>2. k + 1 \in Nat \ {0}
      BY <2>6
    <3> QED BY <1>3, <3>1, <3>2
  <2>10. TypeOK'
    <3>1. /\ saved' \in [Images -> ImageRows] /\ rows' \in [Images -> ImageRows]
          /\ lock' \in [Images -> Requests \cup {Nobody}]
      BY <1>3, <2>1, <2>2, <2>5, WriteTyped
    <3> QED BY <1>3, <2>1, <2>9, <3>1 DEF TypeOK
  <2>11. AssetsFit' /\ \A u \in Uploads : pc[u] \in {"latest", "insert", "push", "commit"} => ImageOf[u] \in assets'
    BY <1>1, <1>3, <2>8, AssetsStay
  <2>12. LeavesOthers(r)
    <3>1. \A j \in Images, q \in Requests \ {r} :
            /\ lock'[j] = q <=> lock[j] = q
            /\ lock[j] = q => rows'[j] = rows[j] /\ saved'[j] = saved[j]
      BY <2>7, <2>8, RequestKinds
    <3> QED BY <1>1, <1>3, <2>8, <2>9, <2>11, <3>1 DEF LeavesOthers
  <2>13. r \in Removals => ImageOf[r] \notin Listed(r) /\ ImageOf[r] # i
    BY <1>1, <2>2 DEF IInv, RemovalFits
  <2>14. saved[i].exists
    <3>1. CASE lock[i] = r
      <4>1. Writes(r, i)
        BY <2>2, <3>1, RequestKinds DEF IInv, LocksFit
      <4> QED BY <2>1, <2>13, <4>1 DEF Writes
    <3>2. CASE lock[i] # r
      BY <1>3, <3>2 DEF View, Own
    <3> QED BY <3>1, <3>2
  <2>15. \A j \in Images : lock'[j] = r => Writes(r, j)'
    <3> SUFFICES ASSUME NEW j \in Images, lock'[j] = r PROVE Writes(r, j)'
      OBVIOUS
    <3>1. Listed(r)' = Listed(r)
      BY <1>3 DEF Listed
    <3>2. CASE j = i
      BY <1>1, <1>3, <2>1, <2>2, <2>5, <2>8, <2>14, <3>1, <3>2 DEF Writes
    <3>3. CASE j # i
      <4>1. lock[j] = r /\ rows'[j] = rows[j] /\ saved'[j] = saved[j]
        BY <2>8, <3>3
      <4>2. Writes(r, j)
        BY <4>1, RequestKinds DEF IInv, LocksFit
      <4> QED BY <1>3, <3>1, <4>1, <4>2 DEF Writes
    <3> QED BY <3>2, <3>3
  <2>16. ArrangementFits(r)'
    <3>1. /\ seen[r] \in Seq(Images) /\ \A l, m \in 1..n : seen[r][l] = seen[r][m] => l = m
          /\ \A m \in 1..n : n + m < k => lock[seen[r][m]] = r /\ rows[seen[r][m]] = Row(m - 1, m = 1)
      BY <1>1, <2>1 DEF ArrangementFits
    <3>2. \A m \in 1..n : seen[r][m] \in Images
      BY <3>1
    <3>3. ASSUME NEW m \in 1..n, n + m < k + 1
          PROVE  lock'[seen[r][m]] = r /\ rows'[seen[r][m]] = Row(m - 1, m = 1)
      <4>1. CASE n + m < k
        BY <2>2, <2>8, <3>1, <3>2, <4>1
      <4>2. CASE n + m = k
        <5>1. seen[r][m] = i /\ p = m - 1 /\ row = Row(p, k = n + 1) /\ (k = n + 1 <=> m = 1)
          <6>1. n < k /\ (k = n + 1 <=> m = 1)
            BY <2>6, <4>2
          <6> QED BY <2>2, <2>3, <4>2, <6>1 DEF row
        <5>2. (k = n + 1) = (m = 1)
          BY <5>1
        <5> QED BY <2>8, <5>1, <5>2
      <4>3. n + m < k \/ n + m = k
        BY <2>6, <3>3
      <4> QED BY <4>1, <4>2, <4>3
    <3>4. step'[r] <= 2 * n + 1
      BY <1>1, <2>6, <2>9
    <3> QED BY <1>1, <1>3, <2>9, <3>1, <3>3, <3>4 DEF ArrangementFits
  <2>17. r \in Removals => RemovalFits(r)'
    <3> SUFFICES ASSUME r \in Removals PROVE RemovalFits(r)'
      OBVIOUS
    <3>1. RemovalFits(r) /\ ImageOf[r] \in Images
      BY RequestKinds DEF IInv
    <3>2. View(r, ImageOf[r])' = View(r, ImageOf[r])
      BY <2>8, <2>13, <3>1 DEF View, Own
    <3>3. Listed(r)' = Listed(r)
      BY <1>3 DEF Listed
    <3> QED BY <1>1, <1>3, <3>1, <3>2, <3>3 DEF RemovalFits
  <2>18. PhotosFit'
    BY <1>1, <1>3, PhotosStay
  <2>19. /\ savedPhotos' \subseteq Exist(saved)'
         /\ \A j \in Images : saved'[j].exists => InPlace(saved'[j])
    BY <1>3, <2>8, SavedStays
  <2> QED BY <2>1, <2>8, <2>10, <2>11, <2>12, <2>15, <2>16, <2>17, <2>18, <2>19, StepKeeps
<1> QED BY <1>1, <1>2, <1>3

LEMMA AppliedKeeps ==
  ASSUME IInv, NEW r \in Requests, Applied(r)
  PROVE  IInv'
<1>1. /\ pc[r] = "apply" /\ step[r] > 2 * Len(seen[r]) /\ Goto(r, "photos")
      /\ UNCHANGED table /\ UNCHANGED listing /\ seen' = seen /\ step' = step /\ UNCHANGED cloud
  BY DEF Applied
<1>2. /\ TypeOK /\ r \in Arrangements /\ r \notin Uploads /\ ArrangementFits(r)
      /\ r \in Removals \/ r \in Reorderings
  BY <1>1, KindOf, RequestKinds DEF IInv, Arrangements
<1>3. InCode' /\ pc'[r] = "photos" /\ \A q \in Requests \ {r} : pc'[q] = pc[q]
  BY <1>1, <1>2, GotoTyped
<1>4. TypeOK'
  BY <1>1, <1>2, <1>3 DEF TypeOK, InCode
<1>5. Listed(r)' = Listed(r)
  BY <1>1 DEF Listed
<1>6. ArrangementFits(r)'
  <2>1. step[r] \in Nat /\ Len(seen[r]) \in Nat /\ step[r] <= 2 * Len(seen[r]) + 1
    BY <1>1, <1>2, Typed DEF ArrangementFits
  <2>2. step[r] = 2 * Len(seen[r]) + 1
    BY <1>1, <2>1
  <2> QED BY <1>1, <1>2, <1>3, <2>2 DEF ArrangementFits
<1>7. r \in Removals => RemovalFits(r)'
  <2> SUFFICES ASSUME r \in Removals PROVE RemovalFits(r)'
    OBVIOUS
  <2>1. RemovalFits(r)
    BY DEF IInv
  <2>2. \A u \in Uploads : u # r
    BY <1>2
  <2>3. View(r, ImageOf[r])' = View(r, ImageOf[r])
    BY <1>1 DEF View, Own
  <2> QED BY <1>1, <1>3, <1>5, <2>1, <2>2, <2>3, RequestKinds DEF RemovalFits
<1>8. \A i \in Images : lock[i] = r => Writes(r, i)'
  <2> SUFFICES ASSUME NEW i \in Images, lock[i] = r PROVE Writes(r, i)'
    OBVIOUS
  <2>1. Writes(r, i)
    BY RequestKinds DEF IInv, LocksFit
  <2> QED BY <1>1, <1>2, <1>3, <1>5, <2>1 DEF Writes
<1> QED BY <1>1, <1>2, <1>3, <1>4, <1>6, <1>7, <1>8, QuietKeeps

LEMMA SetPhotosKeeps ==
  ASSUME IInv, NEW r \in Requests, SetPhotos(r)
  PROVE  IInv'
<1>1. /\ pc[r] = "photos" /\ photosLock = Nobody
      /\ photos' = Listed(r) /\ photosLock' = r /\ Goto(r, "commit")
      /\ UNCHANGED table /\ savedPhotos' = savedPhotos /\ seen' = seen /\ step' = step /\ UNCHANGED cloud
  BY DEF SetPhotos
<1>2. /\ TypeOK /\ r \in Arrangements /\ r \notin Uploads /\ ArrangementFits(r)
      /\ r \in Removals \/ r \in Reorderings
  BY <1>1, KindOf, RequestKinds DEF IInv, Arrangements
<1>3. InCode' /\ pc'[r] = "commit" /\ \A q \in Requests \ {r} : pc'[q] = pc[q]
  BY <1>1, <1>2, GotoTyped
<1>4. Listed(r)' = Listed(r)
  BY <1>1 DEF Listed
<1>5. TypeOK'
  <2>1. seen[r] \in Seq(Images)
    BY <1>1, <1>2 DEF ArrangementFits
  <2>2. Listed(r) \in SUBSET Images
    BY <2>1 DEF Listed
  <2>3. photos' \in SUBSET Images /\ photosLock' \in Requests \cup {Nobody}
    BY <1>1, <2>2
  <2> QED BY <1>1, <1>2, <1>3, <2>3 DEF TypeOK, InCode
<1>6. /\ PhotosFit' /\ \A q \in Requests : pc[q] # "commit"
  BY <1>1, <1>3, PhotosWritten
<1>7. AssetsFit' /\ \A u \in Uploads : pc[u] \in {"latest", "insert", "push", "commit"} => ImageOf[u] \in assets'
  BY <1>1, <1>3, AssetsStay
<1>8. LeavesOthers(r) /\ VersionsFit'
  BY <1>1, <1>3, <1>6, <1>7, TableStays
<1>9. \A i \in Images : lock'[i] = r => Writes(r, i)'
  <2> SUFFICES ASSUME NEW i \in Images, lock[i] = r PROVE Writes(r, i)'
    BY <1>1
  <2>1. Writes(r, i)
    BY RequestKinds DEF IInv, LocksFit
  <2> QED BY <1>1, <1>2, <1>3, <1>4, <2>1 DEF Writes
<1>10. ArrangementFits(r)'
  BY <1>1, <1>2, <1>3, <1>4 DEF ArrangementFits
<1>11. r \in Removals => RemovalFits(r)'
  <2> SUFFICES ASSUME r \in Removals PROVE RemovalFits(r)'
    OBVIOUS
  <2>1. RemovalFits(r)
    BY DEF IInv
  <2>2. \A u \in Uploads : u # r
    BY <1>2
  <2>3. View(r, ImageOf[r])' = View(r, ImageOf[r])
    BY <1>1 DEF View, Own
  <2> QED BY <1>1, <1>3, <1>4, <2>1, <2>2, <2>3, RequestKinds DEF RemovalFits
<1>12. /\ savedPhotos' \subseteq Exist(saved)'
       /\ \A i \in Images : saved'[i].exists => InPlace(saved'[i])
  BY <1>1, SavedStays
<1> QED BY <1>2, <1>5, <1>6, <1>7, <1>8, <1>9, <1>10, <1>11, <1>12, StepKeeps

-----------------------------------------------------------------------------
(***************************************************************************)
(* The end of a transaction, and what follows it.                          *)
(***************************************************************************)
\* What a committing transaction wrote: an upload its image, in its place; the others
\* every image of their order, in its place, and none that was not there.
LEMMA CommittedWrites ==
  ASSUME IInv, NEW r \in Requests, pc[r] = "commit"
  PROVE  /\ \A i \in Images : lock[i] = r /\ rows[i].exists =>
              /\ InPlace(rows[i])
              /\ saved[i].exists \/ (r \in Uploads /\ i = ImageOf[r])
         /\ \A i \in Images : lock[i] = r /\ ~rows[i].exists => r \in Removals /\ i = ImageOf[r]
         /\ r \in Uploads => lock[ImageOf[r]] = r /\ rows[ImageOf[r]].exists
         /\ r \in Arrangements => \A i \in Listed(r) : i \in Images /\ lock[i] = r /\ rows[i].exists
<1>1. r \in Uploads => r \notin Arrangements
  BY RequestKinds
<1>2. ASSUME r \in Arrangements
      PROVE  \A i \in Listed(r) : i \in Images /\ lock[i] = r /\ rows[i].exists /\ InPlace(rows[i])
  <2>1. ArrangementFits(r) /\ Len(seen[r]) \in Nat
    BY <1>2, Typed DEF IInv
  <2>2. /\ seen[r] \in Seq(Images) /\ step[r] = 2 * Len(seen[r]) + 1
        /\ \A m \in 1..Len(seen[r]) :
             Len(seen[r]) + m < step[r] => lock[seen[r][m]] = r /\ rows[seen[r][m]] = Row(m - 1, m = 1)
    BY <2>1 DEF ArrangementFits
  <2>3. ASSUME NEW m \in 1..Len(seen[r])
        PROVE  seen[r][m] \in Images /\ lock[seen[r][m]] = r /\ rows[seen[r][m]] = Row(m - 1, m = 1)
    BY <2>1, <2>2
  <2>4. ASSUME NEW m \in 1..Len(seen[r])
        PROVE  Row(m - 1, m = 1).exists /\ InPlace(Row(m - 1, m = 1))
    BY <2>1 DEF Row, InPlace
  <2> QED BY <2>2, <2>3, <2>4 DEF Listed
<1>3. ASSUME NEW i \in Images, lock[i] = r
      PROVE  /\ rows[i].exists => /\ InPlace(rows[i])
                                  /\ saved[i].exists \/ (r \in Uploads /\ i = ImageOf[r])
             /\ ~rows[i].exists => r \in Removals /\ i = ImageOf[r]
  <2>1. Writes(r, i)
    BY <1>3, RequestKinds DEF IInv, LocksFit
  <2>2. CASE r \in Uploads
    <3>1. i = ImageOf[r] /\ InPlace(rows[i])
      BY <1>1, <2>1, <2>2 DEF Writes, Arrangements
    <3> QED BY <2>2, <3>1 DEF InPlace
  <2>3. CASE r \notin Uploads /\ r \in Arrangements /\ rows[i].exists /\ saved[i].exists /\ i \in Listed(r)
    BY <1>2, <2>3
  <2>4. CASE r \in Removals /\ i = ImageOf[r] /\ ~rows[i].exists
    BY <2>4
  <2> QED BY <2>1, <2>2, <2>3, <2>4 DEF Writes
<1>4. r \in Uploads => lock[ImageOf[r]] = r /\ rows[ImageOf[r]].exists
  <2> SUFFICES ASSUME r \in Uploads PROVE lock[ImageOf[r]] = r /\ rows[ImageOf[r]].exists
    OBVIOUS
  <2>1. lock[ImageOf[r]] = r /\ ImageOf[r] \in Images
    BY RequestKinds DEF IInv, UploadFits
  <2>2. r \notin Removals
    BY <1>1 DEF Arrangements
  <2> QED BY <1>3, <2>1, <2>2
<1> QED BY <1>2, <1>3, <1>4

LEMMA CommitKeeps ==
  ASSUME IInv, NEW r \in Requests, Commit(r) \/ CommitUnanswered(r)
  PROVE  IInv'
<1>0. Committed(r)
  BY DEF Commit, CommitUnanswered
<1>1. /\ pc[r] = "commit"
      /\ saved' = [i \in Images |-> IF Own(r, i) THEN rows[i] ELSE saved[i]]
      /\ lock' = [i \in Images |-> IF Own(r, i) THEN Nobody ELSE lock[i]]
      /\ savedPhotos' = photos /\ photosLock' = Nobody
      /\ rows' = rows /\ photos' = photos /\ seen' = seen /\ step' = step
      /\ assets' = assets /\ orphans' = orphans
  BY <1>0 DEF Committed
<1>2. TypeOK /\ VersionsFit /\ PhotosFit
  BY DEF IInv
<1>2a. \/ r \in Uploads /\ r \notin Removals /\ r \notin Arrangements
       \/ r \in Removals /\ r \in Arrangements /\ r \notin Uploads
       \/ r \in Reorderings /\ r \in Arrangements /\ r \notin Removals /\ r \notin Uploads
  BY <1>2, KindOf, RequestKinds DEF Arrangements
<1>2b. PICK label \in {"cleanup", "done"} :
        /\ Goto(r, label) /\ unsure \subseteq unsure' /\ unsure' \in SUBSET Images
        /\ r \in Uploads => label = "done" \/ ImageOf[r] \in unsure'
        /\ r \in Removals => label = "cleanup" \/ ImageOf[r] \in unsure'
        /\ r \in Reorderings => label = "done"
  <2>1. CASE Commit(r)
    <3>1. Goto(r, IF r \in Removals THEN "cleanup" ELSE "done") /\ unsure' = unsure
      BY <2>1 DEF Commit
    <3>2. unsure' \in SUBSET Images
      BY <1>2, <3>1 DEF TypeOK
    <3>3. CASE r \in Removals
      BY <1>2a, <3>1, <3>2, <3>3, KindOf, <1>2
    <3>4. CASE r \notin Removals
      BY <1>2a, <3>1, <3>2, <3>4
    <3> QED BY <3>3, <3>4
  <2>2. CASE CommitUnanswered(r)
    <3>1. /\ r \in Uploads \cup Removals /\ unsure' = unsure \cup {ImageOf[r]}
          /\ Goto(r, IF r \in Uploads THEN "cleanup" ELSE "done")
      BY <2>2 DEF CommitUnanswered, Unanswered, AfterError
    <3>2. unsure' \in SUBSET Images /\ r \notin Reorderings
      BY <1>2, <3>1, RequestKinds, KindOf DEF TypeOK
    <3>3. CASE r \in Uploads
      BY <3>1, <3>2, <3>3
    <3>4. CASE r \notin Uploads
      BY <3>1, <3>2, <3>4
    <3> QED BY <3>3, <3>4
  <2> QED BY <2>1, <2>2
<1>3. /\ \/ r \in Uploads /\ r \notin Removals /\ r \notin Arrangements
         \/ r \in Removals /\ r \in Arrangements /\ r \notin Uploads
         \/ r \in Reorderings /\ r \in Arrangements /\ r \notin Removals /\ r \notin Uploads /\ label = "done"
      /\ r \in Removals => label = "cleanup" \/ ImageOf[r] \in unsure'
  BY <1>2a, <1>2b
<1>4. InCode' /\ pc'[r] = label /\ \A q \in Requests \ {r} : pc'[q] = pc[q]
  BY <1>1, <1>2, <1>3, <1>2b, GotoTyped
<1>5. /\ VersionsFit'
      /\ \A i \in Images : IF lock[i] = r THEN saved'[i] = rows[i] /\ lock'[i] = Nobody
                           ELSE saved'[i] = saved[i] /\ lock'[i] = lock[i]
  BY <1>0, <1>2, CommittedRows
<1>6. TypeOK'
  <2>1. saved' \in [Images -> ImageRows] /\ lock' \in [Images -> Requests \cup {Nobody}]
    BY <1>1, <1>2 DEF TypeOK
  <2>2. savedPhotos' \in SUBSET Images /\ photosLock' \in Requests \cup {Nobody}
    BY <1>1, <1>2 DEF TypeOK
  <2> QED BY <1>1, <1>2, <1>4, <1>2b, <2>1, <2>2 DEF TypeOK, InCode
<1>7. /\ \A i \in Images : lock[i] = r /\ rows[i].exists =>
           /\ InPlace(rows[i])
           /\ saved[i].exists \/ (r \in Uploads /\ i = ImageOf[r])
      /\ \A i \in Images : lock[i] = r /\ ~rows[i].exists => r \in Removals /\ i = ImageOf[r]
      /\ r \in Uploads => lock[ImageOf[r]] = r /\ rows[ImageOf[r]].exists
      /\ r \in Arrangements => \A i \in Listed(r) : i \in Images /\ lock[i] = r /\ rows[i].exists
  BY <1>1, CommittedWrites
<1>8. \A q \in Requests \ {r} : pc[q] # "commit"
  <2>1. photosLock = r
    BY <1>1, <1>2 DEF PhotosFit
  <2> QED BY <1>2, <2>1 DEF PhotosFit
<1>9. LeavesOthers(r)
  <2>1. \A j \in Images, q \in Requests \ {r} :
          /\ lock'[j] = q <=> lock[j] = q
          /\ lock[j] = q => rows'[j] = rows[j] /\ saved'[j] = saved[j]
    BY <1>1, <1>5, RequestKinds
  <2>2. \A i \in Images : saved'[i].exists => saved[i].exists \/ (r \in Uploads /\ i = ImageOf[r])
    BY <1>5, <1>7
  <2>3. \A u \in Uploads \ {r} : pc[u] \in {"latest", "insert", "push", "commit"} => ImageOf[u] \in assets'
    BY <1>1 DEF IInv, UploadFits
  <2> QED BY <1>1, <1>4, <1>8, <1>2b, <2>1, <2>2, <2>3 DEF LeavesOthers
<1>10. \A i \in Images : lock'[i] # r
  BY <1>5, RequestKinds
<1>11. r \in Uploads => UploadFits(r)'
  BY <1>2b, <1>4 DEF UploadFits
<1>12. r \in Arrangements => ArrangementFits(r)'
  BY <1>2b, <1>4 DEF ArrangementFits
<1>13. r \in Removals => RemovalFits(r)'
  <2> SUFFICES ASSUME r \in Removals PROVE RemovalFits(r)'
    OBVIOUS
  <2>1. RemovalFits(r) /\ ImageOf[r] \in Images /\ pc'[r] \in {"cleanup", "done"} /\ r \in Arrangements /\ r \notin Uploads
    BY <1>3, <1>2b, <1>4, RequestKinds DEF IInv
  <2>2. \A u \in Uploads : ImageOf[u] = ImageOf[r] => pc'[u] \in {"cleanup", "done"}
    <3>1. \A u \in Uploads : ImageOf[u] = ImageOf[r] => pc[u] \in {"cleanup", "done"} /\ u \in Requests \ {r}
      BY <1>1, <2>1, RequestKinds DEF RemovalFits
    <3> QED BY <1>4, <3>1
  <2>3. ~saved'[ImageOf[r]].exists
    <3>1. ~View(r, ImageOf[r]).exists
      BY <1>1, <2>1 DEF RemovalFits
    <3> QED BY <1>5, <2>1, <3>1 DEF View, Own
  <2> QED BY <2>1, <2>2, <2>3 DEF RemovalFits
<1>14. PhotosFit'
  <2>1. \A q \in Requests : pc'[q] # "commit"
    BY <1>2b, <1>4, <1>8
  <2> QED BY <1>1, <2>1, RequestKinds DEF PhotosFit
<1>15. \A i \in Images : saved'[i].exists => InPlace(saved'[i])
  <2>1. \A i \in Images : saved[i].exists => InPlace(saved[i])
    BY DEF IInv, Exist
  <2> QED BY <1>5, <1>7, <2>1
<1>16. savedPhotos' \subseteq Exist(saved)'
  <2>1. CASE r \in Uploads
    <3>1. /\ photos = savedPhotos \cup {ImageOf[r]} /\ ImageOf[r] \in Images
          /\ savedPhotos \subseteq Exist(saved)
      BY <1>1, <2>1, RequestKinds DEF IInv, UploadFits
    <3>2. saved'[ImageOf[r]].exists
      BY <1>5, <1>7, <2>1, <3>1
    <3>3. ASSUME NEW i \in savedPhotos PROVE i \in Images /\ saved'[i].exists
      <4>1. i \in Images /\ saved[i].exists /\ r \notin Removals
        BY <1>3, <2>1, <3>1 DEF Exist, Arrangements
      <4> QED BY <1>5, <1>7, <4>1
    <3> QED BY <1>1, <3>1, <3>2, <3>3 DEF Exist
  <2>2. CASE r \in Arrangements
    <3>1. photos = Listed(r)
      BY <1>1, <2>2 DEF IInv, ArrangementFits
    <3> QED BY <1>1, <1>5, <1>7, <2>2, <3>1 DEF Exist
  <2> QED BY <1>3, <2>1, <2>2
<1>17. AssetsFit'
  <2>1. assets' = assets /\ orphans' = orphans /\ unsure \subseteq unsure'
    BY <1>1, <1>2b
  <2>2. ASSUME NEW i \in Images, saved'[i].exists PROVE i \in assets' \cup unsure'
    <3>1. saved[i].exists \/ (r \in Uploads /\ i = ImageOf[r])
      BY <1>5, <1>7, <2>2
    <3>2. saved[i].exists => i \in assets \cup unsure
      BY DEF IInv, AssetsFit, Exist
    <3>3. r \in Uploads => ImageOf[r] \in assets
      BY <1>1 DEF IInv, UploadFits
    <3> QED BY <2>1, <3>1, <3>2, <3>3
  <2>3. ASSUME NEW i \in assets'
        PROVE  i \in Exist(saved)' \cup orphans' \cup unsure' \/ \E q \in Requests : Answers(q, i)'
    <3>0. i \in Images
      BY <1>2, <2>1, <2>3 DEF TypeOK
    <3>1. i \in Exist(saved) \cup orphans \cup unsure \/ \E q \in Requests : Answers(q, i)
      BY <2>1, <2>3 DEF IInv, AssetsFit
    <3>2. CASE i \in orphans \cup unsure
      BY <2>1, <3>2
    <3>3. CASE i \in Exist(saved)
      <4>1. saved[i].exists
        BY <3>3 DEF Exist
      <4>2. CASE saved'[i].exists
        BY <3>0, <4>2 DEF Exist
      <4>3. CASE ~saved'[i].exists
        <5>1. r \in Removals /\ i = ImageOf[r]
          BY <1>5, <1>7, <3>0, <4>1, <4>3
        <5>2. CASE i \in unsure'
          BY <5>2
        <5>3. CASE i \notin unsure'
          <6>1. pc'[r] = "cleanup"
            BY <1>3, <1>4, <5>1, <5>3
          <6>2. Answers(r, i)'
            BY <5>1, <6>1 DEF Answers
          <6> QED BY <6>2
        <5> QED BY <5>2, <5>3
      <4> QED BY <4>2, <4>3
    <3>4. CASE \E q \in Requests : Answers(q, i)
      <4>1. PICK q \in Requests : Answers(q, i)
        BY <3>4
      <4>2. CASE q # r
        <5>1. Answers(q, i)'
          BY <1>4, <4>1, <4>2 DEF Answers
        <5> QED BY <5>1
      <4>3. CASE q = r
        <5>1. r \in Uploads /\ i = ImageOf[r]
          BY <1>1, <4>1, <4>3 DEF Answers
        <5> QED BY <1>5, <1>7, <3>0, <5>1 DEF Exist
      <4> QED BY <4>2, <4>3
    <3> QED BY <3>1, <3>2, <3>3, <3>4
  <2>4. Exist(saved)' \subseteq assets' \cup unsure'
    BY <2>2 DEF Exist
  <2> QED BY <2>3, <2>4 DEF AssetsFit
<1> QED BY <1>5, <1>6, <1>9, <1>10, <1>11, <1>12, <1>13, <1>14, <1>15, <1>16, <1>17, StepKeeps

\* The asset that is deleted, or given up, is of no image that is on its way, or shown
\* unless the answer of its commit was lost.
LEMMA DeleteAssetKeeps ==
  ASSUME IInv, NEW r \in Requests, DeleteAsset(r)
  PROVE  IInv'
<1> DEFINE i == ImageOf[r]
<1>1. /\ pc[r] = "cleanup" /\ Goto(r, "done")
      /\ \/ assets' = assets \ {i} /\ orphans' = orphans
         \/ orphans' = orphans \cup {i} /\ assets' = assets
      /\ UNCHANGED table /\ UNCHANGED listing /\ unsure' = unsure /\ seen' = seen /\ step' = step
  BY DEF DeleteAsset
<1>2. TypeOK /\ r \in Uploads \cup Removals /\ i \in Images
  BY <1>1, KindOf, RequestKinds DEF IInv
<1>3. InCode' /\ pc'[r] = "done" /\ \A q \in Requests \ {r} : pc'[q] = pc[q]
  BY <1>1, <1>2, GotoTyped
<1>4. TypeOK'
  <2>1. assets' \in SUBSET Images /\ orphans' \in SUBSET Images
    BY <1>1, <1>2 DEF TypeOK
  <2> QED BY <1>1, <1>2, <1>3, <2>1 DEF TypeOK, InCode
<1>5. ~saved[i].exists \/ i \in unsure
  <2>1. CASE r \in Uploads
    BY <1>1, <2>1 DEF IInv, UploadFits
  <2>2. CASE r \in Removals
    BY <1>1, <2>2 DEF IInv, RemovalFits
  <2> QED BY <1>2, <2>1, <2>2
<1>6. \A u \in Uploads \ {r} : ImageOf[u] = i => pc[u] \in {"cleanup", "done"}
  <2>1. CASE r \in Uploads
    BY <2>1, RequestsAssumption
  <2>2. CASE r \in Removals
    BY <1>1, <2>2 DEF IInv, RemovalFits
  <2> QED BY <1>2, <2>1, <2>2
<1>7. \A u \in Uploads \ {r} : pc[u] \in {"latest", "insert", "push", "commit"} => ImageOf[u] \in assets'
  <2> SUFFICES ASSUME NEW u \in Uploads \ {r}, pc[u] \in {"latest", "insert", "push", "commit"}
               PROVE  ImageOf[u] \in assets'
    OBVIOUS
  <2>1. ImageOf[u] # i /\ ImageOf[u] \in assets
    BY <1>6 DEF IInv, UploadFits
  <2> QED BY <1>1, <2>1
<1>8. LeavesOthers(r) /\ VersionsFit'
  BY <1>1, <1>3, <1>7, TableStays
<1>9. \A j \in Images : lock'[j] # r
  BY <1>1, OwnsNothing
<1>10. /\ r \in Uploads => UploadFits(r)'
       /\ r \in Arrangements => ArrangementFits(r)'
       /\ r \in Removals => RemovalFits(r)'
  BY <1>3 DEF UploadFits, ArrangementFits, RemovalFits
<1>11. PhotosFit'
  BY <1>1, <1>3, PhotosStay
<1>12. /\ Exist(saved)' = Exist(saved) /\ savedPhotos' \subseteq Exist(saved)'
       /\ \A j \in Images : saved'[j].exists => InPlace(saved'[j])
  BY <1>1, SavedStays
<1>13. AssetsFit'
  <2>1. Exist(saved) \subseteq assets \cup unsure
    BY DEF IInv, AssetsFit
  <2>2. Exist(saved)' \subseteq assets' \cup unsure'
    BY <1>1, <1>5, <1>12, <2>1 DEF Exist
  <2>3. ASSUME NEW j \in assets'
        PROVE  j \in Exist(saved)' \cup orphans' \cup unsure' \/ \E q \in Requests : Answers(q, j)'
    <3>1. j \in assets /\ (j = i => i \in orphans')
      BY <1>1, <2>3
    <3>2. j \in Exist(saved) \cup orphans \cup unsure \/ \E q \in Requests : Answers(q, j)
      BY <3>1 DEF IInv, AssetsFit
    <3>3. CASE j = i
      BY <3>1, <3>3
    <3>4. CASE j # i
      <4>1. \A q \in Requests : Answers(q, j) => Answers(q, j)'
        <5>1. ~Answers(r, j)
          BY <3>4 DEF Answers
        <5> QED BY <1>3, <5>1 DEF Answers
      <4> QED BY <1>1, <1>12, <3>2, <4>1
    <3> QED BY <3>3, <3>4
  <2> QED BY <2>2, <2>3 DEF AssetsFit
<1> QED BY <1>4, <1>8, <1>9, <1>10, <1>11, <1>12, <1>13, StepKeeps

-----------------------------------------------------------------------------
(***************************************************************************)
(* The theorems.                                                           *)
(***************************************************************************)
LEMMA NextKeeps == IInv /\ [Next]_vars => IInv'
<1> SUFFICES ASSUME IInv, [Next]_vars PROVE IInv'
  OBVIOUS
<1>1. CASE Next
  <2>1. PICK r \in Requests : UploadStep(r) \/ ArrangeStep(r) \/ Commit(r) \/ CommitUnanswered(r)
                              \/ Expire(r) \/ DeleteAsset(r)
    BY <1>1 DEF Next
  <2>2. CASE UploadStep(r)
    BY <2>2, UploadAssetKeeps, UploadAssetUnansweredKeeps, ReadLatestKeeps, InsertKeeps, PushPhotoKeeps DEF UploadStep
  <2>3. CASE ArrangeStep(r)
    BY <2>3, FindImageKeeps, DeleteRowKeeps, ReadRemainingKeeps, ReadOrderKeeps, ApplyOrderKeeps,
       AppliedKeeps, SetPhotosKeeps DEF ArrangeStep
  <2>4. CASE Commit(r) \/ CommitUnanswered(r)
    BY <2>4, CommitKeeps
  <2>5. CASE Expire(r)
    BY <2>5, RolledBackKeeps DEF Expire
  <2>6. CASE DeleteAsset(r)
    BY <2>6, DeleteAssetKeeps
  <2> QED BY <2>1, <2>2, <2>3, <2>4, <2>5, <2>6
<1>2. CASE UNCHANGED vars
  BY <1>2 DEF vars, IInv, TypeOK, VersionsFit, LocksFit, Writes, Listed, PhotosFit, AssetsFit, Answers, Exist,
     UploadFits, ArrangementFits, RemovalFits, View, Own
<1> QED BY <1>1, <1>2

\* The rows, their uncommitted versions and their locks, and the place of every request,
\* are what the code gives them, whatever the number of images and of requests.
THEOREM TypeCorrect == Spec => []TypeOK
<1>1. IInv => TypeOK
  BY DEF IInv
<1> QED BY <1>1, InitInv, NextKeeps, PTL DEF Spec

\* However uploads, removals and reorderings of a listing's images interleave, statement
\* by statement, and whichever are rolled back, a reader finds the image at position 0 to
\* be the only cover, no two images at a position, and no photo of an image that is gone.
THEOREM GalleryConsistent == Spec => []GalleryIsConsistent
<1>1. IInv => GalleryIsConsistent
  <2> SUFFICES ASSUME IInv PROVE GalleryIsConsistent
    OBVIOUS
  <2>1. CoverIsFirst
    <3> SUFFICES ASSUME NEW i \in Exist(saved)
                 PROVE  /\ saved[i].position >= 0
                        /\ saved[i].cover = (saved[i].position = 0)
                        /\ \A j \in Exist(saved) \ {i} : saved[i].position # saved[j].position
      BY DEF CoverIsFirst
    <3>1. InPlace(saved[i])
      BY DEF IInv
    <3>2. ASSUME NEW j \in Exist(saved) \ {i} PROVE saved[i].position # saved[j].position
      <4>1. i \in Images /\ j \in Images /\ i # j /\ saved[i].exists /\ saved[j].exists
        BY DEF Exist
      <4>2. Apart(saved[i], saved[j])
        BY <4>1 DEF IInv, VersionsFit
      <4> QED BY <4>1, <4>2 DEF Apart
    <3> QED BY <3>1, <3>2 DEF InPlace
  <2>2. PhotosNameExistingImages
    BY DEF IInv, PhotosNameExistingImages
  <2> QED BY <2>1, <2>2 DEF GalleryIsConsistent
<1> QED BY <1>1, InitInv, NextKeeps, PTL DEF Spec

\* Unless an answer was lost, an image that is shown has its asset, and once all requests
\* are over no asset is left without an image but those whose deletion failed.
THEOREM AssetsFollow == Spec => []AssetsFollowRows
<1>1. IInv => AssetsFollowRows
  <2> SUFFICES ASSUME IInv PROVE AssetsFollowRows
    OBVIOUS
  <2>1. /\ Exist(saved) \subseteq assets \cup unsure
        /\ \A i \in assets : i \in Exist(saved) \cup orphans \cup unsure \/ \E r \in Requests : Answers(r, i)
    BY DEF IInv, AssetsFit
  <2>2. ASSUME \A r \in Requests : pc[r] \in {"done"} \cup Beginnings
        PROVE  \A r \in Requests, i \in assets : ~Answers(r, i)
    BY <2>2 DEF Answers, Beginnings
  <2> QED BY <2>1, <2>2 DEF AssetsFollowRows
<1> QED BY <1>1, InitInv, NextKeeps, PTL DEF Spec

=============================================================================
