---------------------------- MODULE ListingImages ----------------------------
(***************************************************************************)
(* The images of one listing: src/listing-images/listing-images.service.   *)
(*                                                                         *)
(* Uploads, removals and reorderings are requests whose transactions run   *)
(* under read committed and do not lock the listing first, so they         *)
(* interleave statement by statement.  A statement reads the committed     *)
(* rows and the transaction's own, waits for a row or a position another   *)
(* transaction has written, and fails when the row has gone or the         *)
(* position is taken.  A transaction may be rolled back at any time: its   *)
(* deadline passes, or it is the victim of a deadlock.  A commit that took *)
(* effect, and an asset that was stored, may be reported as an error: the  *)
(* answer is lost, and the request goes on as if it had failed.            *)
(***************************************************************************)
EXTENDS Integers, FiniteSets, Sequences

CONSTANTS
  Images,        \* every image that is there or may be uploaded
  Present,       \* those the listing starts with
  Uploads,       \* requests, [Uploads -> Images] says what each brings
  Removals,      \* [Removals -> Images] says what each takes away
  Reorderings,
  ImageOf,
  MaxRequests,   \* of these that come
  MaxLost        \* answers of the database and of the storage that may be lost

Requests == Uploads \cup Removals \cup Reorderings

Nobody == "nobody"   \* no transaction holds the row

ASSUME RequestsAssumption ==
  /\ Present \subseteq Images /\ IsFiniteSet(Images)
  /\ ImageOf \in [Uploads \cup Removals -> Images]
  /\ \A u \in Uploads : ImageOf[u] \notin Present
  /\ \A u, v \in Uploads : ImageOf[u] = ImageOf[v] => u = v   \* each brings an image of its own
  /\ Uploads \cap Removals = {} /\ (Uploads \cup Removals) \cap Reorderings = {}
  /\ Nobody \notin Requests

VARIABLES
  saved,     \* the committed rows: [Images -> row]
  rows,      \* the newest versions, of uncommitted transactions too
  lock,      \* [Images -> Requests \cup {Nobody}], who wrote the newest version
  savedPhotos, photos, photosLock,   \* the same for listings.photos, as a set
  pc,        \* what each request does next
  seen,      \* the position an upload takes, the order of images the others apply
  step,      \* the next statement of applyImageOrder()
  assets,    \* what Cloudinary stores
  orphans,   \* the assets whose deletion failed and was logged
  unsure     \* the images of the uploads and removals whose answer was lost

table == <<saved, rows, lock>>
listing == <<savedPhotos, photos, photosLock>>
cloud == <<assets, orphans, unsure>>
vars == <<table, listing, pc, seen, step, cloud>>

NoRow == [position |-> 0, cover |-> FALSE, exists |-> FALSE]

Row(position, cover) == [position |-> position, cover |-> cover, exists |-> TRUE]

Exist(table_) == {i \in Images : table_[i].exists}

-----------------------------------------------------------------------------
(***************************************************************************)
(* What a statement of transaction r sees, waits for and fails on.         *)
(***************************************************************************)
Own(r, i) == lock[i] = r

View(r, i) == IF Own(r, i) THEN rows[i] ELSE saved[i]

VisibleImages(r) == {i \in Images : View(r, i).exists}

HeldByOther(r, i) == lock[i] \notin {r, Nobody}

\* Another transaction has put an image at the position, or may put it back there.
PositionAwaited(r, i, p) ==
  \E j \in Images \ {i} : /\ HeldByOther(r, j)
                          /\ \E v \in {rows[j], saved[j]} : v.exists /\ v.position = p

PositionTaken(r, i, p) ==
  \E j \in Images \ {i} : View(r, j).exists /\ View(r, j).position = p

Write(r, i, row) ==
  /\ rows' = [rows EXCEPT ![i] = row]
  /\ lock' = [lock EXCEPT ![i] = r]
  /\ UNCHANGED saved

Goto(r, label) == pc' = [pc EXCEPT ![r] = label]

\* Where a request is that has not come yet, and in its transaction.
Beginnings == {"asset", "find", "order"}

Open(r) == pc[r] \in {"latest", "insert", "push", "delete", "remaining", "apply", "photos", "commit"}

-----------------------------------------------------------------------------
\* Orders of a set of images, and the one of their committed positions.
Orders(S) == {s \in [1..Cardinality(S) -> S] : \A m, n \in DOMAIN s : m # n => s[m] # s[n]}

ByPosition(r, S) ==
  CHOOSE s \in Orders(S) : \A m, n \in DOMAIN s : m < n => View(r, s[m]).position < View(r, s[n]).position

First == CHOOSE s \in Orders(Present) : TRUE

Init ==
  /\ saved = [i \in Images |->
                IF i \in Present
                THEN LET n == CHOOSE m \in DOMAIN First : First[m] = i IN Row(n - 1, n = 1)
                ELSE NoRow]
  /\ rows = saved
  /\ lock = [i \in Images |-> Nobody]
  /\ savedPhotos = Present /\ photos = Present /\ photosLock = Nobody
  /\ pc = [r \in Requests |-> IF r \in Uploads THEN "asset" ELSE IF r \in Removals THEN "find" ELSE "order"]
  /\ seen = [r \in Requests |-> <<>>]
  /\ step = [r \in Requests |-> 1]
  /\ assets = Present
  /\ orphans = {} /\ unsure = {}

\* Any of the requests may come, up to the bound.
MoreCome == Cardinality({q \in Requests : pc[q] \notin Beginnings}) < MaxRequests

(***************************************************************************)
(* upload().                                                               *)
(***************************************************************************)
UploadAsset(r) ==
  /\ pc[r] = "asset" /\ r \in Uploads /\ MoreCome
  /\ assets' = assets \cup {ImageOf[r]}
  /\ Goto(r, "latest")
  /\ UNCHANGED <<table, listing, seen, step, orphans, unsure>>

\* The answer is lost.
Unanswered(r) == Cardinality(unsure) < MaxLost /\ unsure' = unsure \cup {ImageOf[r]}

\* The asset is stored and the call fails: its public id is never known.
UploadAssetUnanswered(r) ==
  /\ pc[r] = "asset" /\ r \in Uploads /\ MoreCome
  /\ assets' = assets \cup {ImageOf[r]} /\ Unanswered(r)
  /\ Goto(r, "done")
  /\ UNCHANGED <<table, listing, seen, step, orphans>>

\* Positions are read before anything is locked; images may go meanwhile.
ReadLatest(r) ==
  LET positions == {View(r, i).position : i \in VisibleImages(r)}
  IN  /\ pc[r] = "latest"
      /\ seen' = [seen EXCEPT ![r] =
                    <<IF positions = {} THEN 0
                      ELSE 1 + CHOOSE p \in positions : \A q \in positions : q <= p>>]
      /\ Goto(r, "insert")
      /\ UNCHANGED <<table, listing, step, cloud>>

Insert(r) ==
  LET i == ImageOf[r]
      p == seen[r][1]
  IN  /\ pc[r] = "insert"
      /\ ~PositionAwaited(r, i, p)
      /\ IF PositionTaken(r, i, p)
         THEN Goto(r, "cleanup") /\ UNCHANGED table
         ELSE Write(r, i, Row(p, p = 0)) /\ Goto(r, "push")
      /\ UNCHANGED <<listing, seen, step, cloud>>

\* photos: { push }, on the row as it is once the lock is granted.
PushPhoto(r) ==
  /\ pc[r] = "push"
  /\ photosLock = Nobody
  /\ photos' = photos \cup {ImageOf[r]}
  /\ photosLock' = r
  /\ Goto(r, "commit")
  /\ UNCHANGED <<table, savedPhotos, seen, step, cloud>>

(***************************************************************************)
(* remove() and reorder().                                                 *)
(***************************************************************************)
FindImage(r) ==
  /\ pc[r] = "find" /\ MoreCome
  /\ Goto(r, IF saved[ImageOf[r]].exists THEN "delete" ELSE "done")
  /\ UNCHANGED <<table, listing, seen, step, cloud>>

\* deleteMany(): no error when somebody else has removed the image.
DeleteRow(r) ==
  LET i == ImageOf[r]
  IN  /\ pc[r] = "delete"
      /\ ~HeldByOther(r, i)
      /\ IF saved[i].exists THEN Write(r, i, NoRow) ELSE UNCHANGED table
      /\ Goto(r, "remaining")
      /\ UNCHANGED <<listing, seen, step, cloud>>

ReadRemaining(r) ==
  /\ pc[r] = "remaining"
  /\ seen' = [seen EXCEPT ![r] = ByPosition(r, VisibleImages(r))]
  /\ Goto(r, "apply")
  /\ UNCHANGED <<table, listing, step, cloud>>

\* resolveRequestedOrder(): some order of exactly the images there are, or an error.
ReadOrder(r) ==
  /\ pc[r] = "order" /\ MoreCome
  /\ \/ /\ \E s \in Orders(VisibleImages(r)) : seen' = [seen EXCEPT ![r] = s]
        /\ Goto(r, "apply")
     \/ Goto(r, "done") /\ UNCHANGED seen
  /\ UNCHANGED <<table, listing, step, cloud>>

\* Statement k of applyImageOrder(): out of the way first, then into place.
Placed(r, k) ==
  LET n == Len(seen[r])
  IN  IF k <= n THEN [image |-> seen[r][k], position |-> 0 - k]
      ELSE [image |-> seen[r][k - n], position |-> k - n - 1]

\* Mutated form of Cover: the flag is left as it was.
CoverAsItWas(k, n, i) == rows[i].cover

Cover(k, n, i) == IF k <= n THEN rows[i].cover ELSE k = n + 1

\* What a request does about an error, in or at the end of its transaction.
AfterError(r) == Goto(r, IF r \in Uploads THEN "cleanup" ELSE "done")

RolledBack(r) ==
  /\ rows' = [i \in Images |-> IF Own(r, i) THEN saved[i] ELSE rows[i]]
  /\ lock' = [i \in Images |-> IF Own(r, i) THEN Nobody ELSE lock[i]]
  /\ IF photosLock = r THEN photos' = savedPhotos /\ photosLock' = Nobody ELSE UNCHANGED <<photos, photosLock>>
  /\ AfterError(r)
  /\ UNCHANGED <<saved, savedPhotos, seen, step, cloud>>

ApplyOrder(r) ==
  LET n == Len(seen[r])
      k == step[r]
      i == Placed(r, k).image
      p == Placed(r, k).position
  IN  /\ pc[r] = "apply" /\ k <= 2 * n
      /\ ~HeldByOther(r, i)
      /\ ~View(r, i).exists \/ ~PositionAwaited(r, i, p)
      /\ IF ~View(r, i).exists \/ PositionTaken(r, i, p)
         THEN RolledBack(r)
         ELSE /\ Write(r, i, Row(p, Cover(k, n, i)))
              /\ step' = [step EXCEPT ![r] = @ + 1]
              /\ UNCHANGED <<listing, pc, seen, cloud>>

Applied(r) ==
  /\ pc[r] = "apply" /\ step[r] > 2 * Len(seen[r])
  /\ Goto(r, "photos")
  /\ UNCHANGED <<table, listing, seen, step, cloud>>

Listed(r) == {seen[r][n] : n \in DOMAIN seen[r]}

SetPhotos(r) ==
  /\ pc[r] = "photos"
  /\ photosLock = Nobody
  /\ photos' = Listed(r)
  /\ photosLock' = r
  /\ Goto(r, "commit")
  /\ UNCHANGED <<table, savedPhotos, seen, step, cloud>>

(***************************************************************************)
(* The end of a transaction, and what follows it.                          *)
(***************************************************************************)
Committed(r) ==
  /\ pc[r] = "commit"
  /\ saved' = [i \in Images |-> IF Own(r, i) THEN rows[i] ELSE saved[i]]
  /\ lock' = [i \in Images |-> IF Own(r, i) THEN Nobody ELSE lock[i]]
  /\ savedPhotos' = photos /\ photosLock' = Nobody
  /\ UNCHANGED <<rows, photos, seen, step, assets, orphans>>

Commit(r) ==
  /\ Committed(r)
  /\ Goto(r, IF r \in Removals THEN "cleanup" ELSE "done") /\ UNCHANGED unsure

\* The rows are committed and the request is told that they are not: an upload deletes the
\* asset of the image it has added, a removal leaves that of the image it has taken away.
\* (Of a reordering there is nothing to tell apart.)
CommitUnanswered(r) ==
  /\ Committed(r) /\ r \in Uploads \cup Removals
  /\ AfterError(r) /\ Unanswered(r)

\* The deadline of an interactive transaction, or PostgreSQL's deadlock detection.
Expire(r) == Open(r) /\ RolledBack(r)

\* Mutated form of DeleteAsset: an upload that failed leaves its asset behind.
DeleteAssetOfRemovalOnly(r) ==
  /\ pc[r] = "cleanup"
  /\ Goto(r, "done")
  /\ assets' = IF r \in Removals THEN assets \ {ImageOf[r]} ELSE assets
  /\ UNCHANGED <<table, listing, seen, step, orphans, unsure>>

\* deleteUploadedAssetAfterFailure(), deleteAssetAfterRemoval(): best effort.
DeleteAsset(r) ==
  /\ pc[r] = "cleanup"
  /\ Goto(r, "done")
  /\ \/ assets' = assets \ {ImageOf[r]} /\ UNCHANGED orphans
     \/ orphans' = orphans \cup {ImageOf[r]} /\ UNCHANGED assets
  /\ UNCHANGED <<table, listing, seen, step, unsure>>

UploadStep(r) == UploadAsset(r) \/ UploadAssetUnanswered(r) \/ ReadLatest(r) \/ Insert(r) \/ PushPhoto(r)

ArrangeStep(r) ==
  \/ FindImage(r) \/ DeleteRow(r) \/ ReadRemaining(r) \/ ReadOrder(r)
  \/ ApplyOrder(r) \/ Applied(r) \/ SetPhotos(r)

Next ==
  \E r \in Requests :
    UploadStep(r) \/ ArrangeStep(r) \/ Commit(r) \/ CommitUnanswered(r) \/ Expire(r) \/ DeleteAsset(r)

Spec == Init /\ [][Next]_vars

-----------------------------------------------------------------------------
(***************************************************************************)
(* Properties.                                                             *)
(***************************************************************************)
ImageRows == [position : Int, cover : BOOLEAN, exists : BOOLEAN]

Labels == {"asset", "latest", "insert", "push", "find", "delete", "remaining", "order", "apply",
           "photos", "commit", "cleanup", "done"}

\* Every variable has its type, and every request is where its kind can be.
TypeOK ==
  /\ saved \in [Images -> ImageRows] /\ rows \in [Images -> ImageRows]
  /\ lock \in [Images -> Requests \cup {Nobody}]
  /\ savedPhotos \in SUBSET Images /\ photos \in SUBSET Images
  /\ photosLock \in Requests \cup {Nobody}
  /\ pc \in [Requests -> Labels]
  /\ \A r \in Requests :
       \/ r \in Uploads /\ pc[r] \in {"asset", "latest", "insert", "push", "commit", "cleanup", "done"}
       \/ r \in Removals /\ pc[r] \in {"find", "delete", "remaining", "apply", "photos", "commit", "cleanup", "done"}
       \/ r \in Reorderings /\ pc[r] \in {"order", "apply", "photos", "commit", "done"}
  /\ seen \in [Requests -> Seq(Images \cup Nat)]
  /\ step \in [Requests -> Nat \ {0}]
  /\ assets \in SUBSET Images /\ orphans \in SUBSET Images /\ unsure \in SUBSET Images

\* However uploads, removals and reorderings interleave, the image at position 0 is
\* the cover and no other image is, and no two images share a position.
CoverIsFirst ==
  \A i \in Exist(saved) :
    /\ saved[i].position >= 0
    /\ saved[i].cover = (saved[i].position = 0)
    /\ \A j \in Exist(saved) \ {i} : saved[i].position # saved[j].position

\* listings.photos, which older consumers read, names no image that is gone: a
\* concurrent removal is never undone by a list computed before it.
PhotosNameExistingImages == savedPhotos \subseteq Exist(saved)

\* What a reader finds of a listing's images between requests is in order.
GalleryIsConsistent == CoverIsFirst /\ PhotosNameExistingImages

\* Unless an answer of the database or of the storage was lost, an image that is shown has
\* its asset, and when all requests are over no asset is left without an image except one
\* whose deletion failed.  Where one was lost it need not be so: a failed COMMIT may have taken
\* effect, and nobody looks again.
AssetsFollowRows ==
  /\ Exist(saved) \subseteq assets \cup unsure
  /\ (\A r \in Requests : pc[r] \in {"done"} \cup Beginnings) => assets \subseteq Exist(saved) \cup orphans \cup unsure
=============================================================================
