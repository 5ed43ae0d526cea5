-------------------------- MODULE MCListingImages --------------------------
(***************************************************************************)
(* Small instances of ListingImages: one of two images is removed while    *)
(* others are uploaded and the rest is put into another order.             *)
(***************************************************************************)
EXTENDS ListingImages

CONSTANTS first, second, new, newer, up1, up2, away, gone

MCImageOf == [r \in Uploads \cup Removals |->
                CASE r = up1 -> new [] r = up2 -> newer [] r = away -> first [] OTHER -> second]
=============================================================================
