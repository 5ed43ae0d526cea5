------------------------- MODULE MCApplicationReads -------------------------
(***************************************************************************)
(* Small instances of ApplicationReads.                                    *)
(***************************************************************************)
EXTENDS MCApplications, ApplicationReads

CONSTANTS rival, only

\* The rival applies once, the others may try again.
MCFewAttempts == {a \in MCAttempts : a[1] = rival => a[3] = only}

MCFewApplicantOf == [a \in MCFewAttempts |-> a[1]]

MCFewListingOf == [a \in MCFewAttempts |-> a[2]]

\* A row from before the history belongs to somebody who may try again.
MCFewLegacy == {CHOOSE a \in MCFewAttempts : a[1] # rival}
=============================================================================
