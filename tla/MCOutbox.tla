------------------------------ MODULE MCOutbox ------------------------------
(***************************************************************************)
(* Small instances of Outbox.  A failed attempt is retried one tick later. *)
(***************************************************************************)
EXTENDS Outbox, TLC

MCBackoff == [n \in 1..MaxAttempts |-> 1]

Symmetry == Permutations(Dispatchers)
=============================================================================
