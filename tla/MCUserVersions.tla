--------------------------- MODULE MCUserVersions --------------------------
(***************************************************************************)
(* A small instance of the user service with its version history.          *)
(***************************************************************************)
EXTENDS UserVersions, TLC

MCCreates == {[name |-> "ann", email |-> "a@x", password |-> "p"]}

\* An address that the next user leaves free or finds taken, and no field.
MCUpdates == {
  [name |-> None, email |-> "b@x", password |-> None],
  [name |-> None, email |-> None,  password |-> None]}

ClientSymmetry == Permutations(Clients)
============================================================================
