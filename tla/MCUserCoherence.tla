-------------------------- MODULE MCUserCoherence --------------------------
(***************************************************************************)
(* A small instance for the agreement of cache and table.                  *)
(***************************************************************************)
EXTENDS UserCoherence, TLC

MCCreates == {[name |-> "ann", email |-> "a@x", password |-> "p"]}

\* Two updates that can overtake each other, and one without fields.
MCUpdates == {
  [name |-> "ann", email |-> None, password |-> None],
  [name |-> "eve", email |-> None, password |-> None],
  [name |-> None,  email |-> None, password |-> None]}

ClientSymmetry == Permutations(Clients)
============================================================================
