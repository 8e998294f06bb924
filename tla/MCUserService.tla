--------------------------- MODULE MCUserService ---------------------------
(***************************************************************************)
(* The bodies a small instance of the user service is called with.         *)
(***************************************************************************)
EXTENDS UserService, TLC

\* Bodies that compete for two addresses, and one bcrypt refuses.
MCCreates == {
  [name |-> "ann", email |-> "a@x", password |-> "p"],
  [name |-> "ann", email |-> "b@x", password |-> "p"],
  [name |-> "ann", email |-> "b@x", password |-> "long"]}

\* An address that may be taken, nothing at all, and what bcrypt refuses.
MCUpdates == {
  [name |-> None,  email |-> "a@x", password |-> None],
  [name |-> None,  email |-> None,  password |-> None],
  [name |-> None,  email |-> None,  password |-> "long"]}

ClientSymmetry == Permutations(Clients)
============================================================================
