----------------------------- MODULE MCUserApi -----------------------------
(***************************************************************************)
(* The bodies a small instance of the two transports is called with.  The  *)
(* second create and the first two updates pass only the gRPC handlers.    *)
(***************************************************************************)
EXTENDS UserApi

MCCreates == {
  [name |-> "ann", email |-> "a@x", password |-> "secret"],
  [name |-> "ann", email |-> "a@x", password |-> "pw"]}

\* A malformed address, a name too short, nothing at all, and what bcrypt refuses.
MCUpdates == {
  [name |-> "a",   email |-> None,  password |-> None],
  [name |-> None,  email |-> "ax",  password |-> None],
  [name |-> None,  email |-> None,  password |-> None],
  [name |-> None,  email |-> None,  password |-> "long"]}
============================================================================
