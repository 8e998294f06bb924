---------------------------- MODULE UserVersions ----------------------------
(***************************************************************************)
(* The user service with a history of every version each row has had, and  *)
(* what it implements with it: UserRegistry.                               *)
(***************************************************************************)
EXTENDS UserService

VARIABLE past   \* history: the versions the row of each id has had

hvars == <<vars, past>>

Record == past' = [i \in Ids |-> IF db'[i] = None THEN past[i] ELSE past[i] \union {db'[i]}]

HInit == Init /\ past = [i \in Ids |-> {}]
HNext == Next /\ Record
HSpec == HInit /\ [][HNext]_hvars

\* u is one version of the user id, whole, with its password or without.
VersionOf(u, id) == \E v \in past[id] : u = v \/ u = Public(v)

\* Every user in the hands of the service is a version of the id it is used
\* for: in the table, under a cache key, in a running request.  A request that
\* deleted a row knows that it is gone for good.
Provenance ==
  /\ \A i \in Ids : db[i] # None => db[i] \in past[i]
  /\ \A i \in Ids : cache[i] # None => VersionOf(cache[i], i)
  /\ \A c \in Clients : user[c] # None =>
       pc[c] # "idle" /\ req[c].id \in Ids /\ VersionOf(user[c], req[c].id)
  /\ \A c \in Clients : pc[c] = "CacheDelete" /\ req[c].op = "delete" => db[req[c].id] = None

Registry == INSTANCE UserRegistry WITH
  rows     <- db,
  last     <- nextId - 1,
  versions <- past,
  asked    <- [c \in Clients |-> req[c].id],
  answers  <- result

\* Through cache hits, concurrent writers, failed statements, dropped cache
\* errors and dead processes the service is a UserRegistry: no number is used
\* twice, no address held twice, no answer mixes two versions of a user or
\* shows another user than the one asked for, and a deletion that is confirmed
\* is final.
ImplementsRegistry == Registry!RSpec
============================================================================
