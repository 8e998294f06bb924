--------------------------- MODULE UserCoherence ---------------------------
(***************************************************************************)
(* When the cache agrees with the table.  The service takes no lock across *)
(* its two stores, so it does not always; this module says exactly what    *)
(* sets them apart, for how long, and that nothing else does.              *)
(***************************************************************************)
EXTENDS UserService

VARIABLE disturbed   \* history: the ids whose cache entry may be stale

cvars == <<vars, disturbed>>

\* The requests that hold what they read or wrote of id, and will write the
\* cache from it.
Holders(id) == {c \in Clients : pc[c] \in {"CacheDelete", "CacheSet"} /\ req[c].id = id}

\* A request that has changed the table and has yet to update the cache.
Writing(c) == \/ req[c].op = "delete"
              \/ req[c].op = "update" /\ ~NoFields(req[c].input)

\* The row changes while another request holds an older version of it.
OverlappedCommit(id) == db[id] # None /\ db'[id] # db[id] /\ Holders(id) # {}

\* A statement commits and nobody is left to tell the cache.
LostCommit(id) == db[id] # None /\ db'[id] # db[id] /\ Holders(id)' = {}

\* What a writer means to leave in the cache.
Wanted(c) == IF req[c].op = "delete" THEN None ELSE user[c]

\* A writer dies, or gives up on a failed cache call, and does not leave in the
\* cache what it meant to.
UnfinishedWrite(id) ==
  \E c \in Holders(id) : Writing(c) /\ c \notin Holders(id)' /\ cache'[id] # Wanted(c)

\* The entry is gone, and nobody is about to write it.
Settled(id) == cache'[id] = None /\ Holders(id)' = {}

Watch(Disturbs(_)) ==
  disturbed' = [id \in Ids |-> ~Settled(id) /\ (disturbed[id] \/ Disturbs(id))]

FaultDisturbs(id) == OverlappedCommit(id) \/ LostCommit(id) \/ UnfinishedWrite(id)

CInit == Init /\ disturbed = [id \in Ids |-> FALSE]
CNext ==
  \/ \E c \in Clients : (BeginRequest(c) \/ Call(c)) /\ Watch(OverlappedCommit)
  \/ \E c \in Clients : Fault(c) /\ Watch(FaultDisturbs)
  \/ \E id \in Ids : Expire(id) /\ Watch(OverlappedCommit)
CSpec == CInit /\ [][CNext]_cvars

----------------------------------------------------------------------------

\* An id that no overlapping commit, no lost commit and no unfinished write has
\* disturbed since its entry was last absent is cached as it is stored, except between
\* a writer's UPDATE or DELETE and its cache calls (UpdateUser, DeleteUser).
\* Reads that overlap, creations that meet reads, expiry, failed reads and
\* failed fills never make an entry stale.
CoherentUnlessDisturbed ==
  \A id \in Ids :
    ~disturbed[id] /\ (\A c \in Holders(id) : ~Writing(c)) => Coherent(id)

\* A GET of such an id answers the row as it is at that moment, from the
\* cache or not (GetUserByID).
FreshRead(c) ==
  LET id == req[c].id
  IN /\ pc[c] = "CacheGet" \/ (pc[c] = "CacheSet" /\ req[c].op = "get")
     /\ pc'[c] = "idle" /\ result'[c] # result[c]
     /\ ~disturbed[id]
     /\ \A d \in Holders(id) : ~Writing(d)
     => /\ db[id] # None
        /\ Public(result'[c].user) = Public(db[id])

UndisturbedReadsAreFresh == [][\A c \in Clients : FreshRead(c)]_cvars
============================================================================
