---------------------------- MODULE UserRegistry ----------------------------
(***************************************************************************)
(* What the user service promises its callers, whatever fails underneath:  *)
(* a registry of users that change atomically, one at a time.  There is no *)
(* cache, no request in progress and no SQL here.                          *)
(*                                                                         *)
(* - Numbers are never given twice, so a removed user never comes back.    *)
(* - No two users have the same e-mail address.                            *)
(* - A user that is answered is one whole version, past or present, of the *)
(*   user that was asked for: never two versions mixed, never another user.*)
(* - A removal is confirmed only when the user is gone for good.           *)
(* - An error promises nothing: the change may have happened all the same. *)
(***************************************************************************)
EXTENDS Integers

CONSTANTS Clients, Ids, Rows, None

VARIABLES
  rows,      \* the users
  last,      \* the last number given
  versions,  \* every version each user has had
  asked,     \* the user each running request is about
  answers    \* the answer to each client's request, None until it comes

rvars == <<rows, last, versions, asked, answers>>

\* The user without the password, which some answers leave out.
Blank(u) == [u EXCEPT !.password = None]

RInit ==
  /\ rows = [i \in Ids |-> None]
  /\ last = 0
  /\ versions = [i \in Ids |-> {}]
  /\ asked = [c \in Clients |-> None]
  /\ answers = [c \in Clients |-> None]

----------------------------------------------------------------------------

Free(email, id) == \A i \in Ids \ {id} : rows[i] # None => rows[i].email # email

Store(row) ==
  /\ Free(row.email, row.id)
  /\ rows' = [rows EXCEPT ![row.id] = row]
  /\ versions' = [versions EXCEPT ![row.id] = @ \union {row}]

Register(row) == row.id > last /\ Store(row) /\ last' = row.id
Change(row) == rows[row.id] # None /\ Store(row) /\ UNCHANGED last
Remove(id) == rows' = [rows EXCEPT ![id] = None] /\ UNCHANGED <<last, versions>>

\* A number may be lost.
Skip == last' > last /\ UNCHANGED <<rows, versions>>

Modify == (\E row \in Rows : Register(row) \/ Change(row)) \/ (\E id \in Ids : Remove(id)) \/ Skip

----------------------------------------------------------------------------

Error == [code : {"NOT_FOUND", "CONFLICT", "INTERNAL_ERROR"}, user : {None}]

Reply(c, a) == answers' = [answers EXCEPT ![c] = a]

\* A client asks, about a user or for a new one.
Ask(c) ==
  /\ \E id \in Ids \union {None} : asked' = [asked EXCEPT ![c] = id]
  /\ Reply(c, None)
  /\ UNCHANGED <<rows, last, versions>>

\* A request ends without an answer.
Abandon(c) == asked' = [asked EXCEPT ![c] = None] /\ UNCHANGED <<rows, last, versions, answers>>

\* A client's request takes effect; the answer comes later, or is an error.
Perform(c) ==
  /\ Modify
  /\ \E id \in Ids \union {None} : asked' = [asked EXCEPT ![c] = id]
  /\ UNCHANGED answers \/ \E a \in Error : Reply(c, a)

AnswerUser(c) ==
  /\ asked[c] # None
  /\ \E v \in versions[asked[c]] : \E u \in {v, Blank(v)} :
       Reply(c, [code |-> "OK", user |-> u])

AnswerRemoved(c) ==
  /\ asked[c] # None
  /\ rows[asked[c]] = None
  /\ Reply(c, [code |-> "OK", user |-> None])

AnswerError(c) == \E a \in Error : Reply(c, a)

Answer(c) ==
  /\ AnswerUser(c) \/ AnswerRemoved(c) \/ AnswerError(c)
  /\ asked' = [asked EXCEPT ![c] = None]
  /\ UNCHANGED <<rows, last, versions>>

RNext == \E c \in Clients : Ask(c) \/ Perform(c) \/ Answer(c) \/ Abandon(c)

RSpec == RInit /\ [][RNext]_rvars
============================================================================
