------------------------------ MODULE UserApi ------------------------------
(***************************************************************************)
(* The HTTP and gRPC transports in front of the user service: what stands  *)
(* between a request and the service (rate limits, access tokens,          *)
(* validation), and what becomes of the service's result on its way out.   *)
(*                                                                         *)
(* The service and its faults are those of UserService, whose result is    *)
(* the error or user that the handler gets.  A limiter may refuse at any   *)
(* time (Limiter says when).  Of the endpoints that do not touch users -   *)
(* login, refresh, list, e-mail, health - only the answer is modelled.     *)
(***************************************************************************)
EXTENDS UserService

CONSTANTS
  Former,    \* how many users there have been before, all deleted by now
  Misnamed,  \* names that "validate:min=2,max=100" refuses
  Malformed, \* addresses that "validate:email" refuses
  Short      \* passwords that "validate:min=6" refuses

VARIABLES
  call,   \* the request each goroutine serves: transport and route, or None
  answer, \* the answer that the last step wrote: status and user, or None
  loose   \* history: the ids whose rows a gRPC call has written

apivars == <<vars, call, answer, loose>>

Open      == {"create", "login", "refresh", "health"}
Protected == {"me", "list", "get", "update", "delete", "email"}
Parsed == (Open \union Protected) \ {"health", "me", "list"}

HttpStatuses == {"200", "201", "204", "401", "404", "409", "422", "429", "500"}
GrpcStatuses == {"OK", "InvalidArgument", "Unauthenticated", "ResourceExhausted",
                 "NotFound", "AlreadyExists", "Internal"}

Served    == [via : {"http", "grpc"}, route : Open \union Protected]
Responses == [status : HttpStatuses \union GrpcStatuses, user : Users \union {None}]

ASSUME FormerAssumption == Former \in 0 .. MaxId
ASSUME ApiNoneAssumption == None \notin HttpStatuses \union GrpcStatuses \union Served \union Responses

\* Who may hold a valid access token: Refresh renews tokens without looking the
\* user up (AuthService), so every user there has been, the deleted included.
Bearers == 1 .. nextId - 1

ApiInit ==
  /\ nextId = Former + 1
  /\ db = [i \in Ids |-> None]
  /\ cache = [i \in Ids |-> None]
  /\ mailed = {}
  /\ pc = [c \in Clients |-> "idle"]
  /\ req = [c \in Clients |-> NoRequest]
  /\ user = [c \in Clients |-> None]
  /\ result = [c \in Clients |-> None]
  /\ call = [c \in Clients |-> None]
  /\ answer = None
  /\ loose = {}

----------------------------------------------------------------------------

Write(status, u) == answer' = [status |-> status, user |-> u]

\* The handler has called the service.
Serve(c, via, route) ==
  /\ call' = [call EXCEPT ![c] = [via |-> via, route |-> route]]
  /\ answer' = None
  /\ UNCHANGED loose

\* Mutant: the result of validate.Struct is not looked at.
Unvalidated(in) == TRUE

\* validate.Struct on CreateUserInput and UpdateUserInput.
Valid(in) ==
  in.name \notin Misnamed /\ in.email \notin Malformed /\ in.password \notin Short

----------------------------------------------------------------------------
(* HTTP: the chain of NewRouter, then the handler.  bearer is the user that *)
(* the access token names, None without a valid one.                       *)

\* RateLimitMiddleware, NewAuthMiddleware, AuthenticatedRateLimitMiddleware.
HttpRefusal(route, bearer, limited, drained) ==
  IF limited THEN "429"
  ELSE IF route \notin Protected THEN None
  ELSE IF bearer = None THEN "401"
  ELSE IF drained THEN "429"
  ELSE None

HttpCreateUser(c) == BeginCreate(c) /\ Valid(req'[c].input) /\ Serve(c, "http", "create")
HttpGetUserByID(c) == BeginGet(c) /\ Serve(c, "http", "get")
GetProfile(c, bearer) == Begin(c, "get", bearer, None, "CacheGet") /\ Serve(c, "http", "me")
HttpDeleteUser(c) == BeginDelete(c) /\ Serve(c, "http", "delete")

HttpUpdateUser(c) ==
  /\ \/ BeginUpdate(c) /\ Valid(req'[c].input)
     \/ BeginUpdateUnhashable(c) /\ \E in \in UpdateInputs : in.password \in Unhashable /\ Valid(in)
  /\ Serve(c, "http", "update")

HttpServe(c, route, bearer) ==
  \/ route = "create" /\ HttpCreateUser(c)
  \/ route = "get"    /\ HttpGetUserByID(c)
  \/ route = "me"     /\ GetProfile(c, bearer)
  \/ route = "update" /\ HttpUpdateUser(c)
  \/ route = "delete" /\ HttpDeleteUser(c)

\* What the handlers that do not touch users answer to a valid body.  A login
\* needs a user in the table, a refresh one that has been there; their errors
\* are no AppErrors.  No provider of e-mail fails.
Login      == {"500"} \union {"200" : id \in {i \in Ids : db[i] # None}}
Refresh    == {"500"} \union {"200" : id \in Bearers}
ListUsers  == {"200", "500"}
SendEmail  == {"200"}

Outcomes(route) ==
  CASE route = "login"   -> Login
    [] route = "refresh" -> Refresh
    [] route = "list"    -> ListUsers
    [] route = "email"   -> SendEmail
    [] route = "health"  -> {"200"}
    [] OTHER             -> {}

HttpRefusals(route, bearer) == {HttpRefusal(route, bearer, l, d) : l, d \in BOOLEAN} \ {None}

HttpAnswers(route, bearer) ==
  HttpRefusals(route, bearer)
    \union (IF HttpRefusal(route, bearer, FALSE, FALSE) # None THEN {}
            ELSE Outcomes(route) \union {"422" : r \in {route} \intersect Parsed})

\* CORSMiddleware answers a preflight ahead of the limiter.
HttpAtOnce ==
  {"204"} \union UNION {HttpAnswers(r, b) : r \in Open \union Protected, b \in Bearers \union {None}}

HttpReceive(c) ==
  \E route \in Open \union Protected, bearer \in Bearers \union {None} :
    HttpRefusal(route, bearer, FALSE, FALSE) = None /\ HttpServe(c, route, bearer)

\* RespondSuccess, or RespondError with mapErrorCodeToStatus.
HttpStatus(route, code) ==
  CASE code = "NOT_FOUND"       -> "404"
    [] code = "CONFLICT"        -> "409"
    [] code = "INTERNAL_ERROR"  -> "500"
    [] code = "OK" /\ route = "create" -> "201"
    [] code = "OK" /\ route = "delete" -> "204"
    [] OTHER -> "200"

\* Mutant: UpdateUser does not blank the password.
UpdateNotBlanked(route, u) ==
  IF u = None \/ route \in {"create", "update"} THEN u ELSE Public(u)

\* user.Password = "", which CreateUser does not do.
HttpBody(route, u) == IF u = None \/ route = "create" THEN u ELSE Public(u)

----------------------------------------------------------------------------
(* gRPC: the interceptors (the token comes first here), then the handler,  *)
(* which checks only that its fields are not empty.  The one method that   *)
(* streams is that of reflection, and its chain asks for no token.         *)

GrpcRefusal(bearer, limited) ==
  IF bearer = None THEN "Unauthenticated"
  ELSE IF limited THEN "ResourceExhausted"
  ELSE None

GrpcCreateUser(c) == BeginCreate(c) /\ Serve(c, "grpc", "create")
GrpcGetUserByID(c) == BeginGet(c) /\ Serve(c, "grpc", "get")
GrpcUpdateUser(c) == (BeginUpdate(c) \/ BeginUpdateUnhashable(c)) /\ Serve(c, "grpc", "update")
GrpcDeleteUser(c) == BeginDelete(c) /\ Serve(c, "grpc", "delete")

GrpcAnswers(bearer) ==
  ({GrpcRefusal(bearer, l) : l \in BOOLEAN} \ {None})
    \union (IF bearer = None THEN {} ELSE {"InvalidArgument", "OK", "Internal"})

\* StreamRateLimitInterceptor; the client ends the stream that it lets through.
StreamAnswers == {IF limited THEN "ResourceExhausted" ELSE "OK" : limited \in BOOLEAN}

GrpcAtOnce == StreamAnswers \union UNION {GrpcAnswers(b) : b \in Bearers \union {None}}

GrpcReceive(c) ==
  /\ \E bearer \in Bearers : GrpcRefusal(bearer, FALSE) = None
  /\ GrpcCreateUser(c) \/ GrpcGetUserByID(c) \/ GrpcUpdateUser(c) \/ GrpcDeleteUser(c)

\* AppError.Error: the code stands in front of the message ...
Message(code) ==
  CASE code = "CONFLICT"  -> "email already registered"
    [] code = "NOT_FOUND" -> "user not found"
    [] OTHER              -> "failed"
ErrorText(code) == <<code, Message(code)>>

\* ... so that no error's text is the bare message the handlers look for.
GrpcStatus(code) ==
  CASE code = "OK" -> "OK"
    [] code # "OK" /\ ErrorText(code) = <<"user not found">> -> "NotFound"
    [] code # "OK" /\ ErrorText(code) = <<"email already registered">> -> "AlreadyExists"
    [] OTHER -> "Internal"

\* toProtoUser has no password.
GrpcBody(u) == IF u = None THEN None ELSE Public(u)

----------------------------------------------------------------------------

Free(c) == call[c] = None /\ pc[c] = "idle"

\* A request that is answered without reaching the user service.
AnswerAtOnce(c) ==
  /\ Free(c)
  /\ \E status \in HttpAtOnce \union GrpcAtOnce : Write(status, None)
  /\ UNCHANGED <<vars, call, loose>>

Receive(c) == Free(c) /\ (HttpReceive(c) \/ GrpcReceive(c))

\* The service returns, and the handler answers.
Respond(c) ==
  /\ call[c] # None /\ pc[c] = "idle"
  /\ \/ call[c].via = "http"
        /\ Write(HttpStatus(call[c].route, result[c].code), HttpBody(call[c].route, result[c].user))
     \/ call[c].via = "grpc"
        /\ Write(GrpcStatus(result[c].code), GrpcBody(result[c].user))
  /\ call' = [call EXCEPT ![c] = None]
  /\ result' = [result EXCEPT ![c] = None]
  /\ UNCHANGED <<table, cache, mailed, pc, req, user, loose>>

\* A step of the service on behalf of c.
Work(c) ==
  /\ Call(c) \/ DbFails(c) \/ DbAnswerLost(c) \/ CacheFails(c)
  /\ loose' = loose \union {i \in Ids : db'[i] # db[i] /\ call[c].via = "grpc"}
  /\ answer' = None
  /\ UNCHANGED call

\* Mutant: the handler goes on waiting for a result that no longer comes.
DieUnnoticed(c) == Crash(c) /\ answer' = None /\ UNCHANGED <<call, loose>>

\* The process dies: the connection breaks without an answer.
Die(c) ==
  /\ Crash(c)
  /\ call' = [call EXCEPT ![c] = None]
  /\ answer' = None
  /\ UNCHANGED loose

ApiNext ==
  \/ \E c \in Clients : AnswerAtOnce(c) \/ Receive(c) \/ Work(c) \/ Respond(c) \/ Die(c)
  \/ \E id \in Ids : Expire(id) /\ answer' = None /\ UNCHANGED <<call, loose>>

ApiSpec == ApiInit /\ [][ApiNext]_apivars

----------------------------------------------------------------------------
(* Properties.                                                             *)

\* Every variable has its type, and a request is in the service exactly while
\* its handler waits for it: none runs there that no handler has let through.
ApiTypeOK ==
  /\ call \in [Clients -> Served \union {None}]
  /\ answer \in Responses \union {None}
  /\ loose \subseteq Ids
  /\ \A c \in Clients : call[c] = None => pc[c] = "idle" /\ result[c] = None
  /\ \A c \in Clients : call[c] # None /\ pc[c] = "idle" => result[c] # None

\* No answer carries the hash of a password, whether the user came from the
\* table, from the cache, from RETURNING or from an update without fields, and
\* although the HTTP handler of CreateUser blanks nothing.
NoHashLeaves ==
  answer # None /\ answer.user # None => answer.user.password = None

\* A row that no gRPC call has written is one whose name, address and password
\* validate.Struct accepts: the HTTP handlers let nothing else through, whatever
\* their updates are merged with.
HttpRowsAreValid ==
  \A i \in Ids : db[i] # None /\ i \notin loose =>
    db[i].name \notin Misnamed /\ db[i].email \notin Malformed /\ db[i].password \notin Short

\* Once nothing is left of a deleted user, and no handler is about to answer
\* it, no request brings the user back and no answer shows it: not even to the
\* bearer of a token that still names the user (GetProfile).
Forgotten(id) ==
  /\ Gone(id)
  /\ \A c \in Clients : result[c] # None /\ result[c].user # None => result[c].user.id # id

DeletedStayUnseen ==
  [][\A id \in Ids : Forgotten(id) =>
       /\ Forgotten(id)'
       /\ answer' # None /\ answer'.user # None => answer'.user.id # id]_apivars
============================================================================
