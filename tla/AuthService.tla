---------------------------- MODULE AuthService ----------------------------
(***************************************************************************)
(* Logging in, the fixed-window limiter on login attempts, token pairs and *)
(* changes of password, as seen by one account: every step of the code     *)
(* reads and writes the attempts, the row and the tokens of one address    *)
(* only, so accounts do not interact.                                      *)
(*                                                                         *)
(* Times are kept relative to the present: Tick makes everything one tick  *)
(* older.  Between the calls of a request any other request may run, the   *)
(* user service may change or delete the row, and time may pass.           *)
(***************************************************************************)
EXTENDS Integers, FiniteSetsExt

CONSTANTS
  Clients,     \* requests in flight
  Passwords,   \* what callers present
  Weak,        \* refused by ValidatePassword
  Unhashable,  \* refused by bcrypt
  MaxAttempts, \* NewRateLimiter(5, ...)
  Window,      \* the 15 minutes, in ticks
  AccessTTL, RefreshTTL,
  MaxResets,   \* bound: resets within the length of a window
  None

Hashes == Passwords \ Unhashable   \* a password stands for its hash in a row

ASSUME LimitAssumption == MaxAttempts \in Nat \ {0} /\ Window \in Nat \ {0}
ASSUME TTLAssumption == AccessTTL \in Nat \ {0} /\ RefreshTTL \in Nat \ {0}
ASSUME NoneAssumption == None \notin Passwords /\ None \notin [count : Nat, left : Int]

\* A token, with the ticks until it expires.
Tokens == [kind : {"access"}, left : 0 .. AccessTTL]
            \union [kind : {"refresh"}, left : 0 .. RefreshTTL]

VARIABLES
  attempts, \* RateLimiter.attempts: count and the ticks until resetTime, or None
  row,      \* the password in the user's row, None without a row
  tokens,   \* every token issued
  pc,       \* the call each request makes next
  given,    \* the password a login presents, or a change sets
  admitted, \* history, for each number of ticks: the attempts let through in
            \* that many, since the counter was last reset,
  forgiven, \* those let through in that many that a reset has erased,
  resets    \* and the resets in that many

history == <<admitted, forgiven, resets>>
vars == <<attempts, row, tokens, pc, given, admitted, forgiven, resets>>

Ages == 0 .. Window
Nothing == [a \in Ages |-> 0]
Later(h) == [a \in Ages |-> IF a = 0 THEN 0 ELSE h[a - 1]]

Init ==
  /\ attempts = None
  /\ row \in Hashes \union {None}
  /\ tokens = {}
  /\ pc = [c \in Clients |-> "idle"]
  /\ given = [c \in Clients |-> None]
  /\ admitted = Nothing /\ forgiven = Nothing /\ resets = Nothing

Goto(c, call, p) == pc' = [pc EXCEPT ![c] = call] /\ given' = [given EXCEPT ![c] = p]
Finish(c) == Goto(c, "idle", None)

----------------------------------------------------------------------------
(* RateLimiter.IsAllowed and Reset, each under the mutex.                  *)

\* Mutant: now.Before(resetTime) is the wrong way round at the boundary.
EndsAtResetTime == attempts # None => attempts.left <= 0

\* There is no window, or now.After(resetTime).
WindowOver == attempts # None => attempts.left < 0

\* Mutant: the new window goes on with the old count.
KeepCount ==
  /\ WindowOver
  /\ attempts' = [count |-> IF attempts = None THEN 1 ELSE attempts.count, left |-> Window]

NewWindow == WindowOver /\ attempts' = [count |-> 1, left |-> Window]

\* Mutant: the limit is off by one.
CountOneMore ==
  /\ ~WindowOver
  /\ attempts.count <= MaxAttempts
  /\ attempts' = [attempts EXCEPT !.count = @ + 1]

CountAttempt ==
  /\ ~WindowOver
  /\ attempts.count < MaxAttempts
  /\ attempts' = [attempts EXCEPT !.count = @ + 1]

Blocked == ~WindowOver /\ attempts.count >= MaxAttempts

Reset ==
  /\ resets[Window] < MaxResets
  /\ attempts' = None
  /\ admitted' = Nothing
  /\ forgiven' = [a \in Ages |-> forgiven[a] + admitted[a]]
  /\ resets' = [a \in Ages |-> resets[a] + 1]

----------------------------------------------------------------------------
(* Login.                                                                  *)

LoginAdmitted(c) ==
  /\ pc[c] = "idle"
  /\ NewWindow \/ CountAttempt
  /\ admitted' = [a \in Ages |-> admitted[a] + 1]
  /\ \E p \in Passwords : Goto(c, "GetByEmail", p)
  /\ UNCHANGED <<row, tokens, forgiven, resets>>

\* Mutant: a refused attempt starts the window again.
RefusalExtends(c) ==
  /\ pc[c] = "idle"
  /\ Blocked
  /\ attempts' = [attempts EXCEPT !.left = Window]
  /\ UNCHANGED <<row, tokens, pc, given, history>>

\* "too many login attempts": nothing changes, the window least of all.
LoginRefused(c) == pc[c] = "idle" /\ Blocked /\ UNCHANGED vars

\* The row with the address is read, and its hash compared with the password.
CredentialsMatch(c) ==
  /\ pc[c] = "GetByEmail"
  /\ row = given[c]
  /\ Goto(c, "Reset", given[c])
  /\ UNCHANGED <<attempts, row, tokens, history>>

\* No row, another password, or the statement failed.
LoginFails(c) ==
  /\ pc[c] = "GetByEmail"
  /\ Finish(c)
  /\ UNCHANGED <<attempts, row, tokens, history>>

\* generateToken, twice: both times to live start now.
Issue == tokens' = tokens \union {[kind |-> "access", left |-> AccessTTL],
                                  [kind |-> "refresh", left |-> RefreshTTL]}

LoginSucceeds(c) ==
  /\ pc[c] = "Reset"
  /\ Reset
  /\ Issue
  /\ Finish(c)
  /\ UNCHANGED row

----------------------------------------------------------------------------
(* Refresh: the user of the token is not looked up, and the token stays    *)
(* usable.  A refused token changes nothing.                               *)

\* ValidateRefreshToken: before its expiry, and of the right type.
ValidRefresh(t) == t.left > 0 /\ t.kind = "refresh"

Refresh ==
  /\ \E t \in tokens : ValidRefresh(t)
  /\ Issue
  /\ UNCHANGED <<attempts, row, pc, given, history>>

----------------------------------------------------------------------------
(* ChangePassword, and what the user service does to the row meanwhile.    *)

\* The row is read and the old password compared; the new one passes
\* ValidatePassword and bcrypt.  A request refused here changes nothing.
OldPasswordVerified(c) ==
  /\ pc[c] = "idle"
  /\ row # None
  /\ \E new \in Hashes \ Weak : Goto(c, "Update", new)
  /\ UNCHANGED <<attempts, row, tokens, history>>

\* UPDATE ... WHERE id = $n: whatever the password has become by now.
PasswordChanged(c) ==
  /\ pc[c] = "Update"
  /\ row' = IF row = None THEN None ELSE given[c]
  /\ Finish(c)
  /\ UNCHANGED <<attempts, tokens, history>>

\* The statement fails.
ChangeFails(c) ==
  /\ pc[c] = "Update"
  /\ Finish(c)
  /\ UNCHANGED <<attempts, row, tokens, history>>

\* UserService: CreateUser, UpdateUser, DeleteUser on the row of the address.
RowChanges ==
  /\ row' \in Hashes \union {None}
  /\ UNCHANGED <<attempts, tokens, pc, given, history>>

----------------------------------------------------------------------------
(* Time, and the death of the process.                                     *)

Older(t) == [t EXCEPT !.left = Max({@ - 1, 0})]

Tick ==
  /\ attempts' = IF attempts = None THEN None
                                    ELSE [attempts EXCEPT !.left = Max({@ - 1, -1})]
  /\ tokens' = {Older(t) : t \in tokens}
  /\ admitted' = Later(admitted) /\ forgiven' = Later(forgiven) /\ resets' = Later(resets)
  /\ UNCHANGED <<row, pc, given>>

\* The attempts are in the memory of the process, the tokens are not.
Restart ==
  /\ Reset
  /\ pc' = [c \in Clients |-> "idle"]
  /\ given' = [c \in Clients |-> None]
  /\ UNCHANGED <<row, tokens>>

Next ==
  \/ \E c \in Clients :
       \/ LoginAdmitted(c) \/ LoginRefused(c) \/ CredentialsMatch(c)
       \/ LoginFails(c) \/ LoginSucceeds(c)
       \/ OldPasswordVerified(c) \/ PasswordChanged(c) \/ ChangeFails(c)
  \/ Refresh \/ RowChanges \/ Tick \/ Restart

Spec == Init /\ [][Next]_vars

\* Time passes; nothing else has to happen.
FairSpec == Spec /\ WF_vars(Tick)

----------------------------------------------------------------------------
(* Properties.                                                             *)

\* Every variable has its type; a window never counts more than MaxAttempts.
TypeOK ==
  /\ attempts \in [count : 1 .. MaxAttempts, left : -1 .. Window] \union {None}
  /\ row \in Hashes \union {None}
  /\ tokens \subseteq Tokens
  /\ pc \in [Clients -> {"idle", "GetByEmail", "Reset", "Update"}]
  /\ given \in [Clients -> Passwords \union {None}]
  /\ {admitted, forgiven, resets} \subseteq [Ages -> Nat]

\* However logins, restarts and refusals interleave: in no stretch of time as
\* long as the window are more than 2 * MaxAttempts - 1 attempts let through, and
\* MaxAttempts more for every time a login or a restart reset the counter within
\* that stretch.  A fixed window gives away nearly twice its limit where two
\* windows meet, and a reset one more limit, never two (IsAllowed, Reset).
SlidingBound ==
  admitted[Window] + forgiven[Window] <= 2 * MaxAttempts - 1 + MaxAttempts * resets[Window]

\* What NewAuthService says of its limiter: "5 attempts per 15 minutes".  The
\* code lets more through where two windows meet, without any reset between.
AtMostMaxAttempts == admitted[Window] <= MaxAttempts

\* An attempt is refused only after MaxAttempts others within the last window
\* and since the last reset: no window inherits a count, no reset leaves one
\* behind, and a refused attempt is not counted itself.
RefusalsJustified == Blocked => admitted[Window] >= MaxAttempts

\* An address is never shut out for good, however the attempts keep coming
\* while it is.
BlockEnds == Blocked ~> ~Blocked
============================================================================
