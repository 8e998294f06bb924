----------------------------- MODULE AuthProofs -----------------------------
(***************************************************************************)
(* Proofs about logins and sessions, for any number of requests, any limit *)
(* and any times to live: the type invariant, with the limit of a window,  *)
(* and what the windows let through and refuse in any stretch of time,     *)
(* with all that logins and restarts reset in it.                          *)
(***************************************************************************)
EXTENDS AuthService, TLAPS

(* A password on its way into the row has been hashed.                     *)
Hashed == \A c \in Clients : pc[c] = "Update" => given[c] \in Hashes

Inv == TypeOK /\ Hashed

\* The clock never takes a time below its floor.
LEMMA Floor == ASSUME NEW a \in Int, NEW b \in Int
               PROVE  /\ Max({a, b}) \in {a, b}
                      /\ Max({a, b}) >= a /\ Max({a, b}) >= b
  <1>1. \E x \in {a, b} : \A y \in {a, b} : x >= y
    OBVIOUS
  <1> QED BY <1>1 DEF Max

\* What a call that ends, or goes on to the next, does to its request.
LEMMA GotoTypes ==
  ASSUME TypeOK, NEW c \in Clients, NEW p \in Passwords \union {None},
         NEW call \in {"idle", "GetByEmail", "Reset", "Update"}, Goto(c, call, p)
  PROVE  /\ pc' \in [Clients -> {"idle", "GetByEmail", "Reset", "Update"}]
         /\ given' \in [Clients -> Passwords \union {None}]
  BY DEF TypeOK, Goto

LEMMA OlderTypes == ASSUME NEW t \in Tokens
                    PROVE  /\ Older(t) \in Tokens
                           /\ Older(t).kind = t.kind
                           /\ Older(t).left <= t.left
  <1>1. t.left \in Nat
    BY TTLAssumption DEF Tokens
  <1>2. t.left - 1 \in Int /\ 0 \in Int
    BY <1>1
  <1>3. Max({t.left - 1, 0}) \in {t.left - 1, 0} /\ Max({t.left - 1, 0}) >= 0
    BY <1>2, Floor
  <1>4. Max({t.left - 1, 0}) \in 0 .. t.left
    BY <1>1, <1>3
  <1>5. Older(t) = [t EXCEPT !.left = Max({t.left - 1, 0})]
    BY DEF Older
  <1> QED BY <1>1, <1>4, <1>5, TTLAssumption DEF Tokens

LEMMA InitInv == Init => Inv
  BY LimitAssumption DEF Init, Inv, Hashed, TypeOK, Nothing, Ages

----------------------------------------------------------------------------
(* The limiter and the tokens.                                             *)

LEMMA AttemptTypes == ASSUME TypeOK, NewWindow \/ CountAttempt
                      PROVE  attempts' \in [count : 1 .. MaxAttempts, left : -1 .. Window]
  BY LimitAssumption, NoneAssumption DEF TypeOK, NewWindow, CountAttempt, WindowOver

LEMMA ResetTypes == ASSUME TypeOK, Reset
                    PROVE  attempts' = None /\ {admitted', forgiven', resets'} \subseteq [Ages -> Nat]
  BY DEF TypeOK, Reset, Nothing

LEMMA LaterTypes == ASSUME NEW h \in [Ages -> Nat] PROVE Later(h) \in [Ages -> Nat]
  BY LimitAssumption DEF Later, Ages

LEMMA IssueTypes == ASSUME TypeOK, Issue PROVE tokens' \subseteq Tokens
  BY TTLAssumption DEF TypeOK, Issue, Tokens

LEMMA TickTypes == ASSUME TypeOK, Tick PROVE TypeOK'
  <1>1. attempts' \in [count : 1 .. MaxAttempts, left : -1 .. Window] \union {None}
    <2>1. CASE attempts = None
      BY <2>1 DEF Tick
    <2>2. CASE attempts # None
      <3>1. attempts \in [count : 1 .. MaxAttempts, left : -1 .. Window]
        BY <2>2 DEF TypeOK
      <3>2. attempts.left - 1 \in Int /\ -1 \in Int
        BY <3>1, LimitAssumption
      <3>3. /\ Max({attempts.left - 1, -1}) \in {attempts.left - 1, -1}
            /\ Max({attempts.left - 1, -1}) >= -1
        BY <3>2, Floor
      <3>4. Max({attempts.left - 1, -1}) \in -1 .. Window
        BY <3>1, <3>3, LimitAssumption
      <3>5. attempts' = [attempts EXCEPT !.left = Max({attempts.left - 1, -1})]
        BY <2>2 DEF Tick
      <3> QED BY <3>1, <3>4, <3>5
    <2> QED BY <2>1, <2>2
  <1>2. tokens' \subseteq Tokens
    BY OlderTypes DEF TypeOK, Tick
  <1>3. {admitted', forgiven', resets'} \subseteq [Ages -> Nat]
    BY LaterTypes DEF TypeOK, Tick
  <1> QED BY <1>1, <1>2, <1>3 DEF TypeOK, Tick

----------------------------------------------------------------------------
(* The steps of a request.                                                 *)

LEMMA LoginTypes ==
  ASSUME TypeOK, NEW c \in Clients,
         \/ LoginAdmitted(c) \/ LoginRefused(c) \/ CredentialsMatch(c)
         \/ LoginFails(c) \/ LoginSucceeds(c)
  PROVE  TypeOK'
  <1>1. CASE LoginAdmitted(c)
    <2>1. PICK p \in Passwords : Goto(c, "GetByEmail", p)
      BY <1>1 DEF LoginAdmitted
    <2>2. admitted' \in [Ages -> Nat]
      BY <1>1, LimitAssumption DEF LoginAdmitted, TypeOK, Ages
    <2> QED BY <1>1, <2>1, <2>2, AttemptTypes, GotoTypes DEF LoginAdmitted, TypeOK
  <1>2. CASE LoginRefused(c)
    BY <1>2 DEF LoginRefused, vars, TypeOK
  <1>3. CASE CredentialsMatch(c)
    <2>1. given[c] \in Passwords \union {None}
      BY DEF TypeOK
    <2> QED BY <1>3, <2>1, GotoTypes DEF CredentialsMatch, TypeOK, history
  <1>4. CASE LoginFails(c)
    BY <1>4, GotoTypes DEF LoginFails, Finish, TypeOK, history
  <1>5. CASE LoginSucceeds(c)
    BY <1>5, ResetTypes, IssueTypes, GotoTypes DEF LoginSucceeds, Finish, TypeOK
  <1> QED BY <1>1, <1>2, <1>3, <1>4, <1>5

LEMMA LoginInv ==
  ASSUME Inv, NEW c \in Clients,
         \/ LoginAdmitted(c) \/ LoginRefused(c) \/ CredentialsMatch(c)
         \/ LoginFails(c) \/ LoginSucceeds(c)
  PROVE  Inv'
  <1>1. TypeOK'
    BY LoginTypes DEF Inv
  <1>2. Hashed'
    BY DEF Inv, TypeOK, Hashed, LoginAdmitted, LoginRefused, CredentialsMatch, LoginFails,
           LoginSucceeds, Finish, Goto, vars, history
  <1> QED BY <1>1, <1>2 DEF Inv

LEMMA ChangeInv ==
  ASSUME Inv, NEW c \in Clients, OldPasswordVerified(c) \/ PasswordChanged(c) \/ ChangeFails(c)
  PROVE  Inv'
  <1>1. CASE OldPasswordVerified(c)
    <2>1. PICK new \in Hashes \ Weak : Goto(c, "Update", new)
      BY <1>1 DEF OldPasswordVerified
    <2>2. TypeOK'
      BY <1>1, <2>1, GotoTypes DEF OldPasswordVerified, Inv, TypeOK, Hashes, history
    <2>3. Hashed'
      BY <2>1 DEF Goto, Inv, TypeOK, Hashed
    <2> QED BY <2>2, <2>3 DEF Inv
  <1>2. CASE PasswordChanged(c)
    <2>1. row' \in Hashes \union {None}
      BY <1>2 DEF PasswordChanged, Inv, Hashed
    <2>2. TypeOK'
      BY <1>2, <2>1, GotoTypes DEF PasswordChanged, Finish, Inv, TypeOK, history
    <2>3. Hashed'
      BY <1>2 DEF PasswordChanged, Finish, Goto, Inv, TypeOK, Hashed
    <2> QED BY <2>2, <2>3 DEF Inv
  <1>3. CASE ChangeFails(c)
    <2>1. TypeOK'
      BY <1>3, GotoTypes DEF ChangeFails, Finish, Inv, TypeOK, history
    <2>2. Hashed'
      BY <1>3 DEF ChangeFails, Finish, Goto, Inv, TypeOK, Hashed
    <2> QED BY <2>1, <2>2 DEF Inv
  <1> QED BY <1>1, <1>2, <1>3

----------------------------------------------------------------------------

LEMMA NextInv == Inv /\ [Next]_vars => Inv'
  <1> SUFFICES ASSUME Inv, [Next]_vars PROVE Inv'
    OBVIOUS
  <1>1. ASSUME NEW c \in Clients,
               \/ LoginAdmitted(c) \/ LoginRefused(c) \/ CredentialsMatch(c)
               \/ LoginFails(c) \/ LoginSucceeds(c)
        PROVE  Inv'
    BY <1>1, LoginInv
  <1>2. ASSUME NEW c \in Clients, OldPasswordVerified(c) \/ PasswordChanged(c) \/ ChangeFails(c)
        PROVE  Inv'
    BY <1>2, ChangeInv
  <1>3. CASE Refresh
    BY <1>3, IssueTypes DEF Refresh, Inv, TypeOK, Hashed, history
  <1>4. CASE RowChanges
    BY <1>4 DEF RowChanges, Inv, TypeOK, Hashed, history
  <1>5. CASE Tick
    BY <1>5, TickTypes DEF Tick, Inv, Hashed
  <1>6. CASE Restart
    BY <1>6, ResetTypes DEF Restart, Inv, TypeOK, Hashed
  <1>7. CASE UNCHANGED vars
    BY <1>7 DEF vars, Inv, TypeOK, Hashed
  <1> QED BY <1>1, <1>2, <1>3, <1>4, <1>5, <1>6, <1>7 DEF Next

LEMMA Invariance == Spec => []Inv
  BY InitInv, NextInv, PTL DEF Spec

\* For any number of requests and any limit every variable has its type: no
\* window counts more than MaxAttempts (IsAllowed), no row gets a password that
\* bcrypt refused (ChangePassword).
THEOREM AuthTypes == Spec => []TypeOK
  <1>1. Inv => TypeOK
    BY DEF Inv
  <1> QED BY <1>1, Invariance, PTL

----------------------------------------------------------------------------
(* The windows.  The history of a window depends on its age alone: what it *)
(* has let through, it has let through since it began, and the first of    *)
(* these attempts is as old as the window.  A window that is over has left *)
(* at most the others behind, and the next one adds its own to them.  A    *)
(* reset ends a window: what came after a reset not older than a window is *)
(* of one window, and what every earlier reset has erased is one limit.    *)

Age == Window - attempts.left

Windowed ==
  /\ attempts = None => admitted = Nothing
  /\ attempts # None /\ attempts.left < 0 => \A a \in Ages : admitted[a] <= MaxAttempts - 1
  /\ attempts # None /\ attempts.left >= 0 => \A a \in Ages :
       /\ a < Age => admitted[a] <= attempts.count - 1
       /\ a >= Age => admitted[a] >= attempts.count
       /\ admitted[a] <= attempts.count + MaxAttempts - 1

\* The window that begins with an attempt, and the attempt's place in history.
LEMMA NewWindowKeeps ==
  ASSUME TypeOK, Windowed, NewWindow, admitted' = [a \in Ages |-> admitted[a] + 1]
  PROVE  Windowed'
  <1>1. /\ attempts' = [count |-> 1, left |-> Window]
        /\ attempts' # None /\ attempts'.left = Window /\ attempts'.count = 1
        /\ Window \in Nat /\ MaxAttempts \in Nat \ {0}
    BY LimitAssumption, NoneAssumption DEF NewWindow
  <1>2. \A a \in Ages : admitted[a] \in Nat /\ admitted[a] <= MaxAttempts - 1
    BY <1>1 DEF TypeOK, Windowed, NewWindow, WindowOver, Nothing
  <1>3. Age' = 0
    BY <1>1 DEF Age
  <1>4. \A a \in Ages : a \in Nat /\ admitted'[a] = admitted[a] + 1
    BY <1>1 DEF Ages
  <1> QED BY <1>1, <1>2, <1>3, <1>4 DEF Windowed

LEMMA CountAttemptKeeps ==
  ASSUME TypeOK, Windowed, CountAttempt, admitted' = [a \in Ages |-> admitted[a] + 1]
  PROVE  Windowed'
  <1>1. /\ attempts \in [count : 1 .. MaxAttempts, left : -1 .. Window] /\ attempts.left >= 0
        /\ attempts # None /\ attempts' # None
        /\ attempts'.left = attempts.left /\ attempts'.count = attempts.count + 1
        /\ Window \in Nat /\ MaxAttempts \in Nat
    BY LimitAssumption, NoneAssumption DEF TypeOK, CountAttempt, WindowOver
  <1>2. \A a \in Ages : a \in Nat /\ admitted[a] \in Nat /\ admitted'[a] = admitted[a] + 1
    BY <1>1 DEF Ages, TypeOK
  <1>3. Age' = Age /\ Age \in Int
    BY <1>1 DEF Age
  <1> QED BY <1>1, <1>2, <1>3 DEF Windowed

\* Time makes the window and its attempts older together.
LEMMA TickKeeps ==
  ASSUME TypeOK, Windowed, Tick
  PROVE  Windowed'
  <1>0. Window \in Nat \ {0} /\ MaxAttempts \in Nat \ {0}
    BY LimitAssumption
  <1>1. \A a \in Ages : /\ a \in Nat /\ admitted[a] \in Nat
                        /\ a = 0 => admitted'[a] = 0
                        /\ a # 0 => a - 1 \in Ages /\ admitted'[a] = admitted[a - 1]
    BY <1>0 DEF TypeOK, Tick, Later, Ages
  <1>2. CASE attempts = None
    <2>1. admitted' = Nothing
      BY <1>1, <1>2 DEF Windowed, Nothing, Tick, Later
    <2> QED BY <1>2, <2>1 DEF Windowed, Tick
  <1>3. CASE attempts # None
    <2>1. /\ attempts \in [count : 1 .. MaxAttempts, left : -1 .. Window]
          /\ attempts.left \in -1 .. Window /\ attempts.count \in 1 .. MaxAttempts
      BY <1>3 DEF TypeOK
    <2>2. attempts' = [attempts EXCEPT !.left = Max({attempts.left - 1, -1})]
      BY <1>3 DEF Tick
    <2>3. /\ Max({attempts.left - 1, -1}) \in {attempts.left - 1, -1}
          /\ Max({attempts.left - 1, -1}) >= attempts.left - 1
          /\ Max({attempts.left - 1, -1}) >= -1
      <3>1. attempts.left - 1 \in Int /\ -1 \in Int
        BY <1>0, <2>1
      <3> QED BY <3>1, Floor
    <2>4. /\ attempts'.count = attempts.count
          /\ attempts'.left = IF attempts.left < 0 THEN -1 ELSE attempts.left - 1
      BY <1>0, <2>1, <2>2, <2>3
    <2>5. attempts' # None
      <3>1. attempts' \in [count : Nat, left : Int]
        BY <1>0, <2>1, <2>2, <2>3
      <3> QED BY <3>1, NoneAssumption
    <2>6. CASE attempts.left < 0
      <3>1. \A a \in Ages : admitted'[a] <= MaxAttempts - 1
        BY <1>0, <1>1, <1>3, <2>6 DEF Windowed
      <3> QED BY <2>4, <2>5, <2>6, <3>1 DEF Windowed
    <2>7. CASE attempts.left = 0
      <3>1. \A a \in Ages : a < Window => admitted[a] <= attempts.count - 1
        BY <1>0, <1>1, <1>3, <2>7 DEF Windowed, Age
      <3>2. \A a \in Ages : a # 0 => a - 1 < Window
        BY <1>0 DEF Ages
      <3>3. \A a \in Ages : admitted'[a] <= MaxAttempts - 1
        BY <1>0, <1>1, <2>1, <3>1, <3>2
      <3> QED BY <2>4, <2>5, <2>7, <3>3 DEF Windowed
    <2>8. CASE attempts.left > 0
      <3>1. Age' = Age + 1 /\ Age \in Nat /\ attempts'.left \in Nat
        BY <1>0, <2>1, <2>4, <2>8 DEF Age
      <3>2. \A a \in Ages :
              /\ a < Age => admitted[a] <= attempts.count - 1
              /\ a >= Age => admitted[a] >= attempts.count
              /\ admitted[a] <= attempts.count + MaxAttempts - 1
        BY <1>3, <2>1, <2>8 DEF Windowed
      <3>3. ASSUME NEW a \in Ages
            PROVE  /\ a < Age + 1 => admitted'[a] <= attempts.count - 1
                   /\ a >= Age + 1 => admitted'[a] >= attempts.count
                   /\ admitted'[a] <= attempts.count + MaxAttempts - 1
        <4>1. CASE a = 0
          BY <1>0, <1>1, <2>1, <3>1, <4>1
        <4>2. CASE a # 0
          BY <1>0, <1>1, <2>1, <3>1, <3>2, <4>2
        <4> QED BY <4>1, <4>2
      <3> QED BY <2>4, <2>5, <3>1, <3>3 DEF Windowed
    <2> QED BY <1>0, <2>1, <2>6, <2>7, <2>8
  <1> QED BY <1>2, <1>3

LEMMA WindowedInductive == Inv /\ Windowed /\ [Next]_vars => Windowed'
  <1> SUFFICES ASSUME Inv, Windowed, [Next]_vars PROVE Windowed'
    OBVIOUS
  <1>1. ASSUME UNCHANGED <<attempts, admitted>> PROVE Windowed'
    BY <1>1 DEF Windowed, Age
  <1>2. ASSUME Reset PROVE Windowed'
    BY <1>2 DEF Reset, Windowed
  <1>3. ASSUME NEW c \in Clients, LoginAdmitted(c) PROVE Windowed'
    BY <1>3, NewWindowKeeps, CountAttemptKeeps DEF LoginAdmitted, Inv
  <1>4. ASSUME NEW c \in Clients, LoginSucceeds(c) PROVE Windowed'
    BY <1>2, <1>4 DEF LoginSucceeds
  <1>5. CASE Tick
    BY <1>5, TickKeeps DEF Inv
  <1>6. CASE Restart
    BY <1>2, <1>6 DEF Restart
  <1> QED BY <1>1, <1>3, <1>4, <1>5, <1>6 DEF Next, vars, LoginRefused, CredentialsMatch, LoginFails,
     OldPasswordVerified, PasswordChanged, ChangeFails, Refresh, RowChanges, history

LEMMA WindowInvariance == Spec => [](Inv /\ Windowed)
  <1>1. Init => Inv /\ Windowed
    BY InitInv DEF Init, Windowed
  <1>2. Inv /\ Windowed /\ [Next]_vars => (Inv /\ Windowed)'
    BY NextInv, WindowedInductive
  <1> QED BY <1>1, <1>2, PTL DEF Spec

----------------------------------------------------------------------------
(* The resets.  A window that lives saw none, so one not older than a      *)
(* reset holds all that was let through since.                             *)

Forgiving ==
  \A a \in Ages :
    /\ attempts # None /\ (attempts.left < 0 \/ a < Age) => resets[a] = 0
    /\ attempts # None /\ resets[a] > 0 => admitted[a] <= attempts.count
    /\ resets[a] = 0 => forgiven[a] = 0
    /\ resets[a] > 0 => forgiven[a] + MaxAttempts <= 2 * MaxAttempts - 1 + MaxAttempts * resets[a]

LEMMA ResetForgives == ASSUME TypeOK, Windowed, Forgiving, Reset PROVE Forgiving'
  <1> SUFFICES ASSUME NEW a \in Ages
               PROVE  /\ resets'[a] # 0
                      /\ forgiven'[a] + MaxAttempts <= 2 * MaxAttempts - 1 + MaxAttempts * resets'[a]
    BY DEF Forgiving, Reset
  <1>1. /\ MaxAttempts \in Nat \ {0} /\ Window \in Nat
        /\ admitted[a] \in Nat /\ forgiven[a] \in Nat /\ resets[a] \in Nat
        /\ resets'[a] = resets[a] + 1 /\ forgiven'[a] = forgiven[a] + admitted[a]
    BY LimitAssumption DEF TypeOK, Reset
  <1>2. MaxAttempts * (resets[a] + 1) = MaxAttempts * resets[a] + MaxAttempts
    BY <1>1
  <1>3. /\ attempts # None => attempts.left \in Int /\ attempts.count \in 1 .. MaxAttempts
        /\ Nothing[a] = 0
    BY <1>1 DEF TypeOK, Nothing
  <1>4. CASE resets[a] = 0
    <2>1. admitted[a] <= 2 * MaxAttempts - 1
      BY <1>1, <1>3 DEF Windowed
    <2>2. forgiven[a] = 0 /\ MaxAttempts * 1 = MaxAttempts
      BY <1>1, <1>4 DEF Forgiving
    <2> QED BY <1>1, <1>4, <2>1, <2>2
  <1>5. CASE resets[a] # 0
    <2>1. admitted[a] <= MaxAttempts
      BY <1>1, <1>3, <1>5 DEF Forgiving, Windowed
    <2>2. forgiven[a] + MaxAttempts <= 2 * MaxAttempts - 1 + MaxAttempts * resets[a]
      BY <1>1, <1>5 DEF Forgiving
    <2>3. MaxAttempts * resets[a] \in Int
      BY <1>1
    <2> QED BY <1>1, <1>2, <2>1, <2>2, <2>3
  <1> QED BY <1>4, <1>5

LEMMA AdmissionForgives ==
  ASSUME TypeOK, Windowed, Forgiving, NewWindow \/ CountAttempt,
         admitted' = [a \in Ages |-> admitted[a] + 1], UNCHANGED <<forgiven, resets>>
  PROVE  Forgiving'
  <1> SUFFICES ASSUME NEW a \in Ages
               PROVE  /\ attempts'.left < 0 \/ a < Age' => resets[a] = 0
                      /\ resets[a] > 0 => admitted'[a] <= attempts'.count
    BY DEF Forgiving
  <1>1. /\ Window \in Nat /\ MaxAttempts \in Nat /\ a \in 0 .. Window
        /\ admitted[a] \in Nat /\ resets[a] \in Nat /\ admitted'[a] = admitted[a] + 1
    BY LimitAssumption DEF TypeOK, Ages
  <1>2. CASE NewWindow
    <2>1. Age' = 0 /\ attempts'.left = Window /\ attempts'.count = 1
      BY <1>1, <1>2 DEF NewWindow, Age
    <2>2. attempts = None => admitted[a] = 0
      BY DEF Windowed, Nothing
    <2>3. attempts # None => resets[a] = 0
      BY <1>2 DEF NewWindow, WindowOver, Forgiving
    <2> QED BY <1>1, <2>1, <2>2, <2>3
  <1>3. CASE CountAttempt
    <2>1. /\ attempts # None /\ attempts.count \in Nat /\ attempts.left \in Int
          /\ attempts'.left = attempts.left /\ attempts'.count = attempts.count + 1
      BY <1>1, <1>3 DEF CountAttempt, WindowOver, TypeOK
    <2>2. Age' = Age /\ Age \in Int
      BY <1>1, <2>1 DEF Age
    <2> QED BY <1>1, <2>1, <2>2 DEF Forgiving
  <1> QED BY <1>2, <1>3

LEMMA TickForgives == ASSUME TypeOK, Windowed, Forgiving, Tick PROVE Forgiving'
  <1>0. Window \in Nat \ {0} /\ MaxAttempts \in Nat \ {0}
    BY LimitAssumption
  <1> SUFFICES ASSUME NEW a \in Ages
               PROVE  /\ attempts' # None /\ (attempts'.left < 0 \/ a < Age') => resets'[a] = 0
                      /\ attempts' # None /\ resets'[a] > 0 => admitted'[a] <= attempts'.count
                      /\ resets'[a] = 0 => forgiven'[a] = 0
                      /\ resets'[a] > 0 => forgiven'[a] + MaxAttempts
                                             <= 2 * MaxAttempts - 1 + MaxAttempts * resets'[a]
    BY DEF Forgiving
  <1>1. /\ a = 0 => admitted'[a] = 0 /\ forgiven'[a] = 0 /\ resets'[a] = 0
        /\ a # 0 => /\ a - 1 \in Ages /\ admitted'[a] = admitted[a - 1]
                    /\ forgiven'[a] = forgiven[a - 1] /\ resets'[a] = resets[a - 1]
    BY <1>0 DEF TypeOK, Tick, Later, Ages
  <1>2. CASE a = 0
    BY <1>1, <1>2
  <1>3. CASE a # 0
    <2>1. PICK b \in Ages : b = a - 1
      BY <1>1, <1>3
    <2>2. /\ admitted'[a] = admitted[b] /\ forgiven'[a] = forgiven[b] /\ resets'[a] = resets[b]
          /\ a \in 1 .. Window /\ b \in 0 .. Window - 1
      BY <1>0, <1>1, <1>3, <2>1 DEF Ages
    <2>3. ASSUME attempts' # None
          PROVE  /\ attempts # None /\ attempts'.count = attempts.count
                 /\ attempts'.left < 0 \/ a < Age' => attempts.left < 0 \/ b < Age
      <3>1. attempts # None
        BY <2>3 DEF Tick
      <3>2. /\ attempts \in [count : 1 .. MaxAttempts, left : -1 .. Window]
            /\ attempts.left \in Int /\ attempts.left - 1 \in Int /\ -1 \in Int
        BY <1>0, <3>1 DEF TypeOK
      <3>3. attempts' = [attempts EXCEPT !.left = Max({attempts.left - 1, -1})]
        BY <3>1 DEF Tick
      <3>4. /\ Max({attempts.left - 1, -1}) \in {attempts.left - 1, -1}
            /\ Max({attempts.left - 1, -1}) >= attempts.left - 1
            /\ Max({attempts.left - 1, -1}) >= -1
        BY <3>2, Floor
      <3>5. /\ attempts'.count = attempts.count
            /\ attempts.left >= 0 => attempts'.left = attempts.left - 1
        BY <3>2, <3>3, <3>4
      <3> QED BY <1>0, <2>1, <2>2, <3>1, <3>2, <3>5 DEF Age
    <2> QED BY <2>2, <2>3 DEF Forgiving
  <1> QED BY <1>2, <1>3

LEMMA ForgivingInductive == Inv /\ Windowed /\ Forgiving /\ [Next]_vars => Forgiving'
  <1> SUFFICES ASSUME Inv, Windowed, Forgiving, [Next]_vars PROVE Forgiving'
    OBVIOUS
  <1>1. ASSUME UNCHANGED <<attempts, history>> PROVE Forgiving'
    BY <1>1 DEF history, Forgiving, Age
  <1>2. ASSUME Reset PROVE Forgiving'
    BY <1>2, ResetForgives DEF Inv
  <1>3. ASSUME NEW c \in Clients, LoginAdmitted(c) PROVE Forgiving'
    BY <1>3, AdmissionForgives DEF LoginAdmitted, Inv
  <1>4. ASSUME NEW c \in Clients, LoginSucceeds(c) PROVE Forgiving'
    BY <1>2, <1>4 DEF LoginSucceeds
  <1>5. CASE Tick
    BY <1>5, TickForgives DEF Inv
  <1>6. CASE Restart
    BY <1>2, <1>6 DEF Restart
  <1> QED BY <1>1, <1>3, <1>4, <1>5, <1>6 DEF Next, vars, history, LoginRefused, CredentialsMatch,
     LoginFails, OldPasswordVerified, PasswordChanged, ChangeFails, Refresh, RowChanges

LEMMA ResetInvariance == Spec => [](Inv /\ Windowed /\ Forgiving)
  <1>1. Init => Inv /\ Windowed /\ Forgiving
    BY InitInv DEF Init, Windowed, Forgiving, Nothing
  <1>2. Inv /\ Windowed /\ Forgiving /\ [Next]_vars => (Inv /\ Windowed /\ Forgiving)'
    BY NextInv, WindowedInductive, ForgivingInductive
  <1> QED BY <1>1, <1>2, PTL DEF Spec

\* For any limit, any window and any number of resets: a stretch of time as long
\* as the window lets at most 2 * MaxAttempts - 1 attempts through, and one limit
\* more for each login or restart that resets the counter within the stretch
\* (IsAllowed, Reset).  Between resets the first bound stands alone.
THEOREM AttemptsAreBounded == Spec => []SlidingBound
  <1>1. Inv /\ Windowed /\ Forgiving => SlidingBound
    <2> SUFFICES ASSUME Inv, Windowed, Forgiving PROVE SlidingBound
      OBVIOUS
    <2>1. /\ MaxAttempts \in Nat \ {0} /\ Window \in Ages
          /\ admitted[Window] \in Nat /\ forgiven[Window] \in Nat /\ resets[Window] \in Nat
          /\ attempts # None => attempts.count \in 1 .. MaxAttempts /\ attempts.left \in Int
          /\ Nothing[Window] = 0
      BY LimitAssumption DEF Inv, TypeOK, Ages, Nothing
    <2>2. CASE resets[Window] = 0
      <3>1. admitted[Window] <= 2 * MaxAttempts - 1
        BY <2>1 DEF Windowed
      <3>2. forgiven[Window] = 0 /\ MaxAttempts * resets[Window] = 0
        BY <2>1, <2>2 DEF Forgiving
      <3> QED BY <2>1, <3>1, <3>2 DEF SlidingBound
    <2>3. CASE resets[Window] # 0
      <3>1. admitted[Window] <= MaxAttempts
        BY <2>1, <2>3 DEF Windowed, Forgiving
      <3>2. /\ forgiven[Window] + MaxAttempts <= 2 * MaxAttempts - 1 + MaxAttempts * resets[Window]
            /\ MaxAttempts * resets[Window] \in Int
        BY <2>1, <2>3 DEF Forgiving
      <3> QED BY <2>1, <3>1, <3>2 DEF SlidingBound
    <2> QED BY <2>2, <2>3
  <1> QED BY <1>1, ResetInvariance, PTL

\* Nobody is refused who does not come after MaxAttempts attempts within the
\* last window and since the last reset (IsAllowed).
THEOREM RefusalsAreJustified == Spec => []RefusalsJustified
  <1>1. Inv /\ Windowed => RefusalsJustified
    <2> SUFFICES ASSUME Inv, Windowed, Blocked PROVE admitted[Window] >= MaxAttempts
      BY DEF RefusalsJustified
    <2>1. /\ attempts # None /\ attempts.left \in 0 .. Window
          /\ attempts.count \in Nat /\ attempts.count >= MaxAttempts
      BY LimitAssumption DEF Inv, TypeOK, Blocked, WindowOver
    <2>2. MaxAttempts \in Nat /\ Window \in Nat /\ Window \in Ages /\ admitted[Window] \in Nat
      BY LimitAssumption DEF Inv, TypeOK, Ages
    <2>3. Window >= Age
      BY <2>1, <2>2 DEF Age
    <2>4. admitted[Window] >= attempts.count
      BY <2>1, <2>2, <2>3 DEF Windowed
    <2> QED BY <2>1, <2>2, <2>4
  <1> QED BY <1>1, WindowInvariance, PTL
============================================================================
