------------------------------- MODULE SignIn -------------------------------
(***************************************************************************)
(* Setup, sign-in, sessions and the login throttle (auth.py, routes_auth.py*)
(* and current_session in deps.py).  Every handler runs on the event loop  *)
(* without awaiting between its first read and its last write, so it is    *)
(* one action.  A time unit is the first lock of the throttle (30 s); the  *)
(* throttle's queues are in memory, the account is in the database.        *)
(***************************************************************************)
EXTENDS Naturals, Sequences

CONSTANTS
    Tokens,         \* session tokens
    Addresses,      \* where logins come from
    Owner,          \* the user's name, in lower case
    Window, Free, MaxLock,      \* LoginThrottle.WINDOW, FREE_ATTEMPTS, MAX_LOCK
    Idle, Absolute, Touch,      \* SESSION_IDLE_SECONDS, SESSION_ABSOLUTE_SECONDS, 60
    Events,         \* kinds of outside events that may happen
    MaxEvents,      \* bound: how many of them
    MaxTime,        \* bound: the clock
    None

VARIABLES
    account,        \* tables users and sessions
    failures,       \* LoginThrottle._failures: failed logins of an address or a name
    now,            \* the clock
    tried,          \* history: failed logins of the owner's name since the last good one
    events          \* bound: outside events so far

Keys == Addresses \cup {Owner}

Sessions == [created : 0 .. MaxTime, seen : 0 .. MaxTime, password : Nat]

Accounts == [password : Nat, sessions : [Tokens -> Sessions \cup {None}]]

Blank == [password |-> 0, sessions |-> [t \in Tokens |-> None]]

Init ==
    /\ account = Blank
    /\ failures = [k \in Keys |-> <<>>]
    /\ now = 0
    /\ tried = <<>>
    /\ events = 0

Event(kind) ==
    /\ kind \in Events
    /\ events < MaxEvents
    /\ events' = events + 1

---------------------------------------------------------------------------
(* The throttle.                                                           *)
Shorter(a, b) == IF a < b THEN a ELSE b

(* Faulty: the lock does not grow.                                         *)
LockConstant(n) == 1

(* 2 ** n.                                                                 *)
Power[n \in Nat] == IF n = 0 THEN 1 ELSE 2 * Power[n - 1]

(* 30 * 2 ** (n - FREE_ATTEMPTS), at most MAX_LOCK.                        *)
Lock(n) == Shorter(Power[n - Free], MaxLock)

(* _prune: what has left the window is dropped, from the left.             *)
Left(q) == CHOOSE n \in 0 .. Len(q) :
               /\ \A i \in 1 .. n : now - q[i] > Window
               /\ n = Len(q) \/ now - q[n + 1] <= Window

Recent(q) == SubSeq(q, Left(q) + 1, Len(q))

KeysOf(ip) == {ip, Owner}

Pruned(keys) == [k \in Keys |-> IF k \in keys THEN Recent(failures[k]) ELSE failures[k]]

(* retry_after is not zero.                                                *)
MustWait(keys) ==
    \E k \in keys :
        LET q == Recent(failures[k])
        IN  Len(q) >= Free /\ q[Len(q)] + Lock(Len(q)) > now

---------------------------------------------------------------------------
(* Sessions.                                                               *)
IsSetUp == account.password > 0

(* create_session deletes what has expired, whosever it is.                *)
Expired(s) == now - s.seen > Idle \/ now - s.created > Absolute

Kept(sessions) == [t \in Tokens |-> IF sessions[t] # None /\ Expired(sessions[t]) THEN None
                                    ELSE sessions[t]]

CreateSession(t, password) ==
    /\ account.sessions[t] = None
    /\ account' = [password |-> password,
                   sessions |-> [Kept(account.sessions) EXCEPT
                       ![t] = [created |-> now, seen |-> now, password |-> password]]]

(* setup_submit: create_first_user and a session.                          *)
Setup(t) ==
    /\ Event("setup")
    /\ ~IsSetUp
    /\ CreateSession(t, 1)
    /\ UNCHANGED <<failures, now, tried>>

(* login_submit with the right password.                                   *)
Login(ip, t) ==
    /\ Event("login")
    /\ IsSetUp
    /\ ~MustWait(KeysOf(ip))
    /\ failures' = [k \in Keys |-> IF k \in KeysOf(ip) THEN <<>> ELSE failures[k]]
    /\ tried' = <<>>
    /\ CreateSession(t, account.password)
    /\ UNCHANGED now

(* login_submit for the owner's name with a wrong one.                     *)
LoginFails(ip) ==
    /\ Event("fail")
    /\ ~MustWait(KeysOf(ip))
    /\ failures' = [k \in Keys |-> IF k \in KeysOf(ip) THEN Append(Recent(failures[k]), now)
                                   ELSE failures[k]]
    /\ tried' = Append(tried, now)
    /\ UNCHANGED <<account, now>>

LoginRefused(ip) ==
    /\ MustWait(KeysOf(ip))
    /\ failures' = Pruned(KeysOf(ip))
    /\ UNCHANGED <<account, now, tried, events>>

(* get_session writes last_seen at most once a minute.                     *)
Touched(s) == IF now - s.seen > Touch THEN [s EXCEPT !.seen = now] ELSE s

IsValid(t) == account.sessions[t] # None /\ ~Expired(account.sessions[t])

(* current_session of a request, whatever it asks for.                     *)
Request(t) ==
    /\ account.sessions[t] # None
    /\ account' = [account EXCEPT !.sessions[t] = IF Expired(@) THEN None ELSE Touched(@)]
    /\ UNCHANGED <<failures, now, tried, events>>

(* logout, after require_csrf.                                             *)
Logout(t) ==
    /\ Event("logout")
    /\ IsValid(t)
    /\ account' = [account EXCEPT !.sessions[t] = None]
    /\ UNCHANGED <<failures, now, tried>>

(* Faulty: the other sessions go on.                                       *)
SurvivorsAll(t, password) == [account.sessions EXCEPT ![t] = [Touched(@) EXCEPT !.password = password]]

(* DELETE FROM sessions ... token_hash != keep_token_hash.                 *)
Survivors(t, password) ==
    [s \in Tokens |-> IF s = t THEN [Touched(account.sessions[t]) EXCEPT !.password = password] ELSE None]

(* change_password with the right current one, by session t.               *)
ChangePassword(t) ==
    /\ Event("password")
    /\ IsValid(t)
    /\ account' = [password |-> account.password + 1,
                   sessions |-> Survivors(t, account.password + 1)]
    /\ UNCHANGED <<failures, now, tried>>

Tick ==
    /\ now < MaxTime
    /\ now' = now + 1
    /\ UNCHANGED <<account, failures, tried, events>>

(* A new process knows of no failed logins.                                *)
ForgetFailures ==
    /\ failures' = [k \in Keys |-> <<>>]
    /\ tried' = <<>>

(* What requests do.                                                       *)
Requests ==
    \/ \E t \in Tokens :
          \/ Setup(t) \/ Request(t) \/ Logout(t) \/ ChangePassword(t)
          \/ \E ip \in Addresses : Login(ip, t)
    \/ \E ip \in Addresses : LoginFails(ip) \/ LoginRefused(ip)

---------------------------------------------------------------------------
(* From however many addresses, a name's password is tried in vain so      *)
(* seldom between two good logins that the locks that must have passed     *)
(* between the tries of a WINDOW fit in it: n failed logins take           *)
(* 2 ** (n - Free) - 1 at least, and that is 9 logins at most with the     *)
(* code's numbers (LoginThrottle: per address and name).                   *)
TriesAreBounded ==
    LET n == Len(Recent(tried))
    IN  n > Free => Power[n - Free] - 1 <= Window

(* A session has signed in with the password there is now, or changed it   *)
(* itself (change_password ends the others).                               *)
SessionsFollowPassword ==
    \A t \in Tokens : account.sessions[t] # None => account.sessions[t].password = account.password
=============================================================================
