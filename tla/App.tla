-------------------------------- MODULE App --------------------------------
(***************************************************************************)
(* The app from start to stop (app.py create_app): the rows the database   *)
(* keeps are the account of SignIn, the throttle lives as long as the      *)
(* process, and handlers run while it serves.                              *)
(***************************************************************************)
EXTENDS Upgrade

CONSTANTS Tokens, Addresses, Owner, Window, Free, MaxLock, Idle, Absolute, Touch, MaxTime

ASSUME AppConstants ==
    /\ Window \in Nat /\ Free \in Nat \ {0} /\ MaxLock \in Nat \ {0}
    /\ Window <= MaxLock
    /\ Idle \in Nat /\ Absolute \in Nat /\ Touch \in Nat
    /\ MaxTime \in Nat
    /\ None \notin [created : Nat, seen : Nat, password : Nat]
    /\ NoRows = [password |-> 0, sessions |-> [t \in Tokens |-> None]]

VARIABLES failures, now, tried

S == INSTANCE SignIn WITH account <- content

vars == <<pc, image, db, content, backups, start, upgrade, events, failures, now, tried>>

AppInit ==
    /\ Init
    /\ S!Init

(* AuthService and LoginThrottle are made anew.                            *)
Begin ==
    /\ Open
    /\ S!ForgetFailures
    /\ UNCHANGED now

(* Handlers answer once create_app has returned.                           *)
Handle ==
    /\ pc = "serving"
    /\ S!Requests
    /\ UNCHANGED upgradeVars

Tick ==
    /\ S!Tick
    /\ UNCHANGED upgradeVars

Next ==
    \/ Begin \/ Handle \/ Tick
    \/ (Starting \/ Stop \/ \E k \in DOMAIN backups : Restore(k)) /\ UNCHANGED <<failures, now, tried>>

Spec == AppInit /\ [][Next]_vars

---------------------------------------------------------------------------
Snapshots == [version : Nat, applied : Seq(Nat), key : BOOLEAN, content : S!Accounts]

ASSUME NoneIsNothing == None \notin Snapshots

(* Types: the start's program counter, the files, the account, the times.  *)
TypeOK ==
    /\ pc \in {"down", "open", "backup", "migrate", "serving"}
    /\ image \in Images
    /\ db \in [exists : BOOLEAN, version : Nat, applied : Seq(Nat), key : BOOLEAN]
    /\ content \in S!Accounts
    /\ backups \in Seq([whole : BOOLEAN, of : Snapshots])
    /\ start \in [fresh : BOOLEAN, index : Nat]
    /\ upgrade \in [from : Snapshots \cup {None}, attempts : Nat, over : BOOLEAN]
    /\ events \in 0 .. MaxEvents
    /\ failures \in [S!Keys -> Seq(0 .. now)] /\ tried \in Seq(0 .. now)
    /\ now \in 0 .. MaxTime
    /\ pc \in {"backup", "migrate", "serving"} => db.exists /\ db.version <= image

(* Failed logins of the owner's name stay few (SignIn).                    *)
TriesAreBounded == S!TriesAreBounded

(* Sessions are those of the password in the database, a restored one too. *)
SessionsFollowPassword == S!SessionsFollowPassword
=============================================================================
