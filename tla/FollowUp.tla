------------------------------ MODULE FollowUp ------------------------------
(***************************************************************************)
(* What RefreshCoordinator promises (the class comment in jellyfin.py):    *)
(* every change is followed by a refresh that begins after it, refreshes   *)
(* run one at a time, and none covers a library that nobody asked for.     *)
(***************************************************************************)

CONSTANT Libraries      \* what can change

VARIABLES
    changed,            \* libraries changed since their last refresh began
    owed,               \* libraries a refresh is owed for
    busy                \* a refresh is in progress

Init == changed = {} /\ owed = {} /\ busy = FALSE

(* Any number of libraries have changed.                                   *)
Change ==
    /\ \E libraries \in SUBSET Libraries :
          /\ changed' = changed \cup libraries
          /\ owed' = owed \cup libraries
    /\ UNCHANGED busy

Scopes == {{l} : l \in Libraries} \cup {Libraries}

(* A refresh of one owed library, or of all of them; what was asked for    *)
(* again while it was prepared stays owed, and so does all it leaves out.  *)
Begin ==
    /\ ~busy
    /\ busy' = TRUE
    /\ \E scope \in Scopes :
          /\ scope # {} /\ scope \subseteq owed
          /\ changed' = changed \ scope
          /\ owed' \in SUBSET owed
          /\ owed \ scope \subseteq owed'

End == busy /\ busy' = FALSE /\ UNCHANGED <<changed, owed>>

Next == Change \/ Begin \/ End

Spec == Init /\ [][Next]_<<changed, owed, busy>>
=============================================================================
