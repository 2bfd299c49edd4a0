------------------------------- MODULE Arming -------------------------------
(***************************************************************************)
(* What arming automatic delete promises (the comment on DISARM_FIELDS in  *)
(* routes_settings.py, and the Deletions page): it was armed for settings  *)
(* that were reviewed, and stays armed only as long as these do not        *)
(* change.  Libraries may leave; one that comes or changes disarms.        *)
(***************************************************************************)

VARIABLES
    armed,              \* automatic delete is armed
    shared,             \* what all libraries share of what it depends on
    libraries           \* library -> what it depends on there

Init == armed = FALSE

Arm == armed' = TRUE /\ UNCHANGED <<shared, libraries>>

(* Anything may change, and disarms.                                       *)
Change == armed' = FALSE

(* Libraries may leave.                                                    *)
Leave ==
    /\ DOMAIN libraries' \subseteq DOMAIN libraries
    /\ \A i \in DOMAIN libraries' : libraries'[i] = libraries[i]
    /\ UNCHANGED <<armed, shared>>

Next == Arm \/ Change \/ Leave

Spec == Init /\ [][Next]_<<armed, shared, libraries>>
=============================================================================
