------------------------------- MODULE AppMC -------------------------------
(* Instances of App for TLC.                                               *)
EXTENDS App, TLC

CONSTANTS owner, home, away, first, second

TwoTokens == {first, second}
TwoAddresses == {home, away}
Symmetric == Permutations(TwoTokens) \cup Permutations(TwoAddresses)

NewRows == [password |-> 0, sessions |-> [t \in TwoTokens |-> None]]
=============================================================================
