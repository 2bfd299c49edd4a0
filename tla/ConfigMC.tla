------------------------------ MODULE ConfigMC ------------------------------
(* Instances of Config for TLC.                                            *)
EXTENDS Config, TLC

CONSTANTS anna, ben, news, comics, left, right

TwoUsers == {anna, ben}
AnyCategory == {news, comics, NoCategory}
TwoFolders == {left, right}
TwoTerms == {7, 30}

(* Users, categories and folders are alike.                                *)
Alike == Permutations(TwoUsers) \cup Permutations({news, comics}) \cup Permutations(TwoFolders)
=============================================================================
