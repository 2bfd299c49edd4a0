---------------------------- MODULE RetentionMC ----------------------------
(* Instances of Retention for TLC.                                         *)
EXTENDS Retention, TLC

CONSTANTS t1, t2, i1, i2

(* A pack of a daily and a monthly issue, and a second download of the     *)
(* monthly one, which is kept longer.                                      *)
PackTorrents  == {t1, t2}
PackIssues    == {i1, i2}
PackItems     == (t1 :> {i1, i2}) @@ (t2 :> {i2})
PackIssueDate == (i1 :> 1) @@ (i2 :> 0)
PackDays      == (i1 :> 1) @@ (i2 :> 2)

(* One download of one issue, for the temporal properties.                 *)
SoloTorrents  == {t1}
SoloIssues    == {i1}
SoloItems     == t1 :> {i1}
SoloIssueDate == i1 :> 0
SoloDays      == i1 :> 1

(* At the start every torrent has finished at time 1, in the category ...  *)
InPack == [present |-> TRUE, inCategory |-> TRUE, complete |-> TRUE, clean |-> TRUE,
           broken |-> {}, completedOn |-> 1]
Present == {InPack}

(* ... or is not in qBittorrent yet.                                       *)
PresentOrNot == {InPack, NotInQbit}
=============================================================================
