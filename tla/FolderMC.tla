------------------------------ MODULE FolderMC ------------------------------
(* Instances of Folder for TLC.                                            *)
EXTENDS Folder

CONSTANTS pack, single, news, comics

TwoDownloads == {pack, single}
TwoLibraries == {news, comics}
OneEach == pack :> news @@ single :> comics

(* Daily.2026.10.18/Evening.Post, where only the folder has a date, the    *)
(* same with a date in the name, and Weekly.2026.38.                       *)
Day == <<Number(2026, 4), Number(10, 2), Number(18, 2)>>
Folders == <<Word("daily")>> \o Day
Post == <<Word("evening"), Word("post")>>
Undated == <<Folders, Post>>
Dated == <<Folders, Post \o Day>>
Weekly == <<<<Word("weekly"), Number(2026, 4), Number(38, 2)>>>>
Paths == pack :> Undated @@ single :> Weekly
ThreeFiles == {Undated, Dated, Weekly}

(* {any}.{year}.{month}.{day}/{paper}, under a name of its own; the        *)
(* proposal for Weekly.2026.38 goes before the built-in rules.             *)
OfFolder == <<<<Holder("any"), Holder("year"), Holder("month"), Holder("day")>>, <<Holder("paper")>>>>
NewsWritten == news :> {[parts |-> OfFolder, publication |-> <<Word("gazette")>>]} @@ comics :> {}
=============================================================================
