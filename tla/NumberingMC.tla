---------------------------- MODULE NumberingMC -----------------------------
(* Instances of Numbering for TLC.                                         *)
EXTENDS Numbering, TLC

CONSTANTS jan1, jan2, sep, late, high

At(year, number) == [year |-> year, number |-> number]
In(year, month)  == [year |-> year, month |-> month]

(* Numbers 1 and 2 of one January, a September issue, the same issue in    *)
(* May, and a number above twelve in a download nothing is known of.       *)
Names ==
    (jan1 :> At(2026, 1)) @@ (jan2 :> At(2026, 2)) @@ (sep :> At(2026, 9))
    @@ (late :> At(2026, 9)) @@ (high :> At(2026, 13))

Months ==
    (jan1 :> In(2026, 1)) @@ (jan2 :> In(2026, 1)) @@ (sep :> In(2026, 9))
    @@ (late :> In(2026, 5)) @@ (high :> None)

FiveDownloads == {jan1, jan2, sep, late, high}

NamesOfDownloads  == [d \in Downloads |-> Names[d]]
MonthsOfDownloads == [d \in Downloads |-> Months[d]]
=============================================================================
