----------------------------- MODULE LibraryMC ------------------------------
(* Instances of Library for TLC.                                           *)
EXTENDS Library, TLC

CONSTANTS d1, d2, i1, i2, f1, f2, f3, pdf, epub

(* A download with an issue in two formats and another one of the same     *)
(* issue; the first file may also be read as a second issue.               *)
TwoDownloads  == {d1, d2}
TwoIssues     == {i1, i2}
ThreeFiles    == {f1, f2, f3}
TwoFormats    == {pdf, epub}
FileOf        == (f1 :> d1) @@ (f2 :> d1) @@ (f3 :> d2)
FileFormat    == (f1 :> pdf) @@ (f2 :> epub) @@ (f3 :> pdf)
PdfFirst      == (pdf :> 1) @@ (epub :> 2)
FileReadings  == (f1 :> {i1, i2}) @@ (f2 :> {i1}) @@ (f3 :> {i1})

(* One issue only, for the temporal properties.                            *)
OneIssue      == {i1}
OneReading    == [f \in ThreeFiles |-> {i1}]
=============================================================================
