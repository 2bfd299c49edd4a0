--------------------------- MODULE LibraryProofs ----------------------------
(***************************************************************************)
(* Proofs about Library, for all downloads, files, issues and formats.     *)
(***************************************************************************)
EXTENDS Library, WellFoundedInduction, FiniteSetTheorems, TLAPS

(* The best of some files is one of them.                                  *)
LEMMA BestIsOne ==
    ASSUME NEW fs \in SUBSET Files, fs # {}
    PROVE  Best(fs) \in fs
<1> DEFINE ranks == {Rank[FormatOf[f]] : f \in fs}
<1>1. ranks \in SUBSET Nat /\ ranks # {}
  BY LibraryConstants
<1>2. PICK n \in ranks : \A m \in ranks : n <= m
  <2> HIDE DEF ranks
  <2> DEFINE Less == OpToRel(<, Nat)
  <2>1. IsWellFoundedOn(Less, Nat)
    BY NatLessThanWellFounded
  <2>2. \A x, y \in Nat : <<x, y>> \in Less <=> x < y
    BY DEF OpToRel
  <2> HIDE DEF Less
  <2>3. PICK n \in ranks : \A m \in ranks : ~(<<m, n>> \in Less)
    BY <1>1, <2>1, WFMin
  <2>4. ASSUME NEW m \in ranks PROVE n <= m
    <3>1. n \in Nat /\ m \in Nat /\ ~(m < n)
      BY <1>1, <2>2, <2>3
    <3> QED
      BY <3>1
  <2> QED
    BY <2>4
<1>3. \E f \in fs : \A g \in fs : Rank[FormatOf[f]] <= Rank[FormatOf[g]]
  BY <1>2
<1> QED
  BY <1>3 DEF Best
(* What the transactions do to a row.                                      *)
LEMMA ClearedRow ==
    ASSUME NEW row \in Row
    PROVE  /\ ClearProblem(row) \in Row
           /\ ClearProblem(row).status = row.status /\ ClearProblem(row).download = row.download
           /\ ClearProblem(row).ext = row.ext /\ ClearProblem(row).dest = row.dest
           /\ ClearProblem(row).problem = "none" /\ ~ClearProblem(row).fix
  BY DEF Row, ClearProblem

LEMMA SetRow ==
    ASSUME NEW row \in Row, NEW status \in {"pending", "excluded"}
    PROVE  /\ SetStatus(row, status) \in Row
           /\ SetStatus(row, status).status = status /\ ~SetStatus(row, status).fix
<1> DEFINE plain == [row EXCEPT !.status = status, !.error = FALSE]
<1>1. plain \in Row /\ plain.status = status
  BY DEF Row
<1>2. SetStatus(row, status) = [plain EXCEPT !.problem = "none", !.fix = FALSE]
  BY DEF SetStatus
<1> HIDE DEF plain
<1> QED
  BY <1>1, <1>2 DEF Row

LEMMA FailedRow ==
    ASSUME NEW row \in Row, NEW d \in Downloads, NEW f \in Files
    PROVE  /\ Failed(row, d, f) \in Row
           /\ Failed(row, d, f).download = d
           /\ Failed(row, d, f).status = "linked" <=> row.status = "linked"
           /\ Failed(row, d, f).ext = row.ext /\ Failed(row, d, f).dest = row.dest
           /\ Failed(row, d, f).fix = row.fix /\ Failed(row, d, f).problem = row.problem
<1> DEFINE status == IF row.status = "linked" THEN row.status ELSE "error"
<1>1. status \in {"linked", "error"} /\ (status = "linked" <=> row.status = "linked")
  BY DEF Row
<1>2. Failed(row, d, f) = [row EXCEPT !.status = status, !.download = d, !.file = f, !.error = TRUE]
  BY DEF Failed, Row
<1> HIDE DEF status
<1> QED
  BY <1>1, <1>2 DEF Row

(* What an item of a scan works on while it is at it.                      *)
Busy == {"check", "link", "mark", "save", "clear"}

ItemInv ==
    /\ scan.pc \in Busy => scan.download \in Downloads /\ scan.issue \in Issues /\ ItemFiles # {}
    /\ scan.pc \in {"link", "mark", "save"} => scan.source \in Usable(scan.existing, ItemFiles)
    /\ scan.pc = "removed" => scan.issue \in Issues

(* ItemFiles and what may be used of them are files.                       *)
LEMMA ItemsAreFiles ==
    ASSUME TypeOK
    PROVE  /\ ItemFiles \in SUBSET {f \in Files : Of[f] = scan.download}
           /\ Usable(scan.existing, ItemFiles) \in SUBSET ItemFiles
           /\ Readable \in SUBSET Usable(scan.existing, ItemFiles)
           /\ \A f \in Usable(scan.existing, ItemFiles) :
                 Watched(scan.existing) => FormatOf[f] = scan.existing.ext
  BY DEF ItemFiles, Candidates, Usable, Readable

(* Problem reports one of four.                                            *)
LEMMA Problems ==
    ASSUME NEW i, NEW ext, NEW source
    PROVE  Problem(i, ext, source) \in {"none", "missing", "copy", "metadata"}
  BY DEF Problem

---------------------------------------------------------------------------
(* The steps of a scan, seen from its locals.                              *)
LEMMA IdleType == Idle \in ScanLocals /\ Idle.pc = "idle" /\ NoRow \in Row /\ ~NoRow.fix
  BY DEF Idle, ScanLocals, NoRow, Row

LEMMA NextItemType ==
    ASSUME TypeOK
    PROVE  /\ NextItem \in ScanLocals /\ NextItem.pc = "items"
           /\ NextItem.rows = scan.rows /\ NextItem.unseen = scan.unseen
<1>1. scan \in ScanLocals /\ NoRow \in Row
  BY IdleType DEF TypeOK
<1> QED
  BY <1>1 DEF ScanLocals, NextItem
(* The files an item fails with, links or saves.                           *)
LEMMA ItemFile ==
    ASSUME TypeOK, ItemInv, scan.pc \in Busy
    PROVE  /\ Best(ItemFiles) \in Files /\ scan.issue \in Issues /\ scan.download \in Downloads
           /\ Readable # {} => Best(Readable) \in Usable(scan.existing, ItemFiles)
<1>1. ItemFiles \in SUBSET Files /\ Readable \in SUBSET Files
  BY ItemsAreFiles
<1>2. Best(ItemFiles) \in ItemFiles
  BY <1>1, BestIsOne DEF ItemInv
<1>3. Readable # {} => Best(Readable) \in Readable
  BY <1>1, BestIsOne
<1> QED
  BY <1>1, <1>2, <1>3, ItemsAreFiles DEF ItemInv

(* A failed item changes one row, and ends.                                *)
LEMMA ItemFailsType ==
    ASSUME TypeOK, ItemInv, scan.pc \in Busy, ItemFails
    PROVE  rows' \in [Issues -> Row] /\ scan' \in ScanLocals
<1>1. rows' = [rows EXCEPT ![scan.issue] = Failed(rows[scan.issue], scan.download, Best(ItemFiles))]
  BY DEF ItemFails
<1>2. Failed(rows[scan.issue], scan.download, Best(ItemFiles)) \in Row
  BY ItemFile, FailedRow DEF TypeOK
<1> QED
  BY <1>1, <1>2, NextItemType DEF ItemFails, TypeOK

(* The found problem is one of four.                                       *)
LEMMA FoundType == FoundProblem \in {"none", "missing", "copy", "metadata"}
  BY Problems DEF FoundProblem

(* A row's problem is set in place, or its fix.                            *)
LEMMA ProblemSet ==
    ASSUME NEW i \in Issues, NEW table \in [Issues -> Row],
           NEW problem \in {"none", "missing", "copy", "metadata", "duplicate"}
    PROVE  [table EXCEPT ![i].problem = problem] \in [Issues -> Row]
  BY DEF Row

LEMMA FixSet ==
    ASSUME NEW i \in Issues, NEW table \in [Issues -> Row]
    PROVE  /\ [table EXCEPT ![i].fix = TRUE] \in [Issues -> Row]
           /\ [table EXCEPT ![i].fix = FALSE] \in [Issues -> Row]
  BY ZenonT(40) DEF Row

(* A file, or none, is put in the place of a book.                         *)
LEMMA BookSet ==
    ASSUME NEW shelf \in [Issues -> Folder], NEW i \in Issues, NEW e \in Formats,
           NEW book \in Files \cup {None, Foreign}
    PROVE  [shelf EXCEPT ![i].book[e] = book] \in [Issues -> Folder]
<1>1. [shelf[i].book EXCEPT ![e] = book] \in [Formats -> Files \cup {None, Foreign}]
  BY DEF Folder
<1>2. [shelf[i] EXCEPT !.book = [shelf[i].book EXCEPT ![e] = book]] \in Folder
  BY <1>1 DEF Folder
<1> QED
  BY <1>2

(* A marker or a metadata file is lost.                                    *)
LEMMA FlagSet ==
    ASSUME NEW shelf \in [Issues -> Folder], NEW i \in Issues
    PROVE  /\ [shelf EXCEPT ![i].marker = FALSE] \in [Issues -> Folder]
           /\ [shelf EXCEPT ![i].opf = FALSE] \in [Issues -> Folder]
  BY DEF Folder

(* What save_issue writes.                                                 *)
LEMMA SavedRow ==
    ASSUME NEW row \in Row, NEW d \in Downloads, NEW f \in Files, NEW e \in Formats
    PROVE  [row EXCEPT !.status = "linked", !.download = d, !.file = f, !.ext = e,
                       !.dest = TRUE, !.error = FALSE] \in Row
  BY DEF Row

(* Every variable and local keeps its type.                                *)
LEMMA TypeNext == ASSUME TypeOK, ItemInv, [Next]_vars PROVE TypeOK'
<1>0. /\ scan \in ScanLocals /\ rows \in [Issues -> Row] /\ folder \in [Issues -> Folder]
      /\ disk \in [Files -> {"good", "bad", "gone"}] /\ reading \in [Files -> Issues]
  BY DEF TypeOK
<1>100. ASSUME UNCHANGED outside, scan' \in ScanLocals, rows' \in [Issues -> Row], folder' \in [Issues -> Folder]
      PROVE  TypeOK'
  BY <1>100 DEF TypeOK, outside
<1>1. CASE ScanStart
  <2> DEFINE offers == [f \in Files |-> IF disk[f] = "gone" THEN None ELSE reading[f]]
             todo == {<<Of[f], offers[f]>> : f \in {g \in Files : offers[g] # None}}
  <2>1. offers \in [Files -> Issues \cup {None}]
    BY <1>0
  <2>2. todo \in SUBSET (Downloads \X Issues)
    <3>1. ASSUME NEW f \in Files, offers[f] # None PROVE <<Of[f], offers[f]>> \in Downloads \X Issues
      BY <2>1, <3>1, LibraryConstants
    <3> HIDE DEF offers
    <3> QED
      BY <3>1
  <2>3. scan' = [Idle EXCEPT !.pc = "items", !.offers = offers, !.todo = todo]
    BY <1>1 DEF ScanStart
  <2>4. scan' \in ScanLocals
    <3> HIDE DEF offers, todo
    <3> QED
      BY <2>1, <2>2, <2>3, IdleType DEF ScanLocals
  <2> QED
    BY <1>0, <1>1, <1>100, <2>4 DEF ScanStart
<1>2. ASSUME NEW d \in Downloads, NEW i \in Issues, ItemSkipped(d, i) PROVE TypeOK'
  <2>1. Claimed(d, i) \in [Files -> Issues \cup {None}]
    BY <1>0 DEF Claimed, ScanLocals
  <2>2. scan' \in ScanLocals
    BY <1>0, <1>2, <2>1 DEF ItemSkipped, ScanLocals
  <2> QED
    BY <1>0, <1>2, <1>100, <2>2 DEF ItemSkipped
<1>3. ASSUME NEW d \in Downloads, NEW i \in Issues, ItemRead(d, i) PROVE TypeOK'
  <2>1. Claimed(d, i) \in [Files -> Issues \cup {None}]
    BY <1>0 DEF Claimed, ScanLocals
  <2>2. scan' \in ScanLocals
    BY <1>0, <1>3, <2>1 DEF ItemRead, ScanLocals
  <2> QED
    BY <1>0, <1>3, <1>100, <2>2 DEF ItemRead
<1>4. CASE ItemUnreadable
  BY <1>0, <1>4, <1>100, ItemFailsType DEF ItemUnreadable, Busy
<1>5. CASE ItemDamaged
  <2>1. rows' \in [Issues -> Row]
    BY <1>0, <1>5, FoundType, ProblemSet, ItemFile DEF ItemDamaged, Busy
  <2> QED
    BY <1>0, <1>5, <1>100, <2>1, NextItemType DEF ItemDamaged
<1>6. CASE ItemChecked
  <2>1. rows' \in [Issues -> Row]
    BY <1>0, <1>6, ClearedRow DEF ItemChecked
  <2>2. Best(Readable) \in Files
    BY <1>6, ItemFile, ItemsAreFiles DEF ItemChecked, Busy
  <2>3. scan' \in ScanLocals
    BY <1>0, <1>6, <2>2, FoundType DEF ItemChecked, ScanLocals
  <2> QED
    BY <1>0, <1>6, <1>100, <2>1, <2>3 DEF ItemChecked
<1>7. CASE ItemLink
  <2>1. scan.issue \in Issues /\ scan.source \in Files
    BY <1>7, ItemFile, ItemsAreFiles DEF ItemLink, ItemInv, Busy
  <2>2. folder' \in [Issues -> Folder]
    <3> DEFINE e == FormatOf[scan.source]
               old == folder[scan.issue].book[e]
               new == IF old = None \/ scan.fixing = "copy" THEN scan.source ELSE old
    <3>1. e \in Formats /\ new \in Files \cup {None, Foreign}
      BY <1>0, <2>1, LibraryConstants DEF Folder
    <3>2. folder' = [folder EXCEPT ![scan.issue].book[e] = new]
      BY <1>0, <1>7, <2>1 DEF ItemLink
    <3> HIDE DEF e, new
    <3> QED
      BY <1>0, <2>1, <3>1, <3>2, BookSet
  <2>3. scan' \in ScanLocals
    BY <1>0, <1>7 DEF ItemLink, ScanLocals
  <2> QED
    BY <1>0, <1>7, <1>100, <2>2, <2>3 DEF ItemLink
<1>8. CASE ItemMark
  <2>1. folder' \in [Issues -> Folder]
    BY ZenonT(40), <1>0, <1>8 DEF ItemMark, Folder
  <2>2. scan' \in ScanLocals
    BY <1>0, <1>8 DEF ItemMark, ScanLocals
  <2> QED
    BY <1>0, <1>8, <1>100, <2>1, <2>2 DEF ItemMark
<1>9. CASE ItemError
  <2>1. scan.pc \in Busy
    BY <1>9 DEF ItemError, Busy
  <2>2. events' \in 0 .. MaxEvents
    BY <1>9, LibraryConstants DEF ItemError, Event, TypeOK
  <2> QED
    BY <1>0, <1>9, <2>1, <2>2, ItemFailsType DEF ItemError, TypeOK
<1>10. CASE ItemSave
  <2>1. /\ scan.issue \in Issues /\ scan.download \in Downloads /\ Best(ItemFiles) \in Files
        /\ FormatOf[scan.source] \in Formats
    BY <1>10, ItemFile, ItemsAreFiles, LibraryConstants DEF ItemSave, ItemInv, Busy
  <2>2. rows' \in [Issues -> Row]
    <3> DEFINE saved == [rows[scan.issue] EXCEPT !.status = "linked", !.download = scan.download,
                            !.file = Best(ItemFiles), !.ext = FormatOf[scan.source],
                            !.dest = TRUE, !.error = FALSE]
    <3>1. saved \in Row
      BY <1>0, <2>1, SavedRow
    <3>2. rows' = [rows EXCEPT ![scan.issue] = saved]
      BY <1>10 DEF ItemSave
    <3> HIDE DEF saved
    <3> QED
      BY <1>0, <3>1, <3>2
  <2>3. scan' \in ScanLocals
    BY <1>0, <1>10, NextItemType DEF ItemSave, ScanLocals
  <2> QED
    BY <1>0, <1>10, <1>100, <2>2, <2>3 DEF ItemSave
<1>11. CASE ItemClear
  BY <1>0, <1>11, <1>100, ClearedRow, NextItemType DEF ItemClear
<1>12. CASE ScanUnseen
  <2>1. scan' \in ScanLocals
    BY <1>0, <1>12 DEF ScanUnseen, ScanLocals
  <2> QED
    BY <1>0, <1>12, <1>100, <2>1 DEF ScanUnseen
<1>13. ASSUME NEW i \in Issues, UnseenDuplicate(i) PROVE TypeOK'
  <2>1. scan' \in ScanLocals
    BY <1>0, <1>13 DEF UnseenDuplicate, ScanLocals
  <2> QED
    BY <1>0, <1>13, <1>100, <2>1, ProblemSet DEF UnseenDuplicate
<1>14. ASSUME NEW i \in Issues, UnseenRemove(i) PROVE TypeOK'
  <2>1. CASE MayRemove(i)
    <3>1. /\ folder' = [folder EXCEPT ![i] = NoFolder] /\ UNCHANGED rows
          /\ scan' = [scan EXCEPT !.pc = "removed", !.issue = i]
      BY <1>14, <2>1 DEF UnseenRemove
    <3>2. scan' \in ScanLocals /\ folder' \in [Issues -> Folder]
      BY <1>0, <3>1 DEF ScanLocals, Folder, NoFolder
    <3> QED
      BY <1>0, <1>14, <1>100, <3>1, <3>2 DEF UnseenRemove
  <2>2. CASE ~MayRemove(i)
    <3>1. /\ rows' \in {rows, [rows EXCEPT ![i].fix = FALSE]} /\ UNCHANGED folder
          /\ scan' = [scan EXCEPT !.unseen = scan.unseen \ {i}]
      BY <1>14, <2>2 DEF UnseenRemove
    <3>2. scan' \in ScanLocals
      BY <1>0, <3>1 DEF ScanLocals
    <3>3. [rows EXCEPT ![i].fix = FALSE] \in [Issues -> Row]
      BY <1>0, FixSet
    <3>4. rows' \in [Issues -> Row]
      BY <1>0, <3>1, <3>3, Zenon
    <3> QED
      BY <1>0, <1>14, <1>100, <3>1, <3>2, <3>4 DEF UnseenRemove
  <2> QED
    BY <2>1, <2>2
<1>15. CASE UnseenRemoved
  <2>1. scan' \in ScanLocals
    BY <1>0, <1>15 DEF UnseenRemoved, ScanLocals
  <2> QED
    BY <1>0, <1>15, <1>100, <2>1, SetRow DEF UnseenRemoved
<1>16. ASSUME NEW i \in Issues, UnseenCheck(i) PROVE TypeOK'
  <2>1. scan' \in ScanLocals
    BY <1>0, <1>16 DEF UnseenCheck, ScanLocals
  <2> DEFINE problem == Problem(i, scan.rows[i].ext, None)
             reported == [rows EXCEPT ![i].problem = problem]
  <2>2. reported \in [Issues -> Row] /\ [reported EXCEPT ![i].fix = FALSE] \in [Issues -> Row]
    <3>1. problem \in {"none", "missing", "copy", "metadata"}
      BY Problems
    <3> HIDE DEF problem
    <3>2. reported \in [Issues -> Row]
      BY <1>0, <3>1, ProblemSet
    <3> HIDE DEF reported
    <3> QED
      BY <3>2, FixSet
  <2>3. [rows EXCEPT ![i] = ClearProblem(rows[i])] \in [Issues -> Row]
    BY <1>0, ClearedRow
  <2>4. rows' \in {rows, reported, [reported EXCEPT ![i].fix = FALSE],
                   [rows EXCEPT ![i] = ClearProblem(rows[i])]}
    BY <1>16 DEF UnseenCheck
  <2>5. rows' \in [Issues -> Row]
    BY <1>0, <2>2, <2>3, <2>4
  <2> QED
    BY <1>0, <1>16, <1>100, <2>1, <2>5 DEF UnseenCheck
<1>17. CASE ScanEnd
  BY <1>0, <1>17, <1>100, IdleType DEF ScanEnd
<1>18. ASSUME NEW i \in Issues, Remove(i) PROVE TypeOK'
  <2>1. folder' \in [Issues -> Folder]
    BY <1>0, <1>18 DEF Remove, Folder, NoFolder
  <2> QED
    BY <1>0, <1>18, <2>1, LibraryConstants DEF Remove, Handler, Event, TypeOK
<1>19. CASE RemoveDone
  BY <1>0, <1>19, SetRow DEF RemoveDone, TypeOK
<1>20. ASSUME NEW i \in Issues, Restore(i) PROVE TypeOK'
  BY <1>0, <1>20, SetRow, LibraryConstants DEF Restore, Handler, Event, TypeOK
<1>21. ASSUME NEW i \in Issues, Fix(i) PROVE TypeOK'
  <2>1. rows[i].problem \in {"none", "missing", "copy", "metadata", "duplicate"}
    BY <1>0 DEF Row
  <2>2. rows' \in [Issues -> Row]
    BY <1>0, <1>21, FixSet DEF Fix
  <2>3. asked' \in [Issues -> {"none", "missing", "copy", "metadata", "duplicate"}]
    BY <1>21, <2>1 DEF Fix, TypeOK
  <2>4. events' \in 0 .. MaxEvents
    BY <1>21, LibraryConstants DEF Fix, Handler, Event, TypeOK
  <2> QED
    BY <1>21, <2>2, <2>3, <2>4 DEF Fix, TypeOK
<1>22. ASSUME NEW f \in Files, FileChange(f) \/ PatternChange(f) PROVE TypeOK'
  BY <1>0, <1>22, LibraryConstants DEF FileChange, PatternChange, Event, TypeOK
<1>23. ASSUME NEW d \in Downloads, DownloadLeaves(d) PROVE TypeOK'
  BY <1>0, <1>23, LibraryConstants DEF DownloadLeaves, Event, TypeOK
<1>24. ASSUME NEW i \in Issues, LibraryChange(i) PROVE TypeOK'
  <2>1. folder' \in [Issues -> Folder]
    <3>1. CASE folder' = [folder EXCEPT ![i] = NoFolder]
      BY <1>0, <3>1 DEF Folder, NoFolder
    <3>2. CASE folder' = [folder EXCEPT ![i].opf = FALSE] \/ folder' = [folder EXCEPT ![i].marker = FALSE]
      <4>1. /\ [folder EXCEPT ![i].marker = FALSE] \in [Issues -> Folder]
            /\ [folder EXCEPT ![i].opf = FALSE] \in [Issues -> Folder]
        BY <1>0, FlagSet
      <4> QED
        BY <3>2, <4>1, Zenon
    <3>3. ASSUME NEW e \in Formats, folder' = [folder EXCEPT ![i].book[e] = Foreign]
          PROVE  folder' \in [Issues -> Folder]
      BY <1>0, <3>3, BookSet
    <3> QED
      BY <1>24, <3>1, <3>2, <3>3 DEF LibraryChange
  <2> QED
    BY <1>0, <1>24, <2>1, LibraryConstants DEF LibraryChange, Event, TypeOK
<1>25. CASE Restart
  BY <1>0, <1>25, IdleType, LibraryConstants DEF Restart, Event, TypeOK
<1>26. CASE UNCHANGED vars
  BY <1>26 DEF vars, TypeOK
<1> QED
  BY <1>1, <1>2, <1>3, <1>4, <1>5, <1>6, <1>7, <1>8, <1>9, <1>10, <1>11, <1>12, <1>13, <1>14,
     <1>15, <1>16, <1>17, <1>18, <1>19, <1>20, <1>21, <1>22, <1>23, <1>24, <1>25, <1>26
  DEF Next, Scan, Item, Unseen, Handlers, Outside
---------------------------------------------------------------------------
(* The item a scan is at keeps its files, and its source is one of them.   *)
LEMMA ItemNext == ASSUME TypeOK, ItemInv, [Next]_vars PROVE ItemInv'
<1>0. scan \in ScanLocals
  BY DEF TypeOK
<1>1. ASSUME UNCHANGED scan PROVE ItemInv'
  BY <1>1 DEF ItemInv, ItemFiles, Candidates, Usable
<1>2. ASSUME scan'.pc \notin Busy \cup {"removed"} PROVE ItemInv'
  BY <1>2 DEF ItemInv, Busy
<1>3. ASSUME UNCHANGED <<scan.download, scan.issue, scan.existing, scan.offers>>,
             scan.pc \in Busy, scan'.pc \in Busy,
             scan'.pc \in {"link", "mark", "save"} => scan'.source \in Usable(scan.existing, ItemFiles)
      PROVE  ItemInv'
  BY <1>3 DEF ItemInv, ItemFiles, Candidates, Usable, Busy
<1>4. CASE ScanStart \/ ScanUnseen \/ ScanEnd \/ UnseenRemoved \/ Restart
  <2>1. scan'.pc \in {"items", "unseen", "idle"}
    BY <1>0, <1>4, IdleType DEF ScanStart, ScanUnseen, ScanEnd, UnseenRemoved, Restart, Idle, ScanLocals
  <2> QED
    BY <1>2, <2>1 DEF Busy
<1>5. ASSUME NEW d \in Downloads, NEW i \in Issues, ItemSkipped(d, i) PROVE ItemInv'
  <2>1. scan'.pc = "items"
    BY <1>0, <1>5 DEF ItemSkipped, ScanLocals
  <2> QED
    BY <1>2, <2>1 DEF Busy
<1>6. ASSUME NEW d \in Downloads, NEW i \in Issues, ItemRead(d, i) PROVE ItemInv'
  <2>1. /\ scan'.pc = "check" /\ scan'.download = d /\ scan'.issue = i
        /\ scan'.existing = rows[i] /\ scan'.offers = scan.offers
    BY <1>0, <1>6 DEF ItemRead, ScanLocals
  <2>2. Candidates(d, i) # {}
    BY <1>6 DEF ItemRead, Usable
  <2>3. ItemFiles' = Candidates(d, i)
    BY <2>1 DEF ItemFiles, Candidates
  <2> QED
    BY <2>1, <2>2, <2>3 DEF ItemInv
<1>7. CASE ItemUnreadable \/ ItemDamaged \/ ItemError \/ ItemClear
  <2>1. scan'.pc = "items"
    BY <1>7, NextItemType DEF ItemUnreadable, ItemDamaged, ItemError, ItemClear, ItemFails
  <2> QED
    BY <1>2, <2>1 DEF Busy
<1>8. CASE ItemChecked
  <2>1. /\ UNCHANGED <<scan.download, scan.issue, scan.existing, scan.offers>>
        /\ scan.pc = "check" /\ scan'.pc = "link" /\ scan'.source = Best(Readable)
    BY <1>0, <1>8 DEF ItemChecked, ScanLocals
  <2>2. Best(Readable) \in Usable(scan.existing, ItemFiles)
    BY <1>8, <2>1, ItemFile DEF ItemChecked, Busy
  <2> QED
    BY <1>3, <2>1, <2>2 DEF Busy
<1>9. CASE ItemLink \/ ItemMark
  <2>1. /\ UNCHANGED <<scan.download, scan.issue, scan.existing, scan.offers, scan.source>>
        /\ scan.pc \in {"link", "mark"} /\ scan'.pc \in {"mark", "save"}
    BY <1>0, <1>9 DEF ItemLink, ItemMark, ScanLocals
  <2> QED
    BY <1>3, <2>1 DEF Busy, ItemInv
<1>10. CASE ItemSave
  <2>1. CASE scan.fixing = "none"
    BY <1>2, <1>10, <2>1, NextItemType DEF ItemSave, Busy
  <2>2. CASE scan.fixing # "none"
    <3>1. /\ UNCHANGED <<scan.download, scan.issue, scan.existing, scan.offers>>
          /\ scan.pc = "save" /\ scan'.pc = "clear"
      BY <1>0, <1>10, <2>2 DEF ItemSave, ScanLocals
    <3> QED
      BY <1>3, <3>1 DEF Busy
  <2> QED
    BY <2>1, <2>2
<1>11. ASSUME NEW i \in Issues, UnseenDuplicate(i) \/ UnseenCheck(i) \/ UnseenRemove(i) PROVE ItemInv'
  <2>1. ASSUME UnseenDuplicate(i) PROVE scan'.pc = "unseen"
    BY <1>0, <2>1 DEF UnseenDuplicate, ScanLocals
  <2>2. ASSUME UnseenCheck(i) PROVE scan'.pc = "unseen"
    BY <1>0, <2>2 DEF UnseenCheck, ScanLocals
  <2>3. ASSUME UnseenRemove(i), MayRemove(i) PROVE scan'.pc = "removed" /\ scan'.issue = i
    BY <1>0, <2>3 DEF UnseenRemove, ScanLocals
  <2>4. ASSUME UnseenRemove(i), ~MayRemove(i) PROVE scan'.pc = "unseen"
    BY <1>0, <2>4 DEF UnseenRemove, ScanLocals
  <2>5. CASE scan'.pc = "unseen"
    BY <1>2, <2>5 DEF Busy
  <2>6. CASE scan'.pc = "removed" /\ scan'.issue = i
    BY <2>6 DEF ItemInv, Busy
  <2> QED
    BY <1>11, <2>1, <2>2, <2>3, <2>4, <2>5, <2>6
<1>12. CASE RemoveDone \/ (\E i \in Issues : Remove(i) \/ Restore(i) \/ Fix(i) \/ LibraryChange(i))
            \/ (\E f \in Files : FileChange(f) \/ PatternChange(f)) \/ (\E d \in Downloads : DownloadLeaves(d))
            \/ UNCHANGED vars
  BY <1>1, <1>12 DEF RemoveDone, Remove, Restore, Fix, LibraryChange, FileChange, PatternChange,
                     DownloadLeaves, vars
<1> QED
  BY <1>4, <1>5, <1>6, <1>7, <1>8, <1>9, <1>10, <1>11, <1>12
  DEF Next, Scan, Item, Unseen, Handlers, Outside
---------------------------------------------------------------------------
LEMMA TypeInit == Init => TypeOK /\ ItemInv
<1> SUFFICES ASSUME Init PROVE TypeOK /\ ItemInv
  OBVIOUS
<1>1. /\ disk \in [Files -> {"good", "bad", "gone"}]
      /\ removing \in Issues \cup {None}
      /\ asked \in [Issues -> {"none", "missing", "copy", "metadata", "duplicate"}]
      /\ events \in 0..MaxEvents
  BY LibraryConstants DEF Init
<1>2. reading \in [Files -> Issues]
  BY LibraryConstants DEF Init
<1>3. folder \in [Issues -> Folder]
  BY DEF Init, NoFolder, Folder
<1>4. rows \in [Issues -> Row]
  BY IdleType DEF Init
<1>5. scan \in ScanLocals /\ scan.pc = "idle"
  BY IdleType DEF Init
<1> QED
  BY <1>1, <1>2, <1>3, <1>4, <1>5 DEF TypeOK, ItemInv, Busy

---------------------------------------------------------------------------
(* What a scan has read of an issue stays true while it works on it.       *)
At == {"check", "link", "mark", "save"}

(* A linked row knows its folder, its download and its format.             *)
RowInv ==
    \A i \in Issues : rows[i].status = "linked" =>
        rows[i].dest /\ rows[i].download \in Downloads /\ rows[i].ext \in Formats

(* A row that is still linked is the one the scan has read.                *)
ReadInv ==
    scan.pc \in At /\ rows[scan.issue].status = "linked" =>
       LET row == rows[scan.issue] IN
       /\ Watched(scan.existing)
       /\ row.ext = scan.existing.ext
       /\ row.download = scan.download
       /\ scan.pc = "check" => row.problem = scan.existing.problem /\ (scan.existing.fix => row.fix)
       /\ scan.pc \in {"link", "mark"} => (row.problem # "none" => row.fix)

BookInv ==
    /\ RowNamesItsDownload
    /\ scan.pc \in {"mark", "save"} =>
          folder[scan.issue].book[FormatOf[scan.source]] \in {scan.source, None, Foreign}

(* Every open Fix has been asked for.                                      *)
AskInv ==
    /\ \A i \in Issues : rows[i].fix \/ scan.rows[i].fix => asked[i] # "none"
    /\ scan.pc \in At /\ scan.existing.fix => asked[scan.issue] # "none"
    /\ scan.pc \in {"link", "mark"} /\ scan.fixing # "none" => scan.existing.fix

LInv == TypeOK /\ ItemInv /\ RowInv /\ ReadInv /\ BookInv /\ AskInv

(* A row that is linked after a step was so before, in the same folder and *)
(* format and from the same download, and no Fix is opened.                *)
Kept(old, new) ==
    /\ new.status = "linked" => /\ old.status = "linked" /\ new.dest = old.dest
                                /\ new.ext = old.ext /\ new.download = old.download
    /\ new.fix => old.fix

RowsKept == \A i \in Issues : Kept(rows[i], rows'[i])

(* The transactions that keep a row.                                       *)
LEMMA KeptBy ==
    ASSUME NEW row \in Row
    PROVE  /\ Kept(row, row)
           /\ Kept(row, ClearProblem(row))
           /\ \A status \in {"pending", "excluded"} : Kept(row, SetStatus(row, status))
           /\ \A d \in Downloads, f \in Files :
                 (row.status = "linked" => row.download = d) => Kept(row, Failed(row, d, f))
<1>1. Kept(row, row)
  BY DEF Kept
<1>2. Kept(row, ClearProblem(row))
  BY ClearedRow DEF Kept
<1>3. ASSUME NEW status \in {"pending", "excluded"} PROVE Kept(row, SetStatus(row, status))
  BY SetRow DEF Kept
<1>4. ASSUME NEW d \in Downloads, NEW f \in Files, row.status = "linked" => row.download = d
      PROVE  Kept(row, Failed(row, d, f))
  BY <1>4, FailedRow DEF Kept
<1> QED
  BY <1>1, <1>2, <1>3, <1>4

LEMMA KeptInPlace ==
    ASSUME NEW row \in Row, NEW problem
    PROVE  /\ Kept(row, [row EXCEPT !.problem = problem])
           /\ Kept(row, [row EXCEPT !.fix = FALSE])
           /\ Kept(row, [[row EXCEPT !.problem = problem] EXCEPT !.fix = FALSE])
  BY DEF Row, Kept

(* A table with one row changed.                                           *)
LEMMA OneRow ==
    ASSUME NEW i \in Issues, NEW new, TypeOK,
           rows' = [rows EXCEPT ![i] = new], Kept(rows[i], new)
    PROVE  RowsKept
<1>1. ASSUME NEW j \in Issues PROVE Kept(rows[j], rows'[j])
  <2>1. CASE j = i
    BY <2>1 DEF TypeOK
  <2>2. CASE j # i
    BY <2>2, KeptBy DEF TypeOK
  <2> QED
    BY <2>1, <2>2
<1> QED
  BY <1>1 DEF RowsKept

LEMMA SameRows == ASSUME TypeOK, UNCHANGED rows PROVE RowsKept
  BY KeptBy DEF RowsKept, TypeOK

(* An item that fails leaves a linked row with its download.               *)
LEMMA FailsKept ==
    ASSUME TypeOK, ItemInv, ReadInv, scan.pc \in {"check", "link", "mark"}, ItemFails
    PROVE  RowsKept
<1> DEFINE failed == Failed(rows[scan.issue], scan.download, Best(ItemFiles))
<1>1. /\ Best(ItemFiles) \in Files /\ scan.issue \in Issues /\ scan.download \in Downloads
      /\ rows[scan.issue] \in Row
  BY ItemFile DEF TypeOK, Busy
<1>2. Kept(rows[scan.issue], failed)
  BY <1>1, KeptBy DEF ReadInv, At
<1>3. rows' = [rows EXCEPT ![scan.issue] = failed]
  BY DEF ItemFails
<1> HIDE DEF failed
<1> QED
  BY <1>1, <1>2, <1>3, OneRow

(* Of a checked, an unseen and a removed issue.                            *)
LEMMA UnseenKept ==
    ASSUME TypeOK, NEW i \in Issues,
           UnseenDuplicate(i) \/ UnseenCheck(i) \/ UnseenRemove(i)
    PROVE  RowsKept
<1> DEFINE problem == Problem(i, scan.rows[i].ext, None)
           reported == [rows[i] EXCEPT !.problem = problem]
<1>0. rows[i] \in Row /\ rows \in [Issues -> Row]
  BY DEF TypeOK
<1>1. CASE UnseenDuplicate(i)
  <2>1. rows' = [rows EXCEPT ![i] = [rows[i] EXCEPT !.problem = "duplicate"]]
    BY <1>1 DEF UnseenDuplicate
  <2> QED
    BY <1>0, <2>1, KeptInPlace, OneRow
<1>2. CASE UnseenRemove(i)
  <2>1. UNCHANGED rows \/ rows' = [rows EXCEPT ![i] = [rows[i] EXCEPT !.fix = FALSE]]
    BY <1>2 DEF UnseenRemove
  <2> QED
    BY <1>0, <2>1, KeptInPlace, OneRow, SameRows
<1>3. CASE UnseenCheck(i)
  <2>1. \/ UNCHANGED rows
        \/ rows' = [rows EXCEPT ![i] = reported]
        \/ rows' = [[rows EXCEPT ![i] = reported] EXCEPT ![i].fix = FALSE]
        \/ rows' = [rows EXCEPT ![i] = ClearProblem(rows[i])]
    BY <1>3 DEF UnseenCheck
  <2>2. [[rows EXCEPT ![i] = reported] EXCEPT ![i].fix = FALSE]
           = [rows EXCEPT ![i] = [reported EXCEPT !.fix = FALSE]]
    <3> HIDE DEF reported
    <3> QED
      BY <1>0
  <2>3. /\ Kept(rows[i], reported) /\ Kept(rows[i], [reported EXCEPT !.fix = FALSE])
        /\ Kept(rows[i], ClearProblem(rows[i]))
    BY <1>0, KeptInPlace, KeptBy
  <2> HIDE DEF reported
  <2> QED
    BY <2>1, <2>2, <2>3, OneRow, SameRows
<1> QED
  BY <1>1, <1>2, <1>3

(* Every step but ItemSave and Fix keeps the rows.                         *)
LEMMA RowsNext ==
    ASSUME TypeOK, ItemInv, ReadInv, [Next]_vars, ~ItemSave, \A i \in Issues : ~Fix(i)
    PROVE  RowsKept
<1>1. ASSUME NEW i \in Issues, NEW new, rows' = [rows EXCEPT ![i] = new],
             new = ClearProblem(rows[i]) \/ new = SetStatus(rows[i], "pending")
             \/ new = SetStatus(rows[i], "excluded")
      PROVE  RowsKept
  BY <1>1, KeptBy, OneRow DEF TypeOK
<1>2. CASE ItemUnreadable \/ ItemError
  BY <1>2, FailsKept DEF ItemUnreadable, ItemError
<1>3. CASE ItemDamaged
  <2>1. /\ scan.issue \in Issues
        /\ rows' = [rows EXCEPT ![scan.issue] = [rows[scan.issue] EXCEPT !.problem = FoundProblem]]
    BY <1>3, ItemFile DEF ItemDamaged, Busy
  <2> QED
    BY <2>1, KeptInPlace, OneRow DEF TypeOK
<1>4. CASE ItemChecked
  <2>1. \/ UNCHANGED rows
        \/ rows' = [rows EXCEPT ![scan.issue] = ClearProblem(rows[scan.issue])]
    BY <1>4 DEF ItemChecked
  <2>2. scan.issue \in Issues
    BY <1>4, ItemFile DEF ItemChecked, Busy
  <2> QED
    BY <1>1, <2>1, <2>2, SameRows
<1>5. CASE ItemClear
  <2>1. scan.issue \in Issues
    BY <1>5, ItemFile DEF ItemClear, Busy
  <2> QED
    BY <1>1, <1>5, <2>1 DEF ItemClear
<1>6. ASSUME NEW i \in Issues, UnseenDuplicate(i) \/ UnseenCheck(i) \/ UnseenRemove(i) PROVE RowsKept
  BY <1>6, UnseenKept
<1>7. CASE UnseenRemoved
  BY <1>1, <1>7 DEF UnseenRemoved, ItemInv
<1>8. CASE RemoveDone
  BY <1>1, <1>8 DEF RemoveDone, TypeOK
<1>9. ASSUME NEW i \in Issues, Restore(i) PROVE RowsKept
  BY <1>1, <1>9 DEF Restore
<1>10. CASE UNCHANGED rows
  BY <1>10, SameRows
<1> QED
  BY <1>2, <1>3, <1>4, <1>5, <1>6, <1>7, <1>8, <1>9, <1>10
  DEF Next, Scan, Item, Unseen, Handlers, Outside, vars, ScanStart, ItemSkipped, ItemRead,
      ItemLink, ItemMark, ScanUnseen, ScanEnd, Remove, FileChange, PatternChange, DownloadLeaves,
      LibraryChange, Restart

(* A Fix changes nothing else of its row.                                  *)
LEMMA FixRows ==
    ASSUME TypeOK, NEW i \in Issues, Fix(i)
    PROVE  \A j \in Issues : /\ rows'[j].status = rows[j].status /\ rows'[j].dest = rows[j].dest
                             /\ rows'[j].ext = rows[j].ext /\ rows'[j].download = rows[j].download
                             /\ rows'[j].problem = rows[j].problem
                             /\ rows[j].fix => rows'[j].fix
                             /\ rows'[j].fix => rows[j].fix \/ j = i
<1>1. rows' = [rows EXCEPT ![i] = [rows[i] EXCEPT !.fix = TRUE]] /\ rows \in [Issues -> Row]
  BY DEF Fix, TypeOK
<1>2. ASSUME NEW j \in Issues
      PROVE  rows'[j] = IF j = i THEN [rows[i] EXCEPT !.fix = TRUE] ELSE rows[j]
  BY <1>1
<1>3. ASSUME NEW row \in Row
      PROVE  LET new == [row EXCEPT !.fix = TRUE]
             IN  /\ new.status = row.status /\ new.dest = row.dest /\ new.ext = row.ext
                 /\ new.download = row.download /\ new.problem = row.problem /\ new.fix
  BY DEF Row
<1> QED
  BY <1>1, <1>2, <1>3

(* What save_issue leaves in the table.                                    *)
LEMMA SaveRows ==
    ASSUME TypeOK, ItemInv, ItemSave
    PROVE  /\ \A j \in Issues : j # scan.issue => rows'[j] = rows[j]
           /\ LET row == rows'[scan.issue]
              IN  /\ row.download = scan.download /\ row.ext = FormatOf[scan.source]
                  /\ row.dest /\ row.fix = rows[scan.issue].fix
<1> DEFINE saved(row) == [row EXCEPT !.status = "linked", !.download = scan.download,
                            !.file = Best(ItemFiles), !.ext = FormatOf[scan.source],
                            !.dest = TRUE, !.error = FALSE]
<1>1. rows' = [rows EXCEPT ![scan.issue] = saved(rows[scan.issue])]
  BY DEF ItemSave
<1>2. scan.issue \in Issues /\ rows \in [Issues -> Row]
  BY ItemFile DEF ItemSave, Busy, TypeOK
<1>3. ASSUME NEW row \in Row
      PROVE  /\ saved(row).download = scan.download /\ saved(row).ext = FormatOf[scan.source]
             /\ saved(row).dest /\ saved(row).fix = row.fix
  BY DEF Row
<1> HIDE DEF saved
<1> QED
  BY <1>1, <1>2, <1>3

(* The steps beside the scan.                                              *)
Beside ==
    \/ RemoveDone
    \/ \E i \in Issues : Remove(i) \/ Restore(i) \/ Fix(i) \/ LibraryChange(i)
    \/ \E f \in Files : FileChange(f) \/ PatternChange(f)
    \/ \E d \in Downloads : DownloadLeaves(d)
    \/ UNCHANGED vars

(* Where a step leaves the scan.                                           *)
LEMMA ScanSteps ==
    ASSUME TypeOK, ItemInv, [Next]_vars
    PROVE  \/ UNCHANGED scan /\ Beside
           \/ scan'.pc \notin At
           \/ \E d \in Downloads, i \in Issues : ItemRead(d, i)
           \/ ItemChecked \/ ItemLink \/ ItemMark
<1>0. scan \in ScanLocals
  BY DEF TypeOK
<1>1. CASE Beside
  BY <1>1 DEF Beside, RemoveDone, Remove, Restore, Fix, LibraryChange, FileChange, PatternChange,
              DownloadLeaves, vars
<1>2. CASE ScanStart \/ ScanUnseen \/ ScanEnd \/ UnseenRemoved \/ Restart
  <2>1. scan'.pc \in {"items", "unseen", "idle"}
    BY <1>0, <1>2, IdleType DEF ScanStart, ScanUnseen, ScanEnd, UnseenRemoved, Restart, Idle, ScanLocals
  <2> QED
    BY <2>1 DEF At
<1>3. ASSUME NEW d \in Downloads, NEW i \in Issues, ItemSkipped(d, i) PROVE scan'.pc \notin At
  <2>1. scan'.pc = "items"
    BY <1>0, <1>3 DEF ItemSkipped, ScanLocals
  <2> QED
    BY <2>1 DEF At
<1>4. CASE ItemUnreadable \/ ItemDamaged \/ ItemError \/ ItemClear
  <2>1. scan'.pc = "items"
    BY <1>4, NextItemType DEF ItemUnreadable, ItemDamaged, ItemError, ItemClear, ItemFails
  <2> QED
    BY <2>1 DEF At
<1>5. CASE ItemSave
  <2>1. scan'.pc \in {"items", "clear"}
    BY <1>0, <1>5, NextItemType DEF ItemSave, ScanLocals
  <2> QED
    BY <2>1 DEF At
<1>6. ASSUME NEW i \in Issues, UnseenDuplicate(i) PROVE scan'.pc \notin At
  BY <1>0, <1>6 DEF UnseenDuplicate, ScanLocals, At
<1>7. ASSUME NEW i \in Issues, UnseenCheck(i) PROVE scan'.pc \notin At
  BY <1>0, <1>7 DEF UnseenCheck, ScanLocals, At
<1>8. ASSUME NEW i \in Issues, UnseenRemove(i) PROVE scan'.pc \notin At
  <2>1. CASE MayRemove(i)
    BY <1>0, <1>8, <2>1 DEF UnseenRemove, ScanLocals, At
  <2>2. CASE ~MayRemove(i)
    BY <1>0, <1>8, <2>2 DEF UnseenRemove, ScanLocals, At
  <2> QED
    BY <2>1, <2>2
<1> QED
  BY <1>1, <1>2, <1>3, <1>4, <1>5, <1>6, <1>7, <1>8
  DEF Next, Scan, Item, Unseen, Handlers, Outside, Beside
---------------------------------------------------------------------------
(* The parts of the invariant, one by one.                                 *)
LEMMA RowNext == ASSUME LInv, [Next]_vars PROVE RowInv'
<1>0. TypeOK /\ ItemInv /\ RowInv /\ ReadInv
  BY DEF LInv
<1>1. CASE ItemSave
  <2>1. scan.issue \in Issues /\ scan.download \in Downloads /\ FormatOf[scan.source] \in Formats
    BY <1>0, <1>1, ItemFile, ItemsAreFiles, LibraryConstants DEF ItemSave, ItemInv, Busy
  <2> QED
    BY <1>0, <1>1, <2>1, SaveRows DEF RowInv
<1>2. ASSUME NEW i \in Issues, Fix(i) PROVE RowInv'
  BY <1>0, <1>2, FixRows DEF RowInv
<1>3. CASE ~ItemSave /\ \A i \in Issues : ~Fix(i)
  <2>1. RowsKept
    BY <1>0, <1>3, RowsNext
  <2> QED
    BY <1>0, <2>1 DEF RowInv, RowsKept, Kept
<1> QED
  BY <1>1, <1>2, <1>3

(* Beside the scan, a row that stays linked keeps its problem and its Fix. *)
LEMMA BesideRows ==
    ASSUME TypeOK, ItemInv, ReadInv, [Next]_vars, Beside
    PROVE  \A i \in Issues : rows'[i].status = "linked" =>
              /\ rows[i].status = "linked" /\ rows'[i].ext = rows[i].ext
              /\ rows'[i].download = rows[i].download
              /\ rows'[i].problem = rows[i].problem /\ (rows[i].fix => rows'[i].fix)
<1>1. ASSUME NEW i \in Issues, NEW status \in {"pending", "excluded"},
             rows' = [rows EXCEPT ![i] = SetStatus(rows[i], status)]
      PROVE  \A j \in Issues : rows'[j] = rows[j] \/ rows'[j].status # "linked"
  BY <1>1, SetRow DEF TypeOK
<1>2. CASE RemoveDone
  BY <1>1, <1>2 DEF RemoveDone, TypeOK
<1>3. ASSUME NEW i \in Issues, Restore(i)
      PROVE  \A j \in Issues : rows'[j] = rows[j] \/ rows'[j].status # "linked"
  BY <1>1, <1>3 DEF Restore
<1>4. CASE \E i \in Issues : Fix(i)
  BY <1>4, FixRows
<1>5. CASE UNCHANGED rows
  BY <1>5
<1> QED
  BY <1>2, <1>3, <1>4, <1>5
  DEF Beside, Remove, LibraryChange, FileChange, PatternChange, DownloadLeaves, vars

LEMMA ReadNext == ASSUME LInv, [Next]_vars PROVE ReadInv'
<1>0. /\ TypeOK /\ ItemInv /\ RowInv /\ ReadInv /\ BookInv
      /\ scan \in ScanLocals /\ rows \in [Issues -> Row]
  BY DEF LInv, TypeOK
<1>1. CASE UNCHANGED scan /\ Beside
  <2>1. scan.pc \in At => scan.issue \in Issues
    BY <1>0 DEF At, ItemInv, Busy
  <2> QED
    BY <1>0, <1>1, <2>1, BesideRows DEF ReadInv, At
<1>2. ASSUME NEW d \in Downloads, NEW i \in Issues, ItemRead(d, i) PROVE ReadInv'
  <2>1. /\ scan'.pc = "check" /\ scan'.download = d /\ scan'.issue = i /\ scan'.existing = rows[i]
        /\ UNCHANGED rows /\ ~TakenBy(d, i)
    BY <1>0, <1>2 DEF ItemRead, ScanLocals
  <2>2. ASSUME rows[i].status = "linked" PROVE rows[i].download = d
    <3>1. rows[i].download \in Downloads /\ None \notin Downloads
      BY <1>0, <2>2, LibraryConstants DEF RowInv
    <3>2. ASSUME SameFile(i, rows[i], Candidates(d, i)) PROVE rows[i].download = d
      BY <1>0, <2>2, <3>2 DEF SameFile, Candidates, BookInv, RowNamesItsDownload
    <3> QED
      BY <2>1, <2>2, <3>1, <3>2 DEF TakenBy
  <2>3. rows[i].status = "linked" => rows[i].dest
    BY <1>0 DEF RowInv
  <2> QED
    BY <2>1, <2>2, <2>3 DEF ReadInv, Watched
<1>3. CASE ItemChecked
  <2>1. /\ scan'.pc = "link" /\ scan'.issue = scan.issue /\ scan'.existing = scan.existing
        /\ scan'.download = scan.download /\ scan.pc = "check" /\ scan.issue \in Issues
    BY <1>0, <1>3, ItemFile DEF ItemChecked, ScanLocals, Busy
  <2> DEFINE row == rows[scan.issue]
  <2>2. ASSUME rows' = [rows EXCEPT ![scan.issue] = ClearProblem(row)] PROVE ReadInv'
    <3>1. rows'[scan.issue] = ClearProblem(row) /\ row \in Row
      BY <1>0, <2>1, <2>2
    <3> QED
      BY <1>0, <2>1, <3>1, ClearedRow DEF ReadInv, At
  <2>3. ASSUME UNCHANGED rows, ~(FoundProblem = "none" /\ Watched(scan.existing)
                                    /\ scan.existing.problem # "none")
        PROVE  ReadInv'
    <3>1. row.status = "linked" /\ row.problem # "none" => row.fix
      <4>1. FoundProblem # "none" => scan.existing.fix
        BY <1>3 DEF ItemChecked
      <4> QED
        BY <1>0, <2>1, <2>3, <4>1 DEF ReadInv, At
    <3> QED
      BY <1>0, <2>1, <2>3, <3>1 DEF ReadInv, At
  <2> QED
    BY <1>3, <2>2, <2>3 DEF ItemChecked
<1>4. CASE ItemLink \/ ItemMark
  <2>1. /\ scan'.pc \in {"mark", "save"} /\ scan.pc \in {"link", "mark"}
        /\ scan'.pc = "mark" => scan.pc = "link"
        /\ UNCHANGED <<scan.issue, scan.existing, scan.download, rows>>
    BY <1>0, <1>4 DEF ItemLink, ItemMark, ScanLocals
  <2> QED
    BY <1>0, <2>1 DEF ReadInv, At
<1>5. CASE scan'.pc \notin At
  BY <1>5 DEF ReadInv
<1> QED
  BY <1>0, <1>1, <1>2, <1>3, <1>4, <1>5, ScanSteps

(* A book is put into a folder by ItemLink alone.                          *)
LEMMA BooksNext ==
    ASSUME TypeOK, ItemInv, [Next]_vars, ~ItemLink
    PROVE  \A i \in Issues, e \in Formats :
              folder'[i].book[e] \in {folder[i].book[e], None, Foreign}
<1>0. folder \in [Issues -> Folder]
  BY DEF TypeOK
<1>1. ASSUME NEW i \in Issues, folder' = [folder EXCEPT ![i] = NoFolder]
      PROVE  \A j \in Issues, e \in Formats : folder'[j].book[e] \in {folder[j].book[e], None}
  BY <1>0, <1>1 DEF NoFolder
<1>2. ASSUME NEW i \in Issues, \/ folder' = [folder EXCEPT ![i].opf = FALSE]
                               \/ folder' = [folder EXCEPT ![i].marker = FALSE]
                               \/ folder' = [folder EXCEPT ![i].marker = TRUE, ![i].opf = TRUE]
      PROVE  \A j \in Issues, e \in Formats : folder'[j].book[e] = folder[j].book[e]
  <2>1. ASSUME folder' = [folder EXCEPT ![i].opf = FALSE]
        PROVE  \A j \in Issues : folder'[j].book = folder[j].book
    BY <1>0, <2>1 DEF Folder
  <2>2. ASSUME folder' = [folder EXCEPT ![i].marker = FALSE]
        PROVE  \A j \in Issues : folder'[j].book = folder[j].book
    BY <1>0, <2>2 DEF Folder
  <2>3. ASSUME folder' = [folder EXCEPT ![i].marker = TRUE, ![i].opf = TRUE]
        PROVE  \A j \in Issues : folder'[j].book = folder[j].book
    BY <1>0, <2>3 DEF Folder
  <2> QED
    BY <1>2, <2>1, <2>2, <2>3
<1>3. ASSUME NEW i \in Issues, NEW x \in Formats, folder' = [folder EXCEPT ![i].book[x] = Foreign]
      PROVE  \A j \in Issues, e \in Formats : folder'[j].book[e] \in {folder[j].book[e], Foreign}
  BY <1>0, <1>3 DEF Folder
<1>4. CASE ItemMark
  <2>1. scan.issue \in Issues
    BY <1>4, ItemFile DEF ItemMark, Busy
  <2> QED
    BY <1>2, <1>4, <2>1 DEF ItemMark
<1>5. ASSUME NEW i \in Issues, LibraryChange(i)
      PROVE  \A j \in Issues, e \in Formats :
                folder'[j].book[e] \in {folder[j].book[e], None, Foreign}
  BY <1>1, <1>2, <1>3, <1>5 DEF LibraryChange
<1>6. ASSUME NEW i \in Issues, UnseenRemove(i) \/ Remove(i)
      PROVE  \A j \in Issues, e \in Formats : folder'[j].book[e] \in {folder[j].book[e], None}
  <2>1. UNCHANGED folder \/ folder' = [folder EXCEPT ![i] = NoFolder]
    BY <1>6 DEF UnseenRemove, Remove
  <2> QED
    BY <1>1, <2>1
<1>7. CASE UNCHANGED folder
  BY <1>7
<1> QED
  BY <1>4, <1>5, <1>6, <1>7
  DEF Next, Scan, Item, Unseen, Handlers, Outside, vars, outside, ScanStart, ItemSkipped, ItemRead,
      ItemUnreadable, ItemDamaged, ItemChecked, ItemError, ItemSave, ItemClear, ScanUnseen,
      UnseenDuplicate, UnseenCheck, UnseenRemoved, ScanEnd, RemoveDone, Restore, Fix,
      FileChange, PatternChange, DownloadLeaves, Restart

(* What ItemLink leaves in the folder.                                     *)
LEMMA LinkBooks ==
    ASSUME TypeOK, ItemInv, ItemLink
    PROVE  /\ scan.issue \in Issues /\ scan.source \in Files /\ UNCHANGED rows
           /\ folder'[scan.issue].book[FormatOf[scan.source]] = scan.source
           /\ \A i \in Issues, e \in Formats :
                 i # scan.issue \/ e # FormatOf[scan.source] =>
                    folder'[i].book[e] = folder[i].book[e]
           /\ folder[scan.issue].book[FormatOf[scan.source]] = Foreign =>
                 folder[scan.issue].marker /\ scan.fixing = "copy"
<1> DEFINE e == FormatOf[scan.source]
           old == folder[scan.issue].book[e]
           new == IF old = None \/ scan.fixing = "copy" THEN scan.source ELSE old
<1>1. /\ scan.issue \in Issues /\ scan.source \in Files /\ e \in Formats
      /\ folder \in [Issues -> Folder] /\ Foreign \notin Files \cup {None}
  BY ItemFile, ItemsAreFiles, LibraryConstants DEF ItemLink, ItemInv, Busy, TypeOK
<1>2. scan.fixing # "copy" => old \in {None, scan.source}
  BY DEF ItemLink, MayLink
<1>3. new = scan.source
  BY <1>2
<1>4. folder' = [folder EXCEPT ![scan.issue].book[e] = new]
  BY <1>1 DEF ItemLink
<1>5. old = Foreign => folder[scan.issue].marker /\ scan.fixing = "copy"
  BY <1>1, <1>2 DEF ItemLink, MayLink
<1> QED
  <2> HIDE DEF new
  <2>1. ASSUME NEW i \in Issues, NEW x \in Formats
        PROVE  folder'[i].book[x] = IF i = scan.issue /\ x = e THEN scan.source ELSE folder[i].book[x]
    <3> HIDE DEF e
    <3> QED
      BY <1>1, <1>3, <1>4 DEF Folder
  <2> QED
    BY <1>1, <1>5, <2>1 DEF ItemLink

LEMMA BookNext == ASSUME LInv, [Next]_vars PROVE BookInv'
<1>0. /\ TypeOK /\ ItemInv /\ RowInv /\ ReadInv /\ BookInv /\ RowInv'
      /\ scan \in ScanLocals /\ None \notin Files /\ Foreign \notin Files
  BY RowNext, LibraryConstants DEF LInv, TypeOK
<1>1. CASE ItemLink
  <2>1. /\ Of[scan.source] = scan.download
        /\ Watched(scan.existing) => FormatOf[scan.source] = scan.existing.ext
    BY <1>0, <1>1, ItemsAreFiles DEF ItemLink, ItemInv
  <2>2. /\ scan.pc = "link" /\ scan'.issue = scan.issue /\ scan'.source = scan.source
        /\ UNCHANGED rows
    BY <1>0, <1>1 DEF ItemLink, ScanLocals
  <2>3. ASSUME NEW i \in Issues, rows[i].status = "linked", folder'[i].book[rows[i].ext] \in Files
        PROVE  Of[folder'[i].book[rows[i].ext]] = rows[i].download
    <3>1. CASE i = scan.issue
      <4>1. rows[i].ext = FormatOf[scan.source] /\ rows[i].download = scan.download
        BY <1>0, <2>1, <2>2, <2>3, <3>1 DEF ReadInv, At
      <4> QED
        BY <1>0, <1>1, <2>1, <3>1, <4>1, LinkBooks
    <3>2. CASE i # scan.issue
      <4>1. folder'[i].book[rows[i].ext] = folder[i].book[rows[i].ext]
        BY <1>0, <1>1, <2>3, <3>2, LinkBooks DEF RowInv
      <4> QED
        BY <1>0, <2>3, <4>1 DEF BookInv, RowNamesItsDownload
    <3> QED
      BY <3>1, <3>2
  <2>4. RowNamesItsDownload'
    BY <2>2, <2>3 DEF RowNamesItsDownload
  <2>5. folder'[scan'.issue].book[FormatOf[scan'.source]] = scan'.source
    BY <1>0, <1>1, <2>2, LinkBooks
  <2> QED
    BY <2>4, <2>5 DEF BookInv
<1>2. CASE ~ItemLink
  <2>1. \A i \in Issues, e \in Formats :
           folder'[i].book[e] \in {folder[i].book[e], None, Foreign}
    BY <1>0, <1>2, BooksNext
  <2>2. RowNamesItsDownload'
    <3>1. CASE ItemSave
      <4>1. /\ scan.issue \in Issues /\ scan.pc = "save" /\ Of[scan.source] = scan.download
            /\ FormatOf[scan.source] \in Formats /\ scan.source \in Files
        BY <1>0, <3>1, ItemFile, ItemsAreFiles, LibraryConstants DEF ItemSave, ItemInv, Busy
      <4> QED
        BY <1>0, <2>1, <3>1, <4>1, SaveRows DEF BookInv, RowNamesItsDownload, RowInv
    <3>2. ASSUME NEW i \in Issues, Fix(i) PROVE RowNamesItsDownload'
      BY <1>0, <2>1, <3>2, FixRows DEF BookInv, RowNamesItsDownload, RowInv
    <3>3. CASE ~ItemSave /\ \A i \in Issues : ~Fix(i)
      BY <1>0, <2>1, <3>3, RowsNext DEF BookInv, RowNamesItsDownload, RowInv, RowsKept, Kept
    <3> QED
      BY <3>1, <3>2, <3>3
  <2>3. ASSUME scan'.pc \in {"mark", "save"}
        PROVE  folder'[scan'.issue].book[FormatOf[scan'.source]] \in {scan'.source, None, Foreign}
    <3>1. /\ scan.pc \in {"mark", "save"} /\ UNCHANGED <<scan.issue, scan.source>>
      <4>1. CASE ItemMark
        BY <1>0, <4>1 DEF ItemMark, ScanLocals
      <4>2. ASSUME NEW d \in Downloads, NEW i \in Issues, ItemRead(d, i) PROVE FALSE
        BY <1>0, <2>3, <4>2 DEF ItemRead, ScanLocals
      <4>3. CASE ItemChecked
        BY <1>0, <2>3, <4>3 DEF ItemChecked, ScanLocals
      <4> QED
        BY <1>0, <1>2, <2>3, <4>1, <4>2, <4>3, ScanSteps DEF At
    <3>2. scan.issue \in Issues /\ FormatOf[scan.source] \in Formats
      BY <1>0, <3>1, ItemsAreFiles, LibraryConstants DEF ItemInv, Busy
    <3> QED
      BY <1>0, <2>1, <3>1, <3>2 DEF BookInv
  <2> QED
    BY <2>2, <2>3 DEF BookInv
<1> QED
  BY <1>1, <1>2

(* What has been asked for stays asked for.                                *)
LEMMA AskedStays ==
    ASSUME TypeOK, [Next]_vars, NEW i \in Issues, asked[i] # "none"
    PROVE  asked'[i] # "none"
<1>1. ASSUME NEW j \in Issues, Fix(j) PROVE asked'[i] # "none"
  BY <1>1 DEF Fix, TypeOK
<1>2. CASE UNCHANGED asked
  BY <1>2
<1> QED
  BY <1>1, <1>2
  DEF Next, Scan, Item, Unseen, Handlers, Outside, vars, outside, ScanStart, ItemSkipped, ItemRead,
      ItemUnreadable, ItemDamaged, ItemChecked, ItemLink, ItemMark, ItemError, ItemSave, ItemClear,
      ScanUnseen, UnseenDuplicate, UnseenRemove, UnseenCheck, UnseenRemoved, ScanEnd, RemoveDone,
      Remove, Restore, FileChange, PatternChange, DownloadLeaves, LibraryChange, Restart

(* A Fix that is open after a step was open before it or has been asked for.*)
LEMMA FixNext ==
    ASSUME LInv, [Next]_vars, NEW i \in Issues, rows'[i].fix
    PROVE  asked'[i] # "none"
<1>0. TypeOK /\ ItemInv /\ ReadInv /\ AskInv
  BY DEF LInv
<1>1. rows[i].fix => asked'[i] # "none"
  BY <1>0, AskedStays DEF AskInv
<1>2. ASSUME NEW j \in Issues, Fix(j) PROVE asked'[i] # "none"
  <2>1. CASE i = j
    BY <1>0, <1>2, <2>1 DEF Fix, TypeOK
  <2>2. CASE i # j
    BY <1>0, <1>1, <1>2, <2>2, FixRows
  <2> QED
    BY <2>1, <2>2
<1>3. CASE ItemSave
  <2>1. rows'[i].fix = rows[i].fix
    <3>1. CASE i = scan.issue
      BY <1>0, <1>3, <3>1, SaveRows
    <3>2. CASE i # scan.issue
      BY <1>0, <1>3, <3>2, SaveRows
    <3> QED
      BY <3>1, <3>2
  <2> QED
    BY <1>1, <2>1
<1>4. CASE ~ItemSave /\ \A j \in Issues : ~Fix(j)
  BY <1>0, <1>1, <1>4, RowsNext DEF RowsKept, Kept
<1> QED
  BY <1>2, <1>3, <1>4

(* The rows the scan has read for the unseen issues.                       *)
LEMMA ReadRows ==
    ASSUME TypeOK, ItemInv, [Next]_vars
    PROVE  scan'.rows \in {scan.rows, rows, Idle.rows}
<1>0. scan \in ScanLocals
  BY DEF TypeOK
<1>1. CASE ScanStart \/ ScanUnseen \/ ScanEnd \/ UnseenRemoved \/ Restart
  BY <1>0, <1>1, IdleType DEF ScanStart, ScanUnseen, ScanEnd, UnseenRemoved, Restart, ScanLocals
<1>2. ASSUME NEW d \in Downloads, NEW i \in Issues, ItemSkipped(d, i) \/ ItemRead(d, i)
      PROVE  scan'.rows = scan.rows
  BY <1>0, <1>2 DEF ItemSkipped, ItemRead, ScanLocals
<1>3. CASE ItemUnreadable \/ ItemDamaged \/ ItemError \/ ItemClear
  BY <1>3, NextItemType DEF ItemUnreadable, ItemDamaged, ItemError, ItemClear, ItemFails
<1>4. CASE ItemChecked \/ ItemLink \/ ItemMark
  BY <1>0, <1>4 DEF ItemChecked, ItemLink, ItemMark, ScanLocals
<1>5. CASE ItemSave
  BY <1>0, <1>5, NextItemType DEF ItemSave, ScanLocals
<1>6. ASSUME NEW i \in Issues, UnseenDuplicate(i) \/ UnseenCheck(i) PROVE scan'.rows = scan.rows
  BY <1>0, <1>6 DEF UnseenDuplicate, UnseenCheck, ScanLocals
<1>7. ASSUME NEW i \in Issues, UnseenRemove(i) PROVE scan'.rows = scan.rows
  <2>1. CASE MayRemove(i)
    BY <1>0, <1>7, <2>1 DEF UnseenRemove, ScanLocals
  <2>2. CASE ~MayRemove(i)
    BY <1>0, <1>7, <2>2 DEF UnseenRemove, ScanLocals
  <2> QED
    BY <2>1, <2>2
<1>8. CASE UNCHANGED scan
  BY <1>8
<1> QED
  BY <1>1, <1>2, <1>3, <1>4, <1>5, <1>6, <1>7, <1>8
  DEF Next, Scan, Item, Unseen, Handlers, Outside, vars, RemoveDone, Remove, Restore, Fix,
      FileChange, PatternChange, DownloadLeaves, LibraryChange

LEMMA AskNext == ASSUME LInv, [Next]_vars PROVE AskInv'
<1>0. /\ TypeOK /\ ItemInv /\ ReadInv /\ AskInv
      /\ scan \in ScanLocals /\ rows \in [Issues -> Row]
  BY DEF LInv, TypeOK
<1>1. ASSUME NEW i \in Issues, scan'.rows[i].fix PROVE asked'[i] # "none"
  <2>1. scan.rows[i].fix \/ rows[i].fix
    <3>1. ~Idle.rows[i].fix
      BY IdleType DEF Idle
    <3>2. scan'.rows[i].fix = scan.rows[i].fix \/ scan'.rows[i].fix = rows[i].fix
             \/ scan'.rows[i].fix = Idle.rows[i].fix
      BY <1>0, ReadRows
    <3> QED
      BY <1>1, <3>1, <3>2
  <2> QED
    BY <1>0, <2>1, AskedStays DEF AskInv
<1>2. /\ scan'.pc \in At /\ scan'.existing.fix => asked'[scan'.issue] # "none"
      /\ scan'.pc \in {"link", "mark"} /\ scan'.fixing # "none" => scan'.existing.fix
  <2>0. scan.pc \in At => scan.issue \in Issues
    BY <1>0 DEF ItemInv, At, Busy
  <2>1. CASE UNCHANGED scan /\ Beside
    BY <1>0, <2>0, <2>1, AskedStays DEF AskInv
  <2>2. CASE scan'.pc \notin At
    BY <2>2 DEF At
  <2>3. ASSUME NEW d \in Downloads, NEW i \in Issues, ItemRead(d, i)
        PROVE  /\ scan'.existing.fix => asked'[scan'.issue] # "none"
               /\ scan'.pc = "check"
    <3>1. scan'.pc = "check" /\ scan'.issue = i /\ scan'.existing = rows[i]
      BY <1>0, <2>3 DEF ItemRead, ScanLocals
    <3> QED
      BY <1>0, <3>1, AskedStays DEF AskInv
  <2>4. CASE ItemChecked
    <3>1. /\ scan.pc = "check" /\ scan'.issue = scan.issue /\ scan'.existing = scan.existing
          /\ scan'.fixing = FoundProblem
      BY <1>0, <2>4 DEF ItemChecked, ScanLocals
    <3>2. FoundProblem # "none" => scan.existing.fix
      BY <2>4 DEF ItemChecked
    <3>3. scan.existing.fix => asked'[scan.issue] # "none"
      BY <1>0, <2>0, <3>1, AskedStays DEF AskInv, At
    <3> QED
      BY <3>1, <3>2, <3>3
  <2>5. CASE ItemLink \/ ItemMark
    <3>1. /\ scan.pc \in {"link", "mark"} /\ scan'.issue = scan.issue
          /\ scan'.existing = scan.existing /\ scan'.fixing = scan.fixing
      BY <1>0, <2>5 DEF ItemLink, ItemMark, ScanLocals
    <3>2. scan.existing.fix => asked'[scan.issue] # "none"
      BY <1>0, <2>0, <3>1, AskedStays DEF AskInv, At
    <3>3. scan.fixing # "none" => scan.existing.fix
      BY <1>0, <3>1 DEF AskInv
    <3> QED
      BY <3>1, <3>2, <3>3
  <2> QED
    BY <1>0, <2>1, <2>2, <2>3, <2>4, <2>5, ScanSteps
<1> QED
  BY <1>1, <1>2, FixNext DEF AskInv
---------------------------------------------------------------------------
LEMMA LInductive == LInv /\ [Next]_vars => LInv'
<1> SUFFICES ASSUME LInv, [Next]_vars PROVE LInv'
  OBVIOUS
<1>1. TypeOK /\ ItemInv
  BY DEF LInv
<1> QED
  BY <1>1, TypeNext, ItemNext, RowNext, ReadNext, BookNext, AskNext DEF LInv

LEMMA LInit == Init => LInv
<1> SUFFICES ASSUME Init PROVE LInv
  OBVIOUS
<1>1. scan.pc = "idle" /\ scan.rows = [i \in Issues |-> NoRow] /\ rows = [i \in Issues |-> NoRow]
  BY IdleType DEF Init, Idle
<1>2. NoRow.status = "none" /\ ~NoRow.fix
  BY DEF NoRow
<1>3. RowInv /\ ReadInv /\ BookInv
  BY <1>1, <1>2 DEF RowInv, ReadInv, BookInv, RowNamesItsDownload, At
<1>4. AskInv
  BY <1>1, <1>2 DEF AskInv, At
<1> QED
  BY <1>3, <1>4, TypeInit DEF LInv

LEMMA Invariance == Spec => []LInv
  BY LInit, LInductive, PTL DEF Spec

(* Every variable and every local of the scan has its type.                *)
THEOREM TypeCorrect == Spec => []TypeOK
<1>1. LInv => TypeOK
  BY DEF LInv
<1> QED
  BY <1>1, Invariance, PTL

(* Whatever a scan that was cut short has left in the folder, the row of a *)
(* linked issue names the download its file is from.                       *)
THEOREM RowsAreTrue == Spec => []RowNamesItsDownload
<1>1. LInv => RowNamesItsDownload
  BY DEF LInv, BookInv
<1> QED
  BY <1>1, Invariance, PTL

(* A linked issue does not change hands: also an item that fails leaves it *)
(* with its download.                                                      *)
THEOREM LinkedStaysWithItsDownload == Spec => FirstDownloadStays
<1>1. ASSUME LInv, [Next]_vars, NEW i \in Issues,
             rows[i].status = "linked", rows'[i].status = "linked"
      PROVE  rows'[i].download = rows[i].download
  <2>0. TypeOK /\ ItemInv /\ ReadInv
    BY <1>1 DEF LInv
  <2>1. CASE ItemSave
    <3>1. CASE i = scan.issue
      BY <1>1, <2>0, <2>1, <3>1, SaveRows DEF ItemSave, ReadInv, At
    <3>2. CASE i # scan.issue
      BY <2>0, <2>1, <3>2, SaveRows
    <3> QED
      BY <3>1, <3>2
  <2>2. ASSUME NEW j \in Issues, Fix(j) PROVE rows'[i].download = rows[i].download
    BY <2>0, <2>2, FixRows
  <2>3. CASE ~ItemSave /\ \A j \in Issues : ~Fix(j)
    BY <1>1, <2>0, <2>3, RowsNext DEF RowsKept, Kept
  <2> QED
    BY <2>1, <2>2, <2>3
<1> DEFINE Stays == \A i \in Issues : rows[i].status = "linked" /\ rows'[i].status = "linked" =>
                                         rows'[i].download = rows[i].download
<1>2. LInv /\ [Next]_vars => [Stays]_vars
  BY <1>1
<1> QED
  BY <1>2, Invariance, PTL DEF Spec, FirstDownloadStays

(* "A scan never repairs a damaged issue on its own."                      *)
THEOREM RepairsAreAskedFor == Spec => NoUnaskedRepair
<1> DEFINE Asked == (ItemLink \/ ItemMark) /\ folder' # folder =>
                       LET row == rows[scan.issue]
                       IN  row.status = "linked" /\ row.problem # "none" => row.fix
<1>1. LInv /\ [Next]_vars => [Asked]_vars
  BY DEF LInv, ReadInv, At, ItemLink, ItemMark
<1> QED
  BY <1>1, Invariance, PTL DEF Spec, NoUnaskedRepair

(* A foreign file leaves the library only from a folder with the marker    *)
(* and at the user's word, unless someone else takes it away.              *)
THEOREM ForeignFilesStay == Spec => ForeignFilesAreSafe
<1>1. ASSUME LInv, [Next]_vars, NEW i \in Issues, NEW e \in Formats,
             folder[i].book[e] = Foreign, folder'[i].book[e] # Foreign
      PROVE  LibraryChange(i) \/ (folder[i].marker /\ (Remove(i) \/ asked[i] # "none"))
  <2>0. /\ TypeOK /\ ItemInv /\ AskInv /\ folder \in [Issues -> Folder]
        /\ Foreign # None
    BY <1>1, LibraryConstants DEF LInv, TypeOK
  <2>1. IsThere(i)
    BY <1>1, <2>0 DEF IsThere, NoFolder
  <2>2. CASE ItemLink
    <3>1. i = scan.issue /\ e = FormatOf[scan.source]
      BY <1>1, <2>0, <2>2, LinkBooks
    <3> QED
      BY <1>1, <2>0, <2>2, <3>1, LinkBooks DEF AskInv, ItemLink, At
  <2>3. CASE ItemMark
    <3>1. folder' = [folder EXCEPT ![scan.issue].marker = TRUE, ![scan.issue].opf = TRUE]
      BY <2>3 DEF ItemMark
    <3>2. folder'[i].book = folder[i].book
      BY <2>0, <3>1 DEF Folder
    <3> QED
      BY <1>1, <3>2
  <2>4. ASSUME NEW j \in Issues, UnseenRemove(j)
        PROVE  folder[i].marker /\ asked[i] # "none"
    <3>1. MayRemove(j) /\ folder' = [folder EXCEPT ![j] = NoFolder] /\ scan.rows[j].fix
      BY <1>1, <2>4 DEF UnseenRemove
    <3>2. i = j
      BY <1>1, <2>0, <3>1
    <3> QED
      BY <2>0, <2>1, <3>1, <3>2 DEF MayRemove, AskInv
  <2>5. ASSUME NEW j \in Issues, Remove(j) PROVE folder[i].marker /\ Remove(i)
    <3>1. MayRemove(j) /\ folder' = [folder EXCEPT ![j] = NoFolder]
      BY <1>1, <2>5 DEF Remove
    <3>2. i = j
      BY <1>1, <2>0, <3>1
    <3> QED
      BY <2>1, <2>5, <3>1, <3>2 DEF MayRemove
  <2>6. ASSUME NEW j \in Issues, LibraryChange(j) PROVE LibraryChange(i)
    <3>1. i = j
      BY <1>1, <2>0, <2>6 DEF LibraryChange
    <3> QED
      BY <2>6, <3>1
  <2>7. \/ UNCHANGED folder \/ ItemLink \/ ItemMark
        \/ \E j \in Issues : UnseenRemove(j) \/ Remove(j) \/ LibraryChange(j)
    BY <1>1
    DEF Next, Scan, Item, Unseen, Handlers, Outside, vars, outside, ScanStart, ItemSkipped, ItemRead,
        ItemUnreadable, ItemDamaged, ItemChecked, ItemError, ItemSave, ItemClear, ScanUnseen,
        UnseenDuplicate, UnseenCheck, UnseenRemoved, ScanEnd, RemoveDone, Restore, Fix,
        FileChange, PatternChange, DownloadLeaves, Restart
  <2>8. CASE UNCHANGED folder
    BY <1>1, <2>8
  <2> QED
    BY <2>2, <2>3, <2>4, <2>5, <2>6, <2>7, <2>8
<1> DEFINE Safe == \A i \in Issues, e \in Formats :
                      folder[i].book[e] = Foreign /\ folder'[i].book[e] # Foreign =>
                         \/ LibraryChange(i)
                         \/ folder[i].marker /\ (Remove(i) \/ asked[i] # "none")
<1>2. LInv /\ [Next]_vars => [Safe]_vars
  BY <1>1
<1> QED
  BY <1>2, Invariance, PTL DEF Spec, ForeignFilesAreSafe

---------------------------------------------------------------------------
(* A run ends.                                                             *)

(* The items of a run come before the issues that were not seen.           *)
Part == IF scan.pc \in {"unseen", "removed"} THEN 1 ELSE 2

(* What waits in this part, and what is still to be done with the one      *)
(* that no longer waits.                                                   *)
Waiting ==
    IF scan.pc = "unseen" THEN scan.unseen
    ELSE IF scan.pc = "removed" THEN scan.unseen \ {scan.issue}
    ELSE scan.todo

Place ==
    IF scan.pc = "check" THEN 5 ELSE IF scan.pc = "link" THEN 4 ELSE IF scan.pc = "mark" THEN 3
    ELSE IF scan.pc = "save" THEN 2 ELSE IF scan.pc \in {"clear", "removed"} THEN 1 ELSE 0

Most == 6 * (Cardinality(Downloads \X Issues) + Cardinality(Issues)) + 5

StepsLeft ==
    IF scan.pc = "idle" THEN 0
    ELSE (Most + 1) * Part + 6 * Cardinality(Waiting) + Place

(* A run takes no more steps than these.                                   *)
Longest == 3 * (Most + 1)

(* A step of a run brings it nearer to its end, and nobody else's sets it  *)
(* back.                                                                   *)
RunsGetOn ==
    [][scan.pc # "idle" => \/ StepsLeft' < StepsLeft
                           \/ StepsLeft' = StepsLeft /\ ~Scan]_vars

(* Of the items or of the issues no more can wait than there are.          *)
Waitings == (SUBSET (Downloads \X Issues)) \cup (SUBSET Issues)

LEMMA FiniteWaitings == IsFiniteSet(Downloads \X Issues) /\ IsFiniteSet(Issues)
  BY LibraryConstants, FS_Product

LEMMA Sizes ==
    /\ Most \in Nat
    /\ \A S \in Waitings : Cardinality(S) \in Nat /\ 6 * Cardinality(S) + 5 <= Most
<1>1. Cardinality(Downloads \X Issues) \in Nat /\ Cardinality(Issues) \in Nat
  BY FiniteWaitings, FS_CardinalityType
<1>2. ASSUME NEW S \in SUBSET (Downloads \X Issues)
      PROVE  Cardinality(S) \in Nat /\ Cardinality(S) <= Cardinality(Downloads \X Issues)
  BY FiniteWaitings, FS_Subset, FS_CardinalityType
<1>3. ASSUME NEW S \in SUBSET Issues
      PROVE  Cardinality(S) \in Nat /\ Cardinality(S) <= Cardinality(Issues)
  BY FiniteWaitings, FS_Subset, FS_CardinalityType
<1>4. PICK n \in Nat, m \in Nat : n = Cardinality(Downloads \X Issues) /\ m = Cardinality(Issues)
  BY <1>1
<1>5. Most = 6 * (n + m) + 5
  BY <1>4 DEF Most
<1>6. ASSUME NEW S \in Waitings
      PROVE  Cardinality(S) \in Nat /\ (Cardinality(S) <= n \/ Cardinality(S) <= m)
  BY <1>2, <1>3, <1>4, <1>6 DEF Waitings
<1>7. ASSUME NEW S \in Waitings PROVE 6 * Cardinality(S) + 5 <= Most
  BY <1>5, <1>6, <1>7
<1> QED
  BY <1>5, <1>6, <1>7

LEMMA OneLess ==
    ASSUME NEW S \in Waitings, NEW x \in S
    PROVE  Cardinality(S \ {x}) = Cardinality(S) - 1
<1>1. IsFiniteSet(S)
  BY FiniteWaitings, FS_Subset DEF Waitings
<1> QED
  BY <1>1, FS_RemoveElement, FS_CardinalityType

LEMMA PartTypes ==
    /\ TypeOK => Part \in 1 .. 2 /\ Place \in 0 .. 5 /\ Waiting \in Waitings
    /\ TypeOK' => Part' \in 1 .. 2 /\ Place' \in 0 .. 5 /\ Waiting' \in Waitings
<1>1. TypeOK => Part \in 1 .. 2 /\ Place \in 0 .. 5 /\ Waiting \in Waitings
  BY DEF TypeOK, ScanLocals, Part, Place, Waiting, Waitings
<1>2. TypeOK' => Part' \in 1 .. 2 /\ Place' \in 0 .. 5 /\ Waiting' \in Waitings
  BY DEF TypeOK, ScanLocals, Part, Place, Waiting, Waitings
<1> QED
  BY <1>1, <1>2

(* A step takes the run to a later part, or takes something that waited,   *)
(* or goes on with what it took.                                           *)
Onward ==
    \/ Part' < Part
    \/ Part' = Part /\ \E x \in Waiting : Waiting' = Waiting \ {x} /\ Place = 0
    \/ Part' = Part /\ Waiting' = Waiting /\ Place' < Place

LEMMA RunStep ==
    ASSUME TypeOK, Scan, scan.pc # "idle", scan'.pc # "idle" PROVE Onward
<1> USE DEF Onward, Part, Waiting, Place
<1>0. scan \in ScanLocals
  BY DEF TypeOK
<1>1. ASSUME NEW d \in Downloads, NEW i \in Issues, ItemSkipped(d, i) \/ ItemRead(d, i) PROVE Onward
  <2>1. /\ scan.pc = "items" /\ <<d, i>> \in scan.todo /\ scan'.pc \in {"items", "check"}
        /\ scan'.todo = scan.todo \ {<<d, i>>}
    BY <1>0, <1>1 DEF ItemSkipped, ItemRead, ScanLocals
  <2> QED
    BY <2>1
<1>2. ASSUME scan' = NextItem, scan.pc \in {"check", "link", "mark", "save", "clear"} PROVE Onward
  BY <1>0, <1>2 DEF NextItem, ScanLocals
<1>3. CASE ItemUnreadable \/ ItemDamaged \/ ItemError \/ ItemClear
  BY <1>2, <1>3 DEF ItemUnreadable, ItemDamaged, ItemError, ItemClear, ItemFails
<1>4. CASE ItemChecked
  BY <1>0, <1>4 DEF ItemChecked, ScanLocals
<1>5. CASE ItemLink
  BY <1>0, <1>5 DEF ItemLink, ScanLocals
<1>6. CASE ItemMark
  BY <1>0, <1>6 DEF ItemMark, ScanLocals
<1>7. CASE ItemSave
  <2>1. CASE scan' = NextItem
    BY <1>2, <1>7, <2>1 DEF ItemSave
  <2>2. CASE scan' = [scan EXCEPT !.pc = "clear"]
    BY <1>0, <1>7, <2>2 DEF ItemSave, ScanLocals
  <2> QED
    BY <1>7, <2>1, <2>2 DEF ItemSave
<1>8. CASE ScanUnseen
  BY <1>0, <1>8 DEF ScanUnseen, ScanLocals
<1>9. CASE UnseenRemoved
  BY <1>0, <1>9 DEF UnseenRemoved, ScanLocals
<1>10. ASSUME NEW i \in Issues, UnseenDuplicate(i) \/ UnseenRemove(i) \/ UnseenCheck(i) PROVE Onward
  <2>1. scan.pc = "unseen" /\ i \in scan.unseen
    BY <1>10 DEF UnseenDuplicate, UnseenRemove, UnseenCheck
  <2>2. CASE scan' = [scan EXCEPT !.unseen = @ \ {i}]
    BY <1>0, <2>1, <2>2 DEF ScanLocals
  <2>3. CASE scan' = [scan EXCEPT !.pc = "removed", !.issue = i]
    BY <1>0, <2>1, <2>3 DEF ScanLocals
  <2> QED
    BY <1>10, <2>2, <2>3 DEF UnseenDuplicate, UnseenRemove, UnseenCheck
<1>11. CASE ScanStart \/ ScanEnd
  BY <1>11 DEF ScanStart, ScanEnd, Idle
<1> QED
  BY <1>1, <1>3, <1>4, <1>5, <1>6, <1>7, <1>8, <1>9, <1>10, <1>11 DEF Scan, Item, Unseen

LEMMA FewerSteps ==
    ASSUME TypeOK, TypeOK', scan.pc # "idle", Onward \/ scan'.pc = "idle"
    PROVE  StepsLeft' < StepsLeft
<1>1. /\ Part \in 1 .. 2 /\ Place \in 0 .. 5 /\ Waiting \in Waitings
      /\ Part' \in 1 .. 2 /\ Place' \in 0 .. 5 /\ Waiting' \in Waitings
  BY PartTypes
<1>2. PICK w \in Nat, n \in Nat, m \in Nat :
         /\ w = Most + 1 /\ n = Cardinality(Waiting) /\ m = Cardinality(Waiting')
         /\ 6 * n + 5 < w /\ 6 * m + 5 < w
  <2>1. Most + 1 \in Nat
    BY Sizes
  <2>2. Cardinality(Waiting) \in Nat /\ 6 * Cardinality(Waiting) + 5 < Most + 1
    BY <1>1, Sizes
  <2>3. Cardinality(Waiting') \in Nat /\ 6 * Cardinality(Waiting') + 5 < Most + 1
    BY <1>1, Sizes
  <2> QED
    BY <2>1, <2>2, <2>3
<1>3. PICK p \in 1 .. 2, q \in 1 .. 2, i \in 0 .. 5, j \in 0 .. 5 :
         p = Part /\ q = Part' /\ i = Place /\ j = Place'
  BY <1>1
<1>4. /\ StepsLeft = w * p + 6 * n + i
      /\ StepsLeft' = IF scan'.pc = "idle" THEN 0 ELSE w * q + 6 * m + j
  BY <1>2, <1>3 DEF StepsLeft, Most
<1>5. Onward => q < p \/ (q = p /\ ((m = n - 1 /\ i = 0) \/ (m = n /\ j < i)))
  <2>1. ASSUME NEW x \in Waiting, Waiting' = Waiting \ {x} PROVE m = n - 1
    BY <1>1, <1>2, <2>1, OneLess
  <2>2. ASSUME Waiting' = Waiting PROVE m = n
    BY <1>2, <2>2
  <2> QED
    BY <1>3, <2>1, <2>2 DEF Onward
<1>6. CASE scan'.pc = "idle"
  <2>1. w * p >= w
    OBVIOUS
  <2> QED
    BY <1>2, <1>4, <1>6, <2>1
<1>7. CASE q < p
  <2>1. w * q + w <= w * p
    BY <1>7
  <2> QED
    BY <1>2, <1>4, <2>1
<1>8. CASE q = p /\ ((m = n - 1 /\ i = 0) \/ (m = n /\ j < i))
  <2>1. 6 * m + j < 6 * n + i
    BY <1>8
  <2> QED
    BY <1>4, <1>8, <2>1
<1> QED
  BY <1>5, <1>6, <1>7, <1>8

(* A run ends: from its start on it takes at most Longest steps, and what  *)
(* is removed, restored or fixed meanwhile, or happens to the files, gives *)
(* it no more to do. The code: the loops of _run in scanner.py over the    *)
(* items it has listed and over the issues no item was seen for.           *)
THEOREM RunsEnd == Spec => [](StepsLeft \in 0 .. Longest) /\ RunsGetOn
<1>1. ASSUME TypeOK PROVE StepsLeft \in 0 .. Longest
  <2>1. /\ Part \in 1 .. 2 /\ Place \in 0 .. 5
        /\ Most \in Nat /\ Cardinality(Waiting) \in Nat /\ 6 * Cardinality(Waiting) + 5 <= Most
    BY <1>1, PartTypes, Sizes
  <2>2. PICK w \in Nat : w = Most + 1
    BY <2>1
  <2>3. PICK p \in 1 .. 2 : p = Part
    BY <2>1
  <2>4. w * p >= 0 /\ w * p <= w * 2 /\ w * 3 = w * 2 + w /\ w * 2 \in Int /\ w * p \in Int
    OBVIOUS
  <2> QED
    BY <2>1, <2>2, <2>3, <2>4 DEF StepsLeft, Longest
<1>2. ASSUME TypeOK, TypeOK', [Next]_vars, scan.pc # "idle"
      PROVE  StepsLeft' < StepsLeft \/ (StepsLeft' = StepsLeft /\ ~Scan)
  <2>1. Scan \/ scan'.pc = "idle" => StepsLeft' < StepsLeft
    BY <1>2, RunStep, FewerSteps
  <2>2. UNCHANGED scan => StepsLeft' = StepsLeft
    BY DEF StepsLeft, Most, Part, Waiting, Place
  <2>3. Scan \/ UNCHANGED scan \/ scan'.pc = "idle"
    BY <1>2 DEF Next, Handlers, Remove, RemoveDone, Restore, Fix, Outside, FileChange, DownloadLeaves,
                PatternChange, LibraryChange, Restart, Idle, vars
  <2> QED
    BY <2>1, <2>2, <2>3
<1> QED
  BY <1>1, <1>2, TypeCorrect, PTL DEF Spec, RunsGetOn
=============================================================================
