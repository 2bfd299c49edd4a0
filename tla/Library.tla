------------------------------ MODULE Library -------------------------------
(***************************************************************************)
(* The library on disk and its rows: how a scan links, checks and repairs  *)
(* the issues of its downloads (scanner.py, _process_item, _check_unseen), *)
(* one file-system call or transaction at a time, while the user removes,  *)
(* restores and fixes issues, files are lost or spoiled, and the process   *)
(* may stop at any point.                                                  *)
(*                                                                         *)
(* A file is one inode of a download; the library holds it under the       *)
(* issue's label and the format's suffix, or holds a foreign file there.   *)
(***************************************************************************)
EXTENDS Naturals, FiniteSets

CONSTANTS
    Files,          \* book files of all downloads
    Downloads,
    Issues,
    Formats,        \* suffixes
    Of,             \* file -> its download
    FormatOf,       \* file -> its suffix
    Rank,           \* format -> its place in the library's format priority
    Readings,       \* file -> the issues its name may be read as
    Events,         \* kinds of user and outside events that may happen
    MaxEvents,      \* bound: how many of them
    None,           \* nothing there, nothing to say
    Foreign         \* a file in the library that is no link to any download

ASSUME LibraryConstants ==
    /\ IsFiniteSet(Downloads) /\ IsFiniteSet(Issues)
    /\ Of \in [Files -> Downloads]
    /\ FormatOf \in [Files -> Formats]
    /\ Rank \in [Formats -> Nat]
    /\ Readings \in [Files -> SUBSET Issues]
    /\ MaxEvents \in Nat
    /\ None \notin Files \cup Downloads \cup Issues \cup Formats
    /\ Foreign \notin Files \cup {None}

VARIABLES
    disk,       \* the downloads' files: good, bad (unreadable) or gone
    reading,    \* the issue each file is read as, by the patterns of the moment
    folder,     \* the issue folders in the library
    rows,       \* table issues
    scan,       \* the scan thread
    removing,   \* the handler of a Remove between the folder and the row
    asked,      \* history: the problem shown when Fix was pressed
    events      \* bound: user and outside events so far

vars == <<disk, reading, folder, rows, scan, removing, asked, events>>

NoFolder == [marker |-> FALSE, opf |-> FALSE, book |-> [e \in Formats |-> None]]
IsThere(i) == folder[i] # NoFolder

(* dest: the row knows the issue's folder.                                 *)
NoRow == [status |-> "none", download |-> None, file |-> None, ext |-> None,
          dest |-> FALSE, error |-> FALSE, problem |-> "none", fix |-> FALSE]

Row == [status: {"none", "pending", "linked", "error", "excluded"},
        download: Downloads \cup {None}, file: Files \cup {None},
        ext: Formats \cup {None}, dest: BOOLEAN, error: BOOLEAN,
        problem: {"none", "missing", "copy", "metadata", "duplicate"}, fix: BOOLEAN]

Idle == [pc |-> "idle", todo |-> {}, offers |-> [f \in Files |-> None],
         claims |-> [f \in Files |-> None], seen |-> {},
         download |-> None, issue |-> None, existing |-> NoRow, source |-> None,
         fixing |-> "none", unseen |-> {}, rows |-> [i \in Issues |-> NoRow]]

Init ==
    /\ disk = [f \in Files |-> "good"]
    /\ reading \in {r \in [Files -> Issues] : \A f \in Files : r[f] \in Readings[f]}
    /\ folder = [i \in Issues |-> NoFolder]
    /\ rows = [i \in Issues |-> NoRow]
    /\ scan = Idle
    /\ removing = None
    /\ asked = [i \in Issues |-> "none"]
    /\ events = 0

Event(kind) ==
    /\ kind \in Events
    /\ events < MaxEvents
    /\ events' = events + 1

outside == <<disk, reading, removing, asked, events>>

---------------------------------------------------------------------------
(* Repo: one transaction each.                                             *)

SetStatus(row, status) ==
    LET plain == [row EXCEPT !.status = status, !.error = FALSE]
    IN IF status = "linked" THEN plain ELSE [plain EXCEPT !.problem = "none", !.fix = FALSE]

ClearProblem(row) == [row EXCEPT !.problem = "none", !.fix = FALSE]

(* _issue_error: a linked issue stays linked.                              *)
Failed(row, d, f) ==
    [row EXCEPT !.status = IF row.status = "linked" THEN @ ELSE "error",
                !.download = d, !.file = f, !.error = TRUE]

---------------------------------------------------------------------------
(* The scan: first every download is inspected, then its issues linked.    *)

ScanStart ==
    /\ scan.pc = "idle"
    /\ LET offers == [f \in Files |-> IF disk[f] = "gone" THEN None ELSE reading[f]]
           offering == {f \in Files : offers[f] # None}
       IN scan' = [Idle EXCEPT !.pc = "items", !.offers = offers,
                      !.todo = {<<Of[f], offers[f]>> : f \in offering}]
    /\ UNCHANGED <<folder, rows, outside>>

Candidates(d, i) == {f \in Files : Of[f] = d /\ scan.offers[f] = i}

Best(fs) == CHOOSE f \in fs : \A g \in fs : Rank[FormatOf[f]] <= Rank[FormatOf[g]]

NextItem == [scan EXCEPT !.pc = "items", !.download = None, !.issue = None,
                         !.existing = NoRow, !.source = None, !.fixing = "none"]

Watched(row) == row.status = "linked" /\ row.dest

(* An issue in the library keeps the format it was linked in.              *)
Usable(row, fs) == {f \in fs : Watched(row) => FormatOf[f] = row.ext}

(* The library's file is one of these (os.path.samefile).                  *)
SameFile(i, row, fs) ==
    row.dest /\ folder[i].book[row.ext] \in {f \in fs : disk[f] # "gone"}

(* Faulty: the download that comes last wins.                              *)
TakenByNone(d, i) == FALSE

(* Linked from another download, and that one stays linked.                *)
TakenBy(d, i) ==
    LET row == rows[i] IN
    /\ row.status = "linked"
    /\ row.download \notin {None, d}
    /\ ~SameFile(i, row, Candidates(d, i))

Claimed(d, i) == [f \in Files |-> IF f \in Candidates(d, i) THEN i ELSE scan.claims[f]]

(* Faulty: an issue of another download counts as seen.                    *)
ItemSkippedSeen(d, i) ==
    /\ scan.pc = "items"
    /\ <<d, i>> \in scan.todo
    /\ \/ TakenBy(d, i)
       \/ rows[i].status = "excluded"
       \/ Usable(rows[i], Candidates(d, i)) = {}
    /\ scan' = [scan EXCEPT !.todo = @ \ {<<d, i>>}, !.claims = Claimed(d, i),
                            !.seen = @ \cup {i}]
    /\ UNCHANGED <<folder, rows, outside>>

(* Nothing to do for this issue of this download.                          *)
ItemSkipped(d, i) ==
    /\ scan.pc = "items"
    /\ <<d, i>> \in scan.todo
    /\ \/ TakenBy(d, i)
       \/ rows[i].status = "excluded"
       \/ Usable(rows[i], Candidates(d, i)) = {}
    /\ scan' = [scan EXCEPT !.todo = @ \ {<<d, i>>}, !.claims = Claimed(d, i),
                            !.seen = IF TakenBy(d, i) THEN @ ELSE @ \cup {i}]
    /\ UNCHANGED <<folder, rows, outside>>

ItemRead(d, i) ==
    /\ scan.pc = "items"
    /\ <<d, i>> \in scan.todo
    /\ ~TakenBy(d, i)
    /\ rows[i].status # "excluded"
    /\ Usable(rows[i], Candidates(d, i)) # {}
    /\ scan' = [scan EXCEPT !.pc = "check", !.todo = @ \ {<<d, i>>},
                            !.claims = Claimed(d, i),
                            !.seen = IF rows[i] = NoRow THEN @ ELSE @ \cup {i},
                            !.download = d, !.issue = i, !.existing = rows[i]]
    /\ UNCHANGED <<folder, rows, outside>>

(* The files of the item, as the snapshot has them, and as it may use them.*)
ItemFiles == Candidates(scan.download, scan.issue)
Readable  == {f \in Usable(scan.existing, ItemFiles) : disk[f] = "good"}

ItemFails ==
    /\ rows' = [rows EXCEPT ![scan.issue] = Failed(@, scan.download, Best(ItemFiles))]
    /\ scan' = NextItem

(* No candidate passes check_source.                                       *)
ItemUnreadable ==
    /\ scan.pc = "check"
    /\ Readable = {}
    /\ ItemFails
    /\ UNCHANGED <<folder, outside>>

(* health.check_issue                                                      *)
Problem(i, ext, source) ==
    IF folder[i].book[ext] = None THEN "missing"
    ELSE IF source = None THEN "none"
    ELSE IF folder[i].book[ext] # source THEN "copy"
    ELSE IF folder[i].opf THEN "none" ELSE "metadata"

FoundProblem ==
    IF Watched(scan.existing)
    THEN Problem(scan.issue, FormatOf[Best(Readable)], Best(Readable)) ELSE "none"

(* A damaged issue waits for the user's Fix.                               *)
ItemDamaged ==
    /\ scan.pc = "check"
    /\ Readable # {}
    /\ FoundProblem # "none"
    /\ ~scan.existing.fix
    /\ rows' = [rows EXCEPT ![scan.issue].problem = FoundProblem]
    /\ scan' = NextItem
    /\ UNCHANGED <<folder, outside>>

(* Faulty: a damaged issue is repaired as soon as it is found.             *)
ItemCheckedAnyway ==
    /\ scan.pc = "check"
    /\ Readable # {}
    /\ rows' = IF FoundProblem = "none" /\ Watched(scan.existing)
                  /\ scan.existing.problem # "none"
               THEN [rows EXCEPT ![scan.issue] = ClearProblem(@)] ELSE rows
    /\ scan' = [scan EXCEPT !.pc = "link", !.source = Best(Readable), !.fixing = FoundProblem]
    /\ UNCHANGED <<folder, outside>>

(* New, whole, or to be repaired; a problem that has gone is cleared.      *)
ItemChecked ==
    /\ scan.pc = "check"
    /\ Readable # {}
    /\ FoundProblem # "none" => scan.existing.fix
    /\ rows' = IF FoundProblem = "none" /\ Watched(scan.existing)
                  /\ scan.existing.problem # "none"
               THEN [rows EXCEPT ![scan.issue] = ClearProblem(@)] ELSE rows
    /\ scan' = [scan EXCEPT !.pc = "link", !.source = Best(Readable), !.fixing = FoundProblem]
    /\ UNCHANGED <<folder, outside>>

(* Faulty: whatever is there under the name is taken for the link.         *)
MayLinkOver == disk[scan.source] # "gone"

(* Faulty: a link that is there already is a conflict.                     *)
MayLinkFresh ==
    /\ disk[scan.source] # "gone"
    /\ IF scan.fixing = "copy" THEN folder[scan.issue].marker
       ELSE folder[scan.issue].book[FormatOf[scan.source]] = None

(* link_book overwrites nothing; replace_with_link replaces the file of a  *)
(* folder that carries the marker.                                         *)
MayLink ==
    /\ disk[scan.source] # "gone"
    /\ IF scan.fixing = "copy" THEN folder[scan.issue].marker
       ELSE folder[scan.issue].book[FormatOf[scan.source]] \in {None, scan.source}

ItemLink ==
    /\ scan.pc = "link"
    /\ MayLink
    /\ folder' = [folder EXCEPT ![scan.issue].book[FormatOf[scan.source]] =
                     IF @ = None \/ scan.fixing = "copy" THEN scan.source ELSE @]
    /\ scan' = [scan EXCEPT !.pc = "mark"]
    /\ UNCHANGED <<rows, outside>>

(* write_marker and metadata.opf; the folder must still be there.          *)
ItemMark ==
    /\ scan.pc = "mark"
    /\ IsThere(scan.issue)
    /\ folder' = [folder EXCEPT ![scan.issue].marker = TRUE, ![scan.issue].opf = TRUE]
    /\ scan' = [scan EXCEPT !.pc = "save"]
    /\ UNCHANGED <<rows, outside>>

(* The link or what is written beside it fails.                            *)
ItemError ==
    /\ \/ scan.pc = "link" /\ ~MayLink /\ UNCHANGED events
       \/ scan.pc = "mark" /\ ~IsThere(scan.issue) /\ UNCHANGED events
       \/ scan.pc \in {"link", "mark"} /\ Event("fails")
    /\ ItemFails
    /\ UNCHANGED <<folder, disk, reading, removing, asked>>

(* save_issue, after the cover has been made.                              *)
ItemSave ==
    /\ scan.pc = "save"
    /\ rows' = [rows EXCEPT ![scan.issue] =
                   [@ EXCEPT !.status = "linked", !.download = scan.download,
                             !.file = Best(ItemFiles), !.ext = FormatOf[scan.source],
                             !.dest = TRUE, !.error = FALSE]]
    /\ scan' = IF scan.fixing = "none" THEN NextItem ELSE [scan EXCEPT !.pc = "clear"]
    /\ UNCHANGED <<folder, outside>>

ItemClear ==
    /\ scan.pc = "clear"
    /\ rows' = [rows EXCEPT ![scan.issue] = ClearProblem(@)]
    /\ scan' = NextItem
    /\ UNCHANGED <<folder, outside>>

---------------------------------------------------------------------------
(* _check_unseen: linked issues no download has provided in this scan.     *)

ScanUnseen ==
    /\ scan.pc = "items"
    /\ scan.todo = {}
    /\ scan' = [scan EXCEPT !.pc = "unseen", !.rows = rows,
                   !.unseen = {i \in Issues \ scan.seen : Watched(rows[i])}]
    /\ UNCHANGED <<folder, rows, outside>>

(* The file it was linked from has been read as another issue.             *)
IsDuplicate(i) ==
    LET row == scan.rows[i] IN
    /\ row.file # None
    /\ Of[row.file] = row.download
    /\ scan.claims[row.file] \notin {None, i}

UnseenDuplicate(i) ==
    /\ scan.pc = "unseen"
    /\ i \in scan.unseen
    /\ IsDuplicate(i)
    /\ ~scan.rows[i].fix
    /\ rows' = [rows EXCEPT ![i].problem = "duplicate"]
    /\ scan' = [scan EXCEPT !.unseen = @ \ {i}]
    /\ UNCHANGED <<folder, outside>>

(* Faulty: the marker is not asked for.                                    *)
MayRemoveAny(i) == TRUE

(* remove_issue_dir, only of a folder that carries the marker.             *)
MayRemove(i) == IsThere(i) => folder[i].marker

UnseenRemove(i) ==
    /\ scan.pc = "unseen"
    /\ i \in scan.unseen
    /\ IsDuplicate(i)
    /\ scan.rows[i].fix
    /\ IF MayRemove(i)
       THEN /\ folder' = [folder EXCEPT ![i] = NoFolder]
            /\ scan' = [scan EXCEPT !.pc = "removed", !.issue = i]
            /\ UNCHANGED rows
       ELSE /\ rows' = IF rows[i].status = "linked" /\ rows[i].problem # "none"
                       THEN [rows EXCEPT ![i].fix = FALSE] ELSE rows
            /\ scan' = [scan EXCEPT !.unseen = @ \ {i}]
            /\ UNCHANGED folder
    /\ UNCHANGED outside

UnseenRemoved ==
    /\ scan.pc = "removed"
    /\ rows' = [rows EXCEPT ![scan.issue] = SetStatus(@, "excluded")]
    /\ scan' = [scan EXCEPT !.pc = "unseen", !.unseen = @ \ {scan.issue}, !.issue = None]
    /\ UNCHANGED <<folder, outside>>

(* Faulty: the Fix that cannot be carried out stays open.                  *)
UnseenCheckOpen(i) ==
    /\ scan.pc = "unseen"
    /\ i \in scan.unseen
    /\ ~IsDuplicate(i)
    /\ LET problem == Problem(i, scan.rows[i].ext, None)
       IN rows' = IF problem # "none" THEN [rows EXCEPT ![i].problem = problem]
                  ELSE IF scan.rows[i].problem # "none"
                       THEN [rows EXCEPT ![i] = ClearProblem(@)] ELSE rows
    /\ scan' = [scan EXCEPT !.unseen = @ \ {i}]
    /\ UNCHANGED <<folder, outside>>

(* Its download is gone: missing is all that can be told of it.            *)
UnseenCheck(i) ==
    /\ scan.pc = "unseen"
    /\ i \in scan.unseen
    /\ ~IsDuplicate(i)
    /\ LET problem == Problem(i, scan.rows[i].ext, None)
           reported == [rows EXCEPT ![i].problem = problem]
       IN rows' = IF problem # "none"
                  THEN IF scan.rows[i].fix /\ rows[i].status = "linked"
                       THEN [reported EXCEPT ![i].fix = FALSE] ELSE reported
                  ELSE IF scan.rows[i].problem # "none"
                       THEN [rows EXCEPT ![i] = ClearProblem(@)] ELSE rows
    /\ scan' = [scan EXCEPT !.unseen = @ \ {i}]
    /\ UNCHANGED <<folder, outside>>

ScanEnd ==
    /\ scan.pc = "unseen"
    /\ scan.unseen = {}
    /\ scan' = Idle
    /\ UNCHANGED <<folder, rows, outside>>

Item ==
    \/ \E d \in Downloads, i \in Issues : ItemSkipped(d, i) \/ ItemRead(d, i)
    \/ ItemUnreadable \/ ItemDamaged \/ ItemChecked
    \/ ItemLink \/ ItemMark \/ ItemError \/ ItemSave \/ ItemClear

Unseen ==
    \/ ScanUnseen \/ UnseenRemoved \/ ScanEnd
    \/ \E i \in Issues : UnseenDuplicate(i) \/ UnseenRemove(i) \/ UnseenCheck(i)

Scan == ScanStart \/ Item \/ Unseen

---------------------------------------------------------------------------
(* The handlers.  They run on the event loop one at a time, beside the     *)
(* scan thread.                                                            *)

Handler(kind) == removing = None /\ Event(kind)

Remove(i) ==
    /\ Handler("remove")
    /\ rows[i].status # "none"
    /\ rows[i].dest => MayRemove(i)
    /\ folder' = IF rows[i].dest THEN [folder EXCEPT ![i] = NoFolder] ELSE folder
    /\ removing' = i
    /\ UNCHANGED <<disk, reading, rows, scan, asked>>

RemoveDone ==
    /\ removing # None
    /\ rows' = [rows EXCEPT ![removing] = SetStatus(@, "excluded")]
    /\ removing' = None
    /\ UNCHANGED <<disk, reading, folder, scan, asked, events>>

Restore(i) ==
    /\ Handler("restore")
    /\ rows[i].status \in {"excluded", "error"}
    /\ rows' = [rows EXCEPT ![i] = SetStatus(@, "pending")]
    /\ UNCHANGED <<disk, reading, folder, scan, removing, asked>>

Fix(i) ==
    /\ Handler("fix")
    /\ rows[i].status = "linked"
    /\ rows[i].problem # "none"
    /\ rows' = [rows EXCEPT ![i].fix = TRUE]
    /\ asked' = [asked EXCEPT ![i] = rows[i].problem]
    /\ UNCHANGED <<disk, reading, folder, scan, removing>>

Handlers == RemoveDone \/ \E i \in Issues : Remove(i) \/ Restore(i) \/ Fix(i)

---------------------------------------------------------------------------
(* The outside: files, patterns, and a restart of the process.             *)

(* A file of a download is spoiled, lost or put back.                      *)
FileChange(f) ==
    /\ Event("files")
    /\ \E s \in {"good", "bad", "gone"} \ {disk[f]} : disk' = [disk EXCEPT ![f] = s]
    /\ UNCHANGED <<reading, folder, rows, scan, removing, asked>>

(* A whole download is removed.                                            *)
DownloadLeaves(d) ==
    /\ Event("leaves")
    /\ \E f \in Files : Of[f] = d /\ disk[f] # "gone"
    /\ disk' = [f \in Files |-> IF Of[f] = d THEN "gone" ELSE disk[f]]
    /\ UNCHANGED <<reading, folder, rows, scan, removing, asked>>

(* A pattern is added or removed and the file is read as another issue.    *)
PatternChange(f) ==
    /\ Event("pattern")
    /\ \E i \in Readings[f] \ {reading[f]} : reading' = [reading EXCEPT ![f] = i]
    /\ UNCHANGED <<disk, folder, rows, scan, removing, asked>>

(* Someone deletes an issue's folder or its metadata, or its marker, or    *)
(* puts a file of his own in the place of a link.                          *)
LibraryChange(i) ==
    /\ Event("library")
    /\ IsThere(i)
    /\ \/ folder' = [folder EXCEPT ![i] = NoFolder]
       \/ folder[i].opf /\ folder' = [folder EXCEPT ![i].opf = FALSE]
       \/ folder[i].marker /\ folder' = [folder EXCEPT ![i].marker = FALSE]
       \/ \E e \in Formats : /\ folder[i].book[e] \in Files
                             /\ folder' = [folder EXCEPT ![i].book[e] = Foreign]
    /\ UNCHANGED <<disk, reading, rows, scan, removing, asked>>

Restart ==
    /\ Event("restart")
    /\ scan' = Idle
    /\ removing' = None
    /\ UNCHANGED <<disk, reading, folder, rows, asked>>

Outside ==
    \/ \E f \in Files : FileChange(f) \/ PatternChange(f)
    \/ \E d \in Downloads : DownloadLeaves(d)
    \/ \E i \in Issues : LibraryChange(i)
    \/ Restart

Next == Scan \/ Handlers \/ Outside

Spec == Init /\ [][Next]_vars

(* The scheduler starts a run whenever the last one has ended; a handler   *)
(* without an await runs to its end; users owe nothing.                    *)
FairSpec == Spec /\ WF_vars(Scan) /\ WF_vars(RemoveDone)

---------------------------------------------------------------------------
(* Properties.                                                             *)

Folder == [marker: BOOLEAN, opf: BOOLEAN, book: [Formats -> Files \cup {None, Foreign}]]

ScanLocals ==
    [pc: {"idle", "items", "check", "link", "mark", "save", "clear", "unseen", "removed"},
     todo: SUBSET (Downloads \X Issues), offers: [Files -> Issues \cup {None}],
     claims: [Files -> Issues \cup {None}], seen: SUBSET Issues,
     download: Downloads \cup {None}, issue: Issues \cup {None}, existing: Row,
     source: Files \cup {None}, fixing: {"none", "missing", "copy", "metadata"},
     unseen: SUBSET Issues, rows: [Issues -> Row]]

(* Every variable and every local of the scan has its type.                *)
TypeOK ==
    /\ disk \in [Files -> {"good", "bad", "gone"}]
    /\ reading \in [Files -> Issues]
    /\ folder \in [Issues -> Folder]
    /\ rows \in [Issues -> Row]
    /\ scan \in ScanLocals
    /\ removing \in Issues \cup {None}
    /\ asked \in [Issues -> {"none", "missing", "copy", "metadata", "duplicate"}]
    /\ events \in 0..MaxEvents

(* "A scan never repairs a damaged issue on its own": it writes into the   *)
(* folder of a linked issue with a known problem only on the user's Fix.   *)
NoUnaskedRepair ==
    [][(ItemLink \/ ItemMark) /\ folder' # folder =>
          LET row == rows[scan.issue]
          IN row.status = "linked" /\ row.problem # "none" => row.fix]_vars

(* A file that is not a link to a download is removed or replaced only in  *)
(* a folder with the marker, and only when the user asked for it: by a     *)
(* Remove, or a Fix of the issue (link_book, replace_with_link,            *)
(* remove_issue_dir).                                                      *)
ForeignFilesAreSafe ==
    [][\A i \in Issues, e \in Formats :
          folder[i].book[e] = Foreign /\ folder'[i].book[e] # Foreign =>
             \/ LibraryChange(i)
             \/ folder[i].marker /\ (Remove(i) \/ asked[i] # "none")]_vars

(* "Already in the library from another download: that one stays linked":  *)
(* whatever downloads come, leave and are spoiled, a linked issue does not *)
(* change hands.                                                           *)
FirstDownloadStays ==
    [][\A i \in Issues : rows[i].status = "linked" /\ rows'[i].status = "linked" =>
          rows'[i].download = rows[i].download]_vars

(* The row of a linked issue names the download its file really is from,   *)
(* whatever was left in the folder by a run that was cut short.            *)
RowNamesItsDownload ==
    \A i \in Issues :
        LET book == folder[i].book[rows[i].ext]
        IN rows[i].status = "linked" /\ book \in Files => Of[book] = rows[i].download

(* What the downloads offer of an issue at this moment.                    *)
Offers(d, i) == {f \in Files : Of[f] = d /\ disk[f] # "gone" /\ reading[f] = i}

Missing(i) == rows[i].status = "linked" /\ folder[i].book[rows[i].ext] = None

(* Its download offers it, but not in the format it was linked in.         *)
FormatIsLost(i) ==
    \E d \in Downloads : /\ d = rows[i].download
                         /\ Offers(d, i) # {}
                         /\ \A f \in Offers(d, i) : FormatOf[f] # rows[i].ext

(* A linked issue that is missing from the library is reported, or else    *)
(* its row says why it cannot be linked; one whose format is lost is not.  *)
MissingIsReported ==
    \A i \in Issues : <>[](Missing(i) /\ ~FormatIsLost(i)) =>
                          <>[](rows[i].problem # "none" \/ rows[i].error)

(* A Fix does not stay open for ever, unless the row says why.             *)
FixEnds ==
    \A i \in Issues : <>[](rows[i].fix /\ ~FormatIsLost(i)) => <>[](rows[i].error)

(* A run cut short, an error and a restored issue do no lasting harm: an   *)
(* issue that a download offers is linked in the end, unless the user took *)
(* it out or something else is in its place.                               *)
LinkedInTheEnd ==
    \A i \in Issues :
        <>[](/\ rows[i].status # "excluded"
             /\ \E d \in Downloads :
                   /\ Offers(d, i) # {}
                   /\ \A f \in Offers(d, i) :
                         disk[f] = "good" /\ folder[i].book[FormatOf[f]] \in {None, f})
        => <>[](rows[i].status = "linked")
=============================================================================
