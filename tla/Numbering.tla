----------------------------- MODULE Numbering ------------------------------
(***************************************************************************)
(* One publication whose files are called Name.2026.09: is that September  *)
(* or issue 9?  The rules of numbering.py, the scan that applies them      *)
(* (scanner.py, _classify), reads files again once it knows more, relabels *)
(* what is in the library (_reconcile_numbering) and links the rest, while *)
(* the user chooses, removes, restores and fixes, downloads come and go,   *)
(* and a run may be cut short at any step.                                 *)
(*                                                                         *)
(* A download has one file of the publication.  Expiry, formats, covers    *)
(* and the ownership marker are left to Retention and Library.             *)
(***************************************************************************)
EXTENDS Integers, FiniteSets

CONSTANTS
    Downloads,
    NameOf,         \* download -> the year and the number its file is named with
    RefOf,          \* download -> the month it belongs to, or None
    Events,         \* kinds of user and outside events that may happen
    MaxEvents,      \* bound: how many of them
    None            \* nothing chosen, decided, known or there

Years   == 0..9999
Numbers == 1..999
Periods == {"month", "number"}

ASSUME NumberingConstants ==
    /\ IsFiniteSet(Downloads)
    /\ NameOf \in [Downloads -> [year: Years, number: Numbers]]
    /\ RefOf \in [Downloads -> [year: Years, month: 1..12] \cup {None}]
    /\ MaxEvents \in Nat
    /\ None \notin Downloads \cup Periods \cup [year: Years, month: 1..12]

(* IssueId: its key, and with it the label of its folder and its file.     *)
Keys == {k \in [period: Periods, name: {NameOf[d] : d \in Downloads}] :
            k.period = "month" => k.name.number <= 12}
Key(period, name) == [period |-> period, name |-> name]

ASSUME NoneIsNoKey == None \notin Keys

VARIABLES
    paper,      \* the publication's row and its numbering_evidence
    offered,    \* the complete downloads
    folder,     \* issue folders: the books in them, <<name, whose file>>
    rows,       \* the publication's rows of table issues
    scan,       \* the scan thread
    events,     \* bound: user and outside events so far
    known,      \* history: every download a scan has listed
    clean,      \* history: no run cut short, no choice made and no folder lost in one
    restored    \* history: the names of which an issue has been restored

vars == <<paper, offered, folder, rows, scan, events, known, clean, restored>>

NoRow == [status |-> "none", download |-> None, problem |-> "none", fix |-> FALSE]

Row == [status: {"none", "pending", "linked", "error", "excluded"},
        download: Downloads \cup {None},
        problem: {"none", "missing", "copy", "duplicate"}, fix: BOOLEAN]

Paper == [choice: Periods \cup {None}, detected: Periods \cup {None},
          january: SUBSET (Years \X Numbers)]

(* cache: choice and detected as the run has read them; changed: the run   *)
(* has detected something new; again: it reads the files a second time.    *)
NoCache == [read |-> FALSE, choice |-> None, detected |-> None]

PaperCache == [read: BOOLEAN, choice: Periods \cup {None}, detected: Periods \cup {None}]

ScanThread ==
    [pc: {"idle", "relabel", "rename", "identity", "list", "inspect", "note", "items",
          "save", "unseen"},
     todo: SUBSET Downloads, wanted: Periods \cup {None}, relabels: SUBSET Keys,
     issue: Keys \cup {None}, cache: PaperCache, changed: BOOLEAN, again: BOOLEAN,
     listed: SUBSET Downloads, download: Downloads \cup {None},
     reading: [Downloads -> Keys \cup {None}],
     seen: SUBSET Keys, unseen: SUBSET Keys, rows: [Keys -> Row]]

Idle == [pc |-> "idle", todo |-> {}, wanted |-> None, relabels |-> {}, issue |-> None,
         cache |-> NoCache, changed |-> FALSE, again |-> FALSE, listed |-> {},
         download |-> None, reading |-> [d \in Downloads |-> None],
         seen |-> {}, unseen |-> {}, rows |-> [k \in Keys |-> NoRow]]

Init ==
    /\ paper = [choice |-> None, detected |-> None, january |-> {}]
    /\ offered = {}
    /\ folder = [k \in Keys |-> {}]
    /\ rows = [k \in Keys |-> NoRow]
    /\ scan = Idle
    /\ events = 0
    /\ known = {}
    /\ clean = TRUE
    /\ restored = {}

Event(kind) ==
    /\ kind \in Events
    /\ events < MaxEvents
    /\ events' = events + 1

---------------------------------------------------------------------------
(* numbering.py: decide.                                                   *)

January == {12, 1, 2}

Distance(name, ref) ==
    LET apart == (name.year * 12 + name.number) - (ref.year * 12 + ref.month)
    IN IF apart < 0 THEN -apart ELSE apart

Near(name, ref) == ref # None /\ Distance(name, ref) <= 1
Far(name, ref)  == ref # None /\ Distance(name, ref) >= 2 /\ name.year = ref.year

InJanuary(name, ref) == ref # None /\ ref.month = 1 /\ name.number \in January

(* Near in January, and nothing detected yet.                              *)
Ambiguous(detected, name, ref) ==
    Near(name, ref) /\ InJanuary(name, ref) /\ detected = None

(* Faulty: a number seen in an earlier scan is a second one.               *)
IsNumberedTwice(detected, name, ref, seen) ==
    \/ name.number > 12
    \/ detected = "number"
    \/ Far(name, ref)
    \/ Ambiguous(detected, name, ref) /\ seen # {}

IsNumbered(detected, name, ref, seen) ==
    \/ name.number > 12
    \/ detected = "number"
    \/ Far(name, ref)
    \/ Ambiguous(detected, name, ref) /\ seen \ {name.number} # {}

IsMonthly(detected, name, ref) ==
    \/ Near(name, ref) /\ ~Ambiguous(detected, name, ref)
    \/ ~Near(name, ref) /\ detected = "month"

(* What a file counts as, None when that is unclear.                       *)
Decide(choice, detected, name, ref, seen) ==
    IF choice # None THEN choice
    ELSE IF IsNumbered(detected, name, ref, seen) THEN "number"
    ELSE IF IsMonthly(detected, name, ref) THEN "month" ELSE None

(* What is remembered of it for the publication.                           *)
Remember(choice, detected, period) ==
    IF choice # None \/ period = None THEN detected ELSE period

---------------------------------------------------------------------------
Effective(p) == IF p.choice # None THEN p.choice ELSE p.detected

Linked == {k \in Keys : rows[k].status = "linked"}

Relabelling(state) ==
    [state EXCEPT !.pc = "relabel", !.wanted = Effective(paper), !.relabels = Linked]

outside == <<offered, events, known, clean, restored>>

(* Faulty: a run relabels only what it has decided itself.                 *)
ScanStartListing ==
    /\ scan.pc = "idle"
    /\ scan' = [Idle EXCEPT !.pc = "list"]
    /\ UNCHANGED <<paper, folder, rows, outside>>

(* A run relabels first what the user has chosen since the last one.       *)
ScanStart ==
    /\ scan.pc = "idle"
    /\ scan' = Relabelling(Idle)
    /\ UNCHANGED <<paper, folder, rows, outside>>

---------------------------------------------------------------------------
(* _reconcile_numbering                                                    *)

As(k, period) == [k EXCEPT !.period = period]

(* Counted the other way, if that is possible (no month has a number above *)
(* twelve), and neither the label nor the folder is taken.                 *)
MayBecome(k, other) ==
    /\ other \in Keys \ {k}
    /\ rows[other] = NoRow
    /\ folder[k] = {} \/ folder[other] = {}

Relabelled(k) == As(k, scan.wanted)

RelabelSkip(k) ==
    /\ scan.pc = "relabel"
    /\ k \in scan.relabels
    /\ ~MayBecome(k, Relabelled(k))
    /\ scan' = [scan EXCEPT !.relabels = @ \ {k}]
    /\ UNCHANGED <<paper, folder, rows, outside>>

(* move_issue_dir: the folder is renamed, if it is there ...               *)
RelabelMove(k) ==
    /\ scan.pc = "relabel"
    /\ k \in scan.relabels
    /\ MayBecome(k, Relabelled(k))
    /\ folder' = IF folder[k] = {} THEN folder
                 ELSE [folder EXCEPT ![k] = {}, ![Relabelled(k)] = folder[k]]
    /\ scan' = [scan EXCEPT !.pc = IF folder[k] = {} THEN "identity" ELSE "rename",
                            !.relabels = @ \ {k}, !.issue = k]
    /\ UNCHANGED <<paper, rows, outside>>

(* ... then the first book in it by name, where issue 9 sorts before       *)
(* September; renaming a link to another link of the same file does        *)
(* nothing.  A folder that has gone in between leaves the row as it was.   *)
FirstBook(books) ==
    CHOOSE book \in books :
        book[1].period = "month" => \A other \in books : other[1].period = "month"

(* Faulty: the folder is renamed, the book in it is not.                   *)
RelabelBookNot ==
    /\ scan.pc = "rename"
    /\ scan' = [scan EXCEPT !.pc = "identity"]
    /\ UNCHANGED <<paper, folder, rows, outside>>

RelabelBook ==
    /\ scan.pc = "rename"
    /\ LET new   == Relabelled(scan.issue)
           books == folder[new]
           first == FirstBook(books)
       IN /\ folder' = IF books = {} \/ <<new, first[2]>> \in books THEN folder
                       ELSE [folder EXCEPT ![new] =
                               {b \in books : b # first /\ b[1] # new} \cup {<<new, first[2]>>}]
          /\ scan' = IF books = {} THEN [scan EXCEPT !.pc = "relabel", !.issue = None]
                     ELSE [scan EXCEPT !.pc = "identity"]
    /\ UNCHANGED <<paper, rows, outside>>

(* update_issue_identity: the row keeps everything but its label.          *)
RelabelRow ==
    /\ scan.pc = "identity"
    /\ rows' = [rows EXCEPT ![scan.issue] = NoRow,
                            ![Relabelled(scan.issue)] = rows[scan.issue]]
    /\ scan' = [scan EXCEPT !.pc = "relabel", !.issue = None]
    /\ UNCHANGED <<paper, folder, outside>>

(* Relabelled before the listing, and again if that has changed the label. *)
RelabelDone ==
    /\ scan.pc = "relabel"
    /\ scan.relabels = {}
    /\ scan' = [scan EXCEPT !.pc = IF scan.again THEN "items" ELSE "list", !.wanted = None]
    /\ UNCHANGED <<paper, folder, rows, outside>>

---------------------------------------------------------------------------
(* The downloads, inspected one by one in any order.                       *)

ScanList ==
    /\ scan.pc = "list"
    /\ scan' = [scan EXCEPT !.pc = "inspect", !.todo = offered, !.listed = offered]
    /\ known' = known \cup offered
    /\ UNCHANGED <<paper, folder, rows, offered, events, clean, restored>>

(* _paper_state: read once in a run.                                       *)
Cache ==
    IF scan.cache.read THEN scan.cache
    ELSE [read |-> TRUE, choice |-> paper.choice, detected |-> paper.detected]

SeenInJanuary(name, ref) ==
    IF InJanuary(name, ref) THEN {e[2] : e \in {j \in paper.january : j[1] = ref.year}}
    ELSE {}

(* The label a file is read under.                                         *)
ReadAs(name, period) ==
    IF period = None \/ (period = "month" /\ name.number > 12) THEN None
    ELSE Key(period, name)

(* _classify: what the file counts as, and the number is kept as evidence. *)
Inspect(d) ==
    /\ scan.pc = "inspect"
    /\ d \in scan.todo
    /\ LET name   == NameOf[d]
           ref    == RefOf[d]
           cache  == Cache
           period == Decide(cache.choice, cache.detected, name, ref, SeenInJanuary(name, ref))
           found  == Remember(cache.choice, cache.detected, period)
           read   == [scan EXCEPT !.todo = @ \ {d}, !.cache = cache,
                                  !.reading[d] = ReadAs(name, period)]
       IN /\ paper' = IF InJanuary(name, ref)
                      THEN [paper EXCEPT !.january = @ \cup {<<ref.year, name.number>>}]
                      ELSE paper
          /\ scan' = IF found = cache.detected THEN read
                     ELSE [read EXCEPT !.pc = "note", !.cache.detected = found]
    /\ UNCHANGED <<folder, rows, outside>>

(* What has been detected is saved.                                        *)
InspectNote ==
    /\ scan.pc = "note"
    /\ paper' = [paper EXCEPT !.detected = scan.cache.detected]
    /\ scan' = [scan EXCEPT !.pc = "inspect", !.changed = TRUE]
    /\ UNCHANGED <<folder, rows, outside>>

(* Detected part-way through: every file is read again.                    *)
InspectAgain ==
    /\ scan.pc = "inspect"
    /\ scan.todo = {}
    /\ scan.changed /\ ~scan.again
    /\ scan' = [scan EXCEPT !.todo = scan.listed, !.again = TRUE]
    /\ UNCHANGED <<paper, folder, rows, outside>>

Readings == {d \in scan.listed : scan.reading[d] # None}

(* Faulty: what was read before the decision is linked as it was read.     *)
InspectDoneOnce ==
    /\ scan.pc = "inspect"
    /\ scan.todo = {}
    /\ scan' = [scan EXCEPT !.pc = "items", !.todo = Readings]
    /\ UNCHANGED <<paper, folder, rows, outside>>

(* Faulty: what is in the library is left for the next run.                *)
InspectDoneLater ==
    /\ scan.pc = "inspect"
    /\ scan.todo = {}
    /\ scan.changed => scan.again
    /\ scan' = [scan EXCEPT !.pc = "items", !.todo = Readings]
    /\ UNCHANGED <<paper, folder, rows, outside>>

(* The items are linked, after what was linked has been relabelled.        *)
InspectDone ==
    /\ scan.pc = "inspect"
    /\ scan.todo = {}
    /\ scan.changed => scan.again
    /\ scan' = IF scan.again THEN [Relabelling(scan) EXCEPT !.todo = Readings]
               ELSE [scan EXCEPT !.pc = "items", !.todo = Readings]
    /\ UNCHANGED <<paper, folder, rows, outside>>

---------------------------------------------------------------------------
(* _process_item, as far as labels go.                                     *)

TakenBy(d, k) ==
    /\ rows[k].status = "linked"
    /\ rows[k].download # d
    /\ <<k, d>> \notin folder[k]

BookIsThere(k) == \E d \in Downloads : <<k, d>> \in folder[k]

(* health.check_issue                                                      *)
Problem(d, k) ==
    IF ~BookIsThere(k) THEN "missing"
    ELSE IF <<k, d>> \notin folder[k] THEN "copy" ELSE "none"

SeenNow(k) == IF rows[k] = NoRow THEN scan.seen ELSE scan.seen \cup {k}

ItemSkip(d) ==
    /\ scan.pc = "items"
    /\ d \in scan.todo
    /\ LET k == scan.reading[d] IN
       /\ TakenBy(d, k) \/ rows[k].status = "excluded"
       /\ scan' = [scan EXCEPT !.todo = @ \ {d},
                               !.seen = IF TakenBy(d, k) THEN @ ELSE SeenNow(k)]
    /\ UNCHANGED <<paper, folder, rows, outside>>

(* A damaged issue waits for the user's Fix.                               *)
ItemDamaged(d) ==
    /\ scan.pc = "items"
    /\ d \in scan.todo
    /\ LET k == scan.reading[d] IN
       /\ rows[k].status = "linked" /\ ~TakenBy(d, k)
       /\ Problem(d, k) # "none" /\ ~rows[k].fix
       /\ rows' = [rows EXCEPT ![k].problem = Problem(d, k)]
       /\ scan' = [scan EXCEPT !.todo = @ \ {d}, !.seen = SeenNow(k)]
    /\ UNCHANGED <<paper, folder, outside>>

(* Linked, left as it is or fixed; link_book takes no other file's place.  *)
ItemLink(d) ==
    /\ scan.pc = "items"
    /\ d \in scan.todo
    /\ LET k == scan.reading[d]
           linked == rows[k].status = "linked"
       IN /\ ~TakenBy(d, k) /\ rows[k].status # "excluded"
          /\ linked /\ Problem(d, k) # "none" => rows[k].fix
          /\ linked \/ Problem(d, k) # "copy"
          /\ folder' = [folder EXCEPT ![k] = {b \in @ : b[1] # k} \cup {<<k, d>>}]
          /\ scan' = [scan EXCEPT !.pc = "save", !.todo = @ \ {d}, !.seen = SeenNow(k),
                                  !.download = d]
    /\ UNCHANGED <<paper, rows, outside>>

(* _issue_error: another file is there under the name.                     *)
ItemConflict(d) ==
    /\ scan.pc = "items"
    /\ d \in scan.todo
    /\ LET k == scan.reading[d] IN
       /\ rows[k].status \notin {"linked", "excluded"}
       /\ Problem(d, k) = "copy"
       /\ rows' = [rows EXCEPT ![k] = [@ EXCEPT !.status = "error", !.download = d]]
       /\ scan' = [scan EXCEPT !.todo = @ \ {d}, !.seen = SeenNow(k)]
    /\ UNCHANGED <<paper, folder, outside>>

(* save_issue; the problem that was fixed, or has gone, is cleared.        *)
ItemSave ==
    /\ scan.pc = "save"
    /\ LET k == scan.reading[scan.download] IN
       rows' = [rows EXCEPT ![k] = [NoRow EXCEPT !.status = "linked", !.download = scan.download]]
    /\ scan' = [scan EXCEPT !.pc = "items", !.download = None]
    /\ UNCHANGED <<paper, folder, outside>>

ItemsDone ==
    /\ scan.pc = "items"
    /\ scan.todo = {}
    /\ scan' = [scan EXCEPT !.pc = "unseen", !.unseen = Linked \ scan.seen, !.rows = rows]
    /\ UNCHANGED <<paper, folder, rows, outside>>

---------------------------------------------------------------------------
(* _check_unseen                                                           *)

(* set_issue_status                                                        *)
Excluded(row) == [row EXCEPT !.status = "excluded", !.problem = "none", !.fix = FALSE]

(* Faulty: only another issue is another label.                            *)
IsDuplicateIssue(k) ==
    LET d == scan.rows[k].download IN d \in Readings /\ scan.reading[d].name # k.name

(* The file it was linked from has been read under another label.          *)
IsDuplicate(k) ==
    LET d == scan.rows[k].download IN d \in Readings /\ scan.reading[d] # k

UnseenDuplicate(k) ==
    /\ scan.pc = "unseen"
    /\ k \in scan.unseen
    /\ IsDuplicate(k)
    /\ IF scan.rows[k].fix
       THEN /\ folder' = [folder EXCEPT ![k] = {}]
            /\ rows' = [rows EXCEPT ![k] = Excluded(@)]
       ELSE /\ rows' = [rows EXCEPT ![k].problem = "duplicate"]
            /\ UNCHANGED folder
    /\ scan' = [scan EXCEPT !.unseen = @ \ {k}]
    /\ UNCHANGED <<paper, outside>>

(* Its download is gone: missing is all that can be told of it.            *)
UnseenCheck(k) ==
    /\ scan.pc = "unseen"
    /\ k \in scan.unseen
    /\ ~IsDuplicate(k)
    /\ rows' = [rows EXCEPT ![k] =
                   IF BookIsThere(k) THEN [@ EXCEPT !.problem = "none", !.fix = FALSE]
                   ELSE [@ EXCEPT !.problem = "missing",
                             !.fix = rows[k].fix /\ ~scan.rows[k].fix]]
    /\ scan' = [scan EXCEPT !.unseen = @ \ {k}]
    /\ UNCHANGED <<paper, folder, outside>>

ScanEnd ==
    /\ scan.pc = "unseen"
    /\ scan.unseen = {}
    /\ scan' = Idle
    /\ UNCHANGED <<paper, folder, rows, outside>>

(* A restart, a qBittorrent that does not answer or a failed write.        *)
CutShort ==
    /\ Event("stop")
    /\ scan.pc # "idle"
    /\ scan' = Idle
    /\ clean' = FALSE
    /\ UNCHANGED <<paper, offered, folder, rows, known, restored>>

Scan ==
    \/ ScanStart \/ RelabelBook \/ RelabelRow \/ RelabelDone
    \/ ScanList \/ InspectNote \/ InspectAgain \/ InspectDone
    \/ ItemSave \/ ItemsDone \/ ScanEnd
    \/ \E k \in Keys : RelabelSkip(k) \/ RelabelMove(k) \/ UnseenDuplicate(k) \/ UnseenCheck(k)
    \/ \E d \in Downloads : Inspect(d) \/ ItemSkip(d) \/ ItemDamaged(d) \/ ItemLink(d)
                                \/ ItemConflict(d)

---------------------------------------------------------------------------
(* The handlers, and the world outside.                                    *)

(* paper_numbering: monthly, numbered, or as detected.                     *)
Choose(choice) ==
    /\ Event("choose")
    /\ paper.choice # choice
    /\ paper' = [paper EXCEPT !.choice = choice]
    /\ clean' = (clean /\ scan.pc = "idle")
    /\ UNCHANGED <<offered, folder, rows, scan, known, restored>>

(* issue_action: a row whose folder is just being renamed still has the    *)
(* old one.                                                                *)
Remove(k) ==
    /\ Event("remove")
    /\ rows[k].status = "linked"
    /\ folder' = [folder EXCEPT ![k] = {}]
    /\ rows' = [rows EXCEPT ![k] = Excluded(@)]
    /\ UNCHANGED <<paper, offered, scan, known, clean, restored>>

Restore(k) ==
    /\ Event("restore")
    /\ rows[k].status \in {"excluded", "error"}
    /\ rows' = [rows EXCEPT ![k].status = "pending"]
    /\ restored' = restored \cup {k.name}
    /\ UNCHANGED <<paper, offered, folder, scan, known, clean>>

Fix(k) ==
    /\ Event("fix")
    /\ rows[k].status = "linked"
    /\ rows[k].problem # "none"
    /\ rows' = [rows EXCEPT ![k].fix = TRUE]
    /\ UNCHANGED <<paper, offered, folder, scan, known, clean, restored>>

Arrive(d) ==
    /\ Event("arrive")
    /\ offered' = offered \cup {d}
    /\ d \notin offered
    /\ UNCHANGED <<paper, folder, rows, scan, known, clean, restored>>

Leave(d) ==
    /\ Event("leave")
    /\ d \in offered
    /\ offered' = offered \ {d}
    /\ UNCHANGED <<paper, folder, rows, scan, known, clean, restored>>

FolderLost(k) ==
    /\ Event("lose")
    /\ folder[k] # {}
    /\ folder' = [folder EXCEPT ![k] = {}]
    /\ clean' = (clean /\ scan.pc = "idle")
    /\ UNCHANGED <<paper, offered, rows, scan, known, restored>>

Handlers ==
    \/ \E choice \in Periods \cup {None} : Choose(choice)
    \/ \E k \in Keys : Remove(k) \/ Restore(k) \/ Fix(k)

Outside ==
    \/ \E d \in Downloads : Arrive(d) \/ Leave(d)
    \/ \E k \in Keys : FolderLost(k)

Next == Scan \/ CutShort \/ Handlers \/ Outside

Spec == Init /\ [][Next]_vars

(* Scheduled scans keep coming, and the scan thread goes on.               *)
FairSpec == Spec /\ WF_vars(Scan)

---------------------------------------------------------------------------
(* Properties                                                              *)

(* Type invariant: the publication, its rows and folders, and the scan.    *)
TypeOK ==
    /\ paper \in Paper
    /\ offered \in SUBSET Downloads
    /\ folder \in [Keys -> SUBSET (Keys \X Downloads)]
    /\ rows \in [Keys -> Row]
    /\ scan \in ScanThread
    /\ events \in Nat
    /\ known \in SUBSET Downloads
    /\ clean \in BOOLEAN
    /\ restored \in SUBSET [year: Years, number: Numbers]

(* Once recognised as numbered, a publication stays numbered, whatever     *)
(* arrives, leaves or stops later (numbering.py, rule 3).                  *)
NumberedStays == [][paper.detected = "number" => paper'.detected = "number"]_vars

(* What is detected has a reason in the downloads a scan has seen, of all  *)
(* its runs: a number that is no month or is far from its own, two numbers *)
(* in one January, or for a monthly a number near its month.               *)
DetectedForAReason ==
    /\ paper.detected = "number" =>
         \/ \E d \in known : NameOf[d].number > 12 \/ Far(NameOf[d], RefOf[d])
         \/ \E d, e \in known :
               /\ InJanuary(NameOf[d], RefOf[d]) /\ InJanuary(NameOf[e], RefOf[e])
               /\ RefOf[d] = RefOf[e] /\ NameOf[d].number # NameOf[e].number
    /\ paper.detected = "month" => \E d \in known : Near(NameOf[d], RefOf[d])

(* When a run links, it has read all its files by one rule: none is still  *)
(* read as a month when another of them has shown that numbers count.      *)
OneReading ==
    scan.pc \in {"items", "save", "unseen"} =>
        \A d, e \in Readings : scan.reading[d].period = scan.reading[e].period

(* No file is linked under two labels at once, as long as no run is cut    *)
(* short, no choice is made, and no folder lost, during a run, and no      *)
(* issue of its name has been restored: an old label that was removed and  *)
(* restored is in the way of the relabelling (scanner.py:296, :725).       *)
LinkedOnce ==
    clean => \A k, l \in Linked :
        rows[k].download = rows[l].download /\ k.name \notin restored => k = l

(* A folder that was relabelled holds its book under the new label: what   *)
(* was whole stays whole, unless a run was cut short.                      *)
BooksBearTheirLabel ==
    clean /\ scan.pc \notin {"rename", "identity"} =>
        \A k \in Keys : \A book \in folder[k] : book[1] = k

(* A file that is linked under a label it is no longer read as has been    *)
(* shown as a duplicate when its row has been checked (naming.md:107).     *)
SecondLabelShows ==
    scan.pc = "unseen" =>
        \A k \in Linked \ scan.unseen :
            scan.rows[k].status = "linked" /\ rows[k].download \in Readings
                /\ scan.reading[rows[k].download] # k
            => rows[k].problem = "duplicate"

(* What is in the library is relabelled in the end, whatever was chosen,   *)
(* detected or cut short, unless the label or the folder is taken          *)
(* (naming.md:98).                                                         *)
RelabelledInTheEnd ==
    <>[](\A k \in Linked : ~MayBecome(k, As(k, Effective(paper))))
=============================================================================
