-------------------------- MODULE NumberingProofs ---------------------------
(***************************************************************************)
(* Proofs about Numbering, for all downloads, names, months and bounds.    *)
(***************************************************************************)
EXTENDS Numbering, FiniteSetTheorems, TLAPS

(* The issue that is being relabelled may bear the other label.            *)
MovingInv ==
    scan.pc \in {"rename", "identity"} =>
        scan.issue \in Keys /\ Relabelled(scan.issue) \in Keys

(* Every item that waits has a label.                                      *)
TodoInv ==
    scan.pc \in {"relabel", "rename", "identity", "items", "save"} =>
        \A d \in scan.todo : d \in scan.listed /\ scan.reading[d] # None

(* A run knows the publication as its row is, but for what it is about to  *)
(* save; and number is never about to be replaced.                         *)
CacheInv ==
    /\ scan.cache.read /\ scan.pc # "note" => scan.cache.detected = paper.detected
    /\ scan.pc = "note" =>
         /\ scan.cache.read
         /\ paper.detected = "number" => scan.cache.detected = "number"

(* What may be detected from these downloads.                              *)
Reason(ds, detected) ==
    /\ detected = "number" =>
         \/ \E d \in ds : NameOf[d].number > 12 \/ Far(NameOf[d], RefOf[d])
         \/ \E d, e \in ds :
               /\ InJanuary(NameOf[d], RefOf[d]) /\ InJanuary(NameOf[e], RefOf[e])
               /\ RefOf[d] = RefOf[e] /\ NameOf[d].number # NameOf[e].number
    /\ detected = "month" => \E d \in ds : Near(NameOf[d], RefOf[d])

(* Every number kept as evidence is that of a download seen in that        *)
(* January.                                                                *)
Evidence(january, ds) ==
    \A e \in january : \E d \in ds :
        /\ InJanuary(NameOf[d], RefOf[d])
        /\ e[1] = RefOf[d].year /\ e[2] = NameOf[d].number

EvidenceInv ==
    /\ Reason(known, paper.detected)
    /\ Reason(known, scan.cache.detected)
    /\ scan.listed \subseteq known
    /\ scan.pc \in {"inspect", "note"} => scan.todo \subseteq scan.listed
    /\ Evidence(paper.january, known)

(* A file that can only belong to a numbered publication.                  *)
Telling(d) == NameOf[d].number > 12 \/ Far(NameOf[d], RefOf[d])

Inspected == IF scan.again THEN scan.listed ELSE scan.listed \ scan.todo

(* Once nothing new has been detected, what has been read was read by what *)
(* the run knows; a file that tells is never forgotten.                    *)
ReadByOneRule(ds) ==
    \A d \in ds : scan.reading[d] # None => scan.reading[d].period = Effective(scan.cache)

ReadingInv ==
    /\ scan.changed \/ scan.pc = "note" =>
         scan.cache.read /\ scan.cache.choice = None /\ scan.cache.detected # None
    /\ scan.again => scan.changed /\ scan.pc \notin {"list", "note"}
    /\ scan.pc \in {"list", "relabel", "rename", "identity"} /\ ~scan.again =>
         ~scan.changed /\ scan.listed = {}
    /\ scan.pc \in {"inspect", "note"} =>
         /\ scan.todo \subseteq scan.listed
         /\ Inspected # {} => scan.cache.read
         /\ scan.cache.read /\ scan.cache.choice = None =>
              \A d \in Inspected : Telling(d) => scan.cache.detected = "number"
    /\ scan.pc = "inspect" /\ (scan.again \/ ~scan.changed) =>
         ReadByOneRule(scan.listed \ scan.todo)
    /\ scan.pc \in {"relabel", "rename", "identity", "items", "save", "unseen"} =>
         ReadByOneRule(scan.listed)

NInv == TypeOK /\ MovingInv /\ TodoInv /\ CacheInv /\ EvidenceInv /\ ReadingInv

---------------------------------------------------------------------------
(* Where there are books, one of them is the first by name.                *)
LEMMA FirstBookIsThere ==
    ASSUME NEW books \in SUBSET (Keys \X Downloads), books # {}
    PROVE  FirstBook(books) \in books
<1>1. \E book \in books :
         book[1].period = "month" => \A other \in books : other[1].period = "month"
  OBVIOUS
<1> QED
  BY <1>1 DEF FirstBook

(* What is decided is a period or nothing, and so is what is remembered.   *)
LEMMA DecideType ==
    ASSUME NEW choice \in Periods \cup {None}, NEW detected \in Periods \cup {None},
           NEW name, NEW ref, NEW seen
    PROVE  /\ Decide(choice, detected, name, ref, seen) \in Periods \cup {None}
           /\ Remember(choice, detected, Decide(choice, detected, name, ref, seen))
                 \in Periods \cup {None}
  BY DEF Decide, Remember, Periods

(* A label that is read is an issue of the publication.                    *)
LEMMA ReadAsType ==
    ASSUME NEW d \in Downloads, NEW period \in Periods \cup {None}
    PROVE  /\ ReadAs(NameOf[d], period) \in Keys \cup {None}
           /\ ReadAs(NameOf[d], period) # None => ReadAs(NameOf[d], period).period = period
<1> DEFINE name == NameOf[d]
<1>0. name \in [year: Years, number: Numbers]
  BY NumberingConstants DEF NumberingConstants
<1>1. name.number \in Int
  BY <1>0 DEF Numbers
<1>4. name \in {NameOf[e] : e \in Downloads}
  OBVIOUS
<1>2. CASE period = None \/ (period = "month" /\ name.number > 12)
  BY <1>2 DEF ReadAs
<1>3. CASE ~(period = None \/ (period = "month" /\ name.number > 12))
  <2>1. ReadAs(name, period) = Key(period, name)
    BY <1>3 DEF ReadAs
  <2>2. Key(period, name) \in [period: Periods, name: {NameOf[e] : e \in Downloads}]
    BY <1>4, <1>3 DEF Key
  <2>3. Key(period, name).period = "month" => Key(period, name).name.number <= 12
    BY <1>1, <1>3 DEF Key
  <2> QED
    BY <2>1, <2>2, <2>3 DEF Keys, Key
<1> QED
  BY <1>2, <1>3

---------------------------------------------------------------------------
(* A row keeps its type whatever is set in it.                             *)
LEMMA RowType ==
    ASSUME NEW row \in Row, NEW d \in Downloads \cup {None}
    PROVE  /\ NoRow \in Row
           /\ Excluded(row) \in Row
           /\ [row EXCEPT !.status = "pending"] \in Row
           /\ [row EXCEPT !.status = "error", !.download = d] \in Row
           /\ [row EXCEPT !.fix = TRUE] \in Row
           /\ [row EXCEPT !.problem = "none", !.fix = FALSE] \in Row
           /\ \A problem \in {"none", "missing", "copy", "duplicate"} :
                 [row EXCEPT !.problem = problem] \in Row
           /\ \A fix \in BOOLEAN : [row EXCEPT !.problem = "missing", !.fix = fix] \in Row
           /\ [NoRow EXCEPT !.status = "linked", !.download = d] \in Row
  BY DEF Row, NoRow, Excluded

(* The types hold when the program starts.                                 *)
LEMMA TypeInit == ASSUME Init PROVE TypeOK /\ MovingInv
<1>1. Idle \in ScanThread
  BY DEF Idle, NoCache, ScanThread, PaperCache, Row, NoRow
<1> QED
  BY <1>1 DEF Init, TypeOK, Paper, NoRow, Row, MovingInv, Idle

(* The relabelling keeps them.                                             *)
LEMMA TypeRelabel ==
    ASSUME TypeOK, MovingInv,
           \/ ScanStart \/ RelabelBook \/ RelabelRow \/ RelabelDone
           \/ \E k \in Keys : RelabelSkip(k) \/ RelabelMove(k)
    PROVE  TypeOK' /\ MovingInv'
<1>0. Linked \in SUBSET Keys /\ Effective(paper) \in Periods \cup {None} /\ Idle \in ScanThread
  BY DEF Linked, Effective, TypeOK, Paper, Idle, NoCache, ScanThread, PaperCache, Row, NoRow
<1>1. CASE ScanStart
  BY <1>0, <1>1 DEF ScanStart, Relabelling, TypeOK, ScanThread, outside, MovingInv
<1>2. CASE RelabelBook
  <2> DEFINE new == Relabelled(scan.issue)
             books == folder[new]
  <2>1. new \in Keys /\ books \in SUBSET (Keys \X Downloads)
    BY <1>2 DEF RelabelBook, MovingInv, TypeOK
  <2>2. CASE books = {}
    BY <1>2, <2>2 DEF RelabelBook, TypeOK, ScanThread, outside, MovingInv
  <2>3. CASE books # {}
    <3>1. FirstBook(books) \in books
      BY <2>1, <2>3, FirstBookIsThere
    <3>2. <<new, FirstBook(books)[2]>> \in Keys \X Downloads
      BY <2>1, <3>1
    <3>3. {b \in books : b # FirstBook(books) /\ b[1] # new}
             \cup {<<new, FirstBook(books)[2]>>} \in SUBSET (Keys \X Downloads)
      BY <2>1, <3>2
    <3>4. folder' \in [Keys -> SUBSET (Keys \X Downloads)]
      BY <1>2, <2>3, <3>3 DEF RelabelBook, TypeOK
    <3>5. scan' = [scan EXCEPT !.pc = "identity"]
      BY <1>2, <2>3 DEF RelabelBook
    <3> QED
      BY <1>2, <3>4, <3>5 DEF RelabelBook, TypeOK, ScanThread, outside, MovingInv, Relabelled, As
  <2> QED
    BY <2>2, <2>3
<1>3. CASE RelabelRow
  <2>1. scan.issue \in Keys /\ rows[scan.issue] \in Row /\ NoRow \in Row
    BY <1>3, RowType DEF RelabelRow, MovingInv, TypeOK
  <2>2. rows' \in [Keys -> Row]
    BY <1>3, <2>1 DEF RelabelRow, TypeOK
  <2> QED
    BY <1>3, <2>2 DEF RelabelRow, TypeOK, ScanThread, outside, MovingInv
<1>4. CASE RelabelDone
  BY <1>4 DEF RelabelDone, TypeOK, ScanThread, outside, MovingInv
<1>5. ASSUME NEW k \in Keys, RelabelSkip(k) PROVE TypeOK' /\ MovingInv'
  BY <1>5 DEF RelabelSkip, TypeOK, ScanThread, outside, MovingInv
<1>6. ASSUME NEW k \in Keys, RelabelMove(k) PROVE TypeOK' /\ MovingInv'
  <2>1. Relabelled(k) \in Keys
    BY <1>6 DEF RelabelMove, MayBecome
  <2>2. folder' \in [Keys -> SUBSET (Keys \X Downloads)]
    BY <1>6, <2>1 DEF RelabelMove, TypeOK
  <2>3. scan' \in ScanThread /\ scan'.issue = k /\ scan'.wanted = scan.wanted
    BY <1>6 DEF RelabelMove, TypeOK, ScanThread
  <2> QED
    BY <1>6, <2>1, <2>2, <2>3 DEF RelabelMove, TypeOK, outside, MovingInv, Relabelled, As
<1> QED
  BY <1>1, <1>2, <1>3, <1>4, <1>5, <1>6

(* So does the inspection of the downloads.                                *)
LEMMA TypeInspect ==
    ASSUME TypeOK, MovingInv,
           \/ ScanList \/ InspectNote \/ InspectAgain \/ InspectDone
           \/ \E d \in Downloads : Inspect(d)
    PROVE  TypeOK' /\ MovingInv'
<1>0. Linked \in SUBSET Keys /\ Effective(paper) \in Periods \cup {None}
      /\ Readings \in SUBSET Downloads
  BY DEF Linked, Effective, TypeOK, Paper, Readings, ScanThread
<1>1. CASE ScanList
  BY <1>1 DEF ScanList, TypeOK, ScanThread, MovingInv
<1>2. CASE InspectNote
  BY <1>2 DEF InspectNote, TypeOK, ScanThread, PaperCache, Paper, outside, MovingInv
<1>3. CASE InspectAgain
  BY <1>3 DEF InspectAgain, TypeOK, ScanThread, outside, MovingInv
<1>4. CASE InspectDone
  BY <1>0, <1>4 DEF InspectDone, Relabelling, TypeOK, ScanThread, outside, MovingInv
<1>5. ASSUME NEW d \in Downloads, Inspect(d) PROVE TypeOK' /\ MovingInv'
  <2> DEFINE period == Decide(Cache.choice, Cache.detected, NameOf[d], RefOf[d],
                              SeenInJanuary(NameOf[d], RefOf[d]))
             found  == Remember(Cache.choice, Cache.detected, period)
  <2>1. Cache \in PaperCache
    BY DEF Cache, TypeOK, ScanThread, Paper, PaperCache
  <2>2. period \in Periods \cup {None} /\ found \in Periods \cup {None}
    BY <2>1, DecideType DEF PaperCache
  <2>3. ReadAs(NameOf[d], period) \in Keys \cup {None}
    BY <2>2, ReadAsType
  <2> HIDE DEF period
  <2>4. [Cache EXCEPT !.detected = found] \in PaperCache
    BY <2>1, <2>2 DEF PaperCache
  <2>5. scan' \in ScanThread /\ scan'.pc \in {"inspect", "note"}
    <3>1. CASE found = Cache.detected
      BY <1>5, <2>1, <2>3, <3>1 DEF Inspect, TypeOK, ScanThread, period
    <3>2. CASE found # Cache.detected
      BY ZenonT(40), <1>5, <2>1, <2>3, <2>4, <3>2 DEF Inspect, TypeOK, ScanThread, period
    <3> QED
      BY <3>1, <3>2
  <2>6. paper' \in Paper
    <3>1. CASE InJanuary(NameOf[d], RefOf[d])
      <4>1. <<RefOf[d].year, NameOf[d].number>> \in Years \X Numbers
        BY <3>1, NumberingConstants DEF InJanuary, NumberingConstants
      <4> QED
        BY <1>5, <3>1, <4>1 DEF Inspect, TypeOK, Paper
    <3>2. CASE ~InJanuary(NameOf[d], RefOf[d])
      BY <1>5, <3>2 DEF Inspect, TypeOK
    <3> QED
      BY <3>1, <3>2
  <2> QED
    BY <1>5, <2>5, <2>6 DEF Inspect, TypeOK, outside, MovingInv
<1> QED
  BY <1>1, <1>2, <1>3, <1>4, <1>5

(* So do the items and the issues that were not seen.                      *)
LEMMA TypeItems ==
    ASSUME TypeOK, MovingInv, TodoInv,
           \/ ItemSave \/ ItemsDone \/ ScanEnd
           \/ \E k \in Keys : UnseenDuplicate(k) \/ UnseenCheck(k)
           \/ \E d \in Downloads : \/ ItemSkip(d) \/ ItemDamaged(d) \/ ItemLink(d)
                                    \/ ItemConflict(d)
    PROVE  TypeOK' /\ MovingInv'
<1>0. Linked \in SUBSET Keys /\ Idle \in ScanThread
  BY DEF Linked, Idle, NoCache, ScanThread, PaperCache, Row, NoRow
<1> DEFINE Problems == {"none", "missing", "copy", "duplicate"}
<1>01. \A d, k : Problem(d, k) \in Problems
  BY DEF Problem
<1>02. \A k \in Keys : SeenNow(k) \in SUBSET Keys
  BY DEF SeenNow, TypeOK, ScanThread
<1>1. CASE ItemSave
  <2>1. scan.download \in Downloads \cup {None}
    BY DEF TypeOK, ScanThread
  <2>2. [NoRow EXCEPT !.status = "linked", !.download = scan.download] \in Row
    BY <2>1 DEF NoRow, Row
  <2>3. rows' \in [Keys -> Row]
    BY <1>1, <2>2 DEF ItemSave, TypeOK
  <2> QED
    BY <1>1, <2>3 DEF ItemSave, TypeOK, ScanThread, outside, MovingInv
<1>2. CASE ItemsDone
  BY <1>0, <1>2 DEF ItemsDone, TypeOK, ScanThread, outside, MovingInv
<1>3. CASE ScanEnd
  BY <1>0, <1>3 DEF ScanEnd, TypeOK, outside, MovingInv, Idle
<1>4. ASSUME NEW k \in Keys, UnseenDuplicate(k) PROVE TypeOK' /\ MovingInv'
  <2>1. rows[k] \in Row
    BY DEF TypeOK
  <2>2. rows' \in [Keys -> Row]
    <3>1. CASE scan.rows[k].fix
      BY <1>4, <2>1, <3>1, RowType DEF UnseenDuplicate, TypeOK
    <3>2. CASE ~scan.rows[k].fix
      BY <1>4, <2>1, <3>2, RowType DEF UnseenDuplicate, TypeOK
    <3> QED
      BY <3>1, <3>2
  <2>3. folder' \in [Keys -> SUBSET (Keys \X Downloads)]
    BY <1>4 DEF UnseenDuplicate, TypeOK
  <2> QED
    BY <1>4, <2>2, <2>3 DEF UnseenDuplicate, TypeOK, ScanThread, outside, MovingInv
<1>5. ASSUME NEW k \in Keys, UnseenCheck(k) PROVE TypeOK' /\ MovingInv'
  <2> DEFINE fix == rows[k].fix /\ ~scan.rows[k].fix
  <2>1. rows[k] \in Row /\ fix \in BOOLEAN
    BY DEF TypeOK, Row, ScanThread
  <2>3. [rows[k] EXCEPT !.problem = "none", !.fix = FALSE] \in Row
    BY <2>1, RowType
  <2>4. [rows[k] EXCEPT !.problem = "missing", !.fix = fix] \in Row
    BY <2>1, RowType
  <2>5. rows' = [rows EXCEPT ![k] =
                   IF BookIsThere(k) THEN [rows[k] EXCEPT !.problem = "none", !.fix = FALSE]
                   ELSE [rows[k] EXCEPT !.problem = "missing", !.fix = fix]]
    BY <1>5 DEF UnseenCheck
  <2>2. rows' \in [Keys -> Row]
    BY <2>3, <2>4, <2>5 DEF TypeOK
  <2> QED
    BY <1>5, <2>2 DEF UnseenCheck, TypeOK, ScanThread, outside, MovingInv
<1>6. ASSUME NEW d \in Downloads,
             ItemSkip(d) \/ ItemDamaged(d) \/ ItemLink(d) \/ ItemConflict(d)
      PROVE  TypeOK' /\ MovingInv'
  <2> DEFINE k == scan.reading[d]
  <2>0. scan.pc = "items" /\ d \in scan.todo
    BY <1>6 DEF ItemSkip, ItemDamaged, ItemLink, ItemConflict
  <2>1. k \in Keys
    BY <2>0 DEF TodoInv, TypeOK, ScanThread
  <2>2. rows[k] \in Row /\ folder[k] \in SUBSET (Keys \X Downloads)
    BY <2>1 DEF TypeOK
  <2>3. SeenNow(k) \in SUBSET Keys
    BY <1>02, <2>1
  <2>4. Problem(d, k) \in Problems
    BY <1>01
  <2> HIDE DEF k
  <2>5. scan' \in ScanThread /\ MovingInv'
    <3>1. CASE ItemSkip(d)
      BY <2>3, <3>1 DEF ItemSkip, TypeOK, ScanThread, MovingInv, k
    <3>2. CASE ItemDamaged(d)
      BY <2>3, <3>2 DEF ItemDamaged, TypeOK, ScanThread, MovingInv, k
    <3>3. CASE ItemLink(d)
      BY <2>3, <3>3 DEF ItemLink, TypeOK, ScanThread, MovingInv, k
    <3>4. CASE ItemConflict(d)
      BY <2>3, <3>4 DEF ItemConflict, TypeOK, ScanThread, MovingInv, k
    <3> QED
      BY <1>6, <3>1, <3>2, <3>3, <3>4
  <2>6. rows' \in [Keys -> Row]
    <3>1. CASE ItemDamaged(d)
      BY <2>2, <2>4, <3>1, RowType DEF ItemDamaged, TypeOK, k
    <3>2. CASE ItemConflict(d)
      BY <2>2, <3>2, RowType DEF ItemConflict, TypeOK, k
    <3> QED
      BY <1>6, <3>1, <3>2 DEF ItemSkip, ItemLink, TypeOK
  <2>7. folder' \in [Keys -> SUBSET (Keys \X Downloads)]
    <3>1. {b \in folder[k] : b[1] # k} \cup {<<k, d>>} \in SUBSET (Keys \X Downloads)
      BY <2>1, <2>2
    <3> QED
      BY <1>6, <3>1 DEF ItemSkip, ItemDamaged, ItemLink, ItemConflict, TypeOK, k
  <2> QED
    BY <1>6, <2>5, <2>6, <2>7 DEF ItemSkip, ItemDamaged, ItemLink, ItemConflict, TypeOK, outside
<1> QED
  BY <1>1, <1>2, <1>3, <1>4, <1>5, <1>6

(* A scan that is not running knows nothing.                               *)
LEMMA IdleIsIdle ==
    /\ Idle.pc = "idle" /\ Idle.todo = {} /\ Idle.listed = {}
    /\ ~Idle.cache.read /\ Idle.cache.choice = None /\ Idle.cache.detected = None
    /\ ~Idle.changed /\ ~Idle.again
    /\ Idle.reading = [d \in Downloads |-> None]
  BY DEF Idle, NoCache

(* Whatever happens, the types are kept.                                   *)
LEMMA TypeNext == ASSUME TypeOK, MovingInv, TodoInv, [Next]_vars PROVE TypeOK' /\ MovingInv'
<1>1. CASE Scan
  BY <1>1, TypeRelabel, TypeInspect, TypeItems DEF Scan
<1>2. CASE CutShort
  <2>1. Idle \in ScanThread
    BY DEF Idle, NoCache, ScanThread, PaperCache, Row, NoRow
  <2>2. scan' \in ScanThread
    BY <1>2, <2>1 DEF CutShort
  <2>3. MovingInv'
    BY <1>2, IdleIsIdle DEF CutShort, MovingInv
  <2>4. events' \in Nat
    BY <1>2 DEF CutShort, Event, TypeOK
  <2>6. clean' \in BOOLEAN
    BY <1>2, Zenon DEF CutShort
  <2>5. UNCHANGED <<paper, offered, folder, rows, known, restored>>
    BY <1>2 DEF CutShort
  <2>7. TypeOK'
    BY <2>2, <2>4, <2>5, <2>6 DEF TypeOK
  <2> QED
    BY <2>3, <2>7
<1>3. ASSUME NEW choice \in Periods \cup {None}, Choose(choice) PROVE TypeOK' /\ MovingInv'
  BY <1>3 DEF Choose, Event, TypeOK, Paper, MovingInv, Relabelled, As
<1>4. ASSUME NEW k \in Keys, Remove(k) \/ Restore(k) \/ Fix(k) PROVE TypeOK' /\ MovingInv'
  <2>1. rows[k] \in Row /\ rows[k].download \in Downloads \cup {None}
    BY DEF TypeOK, Row
  <2>2. rows' \in [Keys -> Row]
    <3>1. CASE Remove(k)
      BY <2>1, <3>1, RowType DEF Remove, TypeOK
    <3>2. CASE Restore(k)
      BY <2>1, <3>2, RowType DEF Restore, TypeOK
    <3>3. CASE Fix(k)
      BY <2>1, <3>3, RowType DEF Fix, TypeOK
    <3> QED
      BY <1>4, <3>1, <3>2, <3>3
  <2>3. folder' \in [Keys -> SUBSET (Keys \X Downloads)]
    BY <1>4 DEF Remove, Restore, Fix, TypeOK
  <2>5. events' \in Nat
    BY <1>4 DEF Remove, Restore, Fix, Event, TypeOK
  <2>6. restored' \in SUBSET [year: Years, number: Numbers]
    <3>1. k.name \in [year: Years, number: Numbers]
      BY NumberingConstants DEF NumberingConstants, Keys
    <3> QED
      BY <1>4, <3>1 DEF Remove, Restore, Fix, TypeOK
  <2> QED
    BY <1>4, <2>2, <2>3, <2>5, <2>6 DEF Remove, Restore, Fix, TypeOK, MovingInv, Relabelled, As
<1>5. ASSUME NEW d \in Downloads, Arrive(d) \/ Leave(d) PROVE TypeOK' /\ MovingInv'
  BY <1>5 DEF Arrive, Leave, Event, TypeOK, MovingInv, Relabelled, As
<1>6. ASSUME NEW k \in Keys, FolderLost(k) PROVE TypeOK' /\ MovingInv'
  BY <1>6 DEF FolderLost, Event, TypeOK, MovingInv, Relabelled, As
<1>7. CASE UNCHANGED vars
  BY <1>7 DEF vars, TypeOK, MovingInv, Relabelled, As
<1> QED
  BY <1>1, <1>2, <1>3, <1>4, <1>5, <1>6, <1>7 DEF Next, Handlers, Outside

---------------------------------------------------------------------------
(* What a run knows: the steps that leave it alone.                        *)
Knowledge == <<scan.todo, scan.cache, scan.changed, scan.again, scan.listed, scan.reading,
               paper.detected, paper.january, known>>

(* The relabelling leaves it alone, and begins with nothing known or after *)
(* the second reading.                                                     *)
LEMMA KnowRelabel ==
    ASSUME TypeOK,
           \/ RelabelBook \/ RelabelRow \/ RelabelDone
           \/ \E k \in Keys : RelabelSkip(k) \/ RelabelMove(k)
    PROVE  /\ UNCHANGED Knowledge
           /\ scan.pc \in {"relabel", "rename", "identity"}
           /\ \/ scan'.pc \in {"relabel", "rename", "identity"}
              \/ scan'.pc = IF scan.again THEN "items" ELSE "list"
<1> USE DEF TypeOK, ScanThread, outside, Knowledge
<1>1. CASE RelabelBook
  BY <1>1 DEF RelabelBook
<1>2. CASE RelabelRow
  BY <1>2 DEF RelabelRow
<1>3. CASE RelabelDone
  BY <1>3 DEF RelabelDone
<1>4. ASSUME NEW k \in Keys, RelabelSkip(k)
      PROVE  UNCHANGED Knowledge /\ scan.pc = "relabel" /\ scan'.pc = "relabel"
  BY <1>4 DEF RelabelSkip
<1>5. ASSUME NEW k \in Keys, RelabelMove(k)
      PROVE  UNCHANGED Knowledge /\ scan.pc = "relabel" /\ scan'.pc \in {"rename", "identity"}
  BY <1>5 DEF RelabelMove
<1> QED
  BY <1>1, <1>2, <1>3, <1>4, <1>5

(* The items and what was not seen leave it alone but for the items done.  *)
LEMMA KnowItems ==
    ASSUME TypeOK,
           \/ ItemSave \/ ItemsDone
           \/ \E k \in Keys : UnseenDuplicate(k) \/ UnseenCheck(k)
           \/ \E d \in Downloads : \/ ItemSkip(d) \/ ItemDamaged(d) \/ ItemLink(d)
                                    \/ ItemConflict(d)
    PROVE  /\ scan.pc \in {"items", "save", "unseen"} /\ scan'.pc \in {"items", "save", "unseen"}
           /\ scan'.todo \subseteq scan.todo
           /\ UNCHANGED <<scan.cache, scan.changed, scan.again, scan.listed, scan.reading,
                          paper.detected, paper.january, known>>
<1> USE DEF TypeOK, ScanThread, outside
<1>1. CASE ItemSave
  BY <1>1 DEF ItemSave
<1>2. CASE ItemsDone
  BY <1>2 DEF ItemsDone
<1>3. ASSUME NEW k \in Keys, UnseenDuplicate(k) \/ UnseenCheck(k)
      PROVE  /\ scan.pc = "unseen" /\ scan'.pc = "unseen" /\ UNCHANGED Knowledge
  BY <1>3 DEF UnseenDuplicate, UnseenCheck, Knowledge
<1>4. ASSUME NEW d \in Downloads,
             ItemSkip(d) \/ ItemDamaged(d) \/ ItemLink(d) \/ ItemConflict(d)
      PROVE  /\ scan.pc = "items" /\ scan'.pc \in {"items", "save"}
             /\ scan'.todo \subseteq scan.todo
             /\ UNCHANGED <<scan.cache, scan.changed, scan.again, scan.listed, scan.reading,
                            paper.detected, paper.january, known>>
  <2>1. CASE ItemSkip(d)
    BY <2>1 DEF ItemSkip
  <2>2. CASE ItemDamaged(d)
    BY <2>2 DEF ItemDamaged
  <2>3. CASE ItemLink(d)
    BY <2>3 DEF ItemLink
  <2>4. CASE ItemConflict(d)
    BY <2>4 DEF ItemConflict
  <2> QED
    BY <1>4, <2>1, <2>2, <2>3, <2>4
<1> QED
  BY <1>1, <1>2, <1>3, <1>4 DEF Knowledge

(* The handlers and the world outside leave it alone too.                  *)
LEMMA KnowOthers ==
    ASSUME TypeOK, Handlers \/ Outside \/ UNCHANGED vars
    PROVE  UNCHANGED Knowledge /\ UNCHANGED scan
<1> USE DEF Knowledge
<1>1. ASSUME NEW choice \in Periods \cup {None}, Choose(choice)
      PROVE  UNCHANGED Knowledge /\ UNCHANGED scan
  BY <1>1 DEF Choose, TypeOK, Paper
<1>2. ASSUME NEW k \in Keys, Remove(k) \/ Restore(k) \/ Fix(k)
      PROVE  UNCHANGED Knowledge /\ UNCHANGED scan
  BY <1>2 DEF Remove, Restore, Fix
<1>3. CASE Outside
  BY <1>3 DEF Outside, Arrive, Leave, FolderLost
<1>4. CASE UNCHANGED vars
  BY <1>4 DEF vars
<1> QED
  BY <1>1, <1>2, <1>3, <1>4 DEF Handlers

---------------------------------------------------------------------------
(* What the items will find is what has been read.                         *)
LEMMA TodoNext == ASSUME TypeOK, TodoInv, [Next]_vars PROVE TodoInv'
<1> USE DEF TodoInv
<1>1. CASE ScanStart
  BY <1>1, IdleIsIdle DEF ScanStart, Relabelling, Idle
<1>2. CASE \/ RelabelBook \/ RelabelRow \/ RelabelDone
           \/ \E k \in Keys : RelabelSkip(k) \/ RelabelMove(k)
  BY <1>2, KnowRelabel DEF Knowledge
<1>3. CASE ScanList \/ InspectNote \/ InspectAgain \/ \E d \in Downloads : Inspect(d)
  <2>1. scan'.pc \in {"inspect", "note"}
    BY ZenonT(40), <1>3 DEF ScanList, InspectNote, InspectAgain, Inspect, TypeOK, ScanThread
  <2> QED
    BY <2>1
<1>4. CASE InspectDone
  BY <1>4 DEF InspectDone, Relabelling, Readings, TypeOK, ScanThread
<1>5. CASE \/ ItemSave \/ ItemsDone
           \/ \E k \in Keys : UnseenDuplicate(k) \/ UnseenCheck(k)
           \/ \E d \in Downloads : \/ ItemSkip(d) \/ ItemDamaged(d) \/ ItemLink(d)
                                    \/ ItemConflict(d)
  <2>1. scan.pc = "unseen" => scan'.pc = "unseen"
    <3>1. CASE \E k \in Keys : UnseenDuplicate(k) \/ UnseenCheck(k)
      BY <3>1 DEF UnseenDuplicate, UnseenCheck, TypeOK, ScanThread
    <3>2. CASE ~\E k \in Keys : UnseenDuplicate(k) \/ UnseenCheck(k)
      BY <1>5, <3>2 DEF ItemSave, ItemsDone, ItemSkip, ItemDamaged, ItemLink, ItemConflict
    <3> QED
      BY <3>1, <3>2
  <2> QED
    BY <1>5, <2>1, KnowItems
<1>6. CASE ScanEnd \/ CutShort
  BY <1>6, IdleIsIdle DEF ScanEnd, CutShort
<1>7. CASE Handlers \/ Outside \/ UNCHANGED vars
  BY <1>7, KnowOthers
<1> QED
  BY <1>1, <1>2, <1>3, <1>4, <1>5, <1>6, <1>7 DEF Next, Scan

(* One decision: nothing turns a numbered publication back.                *)
LEMMA DecideNumbered ==
    ASSUME NEW choice \in Periods \cup {None}, NEW name, NEW ref, NEW seen
    PROVE  Remember(choice, "number", Decide(choice, "number", name, ref, seen)) = "number"
  BY DEF Remember, Decide, IsNumbered

(* What a run knows of the publication follows its row.                    *)
LEMMA CacheNext == ASSUME TypeOK, CacheInv, [Next]_vars PROVE CacheInv'
<1> USE DEF CacheInv
<1>1. CASE ScanStart
  BY <1>1, IdleIsIdle DEF ScanStart, Relabelling, Idle, NoCache
<1>2. CASE \/ RelabelBook \/ RelabelRow \/ RelabelDone
           \/ \E k \in Keys : RelabelSkip(k) \/ RelabelMove(k)
  <2>1. scan.pc # "note" /\ scan'.pc # "note"
    BY <1>2, KnowRelabel
  <2> QED
    BY <1>2, <2>1, KnowRelabel DEF Knowledge
<1>3. CASE ScanList
  BY <1>3 DEF ScanList, TypeOK, ScanThread
<1>4. ASSUME NEW d \in Downloads, Inspect(d) PROVE CacheInv'
  <2> DEFINE period == Decide(Cache.choice, Cache.detected, NameOf[d], RefOf[d],
                              SeenInJanuary(NameOf[d], RefOf[d]))
             found  == Remember(Cache.choice, Cache.detected, period)
  <2>1. /\ Cache.read /\ Cache.detected = paper.detected
        /\ Cache.choice \in Periods \cup {None}
    BY <1>4 DEF Cache, Inspect, TypeOK, ScanThread, PaperCache, Paper
  <2>2. paper.detected = "number" => found = "number"
    BY <2>1, DecideNumbered
  <2>3. paper'.detected = paper.detected
    BY <1>4 DEF Inspect, TypeOK, Paper
  <2>4. CASE found = Cache.detected
    BY <1>4, <2>1, <2>3, <2>4 DEF Inspect, TypeOK, ScanThread
  <2>5. CASE found # Cache.detected
    <3>1. Cache \in PaperCache
      BY DEF Cache, TypeOK, ScanThread, Paper, PaperCache
    <3>2. scan'.cache = [Cache EXCEPT !.detected = found] /\ scan'.pc = "note"
      BY <1>4, <2>5 DEF Inspect, TypeOK, ScanThread
    <3> QED
      BY <2>1, <2>2, <2>3, <3>1, <3>2 DEF PaperCache
  <2> QED
    BY <2>4, <2>5
<1>5. CASE InspectNote
  BY <1>5 DEF InspectNote, TypeOK, ScanThread, Paper
<1>6. CASE InspectAgain \/ InspectDone
  BY ZenonT(40), <1>6 DEF InspectAgain, InspectDone, Relabelling, TypeOK, ScanThread, outside
<1>7. CASE \/ ItemSave \/ ItemsDone
           \/ \E k \in Keys : UnseenDuplicate(k) \/ UnseenCheck(k)
           \/ \E d \in Downloads : \/ ItemSkip(d) \/ ItemDamaged(d) \/ ItemLink(d)
                                    \/ ItemConflict(d)
  BY <1>7, KnowItems
<1>8. CASE ScanEnd \/ CutShort
  BY <1>8, IdleIsIdle DEF ScanEnd, CutShort
<1>9. CASE Handlers \/ Outside \/ UNCHANGED vars
  BY <1>9, KnowOthers DEF Knowledge
<1> QED
  BY <1>1, <1>2, <1>3, <1>4, <1>5, <1>6, <1>7, <1>8, <1>9 DEF Next, Scan

(* A step never turns a numbered publication back.                         *)
LEMMA NumberedStep ==
    ASSUME TypeOK, CacheInv, [Next]_vars, paper.detected = "number"
    PROVE  paper'.detected = "number"
<1>1. CASE InspectNote
  BY <1>1 DEF InspectNote, CacheInv, TypeOK, Paper
<1>2. CASE \E d \in Downloads : Inspect(d)
  BY <1>2 DEF Inspect, TypeOK, Paper
<1>3. CASE ScanStart \/ ScanList \/ InspectAgain \/ InspectDone \/ ScanEnd \/ CutShort
  BY <1>3 DEF ScanStart, ScanList, InspectAgain, InspectDone, ScanEnd, CutShort
<1>4. CASE \/ RelabelBook \/ RelabelRow \/ RelabelDone
           \/ \E k \in Keys : RelabelSkip(k) \/ RelabelMove(k)
  BY <1>4, KnowRelabel DEF Knowledge
<1>5. CASE \/ ItemSave \/ ItemsDone
           \/ \E k \in Keys : UnseenDuplicate(k) \/ UnseenCheck(k)
           \/ \E d \in Downloads : \/ ItemSkip(d) \/ ItemDamaged(d) \/ ItemLink(d)
                                    \/ ItemConflict(d)
  BY <1>5, KnowItems
<1>6. CASE Handlers \/ Outside \/ UNCHANGED vars
  BY <1>6, KnowOthers DEF Knowledge
<1> QED
  BY <1>1, <1>2, <1>3, <1>4, <1>5, <1>6 DEF Next, Scan

---------------------------------------------------------------------------
(* A reason stays one when more downloads are known.                       *)
LEMMA ReasonMore ==
    ASSUME NEW ds, NEW es, ds \subseteq es, NEW detected, NEW january,
           Reason(ds, detected), Evidence(january, ds)
    PROVE  Reason(es, detected) /\ Evidence(january, es)
  BY DEF Reason, Evidence

(* What is remembered after a file has its reason in it, in the evidence   *)
(* of its January, or in what was detected before.                         *)
LEMMA DecideReason ==
    ASSUME NEW ds \in SUBSET Downloads, NEW d \in ds, NEW choice, NEW detected, NEW seen,
           Reason(ds, detected),
           InJanuary(NameOf[d], RefOf[d]) =>
              \A n \in seen : \E e \in ds :
                 InJanuary(NameOf[e], RefOf[e]) /\ RefOf[e] = RefOf[d] /\ NameOf[e].number = n
    PROVE  Reason(ds, Remember(choice, detected,
                               Decide(choice, detected, NameOf[d], RefOf[d], seen)))
<1> DEFINE period == Decide(choice, detected, NameOf[d], RefOf[d], seen)
<1>1. CASE choice # None \/ period = None
  BY <1>1 DEF Remember
<1>2. CASE choice = None /\ IsNumbered(detected, NameOf[d], RefOf[d], seen)
  <2>1. Remember(choice, detected, period) \in {"number", detected}
    BY <1>2 DEF Remember, Decide
  <2>2. CASE detected = "number"
    BY <2>1, <2>2
  <2>3. CASE NameOf[d].number > 12 \/ Far(NameOf[d], RefOf[d])
    <3>1. Reason(ds, "number")
      BY <2>3 DEF Reason
    <3> QED
      BY <2>1, <3>1
  <2>4. CASE Ambiguous(detected, NameOf[d], RefOf[d]) /\ seen \ {NameOf[d].number} # {}
    <3>1. PICK n \in seen : n # NameOf[d].number
      BY <2>4
    <3>2. InJanuary(NameOf[d], RefOf[d])
      BY <2>4 DEF Ambiguous
    <3>3. PICK e \in ds : /\ InJanuary(NameOf[e], RefOf[e])
                          /\ RefOf[e] = RefOf[d] /\ NameOf[e].number = n
      BY <3>2
    <3>4. Reason(ds, "number")
      BY <3>1, <3>2, <3>3 DEF Reason
    <3> QED
      BY <2>1, <3>4
  <2> QED
    BY <1>2, <2>2, <2>3, <2>4 DEF IsNumbered
<1>3. CASE /\ choice = None /\ ~IsNumbered(detected, NameOf[d], RefOf[d], seen)
           /\ period # None
  <2>1. IsMonthly(detected, NameOf[d], RefOf[d]) /\ period = "month"
    BY <1>3 DEF Decide
  <2>2. Near(NameOf[d], RefOf[d]) \/ detected = "month"
    BY <2>1 DEF IsMonthly
  <2>3. Reason(ds, "month")
    BY <2>2 DEF Reason
  <2> QED
    BY <1>3, <2>1, <2>3 DEF Remember
<1> QED
  BY <1>1, <1>2, <1>3

(* What the evidence says of a January, the downloads that are known say.  *)
LEMMA SeenIsKnown ==
    ASSUME TypeOK, EvidenceInv, NEW d \in Downloads, InJanuary(NameOf[d], RefOf[d])
    PROVE  \A n \in SeenInJanuary(NameOf[d], RefOf[d]) : \E e \in known :
              InJanuary(NameOf[e], RefOf[e]) /\ RefOf[e] = RefOf[d] /\ NameOf[e].number = n
<1> TAKE n \in SeenInJanuary(NameOf[d], RefOf[d])
<1>1. PICK j \in paper.january : j[1] = RefOf[d].year /\ n = j[2]
  BY DEF SeenInJanuary
<1>2. PICK e \in known : /\ InJanuary(NameOf[e], RefOf[e])
                         /\ j[1] = RefOf[e].year /\ j[2] = NameOf[e].number
  BY DEF EvidenceInv, Evidence
<1>3. e \in Downloads
  BY DEF TypeOK
<1>4. /\ RefOf[d] \in [year: Years, month: 1..12] /\ RefOf[d].month = 1
      /\ RefOf[e] \in [year: Years, month: 1..12] /\ RefOf[e].month = 1
  BY <1>2, <1>3, NumberingConstants DEF NumberingConstants, InJanuary
<1> DEFINE ref == RefOf[d]
           other == RefOf[e]
<1> HIDE DEF ref, other
<1>6. /\ ref \in [year: Years, month: 1..12] /\ other \in [year: Years, month: 1..12]
      /\ ref.month = other.month /\ ref.year = other.year
  BY <1>1, <1>2, <1>4 DEF ref, other
<1>7. ref = [year |-> ref.year, month |-> ref.month]
      /\ other = [year |-> other.year, month |-> other.month]
  BY <1>6
<1>5. RefOf[e] = RefOf[d]
  BY <1>6, <1>7 DEF ref, other
<1> QED
  BY <1>1, <1>2, <1>5

(* What has been detected keeps its reason, in the row and in the run.     *)
LEMMA EvidenceNext == ASSUME TypeOK, EvidenceInv, [Next]_vars PROVE EvidenceInv'
<1> USE DEF EvidenceInv
<1>0. Reason(known, None)
  BY NumberingConstants DEF Reason, NumberingConstants, Periods
<1>1. CASE ScanStart
  BY <1>0, <1>1, IdleIsIdle DEF ScanStart, Relabelling, Idle, NoCache, outside
<1>2. CASE \/ RelabelBook \/ RelabelRow \/ RelabelDone
           \/ \E k \in Keys : RelabelSkip(k) \/ RelabelMove(k)
  <2>1. scan'.pc \notin {"inspect", "note"}
    BY <1>2, KnowRelabel
  <2> QED
    BY <1>2, <2>1, KnowRelabel DEF Knowledge
<1>3. CASE ScanList
  <2>1. /\ UNCHANGED <<paper, scan.cache>> /\ known \subseteq known'
        /\ scan'.listed = offered /\ scan'.todo = offered /\ offered \subseteq known'
    BY <1>3 DEF ScanList, TypeOK, ScanThread
  <2>2. Reason(known', paper.detected) /\ Reason(known', scan.cache.detected)
        /\ Evidence(paper.january, known')
    BY <2>1, ReasonMore
  <2> QED
    BY <2>1, <2>2
<1>4. ASSUME NEW d \in Downloads, Inspect(d) PROVE EvidenceInv'
  <2> DEFINE name   == NameOf[d]
             ref    == RefOf[d]
             period == Decide(Cache.choice, Cache.detected, name, ref, SeenInJanuary(name, ref))
             found  == Remember(Cache.choice, Cache.detected, period)
  <2>1. d \in known /\ known \subseteq Downloads /\ Reason(known, Cache.detected)
    BY <1>4 DEF Inspect, Cache, TypeOK
  <2>2. Reason(known, found)
    BY <2>1, SeenIsKnown, DecideReason
  <2> HIDE DEF period
  <2>3. /\ scan'.listed = scan.listed /\ scan'.todo \subseteq scan.todo
        /\ scan'.cache.detected = found
    <3>1. Cache \in PaperCache
      BY DEF Cache, TypeOK, ScanThread, Paper, PaperCache
    <3>2. CASE found = Cache.detected
      BY <1>4, <3>1, <3>2 DEF Inspect, TypeOK, ScanThread, period
    <3>3. CASE found # Cache.detected
      BY <1>4, <3>1, <3>3 DEF Inspect, TypeOK, ScanThread, PaperCache, period
    <3> QED
      BY <3>2, <3>3
  <2>4. Evidence(paper'.january, known) /\ paper'.detected = paper.detected
    <3>1. CASE InJanuary(name, ref)
      <4>1. /\ paper'.january = paper.january \cup {<<ref.year, name.number>>}
            /\ paper'.detected = paper.detected
        BY <1>4, <3>1 DEF Inspect, TypeOK, Paper
      <4> QED
        BY <2>1, <3>1, <4>1 DEF Evidence
    <3>2. CASE ~InJanuary(name, ref)
      BY <1>4, <3>2 DEF Inspect
    <3> QED
      BY <3>1, <3>2
  <2>5. known' = known /\ scan.pc = "inspect"
    BY <1>4 DEF Inspect, outside
  <2> QED
    BY <2>2, <2>3, <2>4, <2>5
<1>5. CASE InspectNote
  BY <1>5 DEF InspectNote, TypeOK, ScanThread, Paper, outside
<1>6. CASE InspectAgain
  BY <1>6 DEF InspectAgain, TypeOK, ScanThread, outside
<1>7. CASE InspectDone
  BY <1>7 DEF InspectDone, Relabelling, TypeOK, ScanThread, outside
<1>8. CASE \/ ItemSave \/ ItemsDone
           \/ \E k \in Keys : UnseenDuplicate(k) \/ UnseenCheck(k)
           \/ \E d \in Downloads : \/ ItemSkip(d) \/ ItemDamaged(d) \/ ItemLink(d)
                                    \/ ItemConflict(d)
  <2>1. scan'.pc \notin {"inspect", "note"}
    BY <1>8, KnowItems
  <2> QED
    BY <1>8, <2>1, KnowItems
<1>9. CASE ScanEnd \/ CutShort
  BY <1>0, <1>9, IdleIsIdle DEF ScanEnd, CutShort, outside
<1>10. CASE Handlers \/ Outside \/ UNCHANGED vars
  BY <1>10, KnowOthers DEF Knowledge
<1> QED
  BY <1>1, <1>2, <1>3, <1>4, <1>5, <1>6, <1>7, <1>8, <1>9, <1>10 DEF Next, Scan

---------------------------------------------------------------------------
(* A file that tells makes the publication numbered, unless the user has   *)
(* chosen.                                                                 *)
LEMMA DecideTelling ==
    ASSUME NEW d \in Downloads, Telling(d), NEW detected, NEW seen
    PROVE  Remember(None, detected,
                    Decide(None, detected, NameOf[d], RefOf[d], seen)) = "number"
<1>1. "number" # None
  BY NumberingConstants DEF NumberingConstants, Periods
<1> QED
  BY <1>1 DEF Telling, Decide, IsNumbered, Remember

(* Once something is detected, and every file that tells has been heard,   *)
(* a file is read by what is detected.                                     *)
LEMMA DecideAgain ==
    ASSUME NEW d \in Downloads, NEW detected \in Periods, NEW seen,
           Telling(d) => detected = "number"
    PROVE  Decide(None, detected, NameOf[d], RefOf[d], seen) = detected
<1>1. "number" # None /\ "month" # None
  BY NumberingConstants DEF NumberingConstants, Periods
<1> QED
  BY <1>1 DEF Telling, Decide, IsNumbered, IsMonthly, Ambiguous, Periods

(* What is decided and remembered agree.                                   *)
LEMMA DecideSame ==
    ASSUME NEW choice, NEW detected, NEW name, NEW ref, NEW seen,
           Decide(choice, detected, name, ref, seen) # None
    PROVE  Decide(choice, detected, name, ref, seen) =
              IF choice # None THEN choice
              ELSE Remember(choice, detected, Decide(choice, detected, name, ref, seen))
  BY DEF Decide, Remember

(* Reading one file keeps to the rule.                                     *)
LEMMA ReadingInspect ==
    ASSUME TypeOK, EvidenceInv, ReadingInv, NEW d \in Downloads, Inspect(d)
    PROVE  ReadingInv'
<1> DEFINE name   == NameOf[d]
           ref    == RefOf[d]
           period == Decide(Cache.choice, Cache.detected, name, ref, SeenInJanuary(name, ref))
           found  == Remember(Cache.choice, Cache.detected, period)
           label  == ReadAs(name, period)
<1>0. scan.pc = "inspect" /\ d \in scan.todo /\ scan.todo \subseteq scan.listed
  BY DEF Inspect, ReadingInv
<1>1. /\ Cache \in PaperCache /\ Cache.read
      /\ scan.cache.read => Cache = scan.cache
  BY DEF Cache, TypeOK, ScanThread, Paper, PaperCache
<1>2. scan.listed \subseteq Downloads /\ scan.reading \in [Downloads -> Keys \cup {None}]
  BY DEF TypeOK, ScanThread
<1>3. period \in Periods \cup {None} /\ (label # None => label.period = period)
  <2>1. period \in Periods \cup {None}
    BY <1>1, DecideType DEF PaperCache
  <2> QED
    BY <2>1, ReadAsType
<1>4. period # None => period = IF Cache.choice # None THEN Cache.choice ELSE found
  BY DecideSame
<1>5. Cache.choice = None /\ Telling(d) => found = "number"
  BY DecideTelling
<1>6. Cache.detected = "number" => found = "number"
  BY <1>1, DecideNumbered DEF PaperCache
<1>7. found # Cache.detected => Cache.choice = None /\ found = period /\ found # None
  BY DEF Remember
<1>8. scan.again => /\ scan.changed /\ Cache = scan.cache /\ Cache.choice = None
                    /\ Cache.detected # None /\ found = Cache.detected
  <2> SUFFICES ASSUME scan.again PROVE
        /\ scan.changed /\ Cache = scan.cache /\ Cache.choice = None
        /\ Cache.detected # None /\ found = Cache.detected
    OBVIOUS
  <2>1. /\ scan.changed /\ Cache = scan.cache /\ Cache.choice = None
        /\ Cache.detected \in Periods
    BY <1>1 DEF ReadingInv, PaperCache
  <2>2. Telling(d) => Cache.detected = "number"
    BY <1>0, <1>1, <2>1 DEF ReadingInv, Inspected
  <2>3. period = Cache.detected
    BY <2>1, <2>2, DecideAgain
  <2>4. found = Cache.detected
    BY <2>3 DEF Remember
  <2>5. Cache.detected # None
    BY <2>1, NumberingConstants DEF NumberingConstants
  <2> QED
    BY <2>1, <2>4, <2>5
<1> HIDE DEF period, found
<1>9. /\ scan'.listed = scan.listed /\ scan'.todo = scan.todo \ {d}
      /\ scan'.again = scan.again /\ scan'.changed = scan.changed
      /\ scan'.reading = [scan.reading EXCEPT ![d] = label]
      /\ scan'.cache.read /\ scan'.cache.choice = Cache.choice
      /\ scan'.cache.detected = found
      /\ scan'.pc = IF found = Cache.detected THEN "inspect" ELSE "note"
  <2>1. CASE found = Cache.detected
    BY <1>1, <2>1 DEF Inspect, TypeOK, ScanThread, found, period
  <2>2. CASE found # Cache.detected
    BY <1>1, <2>2 DEF Inspect, TypeOK, ScanThread, PaperCache, found, period
  <2> QED
    BY <2>1, <2>2
<1> HIDE DEF label
<1>10. scan'.changed \/ scan'.pc = "note" =>
          scan'.cache.read /\ scan'.cache.choice = None /\ scan'.cache.detected # None
  <2>1. CASE found = Cache.detected
    BY <1>1, <1>9, <2>1 DEF ReadingInv
  <2>2. CASE found # Cache.detected
    BY <1>7, <1>9, <2>2
  <2> QED
    BY <2>1, <2>2
<1>11. scan'.again => scan'.changed /\ scan'.pc \notin {"list", "note"}
  BY <1>8, <1>9
<1>12. /\ scan'.todo \subseteq scan'.listed
       /\ scan'.cache.choice = None =>
             \A e \in Inspected' : Telling(e) => scan'.cache.detected = "number"
  <2>1. Inspected' = IF scan.again THEN scan.listed ELSE (scan.listed \ scan.todo) \cup {d}
    BY <1>0, <1>9 DEF Inspected
  <2> SUFFICES ASSUME Cache.choice = None, NEW e \in Inspected', Telling(e)
               PROVE  found = "number"
    BY <1>0, <1>9
  <2>2. CASE e = d
    BY <1>5, <2>2
  <2>3. CASE e # d
    <3>1. e \in Inspected
      BY <2>1, <2>3 DEF Inspected
    <3>2. Cache.detected = "number"
      BY <1>0, <1>1, <3>1 DEF ReadingInv
    <3> QED
      BY <1>6, <3>2
  <2> QED
    BY <2>2, <2>3
<1>13. scan'.pc = "inspect" /\ (scan'.again \/ ~scan'.changed) =>
          \A e \in scan'.listed \ scan'.todo :
             scan'.reading[e] # None => scan'.reading[e].period = Effective(scan.cache)'
  <2> SUFFICES ASSUME found = Cache.detected, scan.again \/ ~scan.changed,
                      NEW e \in (scan.listed \ scan.todo) \cup {d}, scan'.reading[e] # None
               PROVE  scan'.reading[e].period =
                        IF Cache.choice # None THEN Cache.choice ELSE found
    BY <1>9 DEF Effective
  <2>1. CASE e = d
    BY <1>2, <1>3, <1>4, <1>9, <2>1 DEF ReadAs, label
  <2>2. CASE e # d
    <3>1. scan'.reading[e] = scan.reading[e] /\ e \in scan.listed \ scan.todo
      BY <1>2, <1>9, <2>2
    <3>2. Cache = scan.cache
      BY <1>0, <1>1, <1>8, <3>1 DEF ReadingInv, Inspected
    <3>3. scan.reading[e].period = Effective(scan.cache)
      BY <1>0, <3>1 DEF ReadingInv, ReadByOneRule
    <3> QED
      BY <3>1, <3>2, <3>3 DEF Effective
  <2> QED
    BY <2>1, <2>2
<1> QED
  BY <1>0, <1>9, <1>10, <1>11, <1>12, <1>13 DEF ReadingInv, ReadByOneRule

(* So does every other step of a run, and what happens around it.          *)
LEMMA ReadingNext == ASSUME TypeOK, EvidenceInv, ReadingInv, [Next]_vars PROVE ReadingInv'
<1>1. CASE ScanStart
  BY <1>1, IdleIsIdle DEF ScanStart, Relabelling, Idle, NoCache, ReadingInv, ReadByOneRule
<1>2. CASE \/ RelabelBook \/ RelabelRow \/ RelabelDone
           \/ \E k \in Keys : RelabelSkip(k) \/ RelabelMove(k)
  <2>1. /\ UNCHANGED Knowledge
        /\ scan.pc \in {"relabel", "rename", "identity"}
        /\ \/ scan'.pc \in {"relabel", "rename", "identity"}
           \/ scan'.pc = IF scan.again THEN "items" ELSE "list"
    BY <1>2, KnowRelabel
  <2> QED
    BY <2>1 DEF Knowledge, ReadingInv, ReadByOneRule, Effective
<1>3. CASE ScanList
  <2>1. /\ UNCHANGED <<scan.cache, scan.changed, scan.again>>
        /\ scan.pc = "list" /\ scan'.pc = "inspect"
        /\ scan'.listed = offered /\ scan'.todo = offered
    BY <1>3 DEF ScanList, TypeOK, ScanThread
  <2>2. ~scan.again /\ ~scan.changed
    BY <2>1 DEF ReadingInv
  <2>3. Inspected' = {}
    BY <2>1, <2>2 DEF Inspected
  <2> QED
    BY <2>1, <2>2, <2>3 DEF ReadingInv, ReadByOneRule
<1>4. CASE \E d \in Downloads : Inspect(d)
  BY <1>4, ReadingInspect
<1>5. CASE InspectNote
  <2>1. /\ UNCHANGED <<scan.cache, scan.again, scan.listed, scan.todo, scan.reading>>
        /\ scan.pc = "note" /\ scan'.pc = "inspect" /\ scan'.changed
    BY <1>5 DEF InspectNote, TypeOK, ScanThread
  <2>2. ~scan.again
    BY <2>1 DEF ReadingInv
  <2> QED
    BY <2>1, <2>2 DEF ReadingInv, ReadByOneRule, Inspected
<1>6. CASE InspectAgain
  <2>1. /\ UNCHANGED <<scan.cache, scan.changed, scan.listed, scan.reading, scan.pc>>
        /\ scan.pc = "inspect" /\ scan.todo = {} /\ scan.changed /\ ~scan.again
        /\ scan'.again /\ scan'.todo = scan.listed
    BY <1>6 DEF InspectAgain, TypeOK, ScanThread
  <2>2. Inspected = scan.listed /\ Inspected' = scan.listed
    BY <2>1 DEF Inspected
  <2> QED
    BY <2>1, <2>2 DEF ReadingInv, ReadByOneRule
<1>7. CASE InspectDone
  <2>1. /\ UNCHANGED <<scan.cache, scan.changed, scan.again, scan.listed, scan.reading>>
        /\ scan.pc = "inspect" /\ scan.todo = {} /\ (scan.changed => scan.again)
        /\ scan'.pc = IF scan.again THEN "relabel" ELSE "items"
    BY <1>7 DEF InspectDone, Relabelling, TypeOK, ScanThread
  <2>2. ReadByOneRule(scan.listed)
    BY <2>1 DEF ReadingInv
  <2>3. ReadByOneRule(scan.listed)'
    BY <2>1, <2>2 DEF ReadByOneRule, Effective
  <2> QED
    BY <2>1, <2>3 DEF ReadingInv
<1>8. CASE \/ ItemSave \/ ItemsDone
           \/ \E k \in Keys : UnseenDuplicate(k) \/ UnseenCheck(k)
           \/ \E d \in Downloads : \/ ItemSkip(d) \/ ItemDamaged(d) \/ ItemLink(d)
                                    \/ ItemConflict(d)
  <2>1. /\ scan.pc \in {"items", "save", "unseen"} /\ scan'.pc \in {"items", "save", "unseen"}
        /\ UNCHANGED <<scan.cache, scan.changed, scan.again, scan.listed, scan.reading>>
    BY <1>8, KnowItems
  <2>2. ReadByOneRule(scan.listed)'
    BY <2>1 DEF ReadingInv, ReadByOneRule, Effective
  <2> QED
    BY <2>1, <2>2 DEF ReadingInv
<1>9. CASE ScanEnd \/ CutShort
  <2>1. scan' = Idle
    BY <1>9 DEF ScanEnd, CutShort
  <2> QED
    BY <2>1, IdleIsIdle DEF ReadingInv
<1>10. CASE Handlers \/ Outside \/ UNCHANGED vars
  <2>1. UNCHANGED scan
    BY <1>10, KnowOthers
  <2> QED
    BY <2>1 DEF ReadingInv, ReadByOneRule, Effective, Inspected
<1> QED
  BY <1>1, <1>2, <1>3, <1>4, <1>5, <1>6, <1>7, <1>8, <1>9, <1>10 DEF Next, Scan

---------------------------------------------------------------------------
(* The invariant holds at the start ...                                    *)
LEMMA InitInv == ASSUME Init PROVE NInv
<1>1. TypeOK /\ MovingInv
  BY TypeInit
<1>2. /\ scan = Idle /\ known = {} /\ paper.detected = None /\ paper.january = {}
  BY DEF Init
<1>3. TodoInv /\ CacheInv /\ ReadingInv
  BY <1>2, IdleIsIdle DEF TodoInv, CacheInv, ReadingInv
<1>4. EvidenceInv
  <2>1. Reason(known, None)
    BY NumberingConstants DEF Reason, NumberingConstants, Periods
  <2> QED
    BY <1>2, <2>1, IdleIsIdle DEF EvidenceInv, Evidence
<1> QED
  BY <1>1, <1>3, <1>4 DEF NInv

(* ... and after every step.                                               *)
LEMMA NextInv == ASSUME NInv, [Next]_vars PROVE NInv'
  BY TypeNext, TodoNext, CacheNext, EvidenceNext, ReadingNext DEF NInv

(* So it always holds.                                                     *)
THEOREM NumberingInvariant == Spec => []NInv
  BY InitInv, NextInv, PTL DEF Spec

(* The rows, folders and labels of the publication are what they should    *)
(* be, and so are those a run works with.                                  *)
THEOREM TypeCorrect == Spec => []TypeOK
<1>1. NInv => TypeOK
  BY DEF NInv
<1> QED
  BY <1>1, NumberingInvariant, PTL

(* A publication that has been recognised as numbered stays numbered.      *)
THEOREM NumberedForGood == Spec => NumberedStays
<1>1. ASSUME NInv, [Next]_vars
      PROVE  [paper.detected = "number" => paper'.detected = "number"]_vars
  BY <1>1, NumberedStep DEF NInv
<1> QED
  BY <1>1, NumberingInvariant, PTL DEF Spec, NumberedStays

(* Nothing is ever detected without a reason in the downloads seen.        *)
THEOREM DetectionHasReason == Spec => []DetectedForAReason
<1>1. NInv => DetectedForAReason
  BY DEF NInv, EvidenceInv, Reason, DetectedForAReason
<1> QED
  BY <1>1, NumberingInvariant, PTL

(* A run reads all the files it links by one rule: months or numbers.      *)
THEOREM OneReadingHolds == Spec => []OneReading
<1>1. NInv => OneReading
  BY DEF NInv, ReadingInv, ReadByOneRule, OneReading, Readings
<1> QED
  BY <1>1, NumberingInvariant, PTL

---------------------------------------------------------------------------
(* Labels.  What each step of a run does to the parts of the scan the      *)
(* invariants below speak of: the relabelling, the reading and the items.  *)
RelabelPart == <<scan.wanted, scan.relabels, scan.issue>>
ReadPart    == <<scan.cache, scan.changed, scan.again, scan.listed, scan.reading>>
ItemPart    == <<scan.download, scan.seen, scan.unseen, scan.rows>>
History     == <<clean, restored>>

(* A run that starts, and one that is over.                                *)
LEMMA StartEffect ==
    ASSUME ScanStart
    PROVE  /\ scan'.pc = "relabel" /\ scan'.wanted = Effective(paper)
           /\ scan'.relabels = Linked /\ scan'.issue = None
           /\ ~scan'.cache.read /\ ~scan'.changed /\ scan'.seen = {}
           /\ scan'.reading = [d \in Downloads |-> None]
           /\ UNCHANGED <<paper, folder, rows, History>>
  BY DEF ScanStart, Relabelling, Idle, NoCache, outside, History

LEMMA EndEffect ==
    ASSUME ScanEnd \/ CutShort
    PROVE  /\ scan'.pc = "idle" /\ scan'.relabels = {} /\ scan'.issue = None
           /\ ~scan'.cache.read /\ ~scan'.changed /\ scan'.seen = {}
           /\ scan'.reading = [d \in Downloads |-> None]
           /\ UNCHANGED <<paper, folder, rows, restored>>
           /\ clean' => clean
<1>1. CASE ScanEnd
  BY <1>1 DEF ScanEnd, Idle, NoCache, outside
<1>2. CASE CutShort
  BY <1>2 DEF CutShort, Idle, NoCache
<1> QED
  BY <1>1, <1>2

(* The relabelling.                                                        *)
LEMMA SkipEffect ==
    ASSUME TypeOK, NEW k \in Keys, RelabelSkip(k)
    PROVE  /\ scan.pc = "relabel" /\ scan'.pc = "relabel"
           /\ k \in scan.relabels /\ ~MayBecome(k, Relabelled(k))
           /\ scan'.relabels = scan.relabels \ {k}
           /\ UNCHANGED <<scan.wanted, scan.issue, ReadPart, ItemPart, paper, folder, rows, History>>
  BY DEF RelabelSkip, TypeOK, ScanThread, outside, ReadPart, ItemPart, History

LEMMA MoveEffect ==
    ASSUME TypeOK, NEW k \in Keys, RelabelMove(k)
    PROVE  /\ scan.pc = "relabel" /\ k \in scan.relabels /\ MayBecome(k, Relabelled(k))
           /\ scan'.pc = IF folder[k] = {} THEN "identity" ELSE "rename"
           /\ scan'.relabels = scan.relabels \ {k} /\ scan'.issue = k
           /\ folder' = IF folder[k] = {} THEN folder
                        ELSE [folder EXCEPT ![k] = {}, ![Relabelled(k)] = folder[k]]
           /\ UNCHANGED <<scan.wanted, ReadPart, ItemPart, paper, rows, History>>
  BY DEF RelabelMove, TypeOK, ScanThread, outside, ReadPart, ItemPart, History

LEMMA BookEffect ==
    ASSUME TypeOK, RelabelBook
    PROVE  LET new   == Relabelled(scan.issue)
               books == folder[new]
               first == FirstBook(books)
           IN /\ scan.pc = "rename"
              /\ scan'.pc = IF books = {} THEN "relabel" ELSE "identity"
              /\ scan'.issue = IF books = {} THEN None ELSE scan.issue
              /\ folder' = IF books = {} \/ <<new, first[2]>> \in books THEN folder
                           ELSE [folder EXCEPT ![new] =
                                   {b \in books : b # first /\ b[1] # new}
                                     \cup {<<new, first[2]>>}]
              /\ UNCHANGED <<scan.wanted, scan.relabels, ReadPart, ItemPart, paper, rows, History>>
<1>1. CASE folder[Relabelled(scan.issue)] = {}
  BY <1>1 DEF RelabelBook, TypeOK, ScanThread, outside, ReadPart, ItemPart, History
<1>2. CASE folder[Relabelled(scan.issue)] # {}
  BY <1>2 DEF RelabelBook, TypeOK, ScanThread, outside, ReadPart, ItemPart, History
<1> QED
  BY <1>1, <1>2

LEMMA RowEffect ==
    ASSUME TypeOK, RelabelRow
    PROVE  /\ scan.pc = "identity" /\ scan'.pc = "relabel" /\ scan'.issue = None
           /\ rows' = [rows EXCEPT ![scan.issue] = NoRow,
                                   ![Relabelled(scan.issue)] = rows[scan.issue]]
           /\ UNCHANGED <<scan.wanted, scan.relabels, ReadPart, ItemPart, paper, folder, History>>
  BY DEF RelabelRow, TypeOK, ScanThread, outside, ReadPart, ItemPart, History

LEMMA RelabelledEffect ==
    ASSUME TypeOK, RelabelDone
    PROVE  /\ scan.pc = "relabel" /\ scan.relabels = {}
           /\ scan'.pc = IF scan.again THEN "items" ELSE "list"
           /\ UNCHANGED <<scan.relabels, scan.issue, ReadPart, ItemPart, paper, folder, rows, History>>
  BY DEF RelabelDone, TypeOK, ScanThread, outside, ReadPart, ItemPart, History

(* The reading.                                                            *)
LEMMA ListEffect ==
    ASSUME TypeOK, ScanList \/ InspectAgain
    PROVE  /\ scan.pc \in {"list", "inspect"} /\ scan'.pc = "inspect"
           /\ UNCHANGED <<RelabelPart, scan.cache, scan.changed, scan.reading, ItemPart, paper,
                          folder, rows, History>>
  BY DEF ScanList, InspectAgain, TypeOK, ScanThread, outside, RelabelPart, ItemPart, History

LEMMA InspectEffect ==
    ASSUME TypeOK, NEW d \in Downloads, Inspect(d)
    PROVE  /\ scan.pc = "inspect" /\ scan'.pc \in {"inspect", "note"}
           /\ \E period \in Periods \cup {None} :
                 scan'.reading = [scan.reading EXCEPT ![d] = ReadAs(NameOf[d], period)]
           /\ scan'.cache.choice = Cache.choice
           /\ UNCHANGED <<RelabelPart, scan.changed, ItemPart, folder, rows, History>>
           /\ UNCHANGED <<paper.choice, paper.detected>>
<1> DEFINE period == Decide(Cache.choice, Cache.detected, NameOf[d], RefOf[d],
                            SeenInJanuary(NameOf[d], RefOf[d]))
           found  == Remember(Cache.choice, Cache.detected, period)
<1>1. Cache \in PaperCache
  BY DEF Cache, TypeOK, ScanThread, Paper, PaperCache
<1>2. period \in Periods \cup {None}
  BY <1>1, DecideType DEF PaperCache
<1>3. UNCHANGED <<paper.choice, paper.detected>>
  BY DEF Inspect, TypeOK, Paper
<1> HIDE DEF period
<1>4. /\ scan.pc = "inspect" /\ scan'.pc \in {"inspect", "note"}
      /\ scan'.reading = [scan.reading EXCEPT ![d] = ReadAs(NameOf[d], period)]
      /\ scan'.cache.choice = Cache.choice
      /\ UNCHANGED <<RelabelPart, scan.changed, ItemPart>>
  <2>1. CASE found = Cache.detected
    BY <1>1, <2>1 DEF Inspect, TypeOK, ScanThread, PaperCache, period, RelabelPart, ItemPart
  <2>2. CASE found # Cache.detected
    BY <1>1, <2>2 DEF Inspect, TypeOK, ScanThread, PaperCache, period, RelabelPart, ItemPart
  <2> QED
    BY <2>1, <2>2
<1> QED
  BY <1>2, <1>3, <1>4 DEF Inspect, outside, History

LEMMA NoteEffect ==
    ASSUME TypeOK, InspectNote
    PROVE  /\ scan.pc = "note" /\ scan'.pc = "inspect" /\ scan'.changed
           /\ UNCHANGED <<RelabelPart, scan.cache, scan.reading, ItemPart, paper.choice, folder,
                          rows, History>>
  BY DEF InspectNote, TypeOK, ScanThread, Paper, outside, RelabelPart, ItemPart, History

LEMMA ReadEffect ==
    ASSUME TypeOK, InspectDone
    PROVE  /\ scan.pc = "inspect" /\ (scan.changed => scan.again)
           /\ scan.again => /\ scan'.pc = "relabel" /\ scan'.relabels = Linked
                            /\ scan'.wanted = Effective(paper)
           /\ ~scan.again => scan'.pc = "items" /\ UNCHANGED RelabelPart
           /\ UNCHANGED <<scan.issue, ReadPart, ItemPart, paper, folder, rows, History>>
  BY DEF InspectDone, Relabelling, TypeOK, ScanThread, outside, RelabelPart, ReadPart, ItemPart,
         History

(* The items.                                                              *)
LEMMA PassEffect ==
    ASSUME TypeOK, NEW d \in Downloads, ItemSkip(d)
    PROVE  /\ scan.pc = "items" /\ d \in scan.todo /\ scan'.pc = "items"
           /\ scan'.seen = scan.seen \/ /\ rows[scan.reading[d]].status = "excluded"
                                        /\ scan'.seen = SeenNow(scan.reading[d])
           /\ UNCHANGED <<scan.download, RelabelPart, ReadPart, paper, folder, rows, History>>
  BY DEF ItemSkip, TypeOK, ScanThread, outside, RelabelPart, ReadPart, History

LEMMA DamagedEffect ==
    ASSUME TypeOK, NEW d \in Downloads, ItemDamaged(d)
    PROVE  LET k == scan.reading[d] IN
           /\ scan.pc = "items" /\ d \in scan.todo /\ scan'.pc = "items"
           /\ rows[k].status = "linked" /\ ~TakenBy(d, k) /\ Problem(d, k) # "none"
           /\ rows' = [rows EXCEPT ![k].problem = Problem(d, k)]
           /\ scan'.seen = SeenNow(k)
           /\ UNCHANGED <<scan.download, RelabelPart, ReadPart, paper, folder, History>>
  BY DEF ItemDamaged, TypeOK, ScanThread, outside, RelabelPart, ReadPart, History

LEMMA LinkEffect ==
    ASSUME TypeOK, NEW d \in Downloads, ItemLink(d)
    PROVE  LET k == scan.reading[d] IN
           /\ scan.pc = "items" /\ d \in scan.todo /\ scan'.pc = "save" /\ scan'.download = d
           /\ ~TakenBy(d, k) /\ rows[k].status # "excluded"
           /\ folder' = [folder EXCEPT ![k] = {b \in @ : b[1] # k} \cup {<<k, d>>}]
           /\ scan'.seen = SeenNow(k)
           /\ UNCHANGED <<RelabelPart, ReadPart, paper, rows, History>>
  BY DEF ItemLink, TypeOK, ScanThread, outside, RelabelPart, ReadPart, History

LEMMA ConflictEffect ==
    ASSUME TypeOK, NEW d \in Downloads, ItemConflict(d)
    PROVE  LET k == scan.reading[d] IN
           /\ scan.pc = "items" /\ d \in scan.todo /\ scan'.pc = "items"
           /\ rows[k].status \notin {"linked", "excluded"} /\ Problem(d, k) = "copy"
           /\ rows' = [rows EXCEPT ![k] = [@ EXCEPT !.status = "error", !.download = d]]
           /\ scan'.seen = SeenNow(k)
           /\ UNCHANGED <<scan.download, RelabelPart, ReadPart, paper, folder, History>>
  BY DEF ItemConflict, TypeOK, ScanThread, outside, RelabelPart, ReadPart, History

LEMMA SaveEffect ==
    ASSUME TypeOK, ItemSave
    PROVE  /\ scan.pc = "save" /\ scan'.pc = "items"
           /\ rows' = [rows EXCEPT ![scan.reading[scan.download]] =
                         [NoRow EXCEPT !.status = "linked", !.download = scan.download]]
           /\ UNCHANGED <<scan.seen, RelabelPart, ReadPart, paper, folder, History>>
  BY DEF ItemSave, TypeOK, ScanThread, outside, RelabelPart, ReadPart, History

LEMMA ItemsEffect ==
    ASSUME TypeOK, ItemsDone
    PROVE  /\ scan.pc = "items" /\ scan'.pc = "unseen"
           /\ scan'.unseen = Linked \ scan.seen /\ scan'.rows = rows
           /\ UNCHANGED <<scan.seen, RelabelPart, ReadPart, paper, folder, rows, History>>
  BY DEF ItemsDone, TypeOK, ScanThread, outside, RelabelPart, ReadPart, History

(* The issues that were not seen.                                          *)
LEMMA UnseenEffect ==
    ASSUME TypeOK, NEW k \in Keys, UnseenDuplicate(k) \/ UnseenCheck(k)
    PROVE  /\ scan.pc = "unseen" /\ scan'.pc = "unseen"
           /\ k \in scan.unseen /\ scan'.unseen = scan.unseen \ {k}
           /\ UNCHANGED <<scan.rows, scan.seen, scan.download, RelabelPart, ReadPart, paper, History>>
  BY DEF UnseenDuplicate, UnseenCheck, TypeOK, ScanThread, outside, RelabelPart, ReadPart, History

---------------------------------------------------------------------------
(* The label of an issue holds the name of the file it is linked from.     *)
RowShape ==
    \A k \in Keys :
        /\ rows[k].status = "none" => rows[k] = NoRow
        /\ rows[k].status = "linked" =>
              rows[k].download \in Downloads /\ NameOf[rows[k].download] = k.name

ReadingShape ==
    \A d \in Downloads : scan.reading[d] # None => scan.reading[d].name = NameOf[d]

SaveShape ==
    scan.pc = "save" =>
        /\ scan.download \in Downloads /\ scan.download \in scan.listed
        /\ scan.reading[scan.download] # None

(* What is relabelled has a row, and the label it is given has none.       *)
MoveShape ==
    /\ scan.pc \notin {"relabel", "rename", "identity"} => scan.relabels = {}
    /\ scan.pc \notin {"rename", "identity"} => scan.issue = None
    /\ scan.pc \in {"rename", "identity"} =>
         /\ Relabelled(scan.issue) # scan.issue
         /\ rows[Relabelled(scan.issue)] = NoRow
         /\ rows[scan.issue].status # "none"
    /\ \A k \in scan.relabels : rows[k].status # "none" /\ k # scan.issue

(* An issue that was not seen has a row.                                   *)
UnseenShape ==
    scan.pc = "unseen" => \A k \in scan.unseen : k \in Keys /\ rows[k].status # "none"

Shapes == RowShape /\ ReadingShape /\ SaveShape /\ MoveShape /\ UnseenShape

(* What the items read is a label, that of their file's name.              *)
LEMMA ReadingIsKey ==
    ASSUME TypeOK, ReadingShape, NEW d \in Downloads, scan.reading[d] # None
    PROVE  scan.reading[d] \in Keys /\ scan.reading[d].name = NameOf[d]
  BY DEF TypeOK, ScanThread, ReadingShape

(* The item at hand has been read.                                         *)
LEMMA ItemIsRead ==
    ASSUME TypeOK, TodoInv, scan.pc = "items", NEW d \in Downloads, d \in scan.todo
    PROVE  d \in scan.listed /\ scan.reading[d] # None /\ scan.reading[d] \in Keys
  BY DEF TypeOK, ScanThread, TodoInv

(* An issue's other label bears its name.                                  *)
LEMMA AsName == ASSUME NEW k \in Keys, NEW period PROVE As(k, period).name = k.name
  BY DEF As, Keys

(* Steps that keep of every row whether there is one, its status and its   *)
(* download, ...                                                           *)
SameRow(row, new) ==
    /\ new.status = row.status /\ new.download = row.download
    /\ row = NoRow <=> new = NoRow

MarkRow(k) ==
    \/ \E d \in Downloads : k = scan.reading[d] /\ ItemDamaged(d)
    \/ UnseenCheck(k)
    \/ UnseenDuplicate(k) /\ ~scan.rows[k].fix
    \/ Fix(k)

LEMMA MarkEffect ==
    ASSUME TypeOK, TodoInv, Shapes, NEW k \in Keys, MarkRow(k)
    PROVE  /\ UNCHANGED <<folder, paper, History>>
           /\ UNCHANGED <<scan.pc, scan.download, RelabelPart, ReadPart>>
           /\ \A l \in Keys : SameRow(rows[l], rows'[l])
           /\ rows[k].status # "none"
<1>0. rows[k] \in Row
  BY DEF TypeOK
<1>1. UNCHANGED <<folder, paper, History>>
  BY DEF MarkRow, ItemDamaged, UnseenCheck, UnseenDuplicate, Fix, outside, History
<1>7. UNCHANGED <<scan.pc, scan.download, RelabelPart, ReadPart>>
  BY DamagedEffect, UnseenEffect DEF MarkRow, Fix, RelabelPart, ReadPart
<1>2. rows[k].status # "none"
  BY UnseenEffect DEF MarkRow, Fix, Shapes, UnseenShape, ItemDamaged
<1>3. \E problem, fix : rows' = [rows EXCEPT ![k] = [@ EXCEPT !.problem = problem, !.fix = fix]]
  <2>1. CASE \E d \in Downloads : k = scan.reading[d] /\ ItemDamaged(d)
    <3>1. PICK d \in Downloads : rows' = [rows EXCEPT ![k].problem = Problem(d, k)]
      BY <2>1 DEF ItemDamaged
    <3>2. [rows[k] EXCEPT !.problem = Problem(d, k)]
            = [rows[k] EXCEPT !.problem = Problem(d, k), !.fix = rows[k].fix]
      BY <1>0 DEF Row
    <3> QED
      BY <3>1, <3>2 DEF TypeOK
  <2>2. CASE UnseenCheck(k)
    BY <2>2 DEF UnseenCheck
  <2>3. CASE UnseenDuplicate(k) /\ ~scan.rows[k].fix
    <3>1. rows' = [rows EXCEPT ![k].problem = "duplicate"]
      BY <2>3 DEF UnseenDuplicate
    <3>2. [rows[k] EXCEPT !.problem = "duplicate"]
            = [rows[k] EXCEPT !.problem = "duplicate", !.fix = rows[k].fix]
      BY <1>0 DEF Row
    <3> QED
      BY <3>1, <3>2 DEF TypeOK
  <2>4. CASE Fix(k)
    <3>1. rows' = [rows EXCEPT ![k].fix = TRUE]
      BY <2>4 DEF Fix
    <3>2. [rows[k] EXCEPT !.fix = TRUE] = [rows[k] EXCEPT !.problem = rows[k].problem, !.fix = TRUE]
      BY <1>0 DEF Row
    <3> QED
      BY <3>1, <3>2 DEF TypeOK
  <2> QED
    BY <2>1, <2>2, <2>3, <2>4 DEF MarkRow
<1>4. PICK problem, fix : rows' = [rows EXCEPT ![k] = [@ EXCEPT !.problem = problem, !.fix = fix]]
  BY <1>3
<1>5. SameRow(rows[k], [rows[k] EXCEPT !.problem = problem, !.fix = fix])
  <2> DEFINE new == [rows[k] EXCEPT !.problem = problem, !.fix = fix]
  <2>1. new.status = rows[k].status /\ new.download = rows[k].download
    BY <1>0 DEF Row
  <2>2. NoRow.status = "none"
    BY DEF NoRow
  <2> HIDE DEF new
  <2>3. SameRow(rows[k], new)
    BY <1>2, <2>1, <2>2 DEF SameRow
  <2> QED
    BY <2>3 DEF new
<1>6. \A l \in Keys : SameRow(rows[l], rows'[l])
  BY <1>4, <1>5 DEF TypeOK, SameRow
<1> QED
  BY <1>1, <1>2, <1>6, <1>7

(* ... and those that exclude an issue and delete its folder.              *)
ExcludeRow(k) == Remove(k) \/ (UnseenDuplicate(k) /\ scan.rows[k].fix)

LEMMA ExcludeEffect ==
    ASSUME TypeOK, Shapes, NEW k \in Keys, ExcludeRow(k)
    PROVE  /\ folder' = [folder EXCEPT ![k] = {}] /\ UNCHANGED <<paper, History>>
           /\ UNCHANGED <<scan.pc, scan.download, RelabelPart, ReadPart>>
           /\ rows[k].status # "none"
           /\ rows'[k].status = "excluded" /\ rows'[k].download = rows[k].download
           /\ \A l \in Keys \ {k} : rows'[l] = rows[l]
<1>0. rows[k] \in Row
  BY DEF TypeOK
<1>1. rows' = [rows EXCEPT ![k] = Excluded(@)] /\ folder' = [folder EXCEPT ![k] = {}]
      /\ UNCHANGED <<paper, History>>
  BY DEF ExcludeRow, Remove, UnseenDuplicate, outside, History
<1>2. rows[k].status # "none"
  BY UnseenEffect DEF ExcludeRow, Remove, Shapes, UnseenShape
<1>3. UNCHANGED <<scan.pc, scan.download, RelabelPart, ReadPart>>
  BY UnseenEffect DEF ExcludeRow, Remove, RelabelPart, ReadPart
<1> QED
  BY <1>0, <1>1, <1>2, <1>3 DEF TypeOK, Excluded, Row

(* The others that change rows.                                            *)
LEMMA RestoreEffect ==
    ASSUME TypeOK, NEW k \in Keys, Restore(k)
    PROVE  /\ UNCHANGED <<folder, paper, scan, clean>> /\ restored' = restored \cup {k.name}
           /\ rows[k].status \in {"excluded", "error"}
           /\ rows'[k].status = "pending"
           /\ \A l \in Keys \ {k} : rows'[l] = rows[l]
  BY DEF TypeOK, Restore, Row

LEMMA ErrorRow ==
    ASSUME TypeOK, TodoInv, NEW d \in Downloads, ItemConflict(d)
    PROVE  /\ scan.reading[d] \in Keys
           /\ rows'[scan.reading[d]].status = "error"
           /\ \A l \in Keys \ {scan.reading[d]} : rows'[l] = rows[l]
<1>1. scan.reading[d] \in Keys
  BY ConflictEffect, ItemIsRead
<1>2. rows[scan.reading[d]] \in Row
  BY <1>1 DEF TypeOK
<1>3. rows' = [rows EXCEPT ![scan.reading[d]] =
                  [rows[scan.reading[d]] EXCEPT !.status = "error", !.download = d]]
  BY DEF ItemConflict
<1>4. [rows[scan.reading[d]] EXCEPT !.status = "error", !.download = d].status = "error"
  BY <1>2 DEF Row
<1> QED
  BY <1>1, <1>3, <1>4 DEF TypeOK

LEMMA SavedRow ==
    ASSUME TypeOK, Shapes, ItemSave
    PROVE  LET k == scan.reading[scan.download] IN
           /\ k \in Keys /\ k.name = NameOf[scan.download] /\ scan.download \in Downloads
           /\ rows'[k].status = "linked" /\ rows'[k].download = scan.download
           /\ \A l \in Keys \ {k} : rows'[l] = rows[l]
<1>1. /\ scan.download \in Downloads /\ scan.reading[scan.download] \in Keys
      /\ scan.reading[scan.download].name = NameOf[scan.download]
  BY SaveEffect, ReadingIsKey DEF Shapes, SaveShape
<1> QED
  BY <1>1, SaveEffect DEF TypeOK, NoRow

LEMMA MovedRow ==
    ASSUME TypeOK, MovingInv, Shapes, RelabelRow
    PROVE  LET k == scan.issue
               new == Relabelled(scan.issue)
           IN /\ k \in Keys /\ new \in Keys /\ k # new /\ new.name = k.name
              /\ rows[new] = NoRow /\ rows[k].status # "none"
              /\ rows'[k] = NoRow /\ rows'[new] = rows[k]
              /\ \A l \in Keys \ {k, new} : rows'[l] = rows[l]
<1>1. scan.issue \in Keys /\ Relabelled(scan.issue) \in Keys
      /\ Relabelled(scan.issue).name = scan.issue.name
  BY RowEffect, AsName DEF MovingInv, Relabelled
<1> QED
  BY <1>1, RowEffect DEF TypeOK, Shapes, MoveShape

(* The kinds of step: nothing else changes a row.                          *)
LEMMA RowSteps ==
    ASSUME TypeOK, TodoInv, [Next]_vars
    PROVE  \/ rows' = rows
           \/ RelabelRow \/ ItemSave
           \/ \E d \in Downloads : ItemConflict(d)
           \/ \E k \in Keys : MarkRow(k) \/ ExcludeRow(k) \/ Restore(k)
<1>1. CASE \/ ScanStart \/ RelabelBook \/ RelabelDone \/ ScanList \/ InspectNote
           \/ InspectAgain \/ InspectDone \/ ItemsDone \/ ScanEnd \/ CutShort \/ Outside
           \/ UNCHANGED vars
  BY <1>1 DEF ScanStart, RelabelBook, RelabelDone, ScanList, InspectNote, InspectAgain,
              InspectDone, ItemsDone, ScanEnd, CutShort, Outside, Arrive, Leave, FolderLost, vars
<1>2. ASSUME NEW k \in Keys, RelabelSkip(k) \/ RelabelMove(k) PROVE rows' = rows
  BY <1>2 DEF RelabelSkip, RelabelMove
<1>3. ASSUME NEW k \in Keys, UnseenDuplicate(k) \/ UnseenCheck(k)
      PROVE  MarkRow(k) \/ ExcludeRow(k)
  BY <1>3 DEF MarkRow, ExcludeRow
<1>4. ASSUME NEW d \in Downloads, Inspect(d) \/ ItemSkip(d) \/ ItemLink(d) PROVE rows' = rows
  BY <1>4 DEF Inspect, ItemSkip, ItemLink
<1>5. ASSUME NEW d \in Downloads, ItemDamaged(d) PROVE \E k \in Keys : MarkRow(k)
  BY <1>5, DamagedEffect, ItemIsRead DEF MarkRow
<1>6. ASSUME NEW choice \in Periods \cup {None}, Choose(choice) PROVE rows' = rows
  BY <1>6 DEF Choose
<1>7. ASSUME NEW k \in Keys, Remove(k) \/ Fix(k) PROVE MarkRow(k) \/ ExcludeRow(k)
  BY <1>7 DEF MarkRow, ExcludeRow
<1> QED
  BY <1>1, <1>2, <1>3, <1>4, <1>5, <1>6, <1>7 DEF Next, Scan, Handlers

LEMMA RowShapeNext ==
    ASSUME TypeOK, MovingInv, TodoInv, Shapes, [Next]_vars PROVE RowShape'
<1> USE DEF Shapes, RowShape
<1>0. NoRow.status = "none"
  BY DEF NoRow
<1>1. CASE rows' = rows
  BY <1>1
<1>2. CASE RelabelRow
  BY <1>0, <1>2, MovedRow
<1>3. ASSUME NEW k \in Keys, MarkRow(k) PROVE RowShape'
  BY <1>3, MarkEffect DEF SameRow
<1>4. ASSUME NEW d \in Downloads, ItemConflict(d) PROVE RowShape'
  BY <1>4, ErrorRow
<1>5. CASE ItemSave
  BY <1>5, SavedRow
<1>6. ASSUME NEW k \in Keys, ExcludeRow(k) PROVE RowShape'
  BY <1>6, ExcludeEffect
<1>7. ASSUME NEW k \in Keys, Restore(k) PROVE RowShape'
  BY <1>7, RestoreEffect
<1> QED
  BY <1>1, <1>2, <1>3, <1>4, <1>5, <1>6, <1>7, RowSteps

(* The rest of the shapes.                                                 *)
LEMMA ReadingShapeNext ==
    ASSUME TypeOK, ReadingShape, [Next]_vars PROVE ReadingShape'
<1>1. CASE UNCHANGED scan.reading
  BY <1>1 DEF ReadingShape
<1>2. CASE ScanStart \/ ScanEnd \/ CutShort
  BY <1>2, StartEffect, EndEffect DEF ReadingShape
<1>3. ASSUME NEW d \in Downloads, Inspect(d) PROVE ReadingShape'
  <2>1. PICK period \in Periods \cup {None} :
           scan'.reading = [scan.reading EXCEPT ![d] = ReadAs(NameOf[d], period)]
    BY <1>3, InspectEffect
  <2>2. ReadAs(NameOf[d], period) # None => ReadAs(NameOf[d], period).name = NameOf[d]
    BY DEF ReadAs, Key
  <2> QED
    BY <2>1, <2>2 DEF ReadingShape, TypeOK, ScanThread
<1>4. CASE \/ RelabelBook \/ RelabelRow \/ RelabelDone
           \/ \E k \in Keys : RelabelSkip(k) \/ RelabelMove(k)
  BY <1>1, <1>4, KnowRelabel DEF Knowledge
<1>5. CASE \/ ItemSave \/ ItemsDone
           \/ \E k \in Keys : UnseenDuplicate(k) \/ UnseenCheck(k)
           \/ \E d \in Downloads : \/ ItemSkip(d) \/ ItemDamaged(d) \/ ItemLink(d)
                                    \/ ItemConflict(d)
  BY <1>1, <1>5, KnowItems
<1>6. CASE ScanList \/ InspectAgain \/ InspectNote \/ InspectDone
  BY <1>1, <1>6, ListEffect, NoteEffect, ReadEffect DEF ReadPart
<1>7. CASE Handlers \/ Outside \/ UNCHANGED vars
  BY <1>1, <1>7, KnowOthers
<1> QED
  BY <1>2, <1>3, <1>4, <1>5, <1>6, <1>7 DEF Next, Scan

(* A save begins with a link; until it is over, the scan waits.            *)
LEMMA SaveSteps ==
    ASSUME TypeOK, [Next]_vars, scan'.pc = "save"
    PROVE  \/ \E d \in Downloads : ItemLink(d)
           \/ scan.pc = "save" /\ UNCHANGED scan /\ (Handlers \/ Outside \/ UNCHANGED vars)
<1>1. CASE Handlers \/ Outside \/ UNCHANGED vars
  BY <1>1, KnowOthers
<1>2. CASE CutShort
  BY <1>2, EndEffect
<1>3. CASE \/ ScanStart \/ ScanEnd \/ RelabelBook \/ RelabelRow \/ RelabelDone
           \/ \E k \in Keys : RelabelSkip(k) \/ RelabelMove(k)
  BY <1>3, StartEffect, EndEffect, KnowRelabel
<1>4. CASE \/ ScanList \/ InspectNote \/ InspectAgain \/ InspectDone
           \/ \E d \in Downloads : Inspect(d)
  BY <1>4, ListEffect, NoteEffect, ReadEffect, InspectEffect
<1>5. CASE \/ ItemSave \/ ItemsDone
           \/ \E k \in Keys : UnseenDuplicate(k) \/ UnseenCheck(k)
           \/ \E d \in Downloads : ItemSkip(d) \/ ItemDamaged(d) \/ ItemConflict(d)
  BY <1>5, SaveEffect, ItemsEffect, UnseenEffect, PassEffect, DamagedEffect, ConflictEffect
<1> QED
  BY <1>1, <1>2, <1>3, <1>4, <1>5 DEF Next, Scan

LEMMA SaveShapeNext ==
    ASSUME TypeOK, TodoInv, SaveShape, [Next]_vars PROVE SaveShape'
<1> SUFFICES ASSUME scan'.pc = "save"
             PROVE  /\ scan'.download \in Downloads /\ scan'.download \in scan'.listed
                    /\ scan'.reading[scan'.download] # None
  BY DEF SaveShape
<1>1. ASSUME NEW d \in Downloads, ItemLink(d)
      PROVE  scan'.download = d /\ d \in scan'.listed /\ scan'.reading[d] # None
  BY <1>1, LinkEffect, ItemIsRead DEF ReadPart
<1> QED
  BY <1>1, SaveSteps DEF SaveShape

(* Only the items' end lists issues as not seen.                           *)
LEMMA UnseenSteps ==
    ASSUME TypeOK, [Next]_vars, scan'.pc = "unseen"
    PROVE  \/ ItemsDone
           \/ /\ scan.pc = "unseen"
              /\ \/ \E k \in Keys : UnseenDuplicate(k) \/ UnseenCheck(k)
                 \/ UNCHANGED scan /\ (Handlers \/ Outside \/ UNCHANGED vars)
<1>1. CASE Handlers \/ Outside \/ UNCHANGED vars
  BY <1>1, KnowOthers
<1>2. CASE CutShort
  BY <1>2, EndEffect
<1>3. CASE \/ ScanStart \/ ScanEnd \/ RelabelBook \/ RelabelRow \/ RelabelDone
           \/ \E k \in Keys : RelabelSkip(k) \/ RelabelMove(k)
  BY <1>3, StartEffect, EndEffect, KnowRelabel
<1>4. CASE \/ ScanList \/ InspectNote \/ InspectAgain \/ InspectDone
           \/ \E d \in Downloads : Inspect(d)
  BY <1>4, ListEffect, NoteEffect, ReadEffect, InspectEffect
<1>5. CASE \/ ItemSave
           \/ \E d \in Downloads : ItemSkip(d) \/ ItemDamaged(d) \/ ItemLink(d) \/ ItemConflict(d)
  BY <1>5, SaveEffect, PassEffect, DamagedEffect, ConflictEffect, LinkEffect
<1>6. ASSUME NEW k \in Keys, UnseenDuplicate(k) \/ UnseenCheck(k) PROVE scan.pc = "unseen"
  BY <1>6, UnseenEffect
<1> QED
  BY <1>1, <1>2, <1>3, <1>4, <1>5, <1>6 DEF Next, Scan

(* No row goes away while they are looked at.                              *)
LEMMA RowStays ==
    ASSUME TypeOK, MovingInv, TodoInv, Shapes, [Next]_vars, ~RelabelRow,
           NEW k \in Keys, rows[k].status # "none"
    PROVE  rows'[k].status # "none"
<1>1. ASSUME NEW l \in Keys, MarkRow(l) PROVE rows'[k].status # "none"
  BY <1>1, MarkEffect DEF SameRow
<1>2. ASSUME NEW d \in Downloads, ItemConflict(d) PROVE rows'[k].status # "none"
  BY <1>2, ErrorRow
<1>3. CASE ItemSave
  BY <1>3, SavedRow
<1>4. ASSUME NEW l \in Keys, ExcludeRow(l) PROVE rows'[k].status # "none"
  BY <1>4, ExcludeEffect
<1>5. ASSUME NEW l \in Keys, Restore(l) PROVE rows'[k].status # "none"
  BY <1>5, RestoreEffect
<1> QED
  BY <1>1, <1>2, <1>3, <1>4, <1>5, RowSteps

LEMMA UnseenShapeNext ==
    ASSUME TypeOK, MovingInv, TodoInv, Shapes, [Next]_vars PROVE UnseenShape'
<1> SUFFICES ASSUME scan'.pc = "unseen", NEW k \in scan'.unseen
             PROVE  k \in Keys /\ rows'[k].status # "none"
  BY DEF UnseenShape
<1>1. CASE ItemsDone
  BY <1>1, ItemsEffect DEF Linked
<1>2. CASE ~ItemsDone
  <2>1. k \in scan.unseen /\ scan.pc = "unseen"
    BY <1>2, UnseenSteps, UnseenEffect
  <2>2. ~RelabelRow
    BY <2>1 DEF RelabelRow
  <2> QED
    BY <2>1, <2>2, RowStays DEF Shapes, UnseenShape
<1> QED
  BY <1>1, <1>2

(* An issue that is being moved begins to when its label is free.          *)
LEMMA MoveSteps ==
    ASSUME TypeOK, [Next]_vars, scan'.pc \in {"rename", "identity"}
    PROVE  \/ \E k \in Keys : RelabelMove(k)
           \/ RelabelBook
           \/ /\ scan.pc \in {"rename", "identity"} /\ UNCHANGED scan
              /\ Handlers \/ Outside \/ UNCHANGED vars
<1>1. CASE Handlers \/ Outside \/ UNCHANGED vars
  BY <1>1, KnowOthers
<1>2. CASE CutShort
  BY <1>2, EndEffect
<1>3. CASE ScanStart \/ ScanEnd \/ RelabelRow \/ RelabelDone \/ \E k \in Keys : RelabelSkip(k)
  BY <1>3, StartEffect, EndEffect, RowEffect, RelabelledEffect, SkipEffect
<1>4. CASE \/ ScanList \/ InspectNote \/ InspectAgain \/ InspectDone
           \/ \E d \in Downloads : Inspect(d)
  BY <1>4, ListEffect, NoteEffect, ReadEffect, InspectEffect
<1>5. CASE \/ ItemSave \/ ItemsDone
           \/ \E k \in Keys : UnseenDuplicate(k) \/ UnseenCheck(k)
           \/ \E d \in Downloads : \/ ItemSkip(d) \/ ItemDamaged(d) \/ ItemLink(d)
                                    \/ ItemConflict(d)
  BY <1>5, KnowItems
<1> QED
  BY <1>1, <1>2, <1>3, <1>4, <1>5 DEF Next, Scan

(* No user makes an issue.                                                 *)
LEMMA NoRowStays ==
    ASSUME TypeOK, Handlers \/ Outside \/ UNCHANGED vars, NEW k \in Keys, rows[k] = NoRow
    PROVE  rows'[k] = NoRow
<1>0. NoRow.status = "none"
  BY DEF NoRow
<1>1. ASSUME NEW l \in Keys, Remove(l) \/ Restore(l) \/ Fix(l) PROVE rows'[k] = NoRow
  <2>1. k # l
    BY <1>0, <1>1 DEF Remove, Restore, Fix
  <2> QED
    BY <1>1, <2>1 DEF Remove, Restore, Fix, TypeOK
<1>2. CASE Outside \/ UNCHANGED vars
  BY <1>2 DEF Outside, Arrive, Leave, FolderLost, vars
<1>3. CASE \E choice \in Periods \cup {None} : Choose(choice)
  BY <1>3 DEF Choose
<1> QED
  BY <1>1, <1>2, <1>3 DEF Handlers

(* What is still to be relabelled only becomes less.                       *)
LEMMA RelabelsShrink ==
    ASSUME TypeOK, Shapes, [Next]_vars, ~ScanStart, ~(InspectDone /\ scan.again)
    PROVE  /\ scan'.relabels \subseteq scan.relabels
           /\ \/ scan'.issue \in {scan.issue, None}
              \/ scan'.issue \notin scan'.relabels
<1> USE DEF Shapes, MoveShape
<1>1. CASE Handlers \/ Outside \/ UNCHANGED vars
  BY <1>1, KnowOthers
<1>2. CASE ScanEnd \/ CutShort
  BY <1>2, EndEffect
<1>3. CASE RelabelBook \/ RelabelRow \/ RelabelDone
  BY <1>3, BookEffect, RowEffect, RelabelledEffect
<1>4. ASSUME NEW k \in Keys, RelabelSkip(k) \/ RelabelMove(k)
      PROVE  /\ scan'.relabels = scan.relabels \ {k}
             /\ scan'.issue = scan.issue \/ scan'.issue = k
  BY <1>4, SkipEffect, MoveEffect
<1>5. CASE ScanList \/ InspectNote \/ InspectAgain \/ InspectDone
  BY <1>5, ListEffect, NoteEffect, ReadEffect DEF RelabelPart
<1>6. CASE ItemSave \/ ItemsDone
  BY <1>6, SaveEffect, ItemsEffect DEF RelabelPart
<1>7. ASSUME NEW d \in Downloads,
             Inspect(d) \/ ItemSkip(d) \/ ItemDamaged(d) \/ ItemLink(d) \/ ItemConflict(d)
      PROVE  scan'.relabels = scan.relabels /\ scan'.issue = scan.issue
  BY <1>7, InspectEffect, PassEffect, DamagedEffect, LinkEffect, ConflictEffect DEF RelabelPart
<1>8. ASSUME NEW k \in Keys, UnseenDuplicate(k) \/ UnseenCheck(k)
      PROVE  scan'.relabels = scan.relabels /\ scan'.issue = scan.issue
  BY <1>8, UnseenEffect DEF RelabelPart
<1> QED
  BY <1>1, <1>2, <1>3, <1>4, <1>5, <1>6, <1>7, <1>8 DEF Next, Scan

LEMMA MoveShapeNext ==
    ASSUME TypeOK, MovingInv, TodoInv, Shapes, [Next]_vars PROVE MoveShape'
<1>1. /\ scan'.pc \notin {"relabel", "rename", "identity"} => scan'.relabels = {}
      /\ scan'.pc \notin {"rename", "identity"} => scan'.issue = None
  <2> USE DEF Shapes, MoveShape
  <2>1. CASE Handlers \/ Outside \/ UNCHANGED vars
    BY <2>1, KnowOthers
  <2>2. CASE ScanStart \/ ScanEnd \/ CutShort
    BY <2>2, StartEffect, EndEffect
  <2>3. CASE RelabelBook \/ RelabelRow \/ RelabelDone
    BY <2>3, BookEffect, RowEffect, RelabelledEffect
  <2>4. ASSUME NEW k \in Keys, RelabelSkip(k) \/ RelabelMove(k)
        PROVE  /\ scan'.pc \in {"relabel", "rename", "identity"}
               /\ scan'.pc \notin {"rename", "identity"} => scan'.issue = None
    BY <2>4, SkipEffect, MoveEffect
  <2>5. CASE ScanList \/ InspectNote \/ InspectAgain \/ InspectDone
    BY <2>5, ListEffect, NoteEffect, ReadEffect DEF RelabelPart
  <2>6. CASE ItemSave \/ ItemsDone
    BY <2>6, SaveEffect, ItemsEffect DEF RelabelPart
  <2>7. ASSUME NEW d \in Downloads,
               Inspect(d) \/ ItemSkip(d) \/ ItemDamaged(d) \/ ItemLink(d) \/ ItemConflict(d)
        PROVE  scan'.relabels = {} /\ scan'.issue = None
    <3>1. UNCHANGED RelabelPart /\ scan.pc \in {"inspect", "items"}
      BY <2>7, InspectEffect, PassEffect, DamagedEffect, LinkEffect, ConflictEffect
    <3> QED
      BY <3>1 DEF RelabelPart
  <2>8. ASSUME NEW k \in Keys, UnseenDuplicate(k) \/ UnseenCheck(k)
        PROVE  scan'.relabels = {} /\ scan'.issue = None
    BY <2>8, UnseenEffect DEF RelabelPart
  <2> QED
    BY <2>1, <2>2, <2>3, <2>4, <2>5, <2>6, <2>7, <2>8 DEF Next, Scan
<1>2. ASSUME scan'.pc \in {"rename", "identity"}
      PROVE  LET new == As(scan'.issue, scan'.wanted) IN
             new # scan'.issue /\ rows'[new] = NoRow /\ rows'[scan'.issue].status # "none"
  <2>1. ASSUME NEW k \in Keys, RelabelMove(k)
        PROVE  LET new == As(scan'.issue, scan'.wanted) IN
               new # scan'.issue /\ rows'[new] = NoRow /\ rows'[scan'.issue].status # "none"
    BY <2>1, MoveEffect DEF MayBecome, Relabelled, Shapes, MoveShape
  <2>2. CASE ~\E k \in Keys : RelabelMove(k)
    <3>1. /\ scan.pc \in {"rename", "identity"}
          /\ scan'.issue = scan.issue /\ scan'.wanted = scan.wanted
      BY <1>2, <2>2, MoveSteps, BookEffect
    <3>2. /\ scan.issue \in Keys /\ Relabelled(scan.issue) \in Keys
          /\ Relabelled(scan.issue) # scan.issue /\ rows[Relabelled(scan.issue)] = NoRow
          /\ rows[scan.issue].status # "none"
      BY <3>1 DEF MovingInv, Shapes, MoveShape
    <3>3. rows'[Relabelled(scan.issue)] = NoRow
      BY <1>2, <2>2, <3>2, MoveSteps, BookEffect, NoRowStays
    <3>4. ~RelabelRow
      BY <1>2, RowEffect
    <3>5. rows'[scan.issue].status # "none"
      BY <3>2, <3>4, RowStays
    <3> QED
      BY <3>1, <3>2, <3>3, <3>5 DEF Relabelled
  <2> QED
    BY <2>1, <2>2
<1>3. ASSUME NEW k \in scan'.relabels
      PROVE  rows'[k].status # "none" /\ k # scan'.issue
  <2>0. scan'.relabels \subseteq Keys
    BY TypeNext DEF TypeOK, ScanThread
  <2>1. CASE ScanStart
    BY <2>0, <2>1, StartEffect, NoneIsNoKey DEF NoneIsNoKey, Linked
  <2>2. CASE InspectDone /\ scan.again
    <3>1. scan'.issue = None /\ k \in Linked /\ rows' = rows
      BY <2>2, ReadEffect DEF Shapes, MoveShape
    <3> QED
      BY <2>0, <3>1, NoneIsNoKey DEF NoneIsNoKey, Linked
  <2>3. CASE ~ScanStart /\ ~(InspectDone /\ scan.again)
    <3>1. /\ k \in scan.relabels
          /\ scan'.issue \in {scan.issue, None} \/ scan'.issue \notin scan'.relabels
      BY <2>3, RelabelsShrink
    <3>2. k \in Keys /\ rows[k].status # "none" /\ k # scan.issue
      BY <2>0, <3>1 DEF Shapes, MoveShape
    <3>3. k # scan'.issue
      BY <3>1, <3>2, NoneIsNoKey DEF NoneIsNoKey
    <3>4. CASE RelabelRow
      <4>1. k # Relabelled(scan.issue)
        BY <3>2, <3>4, RowEffect DEF Shapes, MoveShape, NoRow
      <4> QED
        BY <3>2, <3>3, <3>4, <4>1, MovedRow
    <3>5. CASE ~RelabelRow
      BY <3>2, <3>3, <3>5, RowStays
    <3> QED
      BY <3>4, <3>5
  <2> QED
    BY <2>1, <2>2, <2>3
<1> QED
  BY <1>1, <1>2, <1>3 DEF MoveShape, Relabelled

LEMMA ShapesNext == ASSUME TypeOK, MovingInv, TodoInv, Shapes, [Next]_vars PROVE Shapes'
  BY RowShapeNext, ReadingShapeNext, SaveShapeNext, MoveShapeNext, UnseenShapeNext DEF Shapes

---------------------------------------------------------------------------
(* An issue that has been seen is linked from a file that was read under   *)
(* its label, or about to be.                                              *)
SeenInv ==
    /\ scan.pc \notin {"items", "save", "unseen"} => scan.seen = {}
    /\ \A k \in scan.seen : rows[k].status = "linked" =>
          \/ scan.reading[rows[k].download] = k
          \/ scan.pc = "save" /\ k = scan.reading[scan.download]

(* One that was not seen keeps the file it was linked from, and once it    *)
(* has been checked it shows where that file is read now.                  *)
ShowInv ==
    scan.pc = "unseen" => \A k \in Keys : rows[k].status = "linked" =>
        /\ scan.rows[k].status = "linked" /\ scan.rows[k].download = rows[k].download
        /\ k \notin scan.unseen /\ rows[k].download \in Readings
             /\ scan.reading[rows[k].download] # k => rows[k].problem = "duplicate"

LEMMA SeenNext ==
    ASSUME TypeOK, MovingInv, TodoInv, Shapes, SeenInv, [Next]_vars PROVE SeenInv'
<1> USE DEF SeenInv
<1>1. CASE Handlers \/ Outside \/ UNCHANGED vars
  <2>1. UNCHANGED scan
    BY <1>1, KnowOthers
  <2>2. scan.seen \subseteq Keys
    BY DEF TypeOK, ScanThread
  <2>3. CASE rows' = rows
    BY <2>1, <2>3
  <2>4. ASSUME NEW k \in Keys, MarkRow(k) PROVE SeenInv'
    BY <2>1, <2>2, <2>4, MarkEffect DEF SameRow
  <2>5. ASSUME NEW k \in Keys, ExcludeRow(k) PROVE SeenInv'
    BY <2>1, <2>2, <2>5, ExcludeEffect
  <2>6. ASSUME NEW k \in Keys, Restore(k) PROVE SeenInv'
    BY <2>1, <2>2, <2>6, RestoreEffect
  <2>7. ASSUME NEW k \in Keys, Remove(k) \/ Fix(k) PROVE SeenInv'
    BY <2>4, <2>5, <2>7 DEF MarkRow, ExcludeRow
  <2>8. ASSUME NEW choice \in Periods \cup {None}, Choose(choice) PROVE rows' = rows
    BY <2>8 DEF Choose
  <2>9. CASE Outside \/ UNCHANGED vars
    BY <2>3, <2>9 DEF Outside, Arrive, Leave, FolderLost, vars
  <2> QED
    BY <1>1, <2>3, <2>6, <2>7, <2>8, <2>9 DEF Handlers
<1>2. CASE ScanStart \/ ScanEnd \/ CutShort
  BY <1>2, StartEffect, EndEffect
<1>3. CASE RelabelBook \/ RelabelRow \/ RelabelDone
  BY <1>3, BookEffect, RowEffect, RelabelledEffect DEF ItemPart
<1>4. ASSUME NEW k \in Keys, RelabelSkip(k) \/ RelabelMove(k) PROVE SeenInv'
  BY <1>4, SkipEffect, MoveEffect DEF ItemPart
<1>5. CASE ScanList \/ InspectNote \/ InspectAgain \/ InspectDone
  BY <1>5, ListEffect, NoteEffect, ReadEffect DEF ItemPart
<1>6. ASSUME NEW d \in Downloads, Inspect(d) PROVE SeenInv'
  BY <1>6, InspectEffect DEF ItemPart
<1>7. ASSUME NEW d \in Downloads, ItemSkip(d) PROVE SeenInv'
  <2>1. /\ scan'.seen \subseteq scan.seen \cup {scan.reading[d]}
        /\ scan'.seen = scan.seen \/ rows[scan.reading[d]].status = "excluded"
    BY <1>7, PassEffect DEF SeenNow
  <2>2. scan.pc = "items" /\ scan'.pc = "items" /\ UNCHANGED <<rows, scan.reading, scan.download>>
    BY <1>7, PassEffect DEF ReadPart
  <2> QED
    BY <2>1, <2>2
<1>8. ASSUME NEW d \in Downloads, ItemDamaged(d) PROVE SeenInv'
  <2> DEFINE k == scan.reading[d]
  <2>1. k \in Keys /\ scan.seen \subseteq Keys
    BY <1>8, DamagedEffect, ItemIsRead DEF TypeOK, ScanThread
  <2>2. MarkRow(k)
    BY <1>8 DEF MarkRow
  <2>3. rows[k].download = d
    BY <1>8, DamagedEffect DEF TakenBy, Problem, BookIsThere
  <2>4. scan'.seen \subseteq scan.seen \cup {k}
    BY <1>8, DamagedEffect DEF SeenNow
  <2>5. \A l \in Keys : SameRow(rows[l], rows'[l])
    BY <2>1, <2>2, MarkEffect
  <2>6. scan.pc = "items" /\ scan'.pc = "items" /\ UNCHANGED <<scan.reading, scan.download>>
    BY <1>8, DamagedEffect DEF ReadPart
  <2>7. scan.reading[rows[k].download] = k
    BY <2>3
  <2> HIDE DEF k
  <2> QED
    BY <2>1, <2>4, <2>5, <2>6, <2>7 DEF SameRow
<1>9. ASSUME NEW d \in Downloads, ItemLink(d) PROVE SeenInv'
  <2>1. scan'.seen \subseteq scan.seen \cup {scan.reading[d]}
    BY <1>9, LinkEffect DEF SeenNow
  <2>2. /\ scan.pc = "items" /\ scan'.pc = "save" /\ scan'.download = d
        /\ UNCHANGED <<rows, scan.reading>>
    BY <1>9, LinkEffect DEF ReadPart
  <2> QED
    BY <2>1, <2>2
<1>10. ASSUME NEW d \in Downloads, ItemConflict(d) PROVE SeenInv'
  <2>1. scan.seen \subseteq Keys
    BY DEF TypeOK, ScanThread
  <2>2. scan'.seen \subseteq scan.seen \cup {scan.reading[d]}
    BY <1>10, ConflictEffect DEF SeenNow
  <2> QED
    BY <1>10, <2>1, <2>2, ConflictEffect, ErrorRow DEF ReadPart
<1>11. CASE ItemSave
  <2>1. scan.seen \subseteq Keys
    BY DEF TypeOK, ScanThread
  <2> QED
    BY <1>11, <2>1, SaveEffect, SavedRow DEF ReadPart
<1>12. CASE ItemsDone
  BY <1>12, ItemsEffect DEF ReadPart
<1>13. ASSUME NEW k \in Keys, UnseenDuplicate(k) \/ UnseenCheck(k) PROVE SeenInv'
  <2>1. scan.seen \subseteq Keys /\ UNCHANGED <<scan.seen, ReadPart>>
        /\ scan.pc = "unseen" /\ scan'.pc = "unseen"
    BY <1>13, UnseenEffect DEF TypeOK, ScanThread
  <2>2. CASE MarkRow(k)
    BY <2>1, <2>2, MarkEffect DEF SameRow, ReadPart
  <2>3. CASE ExcludeRow(k)
    BY <2>1, <2>3, ExcludeEffect DEF ReadPart
  <2> QED
    BY <1>13, <2>2, <2>3 DEF MarkRow, ExcludeRow
<1> QED
  BY <1>1, <1>2, <1>3, <1>4, <1>5, <1>6, <1>7, <1>8, <1>9, <1>10, <1>11, <1>12, <1>13
     DEF Next, Scan

LEMMA ShowNext ==
    ASSUME TypeOK, MovingInv, TodoInv, Shapes, SeenInv, ShowInv, [Next]_vars PROVE ShowInv'
<1> SUFFICES ASSUME scan'.pc = "unseen", NEW k \in Keys, rows'[k].status = "linked"
             PROVE  /\ scan'.rows[k].status = "linked" /\ scan'.rows[k].download = rows'[k].download
                    /\ k \notin scan'.unseen /\ rows'[k].download \in Readings'
                         /\ scan'.reading[rows'[k].download] # k => rows'[k].problem = "duplicate"
  BY DEF ShowInv
<1>1. CASE ItemsDone
  <2>1. /\ scan'.rows = rows /\ rows' = rows /\ scan'.unseen = Linked \ scan.seen
        /\ UNCHANGED scan.reading /\ scan.pc = "items"
    BY <1>1, ItemsEffect DEF ReadPart
  <2>2. k \notin scan'.unseen => scan.reading[rows[k].download] = k
    BY <2>1 DEF Linked, SeenInv
  <2> QED
    BY <2>1, <2>2
<1>2. ASSUME NEW l \in Keys, UnseenDuplicate(l) \/ UnseenCheck(l)
      PROVE  /\ scan'.rows[k].status = "linked" /\ scan'.rows[k].download = rows'[k].download
             /\ k \notin scan'.unseen /\ rows'[k].download \in Readings'
                  /\ scan'.reading[rows'[k].download] # k => rows'[k].problem = "duplicate"
  <2>1. /\ scan.pc = "unseen" /\ scan'.unseen = scan.unseen \ {l}
        /\ UNCHANGED <<scan.rows, scan.listed, scan.reading>>
    BY <1>2, UnseenEffect DEF ReadPart
  <2>2. Readings' = Readings
    BY <2>1 DEF Readings
  <2>3. CASE k # l
    <3>1. rows'[k] = rows[k]
      BY <1>2, <2>3 DEF UnseenDuplicate, UnseenCheck, TypeOK
    <3> QED
      BY <2>1, <2>2, <2>3, <3>1 DEF ShowInv
  <2>4. CASE k = l
    <3>0. rows[k] \in Row
      BY DEF TypeOK
    <3>1. ~ExcludeRow(k)
      BY ExcludeEffect
    <3>2. MarkRow(k)
      BY <1>2, <2>4, <3>1 DEF MarkRow, ExcludeRow
    <3>3. rows'[k].status = rows[k].status /\ rows'[k].download = rows[k].download
      BY <3>2, MarkEffect DEF SameRow
    <3>4. scan.rows[k].status = "linked" /\ scan.rows[k].download = rows[k].download
      BY <2>1, <3>3 DEF ShowInv
    <3>5. CASE UnseenDuplicate(k)
      <4>1. rows' = [rows EXCEPT ![k].problem = "duplicate"]
        BY <3>1, <3>5 DEF UnseenDuplicate, ExcludeRow
      <4>2. rows'[k].problem = "duplicate"
        BY <3>0, <4>1 DEF TypeOK, Row
      <4> QED
        BY <2>1, <3>3, <3>4, <4>2
    <3>6. CASE UnseenCheck(k)
      <4>1. ~(rows[k].download \in Readings /\ scan.reading[rows[k].download] # k)
        BY <3>4, <3>6 DEF UnseenCheck, IsDuplicate
      <4> QED
        BY <2>1, <2>2, <3>3, <3>4, <4>1
    <3> QED
      BY <1>2, <2>4, <3>5, <3>6
  <2> QED
    BY <2>3, <2>4
<1>3. CASE /\ scan.pc = "unseen" /\ UNCHANGED scan
           /\ Handlers \/ Outside \/ UNCHANGED vars
  <2>0. Readings' = Readings /\ rows[k] \in Row
    BY <1>3 DEF Readings, TypeOK
  <2>1. /\ rows'[k].status = rows[k].status /\ rows'[k].download = rows[k].download
        /\ rows'[k].problem = rows[k].problem
    <3>1. ASSUME NEW l \in Keys, Remove(l) \/ Restore(l)
          PROVE  rows'[k] = rows[k]
      <4>1. CASE k = l
        BY <3>1, <4>1, ExcludeEffect, RestoreEffect DEF ExcludeRow
      <4>2. CASE k # l
        BY <3>1, <4>2 DEF Remove, Restore, TypeOK
      <4> QED
        BY <4>1, <4>2
    <3>2. ASSUME NEW l \in Keys, Fix(l)
          PROVE  /\ rows'[k].status = rows[k].status /\ rows'[k].download = rows[k].download
                 /\ rows'[k].problem = rows[k].problem
      BY <2>0, <3>2 DEF Fix, TypeOK, Row
    <3>3. ASSUME NEW choice \in Periods \cup {None}, Choose(choice) PROVE rows' = rows
      BY <3>3 DEF Choose
    <3>4. CASE Outside \/ UNCHANGED vars
      BY <3>4 DEF Outside, Arrive, Leave, FolderLost, vars
    <3> QED
      BY <1>3, <3>1, <3>2, <3>3, <3>4 DEF Handlers
  <2> QED
    BY <1>3, <2>0, <2>1 DEF ShowInv
<1> QED
  BY <1>1, <1>2, <1>3, UnseenSteps

---------------------------------------------------------------------------
(* A folder holds one book, under its own label, but for the folder that   *)
(* has been renamed and its book not yet.                                  *)
LabelIn(k) == IF scan.pc = "rename" /\ k = Relabelled(scan.issue) THEN scan.issue ELSE k

BooksInv ==
    clean => \A k \in Keys :
        /\ \A b, c \in folder[k] : b = c
        /\ \A b \in folder[k] : b[1] = LabelIn(k)

(* Nothing else touches a folder.                                          *)
LEMMA FolderSteps ==
    ASSUME TypeOK, [Next]_vars
    PROVE  \/ folder' = folder
           \/ RelabelBook
           \/ \E k \in Keys : RelabelMove(k) \/ ExcludeRow(k) \/ FolderLost(k)
           \/ \E d \in Downloads : ItemLink(d)
<1>1. CASE \/ ScanStart \/ RelabelRow \/ RelabelDone \/ ScanList \/ InspectNote
           \/ InspectAgain \/ InspectDone \/ ItemSave \/ ItemsDone \/ ScanEnd \/ CutShort
           \/ UNCHANGED vars
  BY <1>1 DEF ScanStart, RelabelRow, RelabelDone, ScanList, InspectNote, InspectAgain,
              InspectDone, ItemSave, ItemsDone, ScanEnd, CutShort, vars
<1>2. ASSUME NEW k \in Keys, RelabelSkip(k) \/ UnseenCheck(k) \/ Restore(k) \/ Fix(k)
      PROVE  folder' = folder
  BY <1>2 DEF RelabelSkip, UnseenCheck, Restore, Fix
<1>3. ASSUME NEW k \in Keys, UnseenDuplicate(k) \/ Remove(k)
      PROVE  ExcludeRow(k) \/ folder' = folder
  BY <1>3 DEF ExcludeRow, UnseenDuplicate
<1>4. ASSUME NEW d \in Downloads,
             \/ Inspect(d) \/ ItemSkip(d) \/ ItemDamaged(d) \/ ItemConflict(d)
             \/ Arrive(d) \/ Leave(d)
      PROVE  folder' = folder
  BY <1>4 DEF Inspect, ItemSkip, ItemDamaged, ItemConflict, Arrive, Leave
<1>5. ASSUME NEW choice \in Periods \cup {None}, Choose(choice) PROVE folder' = folder
  BY <1>5 DEF Choose
<1> QED
  BY <1>1, <1>2, <1>3, <1>4, <1>5 DEF Next, Scan, Handlers, Outside

(* While an issue is being moved, the run does nothing else.               *)
LEMMA MovingSteps ==
    ASSUME TypeOK, [Next]_vars, scan.pc \in {"rename", "identity"}
    PROVE  \/ scan.pc = "rename" /\ RelabelBook
           \/ scan.pc = "identity" /\ RelabelRow
           \/ CutShort
           \/ UNCHANGED scan /\ (Handlers \/ Outside \/ UNCHANGED vars)
<1>1. CASE Handlers \/ Outside \/ UNCHANGED vars
  BY <1>1, KnowOthers
<1>2. CASE CutShort
  BY <1>2
<1>3. CASE ScanStart \/ ScanEnd \/ RelabelDone \/ \E k \in Keys : RelabelSkip(k) \/ RelabelMove(k)
  BY <1>3, RelabelledEffect, SkipEffect, MoveEffect DEF ScanStart, ScanEnd
<1>4. CASE \/ ScanList \/ InspectNote \/ InspectAgain \/ InspectDone
           \/ \E d \in Downloads : Inspect(d)
  BY <1>4, ListEffect, NoteEffect, ReadEffect, InspectEffect
<1>5. CASE \/ ItemSave \/ ItemsDone
           \/ \E k \in Keys : UnseenDuplicate(k) \/ UnseenCheck(k)
           \/ \E d \in Downloads : \/ ItemSkip(d) \/ ItemDamaged(d) \/ ItemLink(d)
                                    \/ ItemConflict(d)
  BY <1>5, KnowItems
<1>6. CASE RelabelBook \/ RelabelRow
  BY <1>6, BookEffect, RowEffect
<1> QED
  BY <1>1, <1>2, <1>3, <1>4, <1>5, <1>6 DEF Next, Scan

(* A run cut short is not clean, nor is it ever again.                     *)
LEMMA CleanSteps ==
    ASSUME [Next]_vars, clean'
    PROVE  /\ clean /\ ~CutShort
           /\ scan.pc # "idle" => /\ \A choice : ~Choose(choice)
                                 /\ \A k : ~FolderLost(k)
<1>1. clean' = clean \/ CutShort \/ (\E choice : Choose(choice)) \/ \E k : FolderLost(k)
  BY DEF Next, Scan, Handlers, Outside, ScanStart, RelabelBook, RelabelRow, RelabelDone,
         RelabelSkip, RelabelMove, ScanList, Inspect, InspectNote, InspectAgain, InspectDone,
         ItemSkip, ItemDamaged, ItemLink, ItemConflict, ItemSave, ItemsDone, UnseenDuplicate,
         UnseenCheck, ScanEnd, Remove, Restore, Fix, Arrive, Leave, outside, vars
<1>2. ~CutShort
  BY DEF CutShort
<1>3. ASSUME NEW choice, Choose(choice) PROVE clean /\ scan.pc = "idle"
  BY <1>3 DEF Choose
<1>4. ASSUME NEW k, FolderLost(k) PROVE clean /\ scan.pc = "idle"
  BY <1>4 DEF FolderLost
<1> QED
  BY <1>1, <1>2, <1>3, <1>4

LEMMA BooksNext ==
    ASSUME TypeOK, MovingInv, TodoInv, Shapes, BooksInv, [Next]_vars PROVE BooksInv'
<1> SUFFICES ASSUME clean'
             PROVE  \A k \in Keys : /\ \A b, c \in folder'[k] : b = c
                                    /\ \A b \in folder'[k] : b[1] = LabelIn(k)'
  BY DEF BooksInv
<1>0. /\ \A k \in Keys : /\ \A b, c \in folder[k] : b = c
                         /\ \A b \in folder[k] : b[1] = LabelIn(k)
      /\ folder \in [Keys -> SUBSET (Keys \X Downloads)]
      /\ ~CutShort
  BY CleanSteps DEF BooksInv, TypeOK
<1>1. ASSUME NEW k \in Keys, RelabelMove(k)
      PROVE  \A l \in Keys : /\ \A b, c \in folder'[l] : b = c
                             /\ \A b \in folder'[l] : b[1] = LabelIn(l)'
  <2> DEFINE new == Relabelled(k)
  <2>1. /\ new \in Keys /\ new # k /\ scan.pc = "relabel"
        /\ scan'.issue = k /\ scan'.wanted = scan.wanted
        /\ folder[k] # {} => folder[new] = {}
    BY <1>1, MoveEffect DEF MayBecome
  <2>2. Relabelled(scan.issue)' = new
    BY <2>1 DEF Relabelled
  <2>3. \A l \in Keys : LabelIn(l) = l
    BY <2>1 DEF LabelIn
  <2>4. CASE folder[k] = {}
    <3>1. folder' = folder /\ scan'.pc = "identity"
      BY <1>1, <2>4, MoveEffect
    <3>2. \A l \in Keys : LabelIn(l)' = l
      BY <3>1 DEF LabelIn
    <3> QED
      BY <1>0, <2>3, <3>1, <3>2
  <2>5. CASE folder[k] # {}
    <3>1. folder' = [folder EXCEPT ![k] = {}, ![new] = folder[k]] /\ scan'.pc = "rename"
      BY <1>1, <2>5, MoveEffect
    <3>2. \A l \in Keys : LabelIn(l)' = IF l = new THEN k ELSE l
      BY <2>1, <2>2, <3>1 DEF LabelIn
    <3> HIDE DEF new
    <3> QED
      BY <1>0, <2>1, <2>3, <3>1, <3>2
  <2> QED
    BY <2>4, <2>5
<1>2. CASE RelabelBook
  <2> DEFINE new   == Relabelled(scan.issue)
             books == folder[new]
  <2>1. /\ new \in Keys /\ scan.issue \in Keys /\ new # scan.issue /\ scan.pc = "rename"
        /\ scan'.pc # "rename"
    BY <1>2, BookEffect DEF MovingInv, Shapes, MoveShape
  <2>2. /\ \A l \in Keys : LabelIn(l)' = l
        /\ \A l \in Keys \ {new} : LabelIn(l) = l
        /\ LabelIn(new) = scan.issue
    BY <2>1 DEF LabelIn
  <2>3. CASE books = {}
    <3>1. folder' = folder
      BY <1>2, <2>3, BookEffect
    <3> QED
      BY <1>0, <2>2, <2>3, <3>1
  <2>4. CASE books # {}
    <3>1. FirstBook(books) \in books
      BY <1>0, <2>1, <2>4, FirstBookIsThere
    <3>2. <<new, FirstBook(books)[2]>> \notin books
      BY <1>0, <2>1, <2>2
    <3>3. {b \in books : b # FirstBook(books) /\ b[1] # new} = {}
      BY <1>0, <2>1, <3>1
    <3>4. folder' = [folder EXCEPT ![new] = {<<new, FirstBook(books)[2]>>}]
      BY <1>2, <2>4, <3>2, <3>3, BookEffect
    <3> HIDE DEF new, books
    <3> QED
      BY <1>0, <2>1, <2>2, <3>4
  <2> QED
    BY <2>3, <2>4
<1>3. ASSUME NEW k \in Keys, ExcludeRow(k) \/ FolderLost(k)
      PROVE  \A l \in Keys : /\ \A b, c \in folder'[l] : b = c
                             /\ \A b \in folder'[l] : b[1] = LabelIn(l)'
  <2>1. /\ folder' = [folder EXCEPT ![k] = {}]
        /\ UNCHANGED <<scan.pc, scan.issue, scan.wanted>>
    BY <1>3, ExcludeEffect DEF FolderLost, RelabelPart
  <2>2. \A l \in Keys : LabelIn(l)' = LabelIn(l)
    BY <2>1 DEF LabelIn, Relabelled
  <2> QED
    BY <1>0, <2>1, <2>2
<1>4. ASSUME NEW d \in Downloads, ItemLink(d)
      PROVE  \A l \in Keys : /\ \A b, c \in folder'[l] : b = c
                             /\ \A b \in folder'[l] : b[1] = LabelIn(l)'
  <2> DEFINE k == scan.reading[d]
  <2>1. scan.pc = "items" /\ scan'.pc = "save" /\ k \in Keys
    BY <1>4, LinkEffect, ItemIsRead
  <2>2. \A l \in Keys : LabelIn(l) = l /\ LabelIn(l)' = l
    BY <2>1 DEF LabelIn
  <2>3. folder' = [folder EXCEPT ![k] = {b \in folder[k] : b[1] # k} \cup {<<k, d>>}]
    BY <1>4, LinkEffect
  <2> HIDE DEF k
  <2>4. {b \in folder[k] : b[1] # k} = {}
    BY <1>0, <2>1, <2>2
  <2> QED
    BY <1>0, <2>1, <2>2, <2>3, <2>4
<1>5. CASE folder' = folder /\ ~RelabelBook /\ \A k \in Keys : ~RelabelMove(k)
  <2>1. scan.pc = "rename" \/ scan'.pc = "rename" => UNCHANGED scan
    BY <1>0, <1>5, MovingSteps, MoveSteps
  <2>2. \A l \in Keys : LabelIn(l)' = LabelIn(l)
    BY <2>1 DEF LabelIn, Relabelled
  <2> QED
    BY <1>0, <1>5, <2>2
<1> QED
  BY <1>1, <1>2, <1>3, <1>4, <1>5, FolderSteps

---------------------------------------------------------------------------
(* A run that is clean knows the choice as it is: it relabels and reads by *)
(* the rule of the publication.                                            *)
ChoiceInv ==
    /\ scan.pc = "idle" => ~scan.cache.read
    /\ (\E d \in Downloads : scan.reading[d] # None) => scan.cache.read
    /\ clean =>
         /\ scan.cache.read => scan.cache.choice = paper.choice
         /\ scan.pc \in {"relabel", "rename", "identity"} => scan.wanted = Effective(paper)

LEMMA ChoiceNext ==
    ASSUME TypeOK, TodoInv, ChoiceInv, [Next]_vars PROVE ChoiceInv'
<1> USE DEF ChoiceInv
<1>0. clean' => clean
  BY CleanSteps
<1>1. CASE ScanStart \/ ScanEnd \/ CutShort
  <2>1. \A d \in Downloads : scan'.reading[d] = None
    BY <1>1, StartEffect, EndEffect
  <2>2. ~scan'.cache.read
    BY <1>1, StartEffect, EndEffect
  <2>3. ScanStart => scan'.wanted = Effective(paper)'
    BY StartEffect
  <2>4. ~ScanStart => scan'.pc = "idle"
    BY <1>1, EndEffect
  <2> QED
    BY <2>1, <2>2, <2>3, <2>4
<1>2. CASE RelabelBook \/ RelabelRow \/ \E k \in Keys : RelabelSkip(k) \/ RelabelMove(k)
  <2>1. /\ UNCHANGED <<scan.cache, scan.reading, scan.wanted, paper>>
        /\ scan.pc \in {"relabel", "rename", "identity"} /\ scan'.pc # "idle"
    BY <1>2, BookEffect, RowEffect, SkipEffect, MoveEffect DEF ReadPart
  <2> QED
    BY <1>0, <2>1
<1>3. CASE RelabelDone
  BY <1>0, <1>3, RelabelledEffect DEF ReadPart
<1>4. CASE ScanList \/ InspectAgain
  BY <1>0, <1>4, ListEffect
<1>5. ASSUME NEW d \in Downloads, Inspect(d) PROVE ChoiceInv'
  <2>1. scan'.cache.read
    <3>1. Cache \in PaperCache /\ Cache.read
      BY DEF Cache, TypeOK, ScanThread, Paper, PaperCache
    <3>2. scan'.cache = Cache \/ \E found : scan'.cache = [Cache EXCEPT !.detected = found]
      BY <1>5 DEF Inspect, TypeOK, ScanThread
    <3> QED
      BY <3>1, <3>2 DEF PaperCache
  <2>2. clean => Cache.choice = paper.choice
    BY DEF Cache
  <2> QED
    BY <1>0, <1>5, <2>1, <2>2, InspectEffect
<1>6. CASE InspectNote
  BY <1>0, <1>6, NoteEffect
<1>7. CASE InspectDone
  BY <1>0, <1>7, ReadEffect DEF ReadPart
<1>8. CASE \/ ItemSave \/ ItemsDone
           \/ \E k \in Keys : UnseenDuplicate(k) \/ UnseenCheck(k)
           \/ \E d \in Downloads : \/ ItemSkip(d) \/ ItemDamaged(d) \/ ItemLink(d)
                                    \/ ItemConflict(d)
  <2>1. scan'.pc \in {"items", "save", "unseen"} /\ UNCHANGED <<scan.cache, scan.reading>>
    BY <1>8, KnowItems
  <2>2. UNCHANGED paper
    BY <1>8, SaveEffect, ItemsEffect, UnseenEffect, PassEffect, DamagedEffect, LinkEffect,
       ConflictEffect
  <2> QED
    BY <1>0, <2>1, <2>2
<1>9. CASE Handlers \/ Outside \/ UNCHANGED vars
  <2>1. UNCHANGED scan
    BY <1>9, KnowOthers
  <2>2. ASSUME clean', scan.pc # "idle" PROVE UNCHANGED paper
    BY <1>9, <2>2, CleanSteps
       DEF Handlers, Outside, Remove, Restore, Fix, Arrive, Leave, FolderLost, vars
  <2> QED
    BY <1>0, <2>1, <2>2
<1> QED
  BY <1>1, <1>2, <1>3, <1>4, <1>5, <1>6, <1>7, <1>8, <1>9 DEF Next, Scan

(* So what it links bears the label the publication goes by.               *)
LEMMA ItemPeriod ==
    ASSUME TypeOK, CacheInv, ReadingInv, ChoiceInv, clean, scan.pc \in {"items", "save"},
           NEW d \in Downloads, d \in scan.listed, scan.reading[d] # None
    PROVE  scan.reading[d].period = Effective(paper)
<1>1. scan.reading[d].period = Effective(scan.cache)
  BY DEF ReadingInv, ReadByOneRule
<1>2. scan.cache.choice = paper.choice /\ scan.cache.detected = paper.detected
  BY DEF ChoiceInv, CacheInv
<1> QED
  BY <1>1, <1>2 DEF Effective

---------------------------------------------------------------------------
(* As long as runs are clean and nothing of its name is restored, what is  *)
(* in the folder of an issue is the file it is linked from, before its row *)
(* is saved and while it is moved too; where there is no row there is no   *)
(* book.                                                                   *)
Saves(k) == scan.pc = "save" /\ k = scan.reading[scan.download]
Moves(k) == scan.pc \in {"rename", "identity"} /\ k = scan.issue

BooksOf(k, d) == \A b \in folder[k] : b[2] = d

Held(k) ==
    /\ rows[k].status \in {"none", "linked", "excluded"}
    /\ rows[k].status = "none" =>
         \/ folder[k] = {}
         \/ Saves(k)
         \/ Moves(scan.issue) /\ k = Relabelled(scan.issue)
    /\ rows[k].status = "linked" => BooksOf(k, rows[k].download)
    /\ Saves(k) =>
         /\ BooksOf(k, scan.download)
         /\ rows[k].status = "linked" => rows[k].download = scan.download
    /\ Moves(k) =>
         /\ folder[k] = {}
         /\ scan.pc = "rename" => folder[Relabelled(k)] # {}
         /\ rows[k].status = "linked" => BooksOf(Relabelled(k), rows[k].download)

HeldInv == clean => \A k \in Keys : k.name \notin restored => Held(k)

(* Steps that leave rows, folders and what is being done alone.            *)
LEMMA HeldQuiet ==
    ASSUME UNCHANGED <<rows, folder>>, NEW k \in Keys, Held(k),
           \/ /\ scan.pc \notin {"rename", "identity", "save"}
              /\ scan'.pc \notin {"rename", "identity", "save"}
           \/ UNCHANGED scan
    PROVE  Held(k)'
  BY DEF Held, Saves, Moves, BooksOf, Relabelled

LEMMA HeldRelabel ==
    ASSUME TypeOK, MovingInv, TodoInv, Shapes, HeldInv, clean, NEW k \in Keys,
           k.name \notin restored,
           \/ RelabelBook \/ RelabelRow \/ \E m \in Keys : RelabelMove(m)
    PROVE  Held(k)'
<1>0. \A l \in Keys : l.name \notin restored => Held(l)
  BY DEF HeldInv
<1>9. folder \in [Keys -> SUBSET (Keys \X Downloads)] /\ NoRow.status = "none"
  BY DEF TypeOK, NoRow
<1>1. ASSUME NEW m \in Keys, RelabelMove(m) PROVE Held(k)'
  <2> DEFINE new == Relabelled(m)
  <2>1. /\ new \in Keys /\ new # m /\ rows[new] = NoRow /\ rows[m].status # "none"
        /\ scan.pc = "relabel" /\ scan'.pc = IF folder[m] = {} THEN "identity" ELSE "rename"
        /\ scan'.issue = m /\ scan'.wanted = scan.wanted /\ UNCHANGED rows
        /\ folder[m] = {} \/ folder[new] = {}
    BY <1>1, MoveEffect DEF MayBecome, Shapes, MoveShape
  <2>2. Relabelled(scan.issue)' = new /\ new.name = m.name /\ Relabelled(m)' = new
    BY <2>1, AsName DEF Relabelled
  <2>3. folder' = IF folder[m] = {} THEN folder ELSE [folder EXCEPT ![m] = {}, ![new] = folder[m]]
    BY <1>1, MoveEffect
  <2> HIDE DEF new
  <2>4. /\ folder'[m] = {}
        /\ folder'[new] = IF folder[m] = {} THEN folder[new] ELSE folder[m]
        /\ \A l \in Keys \ {m, new} : folder'[l] = folder[l]
    BY <1>9, <2>1, <2>3
  <2>5. CASE k = m
    <3>1. Held(k) /\ Held(new)
      BY <1>0, <2>1, <2>2, <2>5
    <3>2. folder[m] = {} => folder[new] = {}
      BY <1>9, <2>1, <3>1 DEF Held, Saves, Moves
    <3>3. rows[m].status = "linked" => \A b \in folder'[new] : b[2] = rows[m].download
      BY <2>4, <2>5, <3>1, <3>2 DEF Held, BooksOf
    <3>4. scan'.pc = "rename" => folder'[new] # {}
      BY <2>1, <2>4
    <3> QED
      BY <2>1, <2>2, <2>4, <2>5, <3>1, <3>3, <3>4 DEF Held, Saves, Moves, BooksOf
  <2>6. CASE k = new
    BY <1>9, <2>1, <2>2, <2>6 DEF Held, Saves, Moves
  <2>7. CASE k # m /\ k # new
    BY <1>0, <2>1, <2>4, <2>7 DEF Held, Saves, Moves, BooksOf
  <2> QED
    BY <2>5, <2>6, <2>7
<1>2. CASE RelabelBook
  <2>0. scan.issue \in Keys /\ Relabelled(scan.issue) \in Keys
    BY <1>2, BookEffect DEF MovingInv
  <2>1. PICK old \in Keys, new \in Keys : old = scan.issue /\ new = Relabelled(scan.issue)
    BY <2>0
  <2> DEFINE books == folder[new]
             first == FirstBook(books)
  <2>2. /\ new # old /\ rows[new] = NoRow /\ new.name = old.name
        /\ scan.pc = "rename" /\ scan'.pc = IF books = {} THEN "relabel" ELSE "identity"
        /\ scan'.issue = IF books = {} THEN None ELSE old
        /\ scan'.wanted = scan.wanted /\ UNCHANGED rows
    BY <1>2, <2>1, BookEffect, AsName DEF Relabelled, Shapes, MoveShape
  <2>3. folder' = IF books = {} \/ <<new, first[2]>> \in books THEN folder
                  ELSE [folder EXCEPT ![new] = {b \in books : b # first /\ b[1] # new}
                                                 \cup {<<new, first[2]>>}]
    BY <1>2, <2>1, BookEffect
  <2>4. books # {} => first \in books
    BY <1>9, <2>1, FirstBookIsThere
  <2> HIDE DEF first
  <2>5. /\ \A l \in Keys \ {new} : folder'[l] = folder[l]
        /\ \A b \in folder'[new] : \E c \in folder[new] : b[2] = c[2]
        /\ books = {} => folder' = folder
    BY <1>9, <2>1, <2>3, <2>4
  <2>6. Relabelled(old)' = new
    BY <2>1, <2>2 DEF Relabelled
  <2>7. CASE k = old
    <3>1. Held(k)
      BY <1>0, <2>7
    <3>2. books # {} /\ folder[k] = {}
          /\ (rows[k].status = "linked" => \A b \in folder[new] : b[2] = rows[k].download)
      BY <2>1, <2>2, <2>7, <3>1 DEF Held, Moves, BooksOf
    <3>3. /\ folder'[k] = {}
          /\ rows[k].status = "linked" => \A b \in folder'[new] : b[2] = rows[k].download
      BY <2>2, <2>5, <2>7, <3>2
    <3>4. rows[k].status \in {"none", "linked", "excluded"}
      BY <3>1 DEF Held
    <3> QED
      BY <2>2, <2>6, <2>7, <3>2, <3>3, <3>4 DEF Held, Saves, Moves, BooksOf
  <2>8. CASE k = new
    <3>1. rows[k].status = "none" /\ k # old
      BY <1>9, <2>2, <2>8
    <3>2. books = {} => folder'[k] = {}
      BY <2>5, <2>8
    <3> QED
      BY <2>2, <2>6, <2>8, <3>1, <3>2 DEF Held, Saves, Moves
  <2>9. CASE k # old /\ k # new
    <3>1. Held(k) /\ folder'[k] = folder[k]
      BY <1>0, <2>5, <2>9
    <3> QED
      BY <2>1, <2>2, <2>9, <3>1 DEF Held, Saves, Moves, BooksOf
  <2> QED
    BY <2>7, <2>8, <2>9
<1>3. CASE RelabelRow
  <2> DEFINE old == scan.issue
             new == Relabelled(old)
  <2>1. /\ old \in Keys /\ new \in Keys /\ new # old /\ new.name = old.name
        /\ rows[new] = NoRow /\ rows[old].status # "none"
        /\ rows'[old] = NoRow /\ rows'[new] = rows[old]
        /\ \A l \in Keys \ {old, new} : rows'[l] = rows[l]
    BY <1>3, MovedRow
  <2>2. scan.pc = "identity" /\ scan'.pc = "relabel" /\ UNCHANGED folder
    BY <1>3, RowEffect
  <2>3. scan.issue = old /\ Relabelled(scan.issue) = new
    OBVIOUS
  <2> HIDE DEF old, new
  <2>4. CASE k = old
    <3>1. folder'[k] = {}
      BY <1>0, <2>2, <2>3, <2>4 DEF Held, Moves
    <3> QED
      BY <1>9, <2>1, <2>2, <2>4, <3>1 DEF Held, Saves, Moves
  <2>5. CASE k = new
    <3>1. Held(old) /\ Moves(old) /\ Relabelled(old) = new
      BY <1>0, <2>1, <2>2, <2>3, <2>5 DEF Moves
    <3>2. rows[old].status = "linked" => \A b \in folder[new] : b[2] = rows[old].download
      BY <3>1 DEF Held, BooksOf
    <3>3. rows[old].status \in {"linked", "excluded"}
      BY <2>1, <3>1 DEF Held
    <3> QED
      BY <2>1, <2>2, <2>5, <3>2, <3>3 DEF Held, Saves, Moves, BooksOf
  <2>6. CASE k # old /\ k # new
    <3>1. Held(k) /\ rows'[k] = rows[k]
      BY <1>0, <2>1, <2>6
    <3> QED
      BY <2>2, <2>3, <2>6, <3>1 DEF Held, Saves, Moves, BooksOf
  <2> QED
    BY <2>4, <2>5, <2>6
<1> QED
  BY <1>1, <1>2, <1>3

LEMMA HeldItems ==
    ASSUME TypeOK, TodoInv, Shapes, BooksInv, HeldInv, clean, NEW k \in Keys,
           k.name \notin restored,
           ItemSave \/ \E d \in Downloads : ItemLink(d) \/ ItemConflict(d)
    PROVE  Held(k)'
<1>0. Held(k) /\ folder \in [Keys -> SUBSET (Keys \X Downloads)]
  BY DEF HeldInv, TypeOK
<1>1. ASSUME NEW d \in Downloads, ItemLink(d) PROVE Held(k)'
  <2>1. PICK m \in Keys : m = scan.reading[d]
    BY <1>1, LinkEffect, ItemIsRead
  <2>2. /\ scan.pc = "items" /\ scan'.pc = "save" /\ scan'.download = d
        /\ scan'.reading[d] = m /\ UNCHANGED rows
        /\ folder' = [folder EXCEPT ![m] = {b \in folder[m] : b[1] # m} \cup {<<m, d>>}]
        /\ ~TakenBy(d, m)
    BY <1>1, <2>1, LinkEffect DEF ReadPart
  <2>3. CASE k = m
    <3>1. {b \in folder[m] : b[1] # m} = {}
      BY <2>2 DEF BooksInv, LabelIn
    <3>2. folder'[m] = {<<m, d>>}
      BY <1>0, <2>2, <3>1
    <3>3. rows[m].status = "linked" => rows[m].download = d
      BY <1>0, <2>2, <2>3 DEF TakenBy, Held, BooksOf
    <3>4. rows[k].status \in {"none", "linked", "excluded"}
      BY <1>0 DEF Held
    <3> QED
      BY <2>2, <2>3, <3>2, <3>3, <3>4 DEF Held, Saves, Moves, BooksOf
  <2>4. CASE k # m
    <3>1. folder'[k] = folder[k]
      BY <1>0, <2>2, <2>4
    <3> QED
      BY <1>0, <2>2, <2>4, <3>1 DEF Held, Saves, Moves, BooksOf
  <2> QED
    BY <2>3, <2>4
<1>2. ASSUME NEW d \in Downloads, ItemConflict(d) PROVE Held(k)'
  <2>1. PICK m \in Keys : m = scan.reading[d]
    BY <1>2, ErrorRow
  <2>2. /\ scan.pc = "items" /\ scan'.pc = "items" /\ UNCHANGED folder
        /\ rows[m].status \notin {"linked", "excluded"} /\ Problem(d, m) = "copy"
        /\ \A l \in Keys \ {m} : rows'[l] = rows[l]
    BY <1>2, <2>1, ConflictEffect, ErrorRow
  <2>3. k # m
    <3>1. folder[m] # {}
      BY <2>2 DEF Problem, BookIsThere
    <3> QED
      BY <1>0, <2>2, <3>1 DEF Held, Saves, Moves
  <2> QED
    BY <1>0, <2>2, <2>3 DEF Held, Saves, Moves, BooksOf
<1>3. CASE ItemSave
  <2>1. PICK m \in Keys : m = scan.reading[scan.download]
    BY <1>3, SavedRow
  <2>2. /\ scan.pc = "save" /\ scan'.pc = "items" /\ UNCHANGED folder
        /\ rows'[m].status = "linked" /\ rows'[m].download = scan.download
        /\ \A l \in Keys \ {m} : rows'[l] = rows[l]
    BY <1>3, <2>1, SaveEffect, SavedRow
  <2>3. CASE k = m
    BY <1>0, <2>1, <2>2, <2>3 DEF Held, Saves, Moves, BooksOf
  <2>4. CASE k # m
    BY <1>0, <2>1, <2>2, <2>4 DEF Held, Saves, Moves, BooksOf
  <2> QED
    BY <2>3, <2>4
<1> QED
  BY <1>1, <1>2, <1>3

LEMMA HeldRows ==
    ASSUME TypeOK, MovingInv, TodoInv, Shapes, HeldInv, clean, NEW k \in Keys,
           k.name \notin restored', NEW m \in Keys,
           MarkRow(m) \/ ExcludeRow(m) \/ Restore(m) \/ FolderLost(m),
           FolderLost(m) => scan.pc = "idle"
    PROVE  Held(k)'
<1>0. folder \in [Keys -> SUBSET (Keys \X Downloads)]
  BY DEF TypeOK
<1>1. Moves(scan.issue) => /\ scan.issue \in Keys /\ Relabelled(scan.issue) \in Keys
                           /\ rows[Relabelled(scan.issue)].status = "none"
  BY DEF Moves, MovingInv, Shapes, MoveShape, NoRow
<1>2. CASE MarkRow(m)
  <2>1. /\ UNCHANGED <<folder, scan.pc, scan.download, scan.reading, scan.issue, scan.wanted>>
        /\ SameRow(rows[k], rows'[k]) /\ restored' = restored
    BY <1>2, MarkEffect DEF ReadPart, RelabelPart, History
  <2>2. Held(k)
    BY <2>1 DEF HeldInv
  <2> QED
    BY <2>1, <2>2 DEF Held, Saves, Moves, BooksOf, Relabelled, SameRow
<1>3. CASE ExcludeRow(m)
  <2>1. /\ UNCHANGED <<scan.pc, scan.download, scan.reading, scan.issue, scan.wanted>>
        /\ restored' = restored
        /\ rows[m].status # "none" /\ rows'[m].status = "excluded"
        /\ \A l \in Keys \ {m} : rows'[l] = rows[l]
    BY <1>3, ExcludeEffect DEF ReadPart, RelabelPart, History
  <2>2. folder'[m] = {} /\ \A l \in Keys \ {m} : folder'[l] = folder[l]
    BY <1>0, <1>3, ExcludeEffect
  <2>3. Held(k)
    BY <2>1 DEF HeldInv
  <2>4. Moves(k) => Relabelled(k) \in Keys /\ Relabelled(k) # m
    BY <1>1, <2>1 DEF Moves
  <2>5. CASE k = m
    BY <2>1, <2>2, <2>3, <2>4, <2>5 DEF Held, Saves, Moves, BooksOf, Relabelled
  <2>6. CASE k # m
    BY <2>1, <2>2, <2>3, <2>4, <2>6 DEF Held, Saves, Moves, BooksOf, Relabelled
  <2> QED
    BY <2>5, <2>6
<1>4. CASE Restore(m)
  <2>1. /\ UNCHANGED <<folder, scan>> /\ restored' = restored \cup {m.name}
        /\ \A l \in Keys \ {m} : rows'[l] = rows[l]
    BY <1>4, RestoreEffect
  <2>2. k # m /\ Held(k)
    BY <2>1 DEF HeldInv
  <2> QED
    BY <2>1, <2>2 DEF Held, Saves, Moves, BooksOf, Relabelled
<1>5. CASE FolderLost(m)
  <2>1. /\ UNCHANGED <<rows, scan, restored>> /\ scan.pc = "idle"
        /\ folder' = [folder EXCEPT ![m] = {}]
    BY <1>5 DEF FolderLost
  <2>2. Held(k) /\ (folder'[k] = folder[k] \/ folder'[k] = {})
    BY <1>0, <2>1 DEF HeldInv
  <2> QED
    BY <2>1, <2>2 DEF Held, Saves, Moves, BooksOf
<1> QED
  BY <1>2, <1>3, <1>4, <1>5

(* A name that was restored stays one.                                     *)
LEMMA RestoredSteps == ASSUME [Next]_vars PROVE restored \subseteq restored'
  BY DEF Next, Scan, Handlers, Outside, ScanStart, RelabelBook, RelabelRow, RelabelDone,
         RelabelSkip, RelabelMove, ScanList, Inspect, InspectNote, InspectAgain, InspectDone,
         ItemSkip, ItemDamaged, ItemLink, ItemConflict, ItemSave, ItemsDone, UnseenDuplicate,
         UnseenCheck, ScanEnd, CutShort, Choose, Remove, Restore, Fix, Arrive, Leave,
         FolderLost, outside, vars

LEMMA HeldNext ==
    ASSUME TypeOK, MovingInv, TodoInv, Shapes, BooksInv, HeldInv, [Next]_vars PROVE HeldInv'
<1> SUFFICES ASSUME clean', NEW k \in Keys, k.name \notin restored' PROVE Held(k)'
  BY DEF HeldInv
<1>0. clean /\ ~CutShort /\ k.name \notin restored /\ Held(k)
  BY CleanSteps, RestoredSteps DEF HeldInv
<1>1. CASE RelabelBook \/ RelabelRow \/ \E m \in Keys : RelabelMove(m)
  BY <1>0, <1>1, HeldRelabel
<1>2. CASE ItemSave \/ \E d \in Downloads : ItemLink(d) \/ ItemConflict(d)
  BY <1>0, <1>2, HeldItems
<1>3. ASSUME NEW m \in Keys, MarkRow(m) \/ ExcludeRow(m) \/ Restore(m) \/ FolderLost(m)
      PROVE  Held(k)'
  BY <1>0, <1>3, HeldRows, CleanSteps
<1>4. CASE \/ ScanStart \/ RelabelDone \/ ScanEnd \/ ItemsDone
           \/ ScanList \/ InspectAgain \/ InspectNote \/ InspectDone
  <2>1. UNCHANGED <<rows, folder>> /\ scan.pc \notin {"rename", "identity", "save"}
    BY <1>4 DEF ScanStart, RelabelDone, ScanEnd, ItemsDone, ScanList, InspectAgain,
                InspectNote, InspectDone
  <2>2. scan'.pc \notin {"rename", "identity", "save"}
    BY <1>4, StartEffect, RelabelledEffect, EndEffect, ItemsEffect, ListEffect, NoteEffect,
       ReadEffect
  <2> QED
    BY <1>0, <2>1, <2>2, HeldQuiet
<1>5. ASSUME NEW d \in Downloads, Inspect(d) \/ ItemSkip(d) PROVE Held(k)'
  BY <1>0, <1>5, InspectEffect, PassEffect, HeldQuiet
<1>6. ASSUME NEW m \in Keys, RelabelSkip(m) PROVE Held(k)'
  BY <1>0, <1>6, SkipEffect, HeldQuiet
<1>7. ASSUME \/ \E choice \in Periods \cup {None} : Choose(choice)
             \/ \E d \in Downloads : Arrive(d) \/ Leave(d)
             \/ UNCHANGED vars
      PROVE  Held(k)'
  <2>1. UNCHANGED <<rows, folder, scan>>
    BY <1>7 DEF Choose, Arrive, Leave, vars
  <2> QED
    BY <1>0, <2>1, HeldQuiet
<1>8. ASSUME NEW d \in Downloads, ItemDamaged(d) PROVE \E m \in Keys : MarkRow(m)
  BY <1>8, DamagedEffect, ItemIsRead DEF MarkRow
<1>9. ASSUME NEW m \in Keys, UnseenDuplicate(m) \/ UnseenCheck(m) \/ Remove(m) \/ Fix(m)
      PROVE  MarkRow(m) \/ ExcludeRow(m)
  BY <1>9 DEF MarkRow, ExcludeRow
<1> QED
  BY <1>0, <1>1, <1>2, <1>3, <1>4, <1>5, <1>6, <1>7, <1>8, <1>9
     DEF Next, Scan, Handlers, Outside

---------------------------------------------------------------------------
(* From its relabelling on, a clean run leaves no issue under a label the  *)
(* publication does not go by, unless its other label is taken: not what   *)
(* is still to be relabelled, nor what is being moved.                     *)
Stuck(l) == LET k == As(l, Effective(paper)) IN k = l \/ k \notin Keys \/ rows[k] # NoRow

Settling ==
    \/ scan.pc \in {"relabel", "rename", "identity", "items", "save"}
    \/ scan.pc \in {"list", "inspect", "note"} /\ ~scan.changed

StuckInv ==
    clean /\ Settling =>
        \A l \in Linked : l.name \notin restored =>
            l \in scan.relabels \/ l = scan.issue \/ Stuck(l)

(* Only a move and a save link anything.                                   *)
LEMMA LinkedSteps ==
    ASSUME TypeOK, MovingInv, TodoInv, Shapes, [Next]_vars, ~RelabelRow, ~ItemSave,
           NEW k \in Keys, rows'[k].status = "linked"
    PROVE  rows[k].status = "linked" /\ rows'[k].download = rows[k].download
<1>1. ASSUME NEW l \in Keys, MarkRow(l)
      PROVE  rows[k].status = "linked" /\ rows'[k].download = rows[k].download
  BY <1>1, MarkEffect DEF SameRow
<1>2. ASSUME NEW d \in Downloads, ItemConflict(d) PROVE rows'[k] = rows[k]
  BY <1>2, ErrorRow
<1>3. ASSUME NEW l \in Keys, ExcludeRow(l) PROVE rows'[k] = rows[k]
  BY <1>3, ExcludeEffect
<1>4. ASSUME NEW l \in Keys, Restore(l) PROVE rows'[k] = rows[k]
  BY <1>4, RestoreEffect
<1> QED
  BY <1>1, <1>2, <1>3, <1>4, RowSteps

(* What is stuck stays so as long as nothing moves.                        *)
LEMMA StuckStays ==
    ASSUME TypeOK, MovingInv, TodoInv, Shapes, [Next]_vars, ~RelabelRow,
           Effective(paper') = Effective(paper), NEW l \in Keys, Stuck(l)
    PROVE  Stuck(l)'
<1> DEFINE k == As(l, Effective(paper))
<1>1. As(l, Effective(paper))' = k
  BY DEF As
<1>2. NoRow.status = "none"
  BY DEF NoRow
<1>3. ASSUME k \in Keys, rows[k] # NoRow PROVE rows'[k] # NoRow
  <2>1. rows[k].status # "none"
    BY <1>3 DEF Shapes, RowShape
  <2> HIDE DEF k
  <2>2. rows'[k].status # "none"
    BY <1>3, <2>1, RowStays
  <2> QED
    BY <1>2, <2>2
<1> QED
  BY <1>1, <1>3 DEF Stuck

(* The other steps that end settling began so, and by the same rule.       *)
LEMMA SettlingSteps ==
    ASSUME TypeOK, [Next]_vars, clean', Settling',
           ~ScanStart, ~RelabelBook, ~RelabelRow, ~ItemSave, ~(InspectDone /\ scan.again),
           \A k \in Keys : ~RelabelSkip(k) /\ ~RelabelMove(k)
    PROVE  /\ Settling /\ Effective(paper') = Effective(paper)
           /\ UNCHANGED <<scan.relabels, scan.issue>>
<1> USE DEF Settling
<1>0. UNCHANGED <<paper.choice, paper.detected>> => Effective(paper') = Effective(paper)
  BY DEF Effective
<1>1. CASE ScanEnd \/ CutShort
  BY <1>1, EndEffect
<1>2. CASE RelabelDone
  BY <1>0, <1>2, RelabelledEffect
<1>3. CASE ScanList
  BY <1>0, <1>3, ListEffect DEF RelabelPart, ScanList
<1>4. CASE InspectAgain
  <2>1. scan.changed /\ scan'.changed /\ scan'.pc = "inspect"
    BY <1>4, ListEffect DEF InspectAgain
  <2> QED
    BY <2>1
<1>5. CASE InspectNote
  BY <1>5, NoteEffect
<1>6. CASE InspectDone /\ ~scan.again
  BY <1>0, <1>6, ReadEffect DEF RelabelPart, ReadPart
<1>7. ASSUME NEW d \in Downloads, Inspect(d)
      PROVE  /\ Settling /\ Effective(paper') = Effective(paper)
             /\ UNCHANGED <<scan.relabels, scan.issue>>
  BY <1>0, <1>7, InspectEffect DEF RelabelPart
<1>8. ASSUME NEW d \in Downloads, ItemSkip(d) \/ ItemDamaged(d) \/ ItemLink(d) \/ ItemConflict(d)
      PROVE  /\ Settling /\ Effective(paper') = Effective(paper)
             /\ UNCHANGED <<scan.relabels, scan.issue>>
  BY <1>0, <1>8, PassEffect, DamagedEffect, LinkEffect, ConflictEffect DEF RelabelPart
<1>9. CASE ItemsDone
  BY <1>9, ItemsEffect
<1>10. ASSUME NEW k \in Keys, UnseenDuplicate(k) \/ UnseenCheck(k) PROVE FALSE
  BY <1>10, UnseenEffect
<1>11. CASE Handlers \/ Outside \/ UNCHANGED vars
  <2>1. UNCHANGED scan /\ scan.pc # "idle"
    BY <1>11, KnowOthers
  <2>2. UNCHANGED paper
    BY <1>11, <2>1, CleanSteps
       DEF Handlers, Outside, Remove, Restore, Fix, Arrive, Leave, FolderLost, vars
  <2> QED
    BY <1>0, <2>1, <2>2
<1> QED
  BY <1>1, <1>2, <1>3, <1>4, <1>5, <1>6, <1>7, <1>8, <1>9, <1>10, <1>11 DEF Next, Scan

LEMMA StuckNext ==
    ASSUME TypeOK, MovingInv, TodoInv, CacheInv, ReadingInv, Shapes, ChoiceInv, HeldInv,
           StuckInv, [Next]_vars
    PROVE  StuckInv'
<1> SUFFICES ASSUME clean', Settling', NEW l \in Keys, rows'[l].status = "linked",
                    l.name \notin restored'
             PROVE  l \in scan'.relabels \/ l = scan'.issue \/ Stuck(l)'
  BY DEF StuckInv, Linked
<1>0. clean /\ l.name \notin restored /\ Effective(paper) = Effective(paper)
  BY CleanSteps, RestoredSteps
<1>1. NoRow.status = "none" /\ l # None
  BY NoneIsNoKey DEF NoRow
<1>2. Settling /\ rows[l].status = "linked" => l \in scan.relabels \/ l = scan.issue \/ Stuck(l)
  BY <1>0 DEF StuckInv, Linked
<1>3. ~RelabelRow /\ ~ItemSave => rows[l].status = "linked"
  BY LinkedSteps
<1>4. ~RelabelRow /\ Effective(paper') = Effective(paper) /\ Stuck(l) => Stuck(l)'
  BY StuckStays
<1>5. CASE ScanStart \/ (InspectDone /\ scan.again)
  BY <1>3, <1>5, StartEffect, ReadEffect DEF Linked, ScanStart, InspectDone, RelabelRow, ItemSave
<1>6. ASSUME NEW k \in Keys, RelabelMove(k)
      PROVE  l \in scan'.relabels \/ l = scan'.issue \/ Stuck(l)'
  <2>1. /\ scan.pc = "relabel" /\ scan'.relabels = scan.relabels \ {k} /\ scan'.issue = k
        /\ UNCHANGED paper /\ UNCHANGED rows
    BY <1>6, MoveEffect
  <2>2. scan.issue = None
    BY <2>1 DEF Shapes, MoveShape
  <2> QED
    BY <1>1, <1>2, <1>4, <2>1, <2>2 DEF Settling, RelabelRow
<1>7. ASSUME NEW k \in Keys, RelabelSkip(k)
      PROVE  l \in scan'.relabels \/ l = scan'.issue \/ Stuck(l)'
  <2>1. /\ scan.pc = "relabel" /\ scan'.relabels = scan.relabels \ {k}
        /\ ~MayBecome(k, Relabelled(k)) /\ UNCHANGED <<scan.issue, paper, rows>>
    BY <1>7, SkipEffect
  <2>2. ASSUME k = l PROVE Stuck(l)
    <3>1. Relabelled(l) = As(l, Effective(paper)) /\ Relabelled(l).name = l.name
      BY <1>0, <2>1, AsName DEF Relabelled, ChoiceInv
    <3>2. PICK other : other = Relabelled(l)
      OBVIOUS
    <3>3. ASSUME other \in Keys, rows[other] = NoRow PROVE folder[other] = {}
      BY <1>0, <1>1, <2>1, <3>1, <3>2, <3>3 DEF HeldInv, Held, Saves, Moves
    <3>4. other = l \/ other \notin Keys \/ rows[other] # NoRow
      BY <2>1, <2>2, <3>2, <3>3 DEF MayBecome
    <3> QED
      BY <3>1, <3>2, <3>4 DEF Stuck
  <2> QED
    BY <1>2, <1>4, <2>1, <2>2 DEF Settling, RelabelRow
<1>8. CASE RelabelBook
  <2>1. /\ scan.pc = "rename" /\ UNCHANGED <<scan.relabels, paper, rows>>
        /\ scan'.issue = IF folder[Relabelled(scan.issue)] = {} THEN None ELSE scan.issue
    BY <1>8, BookEffect
  <2>2. l = scan.issue => folder[Relabelled(scan.issue)] # {}
    BY <1>0, <2>1 DEF HeldInv, Held, Moves
  <2> QED
    BY <1>2, <1>4, <2>1, <2>2 DEF Settling, RelabelRow
<1>9. CASE RelabelRow
  <2>1. PICK old \in Keys, new \in Keys : old = scan.issue /\ new = Relabelled(scan.issue)
    BY <1>9, MovedRow
  <2>2. /\ old # new /\ rows'[old] = NoRow
        /\ \A k \in Keys \ {old, new} : rows'[k] = rows[k]
    BY <1>9, <2>1, MovedRow
  <2>3. /\ scan.pc = "identity" /\ UNCHANGED <<scan.relabels, paper>>
        /\ new = As(old, Effective(paper))
    BY <1>0, <1>9, <2>1, RowEffect DEF Relabelled, ChoiceInv
  <2>4. PICK p : p = Effective(paper)
    OBVIOUS
  <2>5. \A k \in Keys : As(k, Effective(paper))' = As(k, p)
    BY <2>3, <2>4
  <2>6. CASE l = new
    <3>1. As(new, p) = new
      BY <2>3, <2>4 DEF As, Keys
    <3> QED
      BY <2>5, <2>6, <3>1 DEF Stuck
  <2>7. CASE l # new
    <3>1. l # old /\ rows[l].status = "linked"
      BY <1>1, <2>2, <2>7
    <3>2. l \in scan.relabels \/ Stuck(l)
      BY <1>2, <2>1, <2>3, <3>1 DEF Settling
    <3>3. As(l, p) # old
      BY <2>2, <2>3, <2>4 DEF As, Keys
    <3>4. As(l, p) \in Keys /\ rows[As(l, p)] # NoRow => rows'[As(l, p)] # NoRow
      BY <1>1, <2>2, <3>3, MovedRow, <1>9, <2>1
    <3> QED
      BY <2>3, <2>4, <2>5, <3>2, <3>4 DEF Stuck
  <2> QED
    BY <2>6, <2>7
<1>10. CASE ItemSave
  <2>1. PICK m \in Keys, d \in Downloads : m = scan.reading[d] /\ d = scan.download
    BY <1>10, SavedRow
  <2>2. /\ scan.pc = "save" /\ UNCHANGED <<scan.relabels, scan.issue, paper>>
        /\ \A k \in Keys \ {m} : rows'[k] = rows[k]
    BY <1>10, <2>1, SaveEffect, SavedRow DEF RelabelPart
  <2>3. CASE l = m
    <3>1. m.period = Effective(paper)
      BY <1>0, <2>1, <2>2, ItemPeriod DEF Shapes, SaveShape
    <3>2. As(m, Effective(paper)) = m
      BY <3>1 DEF As, Keys
    <3>3. As(l, Effective(paper))' = l
      BY <2>2, <2>3, <3>2
    <3> QED
      BY <3>3 DEF Stuck
  <2>4. CASE l # m
    BY <1>2, <1>4, <2>2, <2>4 DEF Settling, RelabelRow
  <2> QED
    BY <2>3, <2>4
<1> QED
  BY <1>2, <1>3, <1>4, <1>5, <1>6, <1>7, <1>8, <1>9, <1>10, SettlingSteps

---------------------------------------------------------------------------
(* So nothing is linked a second time, and nothing else is linked from the *)
(* file whose row is about to be saved.                                    *)
OnceInv ==
    clean =>
        /\ \A k, l \in Linked :
              rows[k].download = rows[l].download /\ k.name \notin restored => k = l
        /\ \A k \in Keys : Saves(k) /\ k.name \notin restored =>
              \A l \in Linked : rows[l].download = scan.download => l = k

(* What is linked from a file that is linked now is linked as it is.       *)
LEMMA LinkIsSecond ==
    ASSUME TypeOK, TodoInv, CacheInv, ReadingInv, Shapes, ChoiceInv, HeldInv, StuckInv, OnceInv,
           clean, NEW d \in Downloads, ItemLink(d),
           NEW m \in Keys, m = scan.reading[d], m.name \notin restored,
           NEW l \in Linked, rows[l].download = d
    PROVE  l = m
<1> SUFFICES ASSUME l # m PROVE FALSE
  OBVIOUS
<1>1. /\ scan.pc = "items" /\ ~TakenBy(d, m) /\ rows[m].status # "excluded"
      /\ d \in scan.listed
  BY LinkEffect, ItemIsRead
<1>2. l \in Keys /\ l.name = NameOf[d] /\ m.name = NameOf[d]
  BY NoneIsNoKey DEF Shapes, RowShape, ReadingShape, Linked
<1>3. scan.relabels = {} /\ scan.issue = None
  BY <1>1 DEF Shapes, MoveShape
<1>4. Stuck(l)
  BY <1>1, <1>2, <1>3, NoneIsNoKey DEF StuckInv, Settling
<1>5. As(l, Effective(paper)) = m
  <2>1. m.period = Effective(paper)
    BY <1>1, NoneIsNoKey, ItemPeriod
  <2> QED
    BY <1>2, <2>1 DEF As, Keys
<1>6. rows[m] # NoRow
  BY <1>4, <1>5 DEF Stuck
<1>7. rows[m].status = "linked" /\ BooksOf(m, rows[m].download)
  BY <1>1, <1>6 DEF HeldInv, Held, Shapes, RowShape
<1>8. rows[m].download = d
  BY <1>1, <1>7 DEF TakenBy, BooksOf
<1> QED
  BY <1>7, <1>8 DEF OnceInv, Linked

LEMMA OnceNext ==
    ASSUME TypeOK, MovingInv, TodoInv, CacheInv, ReadingInv, Shapes, ChoiceInv, HeldInv,
           StuckInv, OnceInv, [Next]_vars
    PROVE  OnceInv'
<1> SUFFICES ASSUME clean' PROVE OnceInv'
  BY DEF OnceInv
<1>0. clean /\ restored \subseteq restored'
  BY CleanSteps, RestoredSteps
<1>1. ASSUME NEW k \in Keys, NEW l \in Keys, rows'[k].status = "linked",
             rows'[l].status = "linked", rows'[k].download = rows'[l].download,
             k.name \notin restored'
      PROVE  k = l
  <2>1. CASE RelabelRow
    <3>1. PICK old \in Keys, new \in Keys :
             /\ old # new /\ new.name = old.name /\ rows'[old] = NoRow /\ rows'[new] = rows[old]
             /\ \A x \in Keys \ {old, new} : rows'[x] = rows[x]
      BY <2>1, MovedRow
    <3>2. k # old /\ l # old
      BY <1>1, <3>1 DEF NoRow
    <3> DEFINE from(x) == IF x = new THEN old ELSE x
    <3>3. \A x \in {k, l} : from(x) \in Keys /\ rows[from(x)] = rows'[x] /\ from(x).name = x.name
      BY <1>1, <3>1, <3>2
    <3>4. from(k) = from(l)
      BY <1>0, <1>1, <3>3 DEF OnceInv, Linked
    <3> QED
      BY <3>2, <3>4
  <2>2. CASE ItemSave
    <3>1. PICK m \in Keys, d \in Downloads : m = scan.reading[d] /\ d = scan.download
      BY <2>2, SavedRow
    <3>2. /\ scan.pc = "save" /\ m.name = NameOf[d] /\ rows'[m].download = d
          /\ \A x \in Keys \ {m} : rows'[x] = rows[x]
      BY <2>2, <3>1, SavedRow, SaveEffect
    <3>3. ASSUME m.name \notin restored, NEW x \in Keys, rows[x].status = "linked",
                 rows[x].download = d
          PROVE  x = m
      BY <1>0, <3>1, <3>2, <3>3 DEF OnceInv, Linked, Saves
    <3>4. CASE k = m
      BY <1>0, <1>1, <3>2, <3>3, <3>4
    <3>5. CASE k # m /\ l = m
      <4>1. rows[k].status = "linked" /\ rows[k].download = d
        BY <1>1, <3>2, <3>5
      <4>2. k.name = m.name
        BY <3>2, <4>1 DEF Shapes, RowShape
      <4> QED
        BY <1>0, <1>1, <3>3, <3>5, <4>1, <4>2
    <3>6. CASE k # m /\ l # m
      <4>1. rows'[k] = rows[k] /\ rows'[l] = rows[l]
        BY <3>2, <3>6
      <4> QED
        BY <1>0, <1>1, <4>1 DEF OnceInv, Linked
    <3> QED
      BY <3>4, <3>5, <3>6
  <2>3. CASE ~RelabelRow /\ ~ItemSave
    <3>1. /\ rows[k].status = "linked" /\ rows'[k].download = rows[k].download
          /\ rows[l].status = "linked" /\ rows'[l].download = rows[l].download
      BY <1>1, <2>3, LinkedSteps
    <3> QED
      BY <1>0, <1>1, <3>1 DEF OnceInv, Linked
  <2> QED
    BY <2>1, <2>2, <2>3
<1>2. ASSUME NEW k \in Keys, Saves(k)', k.name \notin restored', NEW l \in Keys,
             rows'[l].status = "linked", rows'[l].download = scan'.download
      PROVE  l = k
  <2>1. scan'.pc = "save" /\ k = scan'.reading[scan'.download] /\ k.name \notin restored
    BY <1>0, <1>2 DEF Saves
  <2>2. ASSUME NEW d \in Downloads, ItemLink(d) PROVE l = k
    <3>1. UNCHANGED rows /\ scan'.download = d /\ k = scan.reading[d]
      BY <2>1, <2>2, LinkEffect DEF ReadPart
    <3>2. l \in Linked /\ rows[l].download = d
      BY <1>2, <3>1 DEF Linked
    <3> QED
      BY <1>0, <2>1, <2>2, <3>1, <3>2, LinkIsSecond
  <2>3. CASE UNCHANGED scan
    <3>1. ~RelabelRow /\ ~ItemSave
      BY <2>1, <2>3, RowEffect, SaveEffect
    <3>2. Saves(k) /\ rows[l].status = "linked" /\ rows[l].download = scan.download
      BY <1>2, <2>1, <2>3, <3>1, LinkedSteps DEF Saves
    <3> QED
      BY <1>0, <2>1, <3>2 DEF OnceInv, Linked
  <2> QED
    BY <2>1, <2>2, <2>3, SaveSteps
<1> QED
  BY <1>1, <1>2 DEF OnceInv, Linked

---------------------------------------------------------------------------
LabelsInv ==
    /\ NInv /\ Shapes /\ SeenInv /\ ShowInv /\ BooksInv /\ ChoiceInv /\ HeldInv
    /\ StuckInv /\ OnceInv

LEMMA LabelsInit == ASSUME Init PROVE LabelsInv
<1>1. /\ NInv /\ scan.pc = "idle" /\ rows = [k \in Keys |-> NoRow]
      /\ folder = [k \in Keys |-> {}] /\ scan = Idle /\ NoRow.status = "none"
  BY InitInv DEF Init, Idle, NoRow
<1>2. Linked = {} /\ \A k \in Keys : rows[k] = NoRow /\ folder[k] = {}
  BY <1>1 DEF Linked
<1>3. Shapes
  BY <1>1, <1>2 DEF Shapes, RowShape, ReadingShape, SaveShape, MoveShape, UnseenShape, Idle
<1>4. SeenInv /\ ShowInv
  BY <1>1, <1>2 DEF SeenInv, ShowInv, Idle
<1>5. BooksInv /\ ChoiceInv
  BY <1>1, <1>2 DEF BooksInv, ChoiceInv, Idle, NoCache
<1>6. HeldInv /\ StuckInv /\ OnceInv
  BY <1>1, <1>2 DEF HeldInv, Held, Saves, Moves, StuckInv, OnceInv
<1> QED
  BY <1>1, <1>3, <1>4, <1>5, <1>6 DEF LabelsInv

LEMMA LabelsNext == ASSUME LabelsInv, [Next]_vars PROVE LabelsInv'
<1>0. TypeOK /\ MovingInv /\ TodoInv /\ CacheInv /\ EvidenceInv /\ ReadingInv /\ Shapes
  BY DEF LabelsInv, NInv
<1>1. NInv' /\ Shapes' /\ BooksInv' /\ ChoiceInv'
  BY <1>0, NextInv, ShapesNext, BooksNext, ChoiceNext DEF LabelsInv
<1>2. SeenInv' /\ ShowInv'
  BY <1>0, SeenNext, ShowNext DEF LabelsInv
<1>3. HeldInv' /\ StuckInv' /\ OnceInv'
  BY <1>0, HeldNext, StuckNext, OnceNext DEF LabelsInv
<1> QED
  BY <1>1, <1>2, <1>3 DEF LabelsInv

(* All of it holds in every state.                                         *)
THEOREM LabelsInvariant == Spec => []LabelsInv
  BY LabelsInit, LabelsNext, PTL DEF Spec

(* A file that is linked under a label it is no longer read as is shown as *)
(* a duplicate once its row has been checked.                              *)
THEOREM SecondLabelIsShown == Spec => []SecondLabelShows
<1>1. LabelsInv => SecondLabelShows
  BY DEF LabelsInv, ShowInv, SecondLabelShows, Linked
<1> QED
  BY <1>1, LabelsInvariant, PTL

(* A relabelled folder holds its book under the new label.                 *)
THEOREM BooksKeepTheirLabel == Spec => []BooksBearTheirLabel
<1>1. LabelsInv => BooksBearTheirLabel
  BY DEF LabelsInv, BooksInv, LabelIn, BooksBearTheirLabel
<1> QED
  BY <1>1, LabelsInvariant, PTL

(* No file is linked under two labels, unless a run was cut short, or a    *)
(* choice made or a folder lost in one, or an old label restored.          *)
THEOREM NoSecondLink == Spec => []LinkedOnce
<1>1. LabelsInv => LinkedOnce
  BY DEF LabelsInv, OnceInv, LinkedOnce
<1> QED
  BY <1>1, LabelsInvariant, PTL

---------------------------------------------------------------------------
(* A run ends.                                                             *)

(* Where a run is, the last part having the number 1.                      *)
Part ==
    IF scan.pc = "unseen" THEN 1
    ELSE IF scan.pc \in {"items", "save"} THEN 2
    ELSE IF scan.pc \in {"relabel", "rename", "identity"} THEN IF scan.again THEN 3 ELSE 7
    ELSE IF scan.pc \in {"inspect", "note"} THEN IF scan.again THEN 4 ELSE 5
    ELSE 6

(* What waits in this part, and what is still to be done with the one      *)
(* that no longer waits.                                                   *)
Waiting ==
    IF scan.pc = "unseen" THEN scan.unseen
    ELSE IF scan.pc \in {"relabel", "rename", "identity"} THEN scan.relabels
    ELSE scan.todo

Place ==
    IF scan.pc = "rename" THEN 2 ELSE IF scan.pc \in {"identity", "note", "save"} THEN 1 ELSE 0

Most == 3 * (Cardinality(Downloads) + Cardinality(Keys)) + 2

StepsLeft ==
    IF scan.pc = "idle" THEN 0
    ELSE (Most + 1) * Part + 3 * Cardinality(Waiting) + Place

(* A run takes no more steps than these.                                   *)
Longest == 8 * (Most + 1)

(* A step of a run brings it nearer to its end, and nobody else's sets it  *)
(* back.                                                                   *)
RunsGetOn ==
    [][scan.pc # "idle" => \/ StepsLeft' < StepsLeft
                           \/ StepsLeft' = StepsLeft /\ ~Scan]_vars

LEMMA FiniteKeys == IsFiniteSet(Keys)
<1> DEFINE pairs == Downloads \X Periods
           f == [p \in pairs |-> Key(p[2], NameOf[p[1]])]
           found == {f[p] : p \in pairs}
<1>1. IsFiniteSet(Periods)
  <2>1. Periods = {"month"} \cup {"number"}
    BY DEF Periods
  <2> QED
    BY <2>1, FS_Singleton, FS_Union
<1>2. IsFiniteSet(pairs)
  BY <1>1, NumberingConstants, FS_Product
<1>3. f \in Surjection(pairs, found)
  BY DEF Surjection
<1>4. IsFiniteSet(found)
  BY <1>2, <1>3, FS_Surjection
<1>5. Keys \subseteq found
  <2>1. ASSUME NEW k \in Keys PROVE k \in found
    <3>1. PICK d \in Downloads : k.name = NameOf[d]
      BY DEF Keys
    <3>2. <<d, k.period>> \in pairs
      BY DEF Keys
    <3>3. k = Key(k.period, NameOf[d])
      BY <3>1 DEF Keys, Key
    <3>4. f[<<d, k.period>>] = k
      BY <3>2, <3>3
    <3> QED
      BY <3>2, <3>4
  <2> QED
    BY <2>1
<1> QED
  BY <1>4, <1>5, FS_Subset

(* Of the downloads or of the labels no more can wait than there are.      *)
Waitings == (SUBSET Downloads) \cup (SUBSET Keys)

LEMMA Sizes ==
    /\ Most \in Nat
    /\ \A S \in Waitings :
          Cardinality(S) \in Nat /\ 3 * Cardinality(S) + 2 <= Most
<1>1. Cardinality(Downloads) \in Nat /\ Cardinality(Keys) \in Nat
  BY NumberingConstants, FiniteKeys, FS_CardinalityType
<1>2. ASSUME NEW S \in SUBSET Downloads
      PROVE  Cardinality(S) \in Nat /\ Cardinality(S) <= Cardinality(Downloads)
  BY NumberingConstants, FS_Subset, FS_CardinalityType
<1>3. ASSUME NEW S \in SUBSET Keys
      PROVE  Cardinality(S) \in Nat /\ Cardinality(S) <= Cardinality(Keys)
  BY FiniteKeys, FS_Subset, FS_CardinalityType
<1> QED
  BY <1>1, <1>2, <1>3 DEF Most, Waitings

LEMMA OneLess ==
    ASSUME NEW S \in Waitings, NEW x \in S
    PROVE  Cardinality(S \ {x}) = Cardinality(S) - 1
<1>1. IsFiniteSet(S)
  BY NumberingConstants, FiniteKeys, FS_Subset DEF Waitings
<1> QED
  BY <1>1, FS_RemoveElement, FS_CardinalityType

LEMMA PartTypes ==
    /\ TypeOK => Part \in 1 .. 7 /\ Place \in 0 .. 2 /\ Waiting \in Waitings
    /\ TypeOK' => Part' \in 1 .. 7 /\ Place' \in 0 .. 2 /\ Waiting' \in Waitings
<1>1. TypeOK => Part \in 1 .. 7 /\ Place \in 0 .. 2 /\ Waiting \in Waitings
  BY DEF TypeOK, ScanThread, Part, Place, Waiting, Waitings
<1>2. TypeOK' => Part' \in 1 .. 7 /\ Place' \in 0 .. 2 /\ Waiting' \in Waitings
  BY DEF TypeOK, ScanThread, Part, Place, Waiting, Waitings
<1> QED
  BY <1>1, <1>2

(* A step takes the run to a later part, or takes something that waited,   *)
(* or goes on with what it took.                                           *)
Onward ==
    \/ Part' < Part
    \/ Part' = Part /\ \E x \in Waiting : Waiting' = Waiting \ {x} /\ Place = 0
    \/ Part' = Part /\ Waiting' = Waiting /\ Place' < Place

LEMMA RunStep ==
    ASSUME TypeOK, Scan, scan.pc # "idle", scan'.pc # "idle" PROVE Onward
<1> USE DEF Onward, Part, Waiting, Place, TypeOK, ScanThread
<1>1. CASE RelabelBook \/ RelabelRow \/ RelabelDone
  <2>1. CASE RelabelBook
    <3>1. CASE folder[Relabelled(scan.issue)] = {}
      BY <2>1, <3>1 DEF RelabelBook
    <3>2. CASE folder[Relabelled(scan.issue)] # {}
      BY <2>1, <3>2 DEF RelabelBook
    <3> QED
      BY <3>1, <3>2
  <2>2. CASE RelabelRow
    BY <2>2 DEF RelabelRow
  <2>3. CASE RelabelDone
    BY <2>3 DEF RelabelDone
  <2> QED
    BY <1>1, <2>1, <2>2, <2>3
<1>2. ASSUME NEW k \in Keys, RelabelSkip(k) PROVE Onward
  BY <1>2 DEF RelabelSkip
<1>3. ASSUME NEW k \in Keys, RelabelMove(k) PROVE Onward
  BY <1>3 DEF RelabelMove
<1>4. CASE ScanList
  BY <1>4 DEF ScanList
<1>5. ASSUME NEW d \in Downloads, Inspect(d) PROVE Onward
  <2>1. /\ scan.pc = "inspect" /\ d \in scan.todo /\ scan'.pc \in {"inspect", "note"}
        /\ scan'.todo = scan.todo \ {d} /\ scan'.again = scan.again
    BY <1>5 DEF Inspect
  <2> QED
    BY <2>1
<1>6. CASE InspectNote \/ InspectAgain
  <2>1. CASE InspectNote
    BY <2>1 DEF InspectNote
  <2>2. CASE InspectAgain
    BY <2>2 DEF InspectAgain
  <2> QED
    BY <1>6, <2>1, <2>2
<1>7. CASE InspectDone
  BY <1>7 DEF InspectDone, Relabelling
<1>8. ASSUME NEW d \in Downloads, ItemSkip(d) \/ ItemDamaged(d) \/ ItemLink(d) \/ ItemConflict(d)
      PROVE  Onward
  <2>1. /\ scan.pc = "items" /\ d \in scan.todo /\ scan'.pc \in {"items", "save"}
        /\ scan'.todo = scan.todo \ {d}
    BY <1>8 DEF ItemSkip, ItemDamaged, ItemLink, ItemConflict
  <2> QED
    BY <2>1
<1>9. CASE ItemSave \/ ItemsDone
  <2>1. CASE ItemSave
    BY <2>1 DEF ItemSave
  <2>2. CASE ItemsDone
    BY <2>2 DEF ItemsDone
  <2> QED
    BY <1>9, <2>1, <2>2
<1>10. ASSUME NEW k \in Keys, UnseenDuplicate(k) \/ UnseenCheck(k) PROVE Onward
  <2>1. /\ scan.pc = "unseen" /\ k \in scan.unseen /\ scan'.pc = "unseen"
        /\ scan'.unseen = scan.unseen \ {k}
    BY <1>10 DEF UnseenDuplicate, UnseenCheck
  <2> QED
    BY <2>1
<1>11. CASE ScanStart \/ ScanEnd
  BY <1>11 DEF ScanStart, ScanEnd, Idle
<1> QED
  BY <1>1, <1>2, <1>3, <1>4, <1>5, <1>6, <1>7, <1>8, <1>9, <1>10, <1>11 DEF Scan

LEMMA FewerSteps ==
    ASSUME TypeOK, TypeOK', scan.pc # "idle", Onward \/ scan'.pc = "idle"
    PROVE  StepsLeft' < StepsLeft
<1>1. /\ Part \in 1 .. 7 /\ Place \in 0 .. 2 /\ Waiting \in Waitings
      /\ Part' \in 1 .. 7 /\ Place' \in 0 .. 2 /\ Waiting' \in Waitings
  BY PartTypes
<1>2. PICK w \in Nat, n \in Nat, m \in Nat :
         /\ w = Most + 1 /\ n = Cardinality(Waiting) /\ m = Cardinality(Waiting')
         /\ 3 * n + 2 < w /\ 3 * m + 2 < w
  <2>1. Most + 1 \in Nat
    BY Sizes
  <2>2. Cardinality(Waiting) \in Nat /\ 3 * Cardinality(Waiting) + 2 < Most + 1
    BY <1>1, Sizes
  <2>3. Cardinality(Waiting') \in Nat /\ 3 * Cardinality(Waiting') + 2 < Most + 1
    BY <1>1, Sizes
  <2> QED
    BY <2>1, <2>2, <2>3
<1>3. PICK p \in 1 .. 7, q \in 1 .. 7, i \in 0 .. 2, j \in 0 .. 2 :
         p = Part /\ q = Part' /\ i = Place /\ j = Place'
  BY <1>1
<1>4. /\ StepsLeft = w * p + 3 * n + i
      /\ StepsLeft' = IF scan'.pc = "idle" THEN 0 ELSE w * q + 3 * m + j
  BY <1>2, <1>3 DEF StepsLeft, Most
<1>5. Onward => q < p \/ (q = p /\ ((m = n - 1 /\ i = 0) \/ (m = n /\ j < i)))
  <2>1. ASSUME NEW x \in Waiting, Waiting' = Waiting \ {x} PROVE m = n - 1
    BY <1>1, <1>2, <2>1, OneLess
  <2>2. ASSUME Waiting' = Waiting PROVE m = n
    BY <1>2, <2>2
  <2> QED
    BY <1>3, <2>1, <2>2 DEF Onward
<1>6. CASE scan'.pc = "idle"
  <2>1. w * p >= w
    OBVIOUS
  <2> QED
    BY <1>2, <1>4, <1>6, <2>1
<1>7. CASE q < p
  <2>1. w * q + w <= w * p
    BY <1>7
  <2> QED
    BY <1>2, <1>4, <2>1
<1>8. CASE q = p /\ ((m = n - 1 /\ i = 0) \/ (m = n /\ j < i))
  <2>1. 3 * m + j < 3 * n + i
    BY <1>8
  <2> QED
    BY <1>4, <1>8, <2>1
<1> QED
  BY <1>5, <1>6, <1>7, <1>8

(* A run ends: from its start on it takes at most Longest steps, and what  *)
(* the handlers do meanwhile, or downloads that arrive and leave, gives it *)
(* no more to do. The code: _run in scanner.py iterates over lists it has  *)
(* made before, and reads and relabels a second time at most.              *)
THEOREM RunsEnd == Spec => [](StepsLeft \in 0 .. Longest) /\ RunsGetOn
<1>1. ASSUME TypeOK PROVE StepsLeft \in 0 .. Longest
  <2>1. /\ Part \in 1 .. 7 /\ Place \in 0 .. 2
        /\ Most \in Nat /\ Cardinality(Waiting) \in Nat /\ 3 * Cardinality(Waiting) + 2 <= Most
    BY <1>1, PartTypes, Sizes
  <2>2. PICK w \in Nat : w = Most + 1
    BY <2>1
  <2>3. PICK p \in 1 .. 7 : p = Part
    BY <2>1
  <2>4. w * p >= 0 /\ w * p <= w * 7 /\ w * 8 = w * 7 + w /\ w * 7 \in Int /\ w * p \in Int
    OBVIOUS
  <2> QED
    BY <2>1, <2>2, <2>3, <2>4 DEF StepsLeft, Longest
<1>2. ASSUME TypeOK, TypeOK', [Next]_vars, scan.pc # "idle"
      PROVE  StepsLeft' < StepsLeft \/ (StepsLeft' = StepsLeft /\ ~Scan)
  <2>1. Scan \/ scan'.pc = "idle" => StepsLeft' < StepsLeft
    BY <1>2, RunStep, FewerSteps
  <2>2. UNCHANGED scan => StepsLeft' = StepsLeft
    BY DEF StepsLeft, Most, Part, Waiting, Place
  <2>3. Scan \/ UNCHANGED scan \/ scan'.pc = "idle"
    BY <1>2 DEF Next, CutShort, Idle, Handlers, Choose, Remove, Restore, Fix, Outside, Arrive, Leave,
                FolderLost, vars
  <2> QED
    BY <2>1, <2>2, <2>3
<1> QED
  BY <1>1, <1>2, TypeCorrect, PTL DEF Spec, RunsGetOn
=============================================================================
