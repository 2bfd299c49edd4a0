------------------------------- MODULE Folder -------------------------------
(***************************************************************************)
(* Folder mode (sources.py, the Scan API in routes_auth.py, the unmatched  *)
(* files in scanner.py and repo.py): downloads come and go in the source   *)
(* folders, a finished-download call marks one, a run lists the folders,   *)
(* records the files it cannot read and links what is finished, and a user *)
(* ignores files and teaches names meanwhile.  The run is a thread of its  *)
(* own; handlers use the same tables, one transaction at a time.           *)
(*                                                                         *)
(* Of each download one file is followed; its others are read by all rules.*)
(***************************************************************************)
EXTENDS Names

CONSTANTS
    Downloads,      \* names of entries in the source folders
    Libraries,
    LibraryOf,      \* the library whose folder an entry is in
    Files,          \* paths of issue files there may be
    Path,           \* that of the file followed
    Written,        \* patterns and publications a user thinks of, by library
    MaxPatterns,    \* MAX_PATTERNS_PER_LIBRARY
    Events,         \* kinds of outside events that may happen
    MaxEvents,      \* bound: how many of them
    None            \* no download

ASSUME FolderConstants ==
    /\ IsFiniteSet(Downloads) /\ IsFiniteSet(Libraries)
    /\ LibraryOf \in [Downloads -> Libraries]
    /\ Path \in [Downloads -> Files]
    /\ MaxPatterns \in Nat /\ MaxEvents \in Nat
    /\ None \notin Downloads

VARIABLES
    disk,           \* what the client has written of a download
    settled,        \* unchanged for the settle time
    marks,          \* state api_finished: downloads reported finished
    api,            \* the finished-download call at work: what it marks, what it read
    patterns,       \* table name_patterns, by library, oldest first
    rows,           \* table unmatched: downloads whose file is in it
    ignored,        \* table ignored_files
    known,          \* state unmatched_seen
    linked,         \* what is linked of a download: "no", "whole", "part"
    scan,           \* the run
    warned,         \* history: warnings about a download's file
    reused,         \* history: names used again while an older mark counted
    events          \* bound: outside events so far

(* What may be taught, and what each file then says, worked out once.      *)
Taught == (UNION {Written[l] : l \in Libraries}) \cup (UNION {Suggest(file) : file \in Files})
Lists == UNION {[1 .. n -> Taught] : n \in 0 .. MaxPatterns}
Readings == {[of |-> of, issue |-> Read(of[1], of[2])] : of \in Files \X Lists}
Reading(file, list) == (CHOOSE r \in Readings : r.of = <<file, list>>).issue

vars == <<disk, settled, marks, api, patterns, rows, ignored, known, linked, scan, warned, reused, events>>

(* "partial" holds a file with one of PARTIAL_SUFFIXES, "writing" none but *)
(* is not complete either, "done" is.                                      *)
Phases == {"none", "partial", "writing", "done"}

Untaught == [l \in Libraries |-> <<>>]

Idle == [pc |-> "idle", patterns |-> Untaught, finished |-> {}, todo |-> {}, scanned |-> {}, seen |-> {},
         complete |-> {}, inspect |-> {}, reading |-> None, ignoring |-> FALSE, cleared |-> FALSE,
         current |-> {}, kept |-> {}]

Init ==
    /\ disk = [d \in Downloads |-> "none"]
    /\ settled = {}
    /\ marks = {}
    /\ api = [of |-> None, marks |-> {}]
    /\ patterns = Untaught
    /\ rows = {}
    /\ ignored = {}
    /\ known = {}
    /\ linked = [d \in Downloads |-> "no"]
    /\ scan = Idle
    /\ warned = [d \in Downloads |-> 0]
    /\ reused = {}
    /\ events = 0

Event(kind) ==
    /\ kind \in Events
    /\ events < MaxEvents
    /\ events' = events + 1

---------------------------------------------------------------------------
(* The download client, or whatever fills the folders.                     *)

(* Some step may still take the name for a finished download.              *)
Counts(d) ==
    \/ d \in marks \cup scan.finished \cup scan.complete
    \/ api.of # None /\ d \in api.marks \cup {api.of}

(* A new download, with other issues than an older one of its name.        *)
Appear(d) ==
    /\ Event("appear")
    /\ disk[d] = "none"
    /\ \E phase \in {"partial", "writing"} : disk' = [disk EXCEPT ![d] = phase]
    /\ settled' = settled \ {d}
    /\ linked' = [linked EXCEPT ![d] = "no"]
    /\ warned' = [warned EXCEPT ![d] = 0]
    /\ reused' = IF Counts(d) THEN reused \cup {d} ELSE reused \ {d}
    /\ UNCHANGED <<marks, api, patterns, rows, ignored, known, scan>>

(* The last write, or the renaming of the last partial file.               *)
Complete(d) ==
    /\ disk[d] \in {"partial", "writing"}
    /\ disk' = [disk EXCEPT ![d] = "done"]
    /\ settled' = settled \ {d}
    /\ UNCHANGED <<marks, api, patterns, rows, ignored, known, linked, scan, warned, reused, events>>

Vanish(d) ==
    /\ Event("vanish")
    /\ disk[d] # "none"
    /\ disk' = [disk EXCEPT ![d] = "none"]
    /\ settled' = settled \ {d}
    /\ UNCHANGED <<marks, api, patterns, rows, ignored, known, linked, scan, warned, reused>>

(* The settle time passes.  A client without partial names writes more     *)
(* often than that (docs/setup.md tells the others to use them).           *)
Age(d) ==
    /\ disk[d] \in {"partial", "done"}
    /\ d \notin settled
    /\ settled' = settled \cup {d}
    /\ UNCHANGED <<disk, marks, api, patterns, rows, ignored, known, linked, scan, warned, reused, events>>

---------------------------------------------------------------------------
(* _folder_api_scan: the marks are read, and written in a transaction of   *)
(* their own; a run's thread may write them in between.                    *)
ApiRead(d) ==
    /\ Event("api")
    /\ api.of = None
    /\ disk[d] = "done"
    /\ api' = [of |-> d, marks |-> marks]
    /\ UNCHANGED <<disk, settled, marks, patterns, rows, ignored, known, linked, scan, warned, reused>>

ApiWrite ==
    /\ api.of # None
    /\ marks' = api.marks \cup {api.of}
    /\ api' = [of |-> None, marks |-> {}]
    /\ UNCHANGED <<disk, settled, patterns, rows, ignored, known, linked, scan, warned, reused, events>>

(* unmatched_ignore: refused without a row.                                *)
Ignore(d) ==
    /\ Event("ignore")
    /\ d \in rows
    /\ ignored' = ignored \cup {d}
    /\ rows' = rows \ {d}
    /\ UNCHANGED <<disk, settled, marks, api, patterns, known, linked, scan, warned, reused>>

(* unmatched_unignore.                                                     *)
Unignore(d) ==
    /\ Event("unignore")
    /\ d \in ignored
    /\ ignored' = ignored \ {d}
    /\ warned' = [warned EXCEPT ![d] = 0]
    /\ UNCHANGED <<disk, settled, marks, api, patterns, rows, known, linked, scan, reused>>

(* add_name_pattern: a text that is there keeps its place.                 *)
Saved(l, taught) ==
    IF \E i \in DOMAIN patterns[l] : patterns[l][i].parts = taught.parts
    THEN [i \in DOMAIN patterns[l] |-> IF patterns[l][i].parts = taught.parts THEN taught ELSE patterns[l][i]]
    ELSE Append(patterns[l], taught)

(* pattern_save; file is what the form was opened for, if anything.  (What *)
(* it says of a publication's numbers is the choice of module Numbering.)  *)
PatternSave(l, file, taught) ==
    /\ Event("teach")
    /\ IsPattern(taught.parts)
    /\ taught.publication # <<>> \/ Has(taught.parts, "paper")
    /\ file # <<>> => Parse(taught, file) # {}
    /\ Len(Saved(l, taught)) <= MaxPatterns
    /\ patterns' = [patterns EXCEPT ![l] = Saved(l, taught)]
    /\ UNCHANGED <<disk, settled, marks, api, rows, ignored, known, linked, scan, warned, reused>>

(* The Fix form's proposal (pattern_new) is saved, perhaps when the row it  *)
(* was opened for is gone.                                                 *)
SaveProposal(d) ==
    \E taught \in Suggest(Path[d]) : PatternSave(LibraryOf[d], Path[d], taught)

(* pattern_delete: what no name tells any more is new on the page.         *)
PatternDelete(l, i) ==
    /\ Event("forget")
    /\ i \in DOMAIN patterns[l]
    /\ patterns' = [patterns EXCEPT ![l] = RemoveAt(@, i)]
    /\ warned' = [d \in Downloads |-> IF LibraryOf[d] = l /\ Reading(Path[d], patterns[l]) # {}
                                      THEN 0 ELSE warned[d]]
    /\ UNCHANGED <<disk, settled, marks, api, rows, ignored, known, linked, scan, reused>>

---------------------------------------------------------------------------
(* A run.                                                                  *)
ScanStart ==
    /\ scan.pc = "idle"
    /\ scan' = [Idle EXCEPT !.pc = "list", !.patterns = patterns, !.finished = marks,
                           !.todo = Libraries]
    /\ UNCHANGED <<disk, settled, marks, api, patterns, rows, ignored, known, linked, warned, reused, events>>

(* Faulty: a partial file that no longer changes does not count.           *)
FinishedSettled(d, finished) == disk[d] # "none" /\ (d \in settled \/ d \in finished)

(* Faulty: only the API says that a download is finished.                  *)
FinishedMarked(d, finished) == disk[d] \in {"writing", "done"} /\ d \in finished

(* FolderSource.downloads: no partial file, and settled or marked.         *)
Finished(d, finished) ==
    /\ disk[d] \in {"writing", "done"}
    /\ d \in settled \/ d \in finished

In(l) == {d \in Downloads : LibraryOf[d] = l /\ disk[d] # "none"}

Inspected == scan.inspect = {} /\ scan.reading = None

(* The folder of a library is listed, once the one before is inspected.    *)
List(l) ==
    /\ scan.pc = "list" /\ Inspected
    /\ l \in scan.todo
    /\ LET found == {d \in In(l) : Finished(d, scan.finished)}
       IN  scan' = [scan EXCEPT !.todo = @ \ {l}, !.scanned = @ \cup {l}, !.seen = @ \cup In(l),
                                !.complete = @ \cup found, !.inspect = found]
    /\ UNCHANGED <<disk, settled, marks, api, patterns, rows, ignored, known, linked, warned, reused, events>>

(* Its folder cannot be read: the library is left out of this run.         *)
ListFails(l) ==
    /\ Event("unreadable")
    /\ scan.pc = "list" /\ Inspected
    /\ l \in scan.todo
    /\ scan' = [scan EXCEPT !.todo = @ \ {l}]
    /\ UNCHANGED <<disk, settled, marks, api, patterns, rows, ignored, known, linked, warned, reused>>

(* _inspect: the ignored paths are read before the files are looked at ... *)
InspectRead(d) ==
    /\ d \in scan.inspect
    /\ scan.reading = None
    /\ scan' = [scan EXCEPT !.reading = d, !.ignoring = d \in ignored]
    /\ UNCHANGED <<disk, settled, marks, api, patterns, rows, ignored, known, linked, warned, reused, events>>

(* Faulty: rows are added, never cleared.                                  *)
ClearedNot(d) == rows

(* clear_unmatched_for ...                                                 *)
Cleared(d) == rows \ {d}

(* ... and the rows are written after it, ...                              *)
InspectClear(d) ==
    /\ scan.reading = d /\ ~scan.cleared
    /\ rows' = Cleared(d)
    /\ scan' = [scan EXCEPT !.cleared = TRUE]
    /\ UNCHANGED <<disk, settled, marks, api, patterns, ignored, known, linked, warned, reused, events>>

(* ... by record_unmatched, in another transaction, for a file that is     *)
(* neither read, with the patterns there were when the run began, nor      *)
(* ignored.                                                                *)
InspectRecord(d) ==
    /\ scan.reading = d /\ scan.cleared
    /\ rows' = IF Reading(Path[d], scan.patterns[LibraryOf[d]]) = {} /\ ~scan.ignoring
                THEN rows \cup {d} ELSE rows
    /\ scan' = [scan EXCEPT !.reading = None, !.ignoring = FALSE, !.cleared = FALSE, !.inspect = @ \ {d}]
    /\ UNCHANGED <<disk, settled, marks, api, patterns, ignored, known, linked, warned, reused, events>>

(* With no library scanned, the run is over; names are not read any more.  *)
Listed ==
    /\ scan.pc = "list" /\ Inspected /\ scan.todo = {}
    /\ scan' = IF scan.scanned = {} THEN Idle ELSE [scan EXCEPT !.pc = "link", !.patterns = Untaught]
    /\ UNCHANGED <<disk, settled, marks, api, patterns, rows, ignored, known, linked, warned, reused, events>>

(* _process_item, for what was finished when it was listed.                *)
Link(d) ==
    /\ scan.pc = "link"
    /\ d \in scan.complete
    /\ scan' = [scan EXCEPT !.complete = @ \ {d}]
    /\ linked' = IF disk[d] = "none" \/ linked[d] # "no" THEN linked
                 ELSE [linked EXCEPT ![d] = IF disk[d] = "done" THEN "whole" ELSE "part"]
    /\ UNCHANGED <<disk, settled, marks, api, patterns, rows, ignored, known, warned, reused, events>>

Gone == {d \in Downloads : LibraryOf[d] \in scan.scanned /\ d \notin scan.seen}

(* mark_torrents_absent, prune_unmatched and prune_ignored.                *)
Prune ==
    /\ scan.pc = "link" /\ scan.complete = {}
    /\ rows' = rows \ Gone
    /\ ignored' = ignored \ Gone
    /\ scan' = [scan EXCEPT !.pc = "warn"]
    /\ UNCHANGED <<disk, settled, marks, api, patterns, known, linked, warned, reused, events>>

(* Faulty: a run remembers what it has warned about, not what there is.    *)
KnownOfRun == scan.current \ known

(* What is known afterwards: every row there was.                          *)
Known == scan.current

(* _warn_new_unmatched: the warnings go to the activity log, ...           *)
Warn ==
    /\ scan.pc = "warn"
    /\ warned' = [d \in Downloads |-> IF d \in rows \ known THEN warned[d] + 1 ELSE warned[d]]
    /\ scan' = [scan EXCEPT !.pc = "remember", !.current = rows]
    /\ UNCHANGED <<disk, settled, marks, api, patterns, rows, ignored, known, linked, reused, events>>

(* ... and then the state says what is known.                              *)
Remember ==
    /\ scan.pc = "remember"
    /\ known' = Known
    /\ scan' = [scan EXCEPT !.pc = "forget", !.current = {}]
    /\ UNCHANGED <<disk, settled, marks, api, patterns, rows, ignored, linked, warned, reused, events>>

(* Faulty: marks of downloads that are gone are kept.                      *)
KeptAll == marks

(* Only what this run has seen stays marked: a library that was left out,  *)
(* and a download that came after its folder was listed, lose their marks. *)
Kept == marks \cap scan.seen

(* _forget_api_finished: the marks are read, and written back in another   *)
(* transaction, over what a call has marked in between.                    *)
ForgetRead ==
    /\ scan.pc = "forget"
    /\ scan' = IF Kept = marks THEN Idle ELSE [scan EXCEPT !.pc = "write", !.kept = Kept]
    /\ UNCHANGED <<disk, settled, marks, api, patterns, rows, ignored, known, linked, warned, reused, events>>

ForgetWrite ==
    /\ scan.pc = "write"
    /\ marks' = scan.kept
    /\ scan' = Idle
    /\ UNCHANGED <<disk, settled, api, patterns, rows, ignored, known, linked, warned, reused, events>>

(* What a stop makes a later run warn about again: what it has not come to *)
(* remember, and a file whose row it has just cleared.                     *)
WarnedAgain(d) ==
    \/ scan.pc = "remember" /\ d \in scan.current \ known
    \/ scan.reading = d /\ scan.cleared

(* The container restarts: the run and the call are gone.                  *)
Restart ==
    /\ Event("restart")
    /\ scan' = Idle
    /\ api' = [of |-> None, marks |-> {}]
    /\ warned' = [d \in Downloads |-> IF WarnedAgain(d) THEN 0 ELSE warned[d]]
    /\ UNCHANGED <<disk, settled, marks, patterns, rows, ignored, known, linked, reused>>

---------------------------------------------------------------------------
Run ==
    \/ ScanStart \/ Listed \/ Prune \/ Warn \/ Remember \/ ForgetRead \/ ForgetWrite
    \/ \E l \in Libraries : List(l)
    \/ \E d \in Downloads : InspectRead(d) \/ InspectClear(d) \/ InspectRecord(d) \/ Link(d)

Next ==
    \/ Run \/ ApiWrite \/ Restart
    \/ \E l \in Libraries :
          \/ ListFails(l)
          \/ \E taught \in Written[l] : PatternSave(l, <<>>, taught)
          \/ \E i \in 1 .. MaxPatterns : PatternDelete(l, i)
    \/ \E d \in Downloads :
          \/ Appear(d) \/ Complete(d) \/ Vanish(d) \/ Age(d)
          \/ ApiRead(d) \/ Ignore(d) \/ Unignore(d) \/ SaveProposal(d)

Spec == Init /\ [][Next]_vars

(* Scans keep coming (scan_interval_minutes > 0), a run's steps and a      *)
(* handler's write end, and time passes.                                   *)
FairSpec ==
    /\ Spec
    /\ WF_vars(Run)
    /\ WF_vars(ApiWrite)
    /\ \A d \in Downloads : WF_vars(Age(d))

---------------------------------------------------------------------------
PatternLists == [Libraries -> Seq(Taught)]

Running == [pc : {"idle", "list", "link", "warn", "remember", "forget", "write"},
            finished : SUBSET Downloads, todo : SUBSET Libraries, scanned : SUBSET Libraries,
            seen : SUBSET Downloads, complete : SUBSET Downloads, inspect : SUBSET Downloads,
            reading : Downloads \cup {None}, ignoring : BOOLEAN, cleared : BOOLEAN,
            current : SUBSET Downloads, kept : SUBSET Downloads, patterns : PatternLists]

(* Types: what a run inspects it has just listed as finished, it reads one *)
(* file at a time, and what settles is there.                              *)
TypeOK ==
    /\ disk \in [Downloads -> Phases]
    /\ settled \in SUBSET {d \in Downloads : disk[d] \in {"partial", "done"}}
    /\ marks \in SUBSET Downloads
    /\ api \in [of : Downloads \cup {None}, marks : SUBSET Downloads]
    /\ patterns \in PatternLists
    /\ rows \in SUBSET Downloads /\ known \in SUBSET Downloads /\ ignored \in SUBSET Downloads
    /\ linked \in [Downloads -> {"no", "whole", "part"}]
    /\ scan \in Running
    /\ scan.inspect \subseteq scan.complete /\ scan.complete \subseteq scan.seen
    /\ scan.reading # None => scan.reading \in scan.inspect
    /\ scan.inspect # {} => scan.pc = "list"
    /\ warned \in [Downloads -> Nat]
    /\ reused \in SUBSET Downloads
    /\ events \in 0 .. MaxEvents

(* Nothing unfinished is linked (docs/setup.md: finished means settled and *)
(* no partial files, or reported by the API), unless the name had been     *)
(* used before and the older download's mark still counted.                *)
LinkedIsFinished == \A d \in Downloads : linked[d] = "part" => d \in reused

(* A user is warned once about a file, until it is replaced, was ignored,  *)
(* or the run was stopped between two of its writes (_warn_new_unmatched), *)
(* however ignoring and runs interleave.                                   *)
WarnedOnce == \A d \in Downloads : warned[d] <= 1

(* A finished download is linked in the end, whatever becomes of its mark: *)
(* it settles.                                                             *)
FinishedIsLinked ==
    \A d \in Downloads : disk[d] = "done" ~> (linked[d] # "no" \/ disk[d] # "done")

(* What the built-in rules do not read, is here, and is to be shown.       *)
Odd == {d \in Downloads : ParseName(Last(Path[d])) = {}}
Here(d) == disk[d] = "done"
Chosen(d) == Reading(Path[d], patterns[LibraryOf[d]]) = {} /\ d \notin ignored

(* The Unmatched page follows what the user ignores and teaches in the     *)
(* end, whatever a run that was at work wrote over it.                     *)
RowsFollowChoices == \A d \in Odd : Here(d) ~> ((d \in rows <=> Chosen(d)) \/ ~Here(d))

(* Teaching a name changes how a file that was read is read only if one    *)
(* part, of its own name, goes before the built-in rules, or if the        *)
(* pattern that read it got another publication (Scanner._parse,           *)
(* add_name_pattern).                                                      *)
ReadingsStay ==
    [][\A l \in Libraries, file \in Files :
          LET before == Reading(file, patterns[l])
              added == ToSet(patterns'[l]) \ ToSet(patterns[l])
          IN  before \notin {{}, Reading(file, patterns'[l])} /\ Len(patterns'[l]) >= Len(patterns[l]) =>
                \E p \in added :
                    \/ Len(p.parts) = 1 /\ before = ParseName(Last(file))
                    \/ \E q \in ToSet(patterns[l]) : q.parts = p.parts /\ Parse(q, file) = before]_patterns

(* The mark of a download that is gone is forgotten, so that it does not   *)
(* speak for a later one of that name.                                     *)
MarksAreForgotten ==
    \A d \in Downloads : (d \in marks /\ disk[d] = "none") ~> (d \notin marks \/ disk[d] # "none")
=============================================================================
