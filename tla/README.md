# Periodica in TLA+

A verification development kept beside Periodica (`periodica/`, Python): the
program finds newspapers and magazines among the downloads of qBittorrent (or of
a folder), hardlinks them into a library for Jellyfin, numbers the issues, and
removes them, with their torrents, when their time is over.  It is one process:
an asyncio event loop with the web handlers and the scheduler task, worker
threads for scans, manual deletes and Jellyfin refreshes, and one SQLite file.
Most of what can go wrong in it is in the order of steps that share this
database, the library on disk and qBittorrent.

The modules are translated from the source; where this text says "the code" it
means that, never what a document promises.  Line numbers of every definition
are in `PROJECT.json` under `map`.

## 1. The system's parts

| Part (source) | State it keeps | Operations | What makes it correct |
|---|---|---|---|
| **Automatic delete** (`retention.py`) | tables `deletions`, `torrents.keep`, `issues`; `app_state` block and approval | plan, cancel, queue, gate, delete, remove issues, finish | only expired, not kept, after the grace period, within the limit or approved; nothing recorded as removed that is there |
| **Manual delete** (`manual_delete.py`) | the same, and the scan lock | check, delete in a thread | never at the same time as a scan; rows agree with the disk |
| **Library links and health** (`linker.py`, `health.py`) | issue folders, their marker, book and `metadata.opf` | link, replace, mark, remove folder, check | foreign files are never touched; what is damaged is reported and repaired only when asked |
| **Scan** (`scanner.py`) | lock, report, the snapshots of a run | inspect, process items, check unseen, reconcile numbering, retention | rows and library agree after every interruption |
| **Pages and issue actions** (`web/routes_main.py`) | all tables | keep, unkeep, delete now, approve, arm, disarm, remove, restore, fix | effective whatever a running scan has read already |
| **Scheduler** (`app.py`, `Scanner.run`) | event, trigger, request id, lock | request, take, run, skip, settle | no request is lost; "queued" is true |
| **Jellyfin refreshes** (`jellyfin.py`) | `_pending`, `_running`, status | request, take, refresh, retire | every change is followed by a refresh; one at a time |
| **Storage** (`repo.py`) | the SQLite tables | one transaction per call | atomic transactions |
| **Start and migrations** (`db.py`, `app.py`) | schema version, backups | open, refuse, back up, migrate, serve | each migration once and in order wherever a start was cut short; an upgrade can be undone |
| **qBittorrent client** (`qbittorrent.py`) | session cookie | list, files, delete after a re-check | never deletes what is incomplete or in another category |
| **Settings** (`settings.py`, `web/routes_settings.py`) | table `settings`, the first library's fields, pending confirmations | save, preview, confirm | a dangerous change is confirmed and disarms; what was planned under old settings is cancelled |
| **Publications and numbering** (`numbering.py`, `issues.py`) | numbering of a publication, labels | decide, classify, reconcile | one label per issue, stable under new files |
| **Names, paths and patterns** (`parser.py`, `patterns.py`, `paths.py`) | user patterns | read, propose, save, delete | a new pattern leaves what was read alone, unless it is meant to change it |
| **Download sources** (`sources.py`, the finished-download call) | settle times, "finished" marks, unmatched and ignored files | list, settle, mark, ignore | nothing half-written is linked, everything finished is; a mark dies with its download; the Unmatched page follows the user |
| **Libraries** (`libraries.py`, `web/routes_libraries.py`) | table `libraries`, pending edits | create, edit, confirm, switch, delete | libraries do not overlap, a run keeps the ones it works on, a change disarms |
| **Sign-in and API** (`auth.py`, `web/routes_auth.py`, `web/deps.py`) | users, sessions, failed attempts | set up, log in, out, change password | guesses stay few from however many addresses; sessions follow the password |
| **Covers, metadata, formats** (`covers.py`, `metadata.py`, `formats.py`) | files beside an issue | check a source, render | a pure function of a file |
| **Network rules** (`netsafe.py`) | none | allow or refuse a URL | stateless |
| **Logging, configuration, command line** | ring buffer, start-up values | | no other part depends on it |

How they interact:

- The **scan thread** is the only one that links issues and that makes a plan of
  deletions.  It holds `Scanner._lock` from start to end; a manual delete, a dry
  run and the deletion of a library try the same lock and give up when it is
  held.  The web handlers do **not** take it: they write rows between any two
  steps of a run.
- A handler without an `await` is one step for other handlers, but not for the
  threads.  Each `Repo` method is one transaction, so a run sees rows that
  were read at different moments.
- A run leaves Jellyfin requests behind; `RefreshCoordinator` merges them and
  serves them from a thread that starts and ends by need.
- Handlers wake the **scheduler** through an `asyncio.Event` and a trigger it
  shows as queued; the scheduler runs the scan in a thread.
- **qBittorrent**, the file system and the user's own hands change things under
  all of these, and the process may be killed and started again at any point.

The hard behaviours, each at its line, are the `hazards` of `PROJECT.json`.
They fall into: plans that are stale when carried out; a handler between two
steps of a thread; a crash between an effect and the row that records it;
answers of qBittorrent that get lost; queue, cancel, keep and queue again;
batches at the limit and approvals; merging of requests; wake-ups set while
they are being taken; two downloads of one issue that come and go in any order;
copies of settings confirmed long after they were made; marks and rows that a
run and a handler both rewrite; a start cut short in the middle of an upgrade.

## 2. Modules

| Module | What it is |
|---|---|
| `Retention` | automatic delete in the scan, manual delete, and every handler that touches the same rows |
| `RetentionMC`, `RetentionProofs` | its instances for TLC; its theorems |
| `Library` | linking, health check, Fix, Remove, Restore, duplicates |
| `LibraryMC`, `LibraryProofs` | its instances; its theorems |
| `Numbering` | month or issue number: the rules, the scan that applies them, relabelling |
| `NumberingMC`, `NumberingProofs` | its instances; its theorems |
| `FollowUp` | the abstract promise of the Jellyfin refreshes |
| `Refresh` | `RefreshCoordinator`, shown to implement `FollowUp` |
| `RefreshMC`, `RefreshProofs` | its instances; its theorems and the refinement proof |
| `Scheduler` | the scheduler task, requests and the lock |
| `SchedulerMC`, `SchedulerProofs` | its instances; its theorems |
| `Arming` | the abstract promise of arming automatic delete |
| `Config` | the settings and library pages, shown to implement `Arming` |
| `ConfigMC`, `ConfigProofs` | its instances; its theorems and the refinement proof |
| `Names` | what a file's name says: the built-in rules, patterns, their order, proposals (operators only) |
| `Folder` | folder mode: sources, marks, unmatched and ignored files, and names taught meanwhile, read with `Names` |
| `FolderMC`, `FolderProofs` | its instances; its theorems |
| `Upgrade` | the start of the app on its database: backup, migrations, refusal |
| `SignIn` | setup, sign-in, sessions, password change, the login throttle |
| `App` | `Upgrade` and `SignIn` together: the account is in the database that is upgraded and restored, the throttle in the process that stops |
| `AppMC`, `AppProofs` | its instances; the theorems of all three |

Some definitions carry a twin just above them whose comment begins "Faulty:".
It is the same definition with a plausible mistake, is used by no specification,
and says what the property is sensitive to: with the twin in the place of the
definition the property named beside it in `PROJECT.json` (`mutants`) is violated.

### Atomicity

One action is one database transaction, or one call to the file system,
qBittorrent or Jellyfin, of a thread; the bodies under a lock are one step.
A handler on the event loop is one action, as its calls follow each other
without an `await`; the exception is Remove in `Library`, which deletes a folder
and then writes a row, and is two steps, because the scan thread runs meanwhile.
These steps are merged:

- `Retention.ScanList` and `ScanLink`: the listing with its rows is one step, and
  so is the linking of one download; `Library` has linking in its single steps.
- `ManualRecheck`: the lock and the look-up after it; `ManualDelete`: the call and the
  reading of the linked issues; `ManualFinish`: three writes under the lock after a manual
  delete.  Scans are shut out, and what a handler changes between the two is as if it had
  come before or after.
- `Library.ScanStart`: the inspection of all downloads; what a run offers is
  what the snapshot says, and may be stale in every later step.
- `Numbering`: `_reconcile_numbering` reads the publication and its linked issues
  in one step, and checks a label and renames its folder in one; `Inspect` reads
  and adds the evidence of a January; Remove is one step; an item's row is
  read with the decision to link it, saved and cleared of a problem in another.
- `RemoveFolder`: the reading of the issue and the removal of its folder.
- `Folder`: an item is linked in one step; `Prune` is the marking of absent
  downloads and the two prunings, between which a handler changes nothing they read.
- `Config.ScanEnd`: the whole retention part of a run, whose steps are those of
  `Retention`.

A handler that awaits nothing but its form, which has been read by then, is one
step in `Config` and `SignIn`; one that waits for a dry run in a thread is two.

### Retention

`scan.pc` walks through list, link, (read), plan, apply, queue, gate, and for each due row
delete, call, remove, and back to idle.  `delete_with_files` makes two calls and is two steps:
`Recheck` looks the torrent up (`scan.found`), and `DeleteTorrent` deletes what qBittorrent has
under the hash by then; in between the torrent may have been recategorised, rechecked,
removed or added again, and the code deletes it all the same.  `DeleteRefused` is a
look-up that fails or finds something else, `DeleteUnanswered` a delete that is not answered,
whether it was done or not.  A manual delete takes the same two steps.  The record `scan` holds what the code has in local
variables and `RunContext`: the settings the run loaded, the snapshots of qBittorrent
(`snaps`), the issue rows as read for the plan (`rows`), `plan.torrents` and
`plan.issues`, the due rows as read (`batch`).  `deletions` maps each torrent
and issue to its newest row.  `removal` are the locals of `remove_issues`, for
whichever thread holds the lock.  The handlers are one action each:
`KeepPendingTorrent`, `KeepPendingIssue`, `DeleteNow`, `Unkeep`,
`ToggleIssueKeep`, `RemoveIssue`, `RestoreIssue`, `Arm`, `Disarm`,
`SwitchRetention` (settings page), `Approve`.  `QbitAdd`, `QbitChange`,
`FileChange`, `Tick` and `Restart` are the outside.  History variables record
what the code does not keep and a property needs: `queuedBy` and `hurried` in a
row, `late` (what was kept after the plan of the run in progress) and `credit`
(the approval nobody has used).

### Library

`disk` are the files of the downloads, `reading` how the patterns of the moment
read them, `folder` what is in the library, `rows` the table `issues`.  One item
of a scan goes `ItemRead` (the row and the candidates), `ItemChecked` or
`ItemDamaged` or `ItemUnreadable` (`check_source`, `check_issue`), `ItemLink`,
`ItemMark`, `ItemSave`, `ItemClear`, and `ItemError` (`_issue_error`) from where
it may fail.  `ScanUnseen` and the `Unseen...` actions are `_check_unseen`.
`LibraryChange` is someone at work in the library by hand.

### Numbering

`Decide` and `Remember` are `decide` and what it wants remembered, `paper` is the
publication with its evidence, `NameOf` and `RefOf` are what a download's file is
called and the month the download belongs to.  A run goes `ScanStart` (relabel
by the user's choice), `ScanList`, `Inspect` and `InspectNote` for each download
in any order, `InspectAgain` when something new was detected, `InspectDone`, the
relabelling again, the items and the unseen issues.  `cache` is `_paper_cache`,
`reading` what the snapshots read each file as, `changed` is `_numbering_changed`.
Relabelling an issue is three steps, `RelabelMove` (the folder), `RelabelBook`
(the file in it), `RelabelRow`, any two of which `CutShort` may part.  `known`,
`clean` and `restored` are history: every download listed so far, that nothing has interfered
with a run, and the names of which an issue has been restored.

### Refresh and FollowUp

`pending` is `_pending` (`{}` for `None`), `starting` counts the calls between
`_running = True` and `thread.start()`, `worker` and `todo` are the threads.
`stale` is history: what has changed since the last refresh began.  `FollowUp`
knows what has changed, what is owed and whether a refresh is in progress; the
mapping owes what is pending or taken.

### Scheduler

`loop` is the scheduler task with the trigger and the id it took; `owed` is
history: the requests no run has started after.  Other holders of the lock are
one abstract `other`.

### Config and Arming

`settings` are the shared settings: the client (with its URL and path map), the switch
of automatic delete (with the grace period and the limit, which disarm like it),
the API switch (like every field that neither disarms nor is risky) and `armed`.
`libs` are the libraries, `folder` being both folders of one; the first library's
fields are also in every copy of the settings, as `SettingsStore.load` puts them
there and `save` writes them back.  A risky change is `SaveClient` or
`SaveLibrary` (up to the dry run), `Previewed` (the copy waits in the table
`state`), and `ConfirmSettings`, `ConfirmLibrary` or `Forget` (another answer,
token or time, or a rejected copy).  `lock` is the scan lock with what its
holder works on, `queue` the libraries with pending rows.  `overwritten` is history.
`Arming` knows what is armed and what it depends on, and that only leaving
libraries do not disarm.

### Folder

`disk` is what the client has written of a download, `settled` that nothing
changed in it for the settle time, `marks` the state `api_finished`.  A run goes
`ScanStart` (marks are read), `List` or `ListFails` for each library, `InspectRead`
(the ignored paths), `InspectClear` and `InspectRecord` for each download it has found
finished, `Listed`, `Link`, `Prune`, `Warn`, `Remember`, `ForgetRead` and
`ForgetWrite`.  The call is `ApiRead` and `ApiWrite`, since the run's thread
writes the same state.  `warned` and `reused` are history.

The user teaches with `PatternSave` (a pattern that was written, or
`SaveProposal`, what the Fix form suggests) and forgets with `PatternDelete`; a
run reads every file with the patterns it loaded at its start (`scan.patterns`).

### Names

A name is a sequence of tokens, words or numbers with so many digits, parted by
one separator each; what the code may leave at `None` is a set, empty or of one; a pattern is a sequence of parts, one per name of the path's
end, of texts and placeholders.  `Match` gives each element as little as lets
the rest fit, like the lazy quantifiers of the code's expressions, and `Read` is
`Scanner._parse`.  Which separator stands where, the case of letters, the cleaning
of a publication's name and the lengths of texts are left out; so are texts without a
separator between them, but for the `{any}` right behind a placeholder that a
proposal ends with.

### Upgrade, SignIn and App

`pc` is where `create_app` is, `start` the locals of `migrate`; a backup is a file
that is there before it is complete.  `upgrade` is history: what the database
was when an upgrade first made a backup, and how often it was tried since.
In `SignIn` a time unit is the first lock of the throttle, 30 s; `failures` are its queues, `account` the tables
`users` and `sessions`, where a session also carries the password it was
made with.  `App` says that the account is what the database holds (`content`, so
that a backup has it and a restored one brings it back), that the throttle begins
anew with the process, and that handlers answer while the app serves.

## 3. What the runs check

### Passing runs

| Run | Asks |
|---|---|
| `Retention` | Two downloads that share an issue, and two outside or user events out of sixteen kinds between any steps: `OneDeleter`, `GraceIsWaited`, `KeptIsSafe`, `OnlyExpiredPacks`, `RemovedIsGone`, and `BatchesAreApproved` against a limit of one |
| `RetentionLive` | Under fairness: `DueIsDecided`, `DisarmEmptiesQueue` |
| `Library` | Two downloads of an issue in two formats, one file that may be read as another issue, three events: `RowNamesItsDownload`, `NoUnaskedRepair`, `ForeignFilesAreSafe`, `FirstDownloadStays` |
| `LibraryLive` | Under fairness: `MissingIsReported`, `FixEnds`, `LinkedInTheEnd` |
| `Numbering` | Numbers 1 and 2 of one January, a September issue, the same number in May, a 13 without a date, four events out of eight kinds, under fairness: `DetectedForAReason`, `OneReading`, `LinkedOnce`, `BooksBearTheirLabel`, `SecondLabelShows`, `RelabelledInTheEnd` |
| `Refresh` | Two libraries, two worker threads, four requests or database failures, under fairness: `KeepsPromise` (refinement), `EveryChangeIsPickedUp` |
| `Scheduler` | Five requests, other holders of the lock, database failures or restarts, under fairness: `NoLostWakeup`, `QueuedUntilRun`, `EveryRequestRuns` |
| `Config` | Two users, two libraries, four requests of ten kinds, confirmations at any time: `ArmedAsReviewed` (refinement), `NoOverlapUnlessOverwritten`, `RepointedIsCancelled`, `RiskyIsConfirmed` |
| `Folder` | Two libraries with a download each, one whose file only a pattern can read, two patterns at most, four events of nine kinds, under fairness: `LinkedIsFinished`, `WarnedOnce`, `FinishedIsLinked`, `RowsFollowChoices`, `ReadingsStay` (which also asks of a third file, with a date in its name), `MarksAreForgotten` |
| `App` | Two images three schema versions apart, two backups kept, two sessions, two addresses, five events of eight kinds: `SchemaIsServed`, `Recoverable`, `TriesAreBounded`, `SessionsFollowPassword` |

Every component has one `TypeOK`.  It was checked by TLC before it was proved and is
now a theorem of each (`TypeCorrect`), for every value of the constants; the runs no
longer repeat it.  The same holds of `NumberedStays`, `OneWorker` and `NothingForgotten`, and of `WorkedOnExists` of `Config`.

### Runs that find a violation

Each checks one sentence of the documentation or of a comment against what the
code does; the sentence and the lines are under `findings` in `PROJECT.json`.

| Run | Sentence | What happens |
|---|---|---|
| `RetentionKeepRace` | "Expired items wait in Pending for the grace period, where Keep protects them." (`docs/setup.md:110`) | A Keep pressed while a run is at its deletions comes too late: the plan is not read again. `KeptIsSafe` says what does hold: only that run can do it. |
| `ConfigOverlap` | "Overlapping folders would let one library link (or, through its category, delete) what belongs to another, so they are refused rather than guessed." (`libraries.py:149`) | A confirmed settings change writes the whole copy back, the folders of the first library with it, after another library has been added there. `NoOverlapUnlessOverwritten` says that nothing else can do it. |

Read in the code, and not stated by a run: what changes in a torrent between its
re-check and the delete call is not seen (`qbittorrent.py:225-234`; "right before the call"
in `SECURITY.md:9` is as near as two requests can be), and neither is what a scan has found since
a manual delete was checked (`manual_delete.py:57`); a run that has passed its gate
deletes on after a Disarm (`retention.py:277`); a Fix is a mark of the issue, not of the problem it was
pressed for (`scanner.py:939`); a kept issue whose file could not be
linked does not keep its torrent (`retention.py:171`); a worker of the refreshes
whose handler cannot write to the database leaves `_running` set (`jellyfin.py:184`;
`Refresh.Crash`); a linked issue whose download offers it only in other
formats counts as seen and is not checked (`scanner.py:789`); an impossible date with
the year last is read as a number, `Evening.Post.30.02.2026` as number 2 of 2026
of "Evening Post 30" (`parser.py:45`), where `docs/naming.md:36-38` says that an
impossible date is never mistaken for February.

### Bounds, and why they are enough

`MaxEvents` caps what users, qBittorrent, the file system, failures and restarts
may do; `Events` lists the kinds a run allows.  The steps of the program itself
are not bounded: scans start again for ever.  Two events are enough for the
races of `Retention` (one act that puts a row in place and one that meets a
thread at the wrong moment; that the torrents are there and expired needs no
event); the library three (for
instance: a pattern changes, Fix is pressed, a folder is spoiled), numbering four (two
downloads, then a choice, a removal or an interruption), the refreshes
four and the scheduler five requests, more than either has places to hold them.
`MaxTime = 4` leaves time after a completion at 1, one or two days of keeping and
a grace of 1.  Two torrents that share one of two issues are the smallest pack
with an issue that has two downloads; three files are two formats of one
download and the file of another.  `Config` needs four: a copy is made, two
other changes move a library and put another in its place, or arm and scan, and
the confirmation is no event of its own.  `Folder` needs four (a download comes and is
marked, goes, and another of its name comes; or a name is taught, another before
it forgotten, while a file comes and is ignored).  Two patterns are enough for one to stand before another,
and its three files are one that only a folder dates, the same with a date in its name, and
one that the built-in rules read and a proposal reads otherwise.  `App` needs five (setup, sign-in and a password
change with a stop and a restored backup, or three stops of one upgrade against two backups
kept).  In `App` the window of four first locks, two free attempts and a longest lock of four keep the
proportions of the code's 30, 5 and 30; `TriesAreBounded` allows 4 tries of a name in a
window there, and 9 with the code's numbers.  Symmetry is used where values are alike: users,
categories and folders in `Config`, sessions and addresses in `App` (safety
properties only).  Elsewhere it is not: torrents and files differ by their
contents.

Deadlock is checked in the runs of `Retention`, `Library` and `Numbering`, where a scan can
always start or go on.  It is switched off for `Refresh`, which rests when
nothing is requested, and `Scheduler`, whose task may have died, and for `Config`, `Folder` and `App`, which rest once their bounds
(events, the clock) are used up.

### Fairness, and what justifies it

- `WF(Scan)`, `WF(RemoveIssues)`, `WF(Manual)`, `WF(Work)`, `WF(Loop)`: a started
  thread or task runs on; every call to qBittorrent and Jellyfin has a timeout,
  so each step ends.  The scheduler starts a run after each interval.
- `WF(Run)`, `WF(ApiWrite)`, `WF(Age)` of `Folder`: likewise for its runs, a call's second transaction and
  the settle time; the client owes nothing, not even the end of a download.
- `WF(Tick)`: time passes.  `WF(RemoveDone)`: a handler ends.
  `WF(OtherEnd)`: whoever holds the scan lock releases it.
- Users, qBittorrent, files, failures and restarts owe nothing.

`EveryChangeIsPickedUp` and `EveryRequestRuns` except a worker or task that has died of a database error; the first of these deaths is
`Refresh.Crash`, the second is `Scheduler.Fail` (`_scheduler` and the `finally` of
`Scanner.run` write to the database where nothing catches the error).

## 4. What is proved

TLAPS checks the theorems for every set of torrents, issues, libraries, requests
and threads and every value of the limits, from the assumptions named in the
modules (`RetentionConstants`, `InitiallyType`, `LibraryConstants`, `NumberingConstants`,
`NoneIsNoKey`, `RefreshConstants`, `SchedulerConstants`, `ConfigConstants`,
`NoneIsNoLibrary`, `FolderConstants`, `UpgradeConstants`, `AppConstants`,
`NoneIsNothing`: disjoint names, natural numbers, finite sets, and in `AppConstants`
that the longest lock is no shorter than the window, as both are fifteen minutes in the code).

**`RetentionProofs`.** None of the properties is inductive.  The invariant is
`IInv`, a conjunction of

- `TypeOK`;
- `LockInv`: the position of each thread agrees with the lock, and nobody is
  removing unless it is held.  `OneDeleter` follows from it;
- `FolderInv`: the folder of the issue being marked is gone (needs `LockInv`: only a
  scan that is linking makes folders);
- `GraceInv`: a pending row that was not hurried has its due time at least a
  grace period after the run that queued it, and the due rows of a run are of
  that kind; cancel, keep and queue again all build a new row;
- `LinkInv`: it is known since when a linked issue is linked, and between its two reads the plan
  knows it too (nothing links then);
- `PlanInv`: what the plan holds was listed clean and had expired at the time of the run,
  counted from a time that is known and has not changed since (`Began`), and what is about to be
  deleted (`Doomed`) is in the plan and was found complete and in its category;
- `KeepInv`: whatever is kept and in the plan was kept too late for it; it has
  one part for the moment between the two reads of the plan and one for after;
- `CreditInv`: an approval covers no more than what was pressed and not yet used.

`Inductive` is `Spec => []IInv`, with one lemma per part (`LockNext`, `GraceNext`, ...)
and one step per action.  From it follow `TypeCorrect`, `DeletesAreExclusive`,
`RemovedHasNoFolder`, `GraceHolds`, `PacksHaveExpired`, `KeepIsRespected` and
`BatchesWaitForApproval`.

**`NumberingProofs`.** For every set of downloads, names and months.  `NInv` adds to
`TypeOK`

- `MovingInv` and `TodoInv`: the issue being relabelled may bear the other label,
  and every item that waits has one; without them a step could leave the types;
- `CacheInv`: what a run knows of the publication is what its row says, but for
  what it is about to save, and never "month" over "number".  `NumberedForGood`
  follows;
- `EvidenceInv`: what is detected, in the row or in a run, has its reason in the
  downloads listed so far, and so has each number kept for a January.
  `DetectionHasReason` follows;
- `ReadingInv`: as long as nothing new was detected, what has been read was read
  by what the run knows; a file that tells that numbers count has made it so
  before the second reading begins, hence the second reading detects nothing
  new.  `OneReadingHolds` follows: a third reading is never needed.

The labels need more than `NInv`: `LabelsInv` adds to it

- `Shapes`: what is linked, read, about to be saved or moved has the name of its
  file, and what is relabelled has a row while its new label has none;
- `SeenInv` and `ShowInv`: what a run has seen is linked from a file read under that
  label, and what it has not seen shows, once checked, where its file is read
  now.  `SecondLabelIsShown` follows;
- `BooksInv`: a folder holds one book under its own label, but for the one whose
  folder has been renamed and its book not yet.  `BooksKeepTheirLabel` follows;
- `ChoiceInv`: a run that nobody interfered with reads and relabels by the rule
  of the publication, hence everything it links bears one label;
- `HeldInv`: what is in the folder of an issue is the file of its row, also while
  the row is not yet saved or the folder is moved;
- `StuckInv`: from its relabelling on such a run leaves no issue under a label
  that does not count, unless its other label is taken;
- `OnceInv`: so no file is linked a second time, nor about to be.  `NoSecondLink`
  follows.

The last three hold of names of which no issue was restored.  TLC found why: an
old label that was removed and is restored later has a row, which is in the way
of the relabelling (`scanner.py:296`), and its file is linked under both.

**`RefreshProofs`.** `RInv` is `TypeOK`, `RunningInv` (how `_running`, the requests
about to start a thread and the threads agree; a dead one keeps it set) and
`NothingForgotten`.  `WorkersAreAlone` and `ChangesAreKept` follow, and
`PromiseIsKept`: each step of the coordinator is a step of `FollowUp` or a stutter.

**`SchedulerProofs`.** `SInv` adds to `TypeOK` and `NoLostWakeup` that a request
since the last start has a number the task has not taken (`NumberInv`).
`WakeupsAreKept` and `QueuedIsTrue` follow.

**`ConfigProofs`.** The lemmas there give one fact per action; the invariants are `TypeOK`, which is inductive
(a library can only go when another one is left), `NoOverlapUnlessOverwritten`
(each action that writes a row has looked at the others, or says `overwritten`)
and `WorkedOnExists` (only the lock's holder could lose a library, and deleting
takes the lock).  `ArmingIsReviewed` maps every step of `Config` to one of
`Arming` or a stutter; `RepointingCancels` and `RiskyChangesAreConfirmed` go
action by action.

**`LibraryProofs`.** The row of an issue is read, and steps later written back, while
handlers change it, so what a row says of the folder holds only with what the item in
progress knows.  `LInv` adds to `TypeOK`

- `ItemInv`: the files of the item in progress and the one it links are usable;
- `RowInv`: a linked row knows its folder, its download and its format;
- `ReadInv`: while a row is still linked it is the one the run has read;
- `BookInv`: `RowNamesItsDownload`, and once the item has linked, the book is what
  it linked, or missing, or somebody else's;
- `AskInv`: each Fix that is open was asked for.

`RowsAreTrue`, `LinkedStaysWithItsDownload`, `RepairsAreAskedFor` and
`ForeignFilesStay` follow; `RowsNext` says once that no step but `ItemSave` and a
press of Fix changes a row that is linked.

**`FolderProofs`.** `FInv` is `TypeOK` (it says also that only a listing has
downloads to inspect) with

- `MarksInv`: a call at work, and a run about to write the marks, hold no less and
  no more than what they overwrite, since runs only forget marks and calls only
  add them;
- `CountsInv`: what some later step may still take for finished while it is
  unfinished bears a name in `reused`;
- `LinkedIsFinished`, of which `OnlyFinishedIsLinked` is what the two leave to a step;
- `PatternsInv`: the patterns of a library are in types and no two have the same parts;
- `WarningsInv`, file by file: nobody is warned of a file twice (`warned[d] <= 1`), and
  one that was warned of and could be again is known by its row
  (`WarnedIsKnown`, `RowIsKnown`), is gone when a run is about to prune it
  (`GoneIsQuiet`), or is left out of the run for a reason that lasts (`LeftOut`): it is
  ignored, or a pattern tells it.  `WarnedOnlyOnce` follows.

The reasons last because of what teaching does: a new pattern goes behind the others
and one that is taught anew keeps its place, so a file that is told stays told
(`ToldStays`), and it is read otherwise only by one of these two ways, which is
`TeachingKeepsReadings`.  It rests on lemmas about `Names`: `Read` is what the first
pattern that tells the file says (`FirstTells`, `ReadIfTold`; that there is a first one is
`LeastIsMin`), a saved pattern leaves the order of the others alone (`SavedIs`, `SavedTells`), a
forgotten one closes its gap (`RemovedIs`).  What may be taught is closed under both
(`SavedType`, `RemovedType`, `Teachable`).

**`AppProofs`.** Of `Upgrade`, `SignIn` and their composition.  `AInv` is
`Types`; `SchemaInv`, that the migrations applied are the first ones in order and where
in them a start stands; `Fits`, that each session was made with the password
of its account, which must hold of every backup too, as one may be restored; and
`UpgradeInv`, that once an upgrade is under way a whole copy from before it is
among as many of the newest backups as it was started (`Copied`): each start
adds one file, so the oldest of them is pruned only after `Keep` starts, which
is the bound `Recoverable` states.  `SchemaIsComplete`, `UpgradesCanBeUndone` and
`SessionsAreOfThePassword` follow; `Queues` types the throttle.

`LocksBoundTries` is the formula of the throttle for every window, number of free attempts
and longest lock: n tries of a name in a window, more than are free, need at
least 2^(n - free) - 1 units of time, from however many addresses they come.  `ThrottleInv` says that
the tries are as far apart as the locks between them (`Spaced`), and that the queue
the throttle keeps is the end of the tries, those before it having left the
window (`EndsTries`), hence the lock of the next one counts every try it should.  A
longest lock shorter than the window would void the formula.  `Power` is a
recursive function, so that there is one has to be proved first (`PowersThere`, `PowersAgree`,
`PowerIs`); the induction is `EveryNumber`, from the least element of a set of numbers,
because the library's induction theorems take an operator.

**Runs end.** In the modules with a scan, `StepsLeft` is a number of the state: the part
of the run that is reached, what waits in it (downloads, labels, issues, victims) and the
place in what was taken last, weighted so that the earlier counts more.  `RunsEnd` in
`NumberingProofs`, `LibraryProofs` and `FolderProofs`, and `LockIsReleased` in
`RetentionProofs` for either thread that holds the lock, say that it is never above
`Longest`, which depends on the constants alone, that every step of the run makes it
smaller, and that no step of anybody else makes it larger.  `Onward` is what each
action does to it; that the sets are finite and lose one (`Sizes`, `OneLess`) makes
numbers of that (`FewerSteps`).  `Numbering` reads and relabels a second time, and `again` is
why not a third time; `Retention` goes through the due rows, and for each of them through
its victims.  This is all of "the run ends" that needs no fairness: what fairness adds
is that the thread takes its next step.

Only model-checked: the properties with fairness (`DueIsDecided`,
`DisarmEmptiesQueue`, `EveryChangeIsPickedUp`, `EveryRequestRuns`, `MissingIsReported`,
`FixEnds`, `LinkedInTheEnd`, `RelabelledInTheEnd`, `FinishedIsLinked`, `RowsFollowChoices`,
`MarksAreForgotten`), which are out of the prover's reach.  Every invariant, action
property and refinement of the runs is a theorem.

## 5. What is left out, and why

- `Retention`: labels, sizes, the preview and the list of what is coming; one
  enabled library in qBittorrent mode; the row of a deletion is the newest one
  of its target.  A torrent's items do not change, as a hash fixes its files.
- `Library`: retention (an issue is never `removed`), covers and folder art,
  moves of folders after relabelling, dry runs, links across devices.
- `Numbering`: one publication, one file of it in a download, whose month does not
  change; daily issues, formats, the marker, automatic delete.  `LinkedOnce` says
  nothing of runs that were cut short, of choices made while a run is at work,
  of folders lost during one and of labels that were removed and restored: after these a file may be linked under two labels,
  and `SecondLabelShows` is what holds.
- `Refresh`: the settings version kept with a request, `wait=True`, a failing
  `Thread.start`, and that a restart loses what is pending (the next scan that
  changes something asks again).
- `Scheduler`: the length of the delays; a scan is always due after an interval.
- `Config`: names and their uniqueness, fields that neither disarm nor are risky but
  for one, offline mode, the preparation of a new library folder; the token and
  the fifteen minutes of a copy are folded into `Forget`, which may come at any time.
- `Folder`: of each download one file is followed, and the others are read by all rules;
  what saving a pattern says of a publication's numbers is the user's choice of `Numbering`; the cap of 500 marks; entries that are
  no files or folders; that a client without partial names writes more often than the
  settle time is assumed, as `docs/setup.md` asks for.
- `SignIn`: one account, as setup makes only one; guesses at other names, the
  rehash of a password, equal timing, cookies and origin checks; a clock that goes back.  That a session ends when
it is idle or old is a guard of the model, and not a property of its own.
- `Upgrade`: one process (`docker-compose.yml`); backups made in different seconds; what a
  migration does to the rows; the mode of a backup's file.
- `App`: issues and settings, which a restored backup brings back like the
  account.
- `Names`: see section 2; `paths.py`, which makes names safe for a file system, is not modelled.
- Not modelled: file contents, network rules, logging.  They are
  functions of one input and hold no state another part reads.

## 6. Plan

1. Lemmas about `Names`: a proposal is a pattern, and tells the file it was made from,
   which needs that `Match` covers the whole name.
2. The publication form and covers; feed and stale warnings of a scan.
