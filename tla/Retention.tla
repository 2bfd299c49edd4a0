----------------------------- MODULE Retention -----------------------------
(***************************************************************************)
(* Automatic delete (retention.py) as the scan runs it, interleaved with   *)
(* the web handlers that touch the same rows (routes_main.py), with manual *)
(* delete (manual_delete.py), with qBittorrent changing under it, and with *)
(* a restart of the process at any point.                                  *)
(*                                                                         *)
(* The unit of atomicity is one database transaction or one call to        *)
(* qBittorrent or the file system.  A run of the scan is the sequence      *)
(*   list - link - read - plan - apply - queue - gate,                     *)
(* and for each due row                                                    *)
(*   check - delete - remove - mark,                                       *)
(* and what it read in one step may be stale in the next.                  *)
(***************************************************************************)
EXTENDS Naturals, FiniteSets

CONSTANTS
    Torrents,            \* torrent hashes
    Issues,              \* issues (a publication and an issue key)
    Items,               \* torrent -> the issues its recognised files are
    IssueDate,           \* issue -> its date if it is a daily issue, else 0
    Days,                \* issue -> days to keep it (publication or library)
    Grace,               \* settings.grace_hours
    TorrentCap,          \* settings.max_torrent_deletions_per_run
    IssueCapMultiplier,  \* ISSUE_CAP_MULTIPLIER
    ApprovalTime,        \* how long an approval is valid
    Events,              \* kinds of user and outside events that may happen
    MaxEvents,           \* bound: how many of them
    MaxTime,             \* bound: the last value of the clock
    Initially,           \* what qBittorrent may hold of a torrent at the start
    None                 \* no approval, no blocked run, no torrent

ASSUME RetentionConstants ==
    /\ Torrents \cap Issues = {}
    /\ Items \in [Torrents -> SUBSET Issues]
    /\ IssueDate \in [Issues -> Nat]
    /\ Days \in [Issues -> Nat]
    /\ {Grace, TorrentCap, IssueCapMultiplier, ApprovalTime, MaxEvents} \subseteq Nat
    /\ MaxTime \in Nat \ {0}
    /\ IsFiniteSet(Torrents) /\ IsFiniteSet(Issues)
    /\ None \notin Torrents \cup Issues

VARIABLES
    clock,       \* time.time()
    qbit,        \* external: what qBittorrent holds, per torrent
    torrents,    \* table torrents, per hash
    issues,      \* table issues
    folders,     \* issues whose folder is in the library on disk
    deletions,   \* table deletions: the newest row of each torrent and issue
    settings,    \* retention_enabled, retention_armed
    blocked,     \* app_state[BLOCKED_KEY]
    approval,    \* app_state[APPROVAL_KEY]
    lock,        \* who holds Scanner._lock
    scan,        \* the scan thread: its position and what it has read
    manual,      \* the thread of a manual delete
    removal,     \* remove_issues, for whoever holds the lock
    credit,      \* history: the approval pressed since the last large batch
    events       \* bound: user and outside events so far

vars == <<clock, qbit, torrents, issues, folders, deletions, settings, blocked,
          approval, lock, scan, manual, removal, credit, events>>

(* Parts of the state an action leaves alone.                              *)
db       == <<torrents, issues, deletions, settings, blocked, approval>>
db_but_issues    == <<torrents, deletions, settings, blocked, approval>>
db_but_deletions == <<torrents, issues, settings, blocked, approval>>
db_but_torrents  == <<issues, deletions, settings, blocked, approval>>
db_but_settings  == <<torrents, issues, deletions, blocked, approval>>
settled  == <<settings, blocked, approval>>
threads  == <<lock, scan, manual, removal>>
actors   == <<lock, manual, removal, credit, events>>   \* all but the scan

Refs == Torrents \cup Issues    \* what a deletions row can name

---------------------------------------------------------------------------
(* Rows and records.                                                       *)

Time == 0..MaxTime

QbitTorrent == [present: BOOLEAN, inCategory: BOOLEAN, complete: BOOLEAN,
                clean: BOOLEAN,          \* nothing unexpected in its file list
                broken: SUBSET Issues,   \* items whose file cannot be linked
                completedOn: Time]     \* 0: unknown

NotInQbit == [present |-> FALSE, inCategory |-> FALSE, complete |-> FALSE,
              clean |-> FALSE, broken |-> {}, completedOn |-> 0]

ASSUME InitiallyType == Initially \subseteq QbitTorrent

TorrentRow == [present: BOOLEAN, keep: BOOLEAN, filesOk: BOOLEAN]

IssueStatus == {"none", "pending", "linked", "error", "removed", "excluded"}

IssueRow == [status: IssueStatus, keep: BOOLEAN, torrent: Torrents \cup {None},
             linkedAt: Time]

NoIssueRow == [status |-> "none", keep |-> FALSE, torrent |-> None, linkedAt |-> 0]

(* queuedBy and hurried are history: when the run that queued the row      *)
(* started, and whether the user asked for the deletion at once.           *)
DeletionRow == [status: {"none", "pending", "done", "kept", "cancelled"},
                due: Nat, queuedBy: Time, hurried: BOOLEAN]

Finished(status) == [status |-> status, due |-> 0, queuedBy |-> 0, hurried |-> FALSE]

Pending == {r \in Refs : deletions[r].status = "pending"}

Counts == [torrents: Nat, issues: Nat]
CountsOf(refs) == [torrents |-> Cardinality(refs \cap Torrents),
                   issues   |-> Cardinality(refs \cap Issues)]
Covers(a, b) == a.torrents >= b.torrents /\ a.issues >= b.issues

Limit == [torrents |-> TorrentCap, issues |-> TorrentCap * IssueCapMultiplier]

Idle == [pc       |-> "idle",
         now      |-> 0,                \* when the run started
         armed    |-> FALSE,            \* the settings it loaded
         enabled  |-> FALSE,
         snaps    |-> [t \in Torrents |-> NotInQbit],
         todo     |-> {},               \* downloads still to link
         rows     |-> [i \in Issues |-> NoIssueRow],  \* issues as read for the plan
         torrents |-> {},               \* plan.torrents
         owned    |-> {},               \* linked issues the plan saw
         issues   |-> {},               \* plan.issues
         due      |-> {},               \* due rows not handled yet
         batch    |-> [r \in Refs |-> Finished("none")], \* pending rows as read
         current  |-> None,             \* the due row being handled
         found    |-> NotInQbit,        \* the torrent as delete_with_files read it
         late     |-> {}]               \* history: kept after this run's plan

NoManual == [pc |-> "idle", torrent |-> None]

(* The locals of remove_issues, which both threads call under the lock.    *)
NoRemoval == [victims |-> {},       \* issues still to remove
              marking |-> None,     \* folder gone, status not written yet
              removed |-> FALSE]    \* an issue was removed
Removing(is) == [NoRemoval EXCEPT !.victims = is]

Init ==
    /\ clock = 1
    /\ qbit \in [Torrents -> Initially]
    /\ torrents = [t \in Torrents |-> [present |-> FALSE, keep |-> FALSE, filesOk |-> FALSE]]
    /\ issues = [i \in Issues |-> NoIssueRow]
    /\ folders = {}
    /\ deletions = [r \in Refs |-> Finished("none")]
    /\ settings \in {s \in [enabled: BOOLEAN, armed: BOOLEAN] : s.armed => s.enabled}
    /\ blocked = None
    /\ approval = None
    /\ lock = "free"
    /\ scan = Idle
    /\ manual = NoManual
    /\ removal = NoRemoval
    /\ credit = None
    /\ events = 0

(* A user or outside event of the given kind, within the bounds.           *)
Event(kind) ==
    /\ kind \in Events
    /\ events < MaxEvents
    /\ events' = events + 1

---------------------------------------------------------------------------
(* Retention rules.                                                        *)

FallbackReference(i, linkedAt, now) ==
    IF IssueDate[i] # 0 THEN IssueDate[i]
    ELSE IF linkedAt # 0 THEN linkedAt ELSE now

IsExpired(reference, i, now) == reference + Days[i] <= now

Reference(i, completedOn, linkedAt, now) ==
    IF completedOn # 0 THEN completedOn ELSE FallbackReference(i, linkedAt, now)

Linked(rows) == {i \in Issues : rows[i].status = "linked"}

(* The completion time of the torrent an issue was linked from, when the   *)
(* scan saw that torrent.                                                  *)
OwnCompletion(row, snaps) ==
    IF row.torrent = None THEN 0 ELSE snaps[row.torrent].completedOn

ItemExpired(t, i, snaps, rows, now) ==
    IsExpired(Reference(i, snaps[t].completedOn,
                        IF rows[i].status = "linked" THEN rows[i].linkedAt ELSE 0, now),
              i, now)

(* Faulty: one expired publication is enough.                              *)
PlannedTorrentsAny(snaps, rows, kept, now) ==
    {t \in Torrents :
        /\ snaps[t].present /\ snaps[t].complete /\ snaps[t].clean
        /\ \E i \in Items[t] : ItemExpired(t, i, snaps, rows, now)
        /\ t \notin kept
        /\ \A i \in Items[t] \cap Linked(rows) : ~rows[i].keep}

(* Faulty: keep is not looked at.                                          *)
PlannedTorrentsKeptToo(snaps, rows, kept, now) ==
    {t \in Torrents :
        /\ snaps[t].present /\ snaps[t].complete /\ snaps[t].clean
        /\ Items[t] # {}
        /\ \A i \in Items[t] : ItemExpired(t, i, snaps, rows, now)}

PlannedTorrents(snaps, rows, kept, now) ==
    {t \in Torrents :
        /\ snaps[t].present
        /\ Items[t] # {}
        /\ \A i \in Items[t] : ItemExpired(t, i, snaps, rows, now)
        /\ t \notin kept
        /\ \A i \in Items[t] \cap Linked(rows) : ~rows[i].keep
        /\ snaps[t].complete
        /\ snaps[t].clean}

PlannedIssues(planned, snaps, rows, now) ==
    {i \in Linked(rows) :
        /\ \A t \in planned : i \notin Items[t]
        /\ ~rows[i].keep
        /\ IsExpired(Reference(i, OwnCompletion(rows[i], snaps), rows[i].linkedAt, now), i, now)}

---------------------------------------------------------------------------
(* The scan thread: Scanner.run and _run up to the retention step.         *)

(* Faulty: the lock is taken over instead of tried.                        *)
ScanStartBarging ==
    /\ scan.pc = "idle"
    /\ lock' = "scan"
    /\ scan' = [scan EXCEPT !.pc = "list", !.now = clock, !.enabled = settings.enabled,
                            !.armed = settings.armed]
    /\ UNCHANGED <<clock, qbit, db, folders, manual, removal, credit, events>>

ScanStart ==
    /\ scan.pc = "idle"
    /\ lock = "free"
    /\ lock' = "scan"
    /\ scan' = [scan EXCEPT !.pc = "list", !.now = clock, !.enabled = settings.enabled,
                            !.armed = settings.armed]
    /\ UNCHANGED <<clock, qbit, db, folders, manual, removal, credit, events>>

EndRun == lock' = "free" /\ scan' = Idle /\ removal' = NoRemoval

InLibrary(t) == qbit[t].present /\ qbit[t].inCategory

(* What _inspect saves of the downloads it has looked at; one that is not  *)
(* complete keeps the row it had.                                          *)
Inspected(ts) ==
    [t \in Torrents |->
        IF t \in ts /\ InLibrary(t) /\ qbit[t].complete
        THEN [torrents[t] EXCEPT !.present = TRUE,
                  !.filesOk = qbit[t].clean /\ Items[t] # {}]
        ELSE torrents[t]]

(* qBittorrent cannot be reached, before or while its downloads are        *)
(* looked at: the run ends.                                                *)
ScanUnreachable ==
    /\ scan.pc = "list"
    /\ Event("outage")
    /\ \E ts \in SUBSET Torrents : torrents' = Inspected(ts)
    /\ EndRun
    /\ UNCHANGED <<clock, qbit, db_but_torrents, folders, manual, credit>>

ScanList ==
    /\ scan.pc = "list"
    /\ torrents' = Inspected(Torrents)
    /\ scan' = [scan EXCEPT !.pc = "link",
            !.snaps = [t \in Torrents |-> IF InLibrary(t) THEN qbit[t] ELSE NotInQbit],
            !.todo = {t \in Torrents : InLibrary(t) /\ qbit[t].complete}]
    /\ UNCHANGED <<clock, qbit, db_but_torrents, folders, actors>>

(* _process_item leaves this issue as it is: it is in the library already, *)
(* the user took it out, or automatic delete would remove it again.        *)
NotLinkedBy(t, i) ==
    \/ issues[i].status \in {"linked", "excluded"}
    \/ /\ scan.enabled
       /\ ~issues[i].keep
       /\ IsExpired(Reference(i, scan.snaps[t].completedOn, issues[i].linkedAt, scan.now),
                    i, scan.now)

(* What _process_item does to an issue it links; a file that cannot be     *)
(* linked leaves an error row (_issue_error).                              *)
LinkRow(t, i) ==
    IF i \in qbit[t].broken
    THEN [issues[i] EXCEPT !.status = "error", !.torrent = t]
    ELSE [issues[i] EXCEPT !.status = "linked", !.torrent = t,
              !.linkedAt = IF @ # 0 THEN @ ELSE clock]

(* A download is linked in one step: the row, the folder and the marker of *)
(* one item are written one after the other in the code.                   *)
ScanLink(t) ==
    /\ scan.pc = "link"
    /\ t \in scan.todo
    /\ LET new == {i \in Items[t] : ~NotLinkedBy(t, i)}
       IN /\ issues' = [i \in Issues |-> IF i \in new THEN LinkRow(t, i) ELSE issues[i]]
          /\ folders' = folders \cup (new \ qbit[t].broken)
    /\ scan' = [scan EXCEPT !.todo = @ \ {t}]
    /\ UNCHANGED <<clock, qbit, db_but_issues, actors>>

(* mark_torrents_absent, then the linked issues are read for the plan.     *)
ScanReadIssues ==
    /\ scan.pc = "link"
    /\ scan.todo = {}
    /\ torrents' = [t \in Torrents |->
            [torrents[t] EXCEPT !.present = @ /\ scan.snaps[t].present]]
    /\ scan' = [scan EXCEPT !.pc = "plan", !.rows = issues]
    /\ UNCHANGED <<clock, qbit, db_but_torrents, folders, actors>>

(* kept_torrents is read in a later transaction than the linked issues.    *)
ScanPlan ==
    /\ scan.pc = "plan"
    /\ LET kept    == {t \in Torrents : torrents[t].keep}
           planned == PlannedTorrents(scan.snaps, scan.rows, kept, scan.now)
       IN scan' = [scan EXCEPT
              !.pc = "apply",
              !.torrents = planned,
              !.issues = PlannedIssues(planned, scan.snaps, scan.rows, scan.now),
              !.owned = Linked(scan.rows),
              !.rows = Idle.rows]
    /\ UNCHANGED <<clock, qbit, db, folders, actors>>

---------------------------------------------------------------------------
(* RetentionRunner.apply.                                                  *)

(* Faulty: rows that no longer qualify stay.                               *)
CancelPendingNever(except) == deletions' = deletions

CancelPending(except) ==
    deletions' = [r \in Refs |->
        IF r \in Pending \ except THEN Finished("cancelled") ELSE deletions[r]]

ApplyOff ==
    /\ scan.pc = "apply"
    /\ ~(scan.enabled /\ scan.armed)
    /\ CancelPending({})
    /\ EndRun
    /\ UNCHANGED <<clock, qbit, db_but_deletions, folders, manual, credit, events>>

ApplyCancel ==
    /\ scan.pc = "apply"
    /\ scan.enabled /\ scan.armed
    /\ CancelPending(scan.torrents \cup scan.issues)
    /\ scan' = [scan EXCEPT !.pc = "queue"]
    /\ UNCHANGED <<clock, qbit, db_but_deletions, folders, actors>>

(* Faulty: a new row is due at once.                                       *)
EnsurePendingAtOnce(r) ==
    IF r \in Pending THEN deletions[r]
    ELSE [status |-> "pending", due |-> scan.now, queuedBy |-> scan.now, hurried |-> FALSE]

(* ensure_pending keeps the due time of a row that is pending already.     *)
EnsurePending(r) ==
    IF r \in Pending THEN deletions[r]
    ELSE [status |-> "pending", due |-> scan.now + Grace, queuedBy |-> scan.now,
          hurried |-> FALSE]

ApplyQueue ==
    /\ scan.pc = "queue"
    /\ deletions' = [r \in Refs |->
            IF r \in scan.torrents \cup scan.issues THEN EnsurePending(r) ELSE deletions[r]]
    /\ scan' = [scan EXCEPT !.pc = "gate"]
    /\ UNCHANGED <<clock, qbit, db_but_deletions, folders, actors>>

DueRows(now) == {r \in Pending : deletions[r].due <= now}

Approved(due) ==
    /\ approval # None
    /\ approval.expires > scan.now
    /\ Covers(approval, CountsOf(due))

(* Faulty: one of the two counts within its limit is enough.               *)
PassesByEither(due) ==
    \/ CountsOf(due).torrents <= Limit.torrents
    \/ CountsOf(due).issues <= Limit.issues
    \/ Approved(due)

Passes(due) == Covers(Limit, CountsOf(due)) \/ Approved(due)

(* More is due than the limit and nobody approved it: nothing is deleted.  *)
GateBlocks ==
    /\ scan.pc = "gate"
    /\ ~Passes(DueRows(scan.now))
    /\ blocked' = CountsOf(DueRows(scan.now))
    /\ EndRun
    /\ UNCHANGED <<clock, qbit, torrents, issues, folders, deletions, settings, approval, manual, credit, events>>

(* A batch above the limit uses its approval up.                           *)
GateOpens ==
    /\ scan.pc = "gate"
    /\ LET due  == DueRows(scan.now)
           over == ~Covers(Limit, CountsOf(due))
       IN /\ Passes(due)
          /\ approval' = IF over THEN None ELSE approval
          /\ credit' = IF over THEN None ELSE credit
          /\ scan' = [scan EXCEPT !.pc = "delete",
                 !.due = due \cap (scan.torrents \cup scan.issues),
                 !.batch = [r \in Refs |-> IF r \in due THEN deletions[r]
                                           ELSE Finished("none")]]
    /\ blocked' = None
    /\ UNCHANGED <<clock, qbit, torrents, issues, folders, deletions, settings, lock, manual, removal, events>>

(* What delete_with_files wants of the torrent it looks up.                *)
Deletable(t) == InLibrary(t) /\ qbit[t].complete

DeleteFromQbit(t) == qbit' = [qbit EXCEPT ![t] = NotInQbit]

StartDelete(r) == scan.pc = "delete" /\ r \in scan.due

(* delete_with_files looks the torrent up again before it deletes it.      *)
Recheck(t) ==
    /\ StartDelete(t)
    /\ Deletable(t)
    /\ scan' = [scan EXCEPT !.pc = "call", !.due = @ \ {t}, !.current = t, !.found = qbit[t]]
    /\ UNCHANGED <<clock, qbit, db, folders, actors>>

(* It is not what it was, or cannot be looked up: the row stays pending.   *)
DeleteRefused(t) ==
    /\ StartDelete(t)
    /\ IF Deletable(t) THEN Event("outage") ELSE UNCHANGED events
    /\ scan' = [scan EXCEPT !.due = @ \ {t}]
    /\ UNCHANGED <<clock, qbit, db, folders, lock, manual, removal, credit>>

(* The call that deletes: whatever qBittorrent has under the hash by now.  *)
DeleteTorrent(t) ==
    /\ scan.pc = "call"
    /\ scan.current = t
    /\ DeleteFromQbit(t)
    /\ scan' = [scan EXCEPT !.pc = "remove", !.found = NotInQbit]
    /\ removal' = Removing(Items[t] \cap scan.owned)
    /\ UNCHANGED <<clock, db, folders, lock, manual, credit, events>>

(* The call fails, or only its answer is lost: the row stays pending.      *)
DeleteUnanswered(t) ==
    /\ scan.pc = "call"
    /\ scan.current = t
    /\ Event("outage")
    /\ UNCHANGED qbit \/ DeleteFromQbit(t)
    /\ scan' = [scan EXCEPT !.pc = "delete", !.current = None, !.found = NotInQbit]
    /\ UNCHANGED <<clock, db, folders, lock, manual, removal, credit>>

(* Issues on their own come after every due torrent.                       *)
DeleteIssue(i) ==
    /\ StartDelete(i)
    /\ scan.due \cap Torrents = {}
    /\ scan' = [scan EXCEPT !.pc = "remove", !.due = @ \ {i}, !.current = i]
    /\ removal' = Removing({i})
    /\ UNCHANGED <<clock, qbit, db, folders, lock, manual, credit, events>>

(* Faulty: a folder that could not be removed is passed over.              *)
RemoveFolderMaybe(i) ==
    /\ i \in removal.victims
    /\ removal.marking = None
    /\ issues[i].status = "linked"
    /\ folders' \in {folders, folders \ {i}}
    /\ removal' = [removal EXCEPT !.victims = @ \ {i}, !.marking = i]
    /\ UNCHANGED <<clock, qbit, db, lock, scan, manual, credit, events>>

(* remove_issues, one issue: it is read again, its folder goes, and in a   *)
(* later transaction its row says so.                                      *)
RemoveFolder(i) ==
    /\ i \in removal.victims
    /\ removal.marking = None
    /\ issues[i].status = "linked"
    /\ folders' = folders \ {i}
    /\ removal' = [removal EXCEPT !.victims = @ \ {i}, !.marking = i]
    /\ UNCHANGED <<clock, qbit, db, lock, scan, manual, credit, events>>

(* It is not in the library any more, or its folder cannot be removed.     *)
SkipVictim(i) ==
    /\ i \in removal.victims
    /\ removal.marking = None
    /\ IF issues[i].status = "linked" THEN Event("undeletable") ELSE UNCHANGED events
    /\ removal' = [removal EXCEPT !.victims = @ \ {i}]
    /\ UNCHANGED <<clock, qbit, db, folders, lock, scan, manual, credit>>

MarkRemoved(i) ==
    /\ removal.marking = i
    /\ issues' = [issues EXCEPT ![i].status = "removed"]
    /\ removal' = [removal EXCEPT !.marking = None, !.removed = TRUE]
    /\ UNCHANGED <<clock, qbit, db_but_issues, folders, lock, scan, manual, credit, events>>

RemoveIssues == \E i \in Issues : RemoveFolder(i) \/ SkipVictim(i) \/ MarkRemoved(i)

Removed == removal.victims = {} /\ removal.marking = None

(* finish_deletion writes by row id, whatever the row says by now.         *)
FinishDeletion ==
    /\ scan.pc = "remove"
    /\ Removed
    /\ deletions' = IF scan.current \in Torrents \/ removal.removed
                    THEN [deletions EXCEPT ![scan.current] = Finished("done")]
                    ELSE deletions
    /\ scan' = [scan EXCEPT !.pc = "delete", !.current = None]
    /\ removal' = NoRemoval
    /\ UNCHANGED <<clock, qbit, db_but_deletions, folders, lock, manual, credit, events>>

ScanEnd ==
    /\ scan.pc = "delete"
    /\ scan.due = {}
    /\ EndRun
    /\ UNCHANGED <<clock, qbit, db, folders, manual, credit, events>>

(* Any exception ends the run where it is; the next one starts over.       *)
ScanFails ==
    /\ scan.pc # "idle"
    /\ Event("fails")
    /\ EndRun
    /\ UNCHANGED <<clock, qbit, db, folders, manual, credit>>

Apply ==
    \/ ApplyOff \/ ApplyCancel \/ ApplyQueue \/ GateBlocks \/ GateOpens
    \/ \E t \in Torrents : \/ Recheck(t) \/ DeleteRefused(t)
                           \/ DeleteTorrent(t) \/ DeleteUnanswered(t)
    \/ \E i \in Issues : DeleteIssue(i)
    \/ FinishDeletion \/ ScanEnd

Scan ==
    \/ ScanStart \/ ScanUnreachable \/ ScanList
    \/ \E t \in Torrents : ScanLink(t)
    \/ ScanReadIssues \/ ScanPlan
    \/ Apply

---------------------------------------------------------------------------
(* The web handlers.  Each runs on the event loop without an await, so it  *)
(* is one step between two steps of the threads.                           *)

ReadByPlan   == scan.pc \notin {"idle", "list", "link"}
BeyondPlan   == ReadByPlan /\ scan.pc # "plan"

(* History: what is kept too late for the run that is in progress.         *)
KeptLate(ts, is) ==
    scan' = [scan EXCEPT !.late = @ \cup (IF BeyondPlan THEN ts ELSE {})
                                    \cup (IF ReadByPlan THEN is ELSE {})]

IssuesFrom(t) == {i \in Issues : issues[i].torrent = t}

(* set_torrent_keep: the torrent and every issue linked from it.           *)
SetTorrentKeep(t, keep) ==
    /\ torrents' = [torrents EXCEPT ![t].keep = keep]
    /\ issues' = [i \in Issues |-> IF i \in IssuesFrom(t)
                                   THEN [issues[i] EXCEPT !.keep = keep] ELSE issues[i]]

KeepPendingTorrent(t) ==
    /\ Event("keep")
    /\ t \in Pending
    /\ SetTorrentKeep(t, TRUE)
    /\ deletions' = [deletions EXCEPT ![t] = Finished("kept")]
    /\ KeptLate({t}, IssuesFrom(t))
    /\ UNCHANGED <<clock, qbit, folders, settled, lock, manual, removal, credit>>

KeepPendingIssue(i) ==
    /\ Event("keep")
    /\ i \in Pending
    /\ issues' = [issues EXCEPT ![i].keep = TRUE]
    /\ deletions' = [deletions EXCEPT ![i] = Finished("kept")]
    /\ KeptLate({}, {i})
    /\ UNCHANGED <<clock, qbit, torrents, folders, settled, lock, manual, removal, credit>>

(* make_due_now                                                            *)
DeleteNow(r) ==
    /\ Event("now")
    /\ r \in Pending
    /\ deletions' = [deletions EXCEPT ![r].due = clock - 1, ![r].hurried = TRUE]
    /\ UNCHANGED <<clock, qbit, db_but_deletions, folders, threads, credit>>

Unkeep(t) ==
    /\ Event("unkeep")
    /\ SetTorrentKeep(t, FALSE)
    /\ UNCHANGED <<clock, qbit, folders, deletions, settled, threads, credit>>

ToggleIssueKeep(i) ==
    /\ Event("issuekeep")
    /\ issues[i].status # "none"
    /\ issues' = [issues EXCEPT ![i].keep = ~@]
    /\ IF issues[i].keep THEN UNCHANGED scan ELSE KeptLate({}, {i})
    /\ UNCHANGED <<clock, qbit, db_but_issues, folders, lock, manual, removal, credit>>

RemoveIssue(i) ==
    /\ Event("issueremove")
    /\ issues[i].status # "none"
    /\ folders' = folders \ {i}
    /\ issues' = [issues EXCEPT ![i].status = "excluded"]
    /\ UNCHANGED <<clock, qbit, db_but_issues, threads, credit>>

RestoreIssue(i) ==
    /\ Event("restore")
    /\ issues[i].status \in {"excluded", "removed", "error"}
    /\ issues' = [issues EXCEPT ![i].status = "pending"]
    /\ UNCHANGED <<clock, qbit, db_but_issues, folders, threads, credit>>

Arm ==
    /\ Event("arm")
    /\ settings.enabled
    /\ settings' = [settings EXCEPT !.armed = TRUE]
    /\ UNCHANGED <<clock, qbit, db_but_settings, folders, threads, credit>>

Disarm ==
    /\ Event("disarm")
    /\ settings' = [settings EXCEPT !.armed = FALSE]
    /\ CancelPending({})
    /\ UNCHANGED <<clock, qbit, torrents, issues, folders, blocked, approval, threads, credit>>

(* Settings page: a change of a DISARM_FIELDS setting disarms and leaves   *)
(* the pending rows to the next scan.                                      *)
SwitchRetention ==
    /\ Event("settings")
    /\ settings' = [enabled |-> ~settings.enabled, armed |-> FALSE]
    /\ UNCHANGED <<clock, qbit, db_but_settings, folders, threads, credit>>

Approve ==
    /\ Event("approve")
    /\ blocked # None
    /\ approval' = [torrents |-> blocked.torrents, issues |-> blocked.issues,
                    expires |-> clock + ApprovalTime]
    /\ credit' = blocked
    /\ UNCHANGED <<clock, qbit, torrents, issues, folders, deletions, settings, blocked, threads>>

Handlers ==
    \/ \E t \in Torrents : KeepPendingTorrent(t) \/ Unkeep(t)
    \/ \E i \in Issues : \/ KeepPendingIssue(i) \/ ToggleIssueKeep(i)
                         \/ RemoveIssue(i) \/ RestoreIssue(i)
    \/ \E r \in Refs : DeleteNow(r)
    \/ Arm \/ Disarm \/ SwitchRetention \/ Approve

---------------------------------------------------------------------------
(* Manual delete: check_deletable, then delete_torrent_now in a thread.    *)

ManualCheck(t) ==
    /\ manual.pc = "idle"
    /\ Event("manual")
    /\ torrents[t].present
    /\ ~torrents[t].keep
    /\ torrents[t].filesOk
    /\ manual' = [pc |-> "checked", torrent |-> t]
    /\ UNCHANGED <<clock, qbit, db, folders, lock, scan, removal, credit>>

(* A scan holds the lock, or the torrent is not what it was, or cannot be  *)
(* looked up: reported, and the lock is free again.                        *)
ManualRefused ==
    /\ manual.pc = "checked"
    /\ IF lock = "free" /\ Deletable(manual.torrent) THEN Event("outage") ELSE UNCHANGED events
    /\ manual' = NoManual
    /\ UNCHANGED <<clock, qbit, db, folders, lock, scan, removal, credit>>

(* try_lock, and delete_with_files looks the torrent up.                   *)
ManualRecheck(t) ==
    /\ manual.pc = "checked"
    /\ manual.torrent = t
    /\ lock = "free"
    /\ Deletable(t)
    /\ lock' = "manual"
    /\ manual' = [manual EXCEPT !.pc = "call"]
    /\ UNCHANGED <<clock, qbit, db, folders, scan, removal, credit, events>>

(* The call, after which the linked issues are read.                       *)
ManualDelete(t) ==
    /\ manual.pc = "call"
    /\ manual.torrent = t
    /\ DeleteFromQbit(t)
    /\ manual' = [manual EXCEPT !.pc = "remove"]
    /\ removal' = Removing(IssuesFrom(t) \cap Linked(issues))
    /\ UNCHANGED <<clock, db, folders, lock, scan, credit, events>>

(* The call fails, or only its answer is lost: reported.                   *)
ManualUnanswered(t) ==
    /\ manual.pc = "call"
    /\ manual.torrent = t
    /\ Event("outage")
    /\ UNCHANGED qbit \/ DeleteFromQbit(t)
    /\ lock' = "free"
    /\ manual' = NoManual
    /\ UNCHANGED <<clock, db, folders, scan, removal, credit>>

(* mark_torrent_gone, cancel_pending_for and record_deletion               *)
ManualFinish(t) ==
    /\ manual.pc = "remove"
    /\ manual.torrent = t
    /\ Removed
    /\ torrents' = [torrents EXCEPT ![t].present = FALSE]
    /\ deletions' = [deletions EXCEPT ![t] = Finished("done")]
    /\ lock' = "free"
    /\ manual' = NoManual
    /\ removal' = NoRemoval
    /\ UNCHANGED <<clock, qbit, issues, folders, settled, scan, credit, events>>

Manual ==
    \/ \E t \in Torrents : \/ ManualCheck(t) \/ ManualRecheck(t) \/ ManualDelete(t)
                           \/ ManualUnanswered(t) \/ ManualFinish(t)
    \/ ManualRefused

---------------------------------------------------------------------------
(* The outside: qBittorrent and its user, the clock, a restart.            *)

QbitAdd(t) ==
    /\ Event("add")
    /\ ~qbit[t].present
    /\ \E clean \in BOOLEAN, known \in {0, clock} :
          qbit' = [qbit EXCEPT ![t] = [present |-> TRUE, inCategory |-> TRUE,
                                       complete |-> TRUE, clean |-> clean, broken |-> {},
                                       completedOn |-> known]]
    /\ UNCHANGED <<clock, db, folders, threads, credit>>

(* Removed, recategorised, rechecked, a file added, a file damaged or      *)
(* repaired: one at a time.                                                *)
QbitChange(t) ==
    /\ qbit[t].present
    /\ \/ Event("gone") /\ qbit' = [qbit EXCEPT ![t] = NotInQbit]
       \/ Event("category") /\ qbit' = [qbit EXCEPT ![t].inCategory = ~@]
       \/ Event("recheck") /\ qbit' = [qbit EXCEPT ![t].complete = ~@]
       \/ Event("extra") /\ qbit' = [qbit EXCEPT ![t].clean = ~@]
    /\ UNCHANGED <<clock, db, folders, threads, credit>>

FileChange(t) ==
    /\ Event("damage")
    /\ qbit[t].present
    /\ \E i \in Items[t] :
          qbit' = [qbit EXCEPT ![t].broken = IF i \in @ THEN @ \ {i} ELSE @ \cup {i}]
    /\ UNCHANGED <<clock, db, folders, threads, credit>>

Tick ==
    /\ clock < MaxTime
    /\ clock' = clock + 1
    /\ UNCHANGED <<qbit, db, folders, threads, credit, events>>

(* The process stops and starts again: threads and locks are gone, the     *)
(* database, the library and qBittorrent stay.                             *)
Restart ==
    /\ Event("restart")
    /\ lock' = "free"
    /\ scan' = Idle
    /\ manual' = NoManual
    /\ removal' = NoRemoval
    /\ UNCHANGED <<clock, qbit, db, folders, credit>>

Outside == (\E t \in Torrents : QbitAdd(t) \/ QbitChange(t) \/ FileChange(t)) \/ Tick \/ Restart

Next == Scan \/ ScanFails \/ RemoveIssues \/ Handlers \/ Manual \/ Outside

Spec == Init /\ [][Next]_vars

(* The scheduler starts a run whenever the last one has ended, and a       *)
(* started thread runs on; users, qBittorrent and restarts owe nothing.    *)
FairSpec == Spec /\ WF_vars(Scan) /\ WF_vars(RemoveIssues) /\ WF_vars(Manual) /\ WF_vars(Tick)

---------------------------------------------------------------------------
(* Properties.                                                             *)

ScanLocals ==
    [pc: {"idle", "list", "link", "plan", "apply", "queue", "gate", "delete", "call",
          "remove"},
     now: Time, armed: BOOLEAN, enabled: BOOLEAN, snaps: [Torrents -> QbitTorrent],
     todo: SUBSET Torrents, rows: [Issues -> IssueRow], torrents: SUBSET Torrents,
     owned: SUBSET Issues, issues: SUBSET Issues, due: SUBSET Refs,
     batch: [Refs -> DeletionRow], current: Refs \cup {None}, found: QbitTorrent,
     late: SUBSET Refs]

ManualLocals == [pc: {"idle", "checked", "call", "remove"}, torrent: Torrents \cup {None}]

RemovalLocals == [victims: SUBSET Issues, marking: Issues \cup {None}, removed: BOOLEAN]

(* Every variable and every local of the threads has its type.             *)
TypeOK ==
    /\ clock \in Time \ {0}
    /\ qbit \in [Torrents -> QbitTorrent]
    /\ torrents \in [Torrents -> TorrentRow]
    /\ issues \in [Issues -> IssueRow]
    /\ folders \subseteq Issues
    /\ deletions \in [Refs -> DeletionRow]
    /\ settings \in [enabled: BOOLEAN, armed: BOOLEAN]
    /\ blocked \in Counts \cup {None}
    /\ approval \in [torrents: Nat, issues: Nat, expires: Nat] \cup {None}
    /\ lock \in {"free", "scan", "manual"}
    /\ scan \in ScanLocals
    /\ manual \in ManualLocals
    /\ removal \in RemovalLocals
    /\ credit \in Counts \cup {None}
    /\ events \in 0..MaxEvents

(* The scan calls for the deletion of a torrent with its files; it starts  *)
(* on an issue.                                                            *)
Deletes(t) == DeleteTorrent(t) \/ DeleteUnanswered(t)
RemovedByScan(i) == RemoveFolder(i) /\ scan.pc = "remove"
ActsOn(r)  == (r \in Torrents /\ Deletes(r)) \/ (r \in Issues /\ DeleteIssue(r))

(* Nothing is deleted before the grace period since the run that queued it *)
(* is over, unless the user asked for it at once: whatever was cancelled,  *)
(* kept and queued again in between (apply, ensure_pending).               *)
GraceIsWaited ==
    [][\A r \in Refs : ActsOn(r) =>
          \/ scan.batch[r].hurried
          \/ scan.batch[r].queuedBy + Grace <= clock]_vars

(* A kept torrent, or one with a kept issue in the library, is deleted     *)
(* only when it was kept after the plan of the very run that deletes it.   *)
KeptIsSafe ==
    [][/\ \A t \in Torrents : Deletes(t) =>
             /\ torrents[t].keep => t \in scan.late
             /\ \A i \in Items[t] :
                   issues[i].keep /\ issues[i].status = "linked" => i \in scan.late
       /\ \A i \in Issues : RemovedByScan(i) => (issues[i].keep => i \in scan.late)]_vars

(* When the days of an issue of a torrent began to count, for the run: the *)
(* completion it listed, the date of a daily issue, or when it was linked. *)
Began(t, i) ==
    IF scan.snaps[t].completedOn # 0 THEN scan.snaps[t].completedOn
    ELSE IF IssueDate[i] # 0 THEN IssueDate[i] ELSE issues[i].linkedAt

(* When the scan calls for the deletion of a torrent, every issue in it    *)
(* has expired, from a time that is known or with no days to wait; nothing *)
(* unexpected was in it when the run listed it; and it was complete and in *)
(* its category when the run last looked at it: whatever handlers, manual  *)
(* deletes and qBittorrent did between these looks (plan_retention,        *)
(* delete_with_files).                                                     *)
OnlyExpiredPacks ==
    [][\A t \in Torrents : Deletes(t) =>
          /\ \A i \in Items[t] : \/ Days[i] = 0
                                 \/ Began(t, i) # 0 /\ Began(t, i) + Days[i] <= clock
          /\ scan.snaps[t].clean
          /\ scan.found.complete /\ scan.found.inCategory]_vars

(* More than the limit is deleted in one run only on an approval pressed   *)
(* since the last such run, for at least that many (approve handler).      *)
BatchesAreApproved ==
    [][GateOpens => LET batch == CountsOf({r \in Refs : scan'.batch[r].status = "pending"})
                    IN Covers(Limit, batch) \/ (credit # None /\ Covers(credit, batch))]_vars

(* A row says that an issue was removed only while its folder is gone:     *)
(* whatever ran between the two steps, nothing has linked it again.        *)
RemovedIsGone == [][\A i \in Issues : MarkRemoved(i) => i \notin folders]_vars

(* A scan and a manual delete never remove at the same time.               *)
OneDeleter == scan.pc # "idle" => manual.pc \in {"idle", "checked"}

(* A due torrent row does not stay pending for ever: it is carried out,    *)
(* cancelled or kept, unless the run is blocked for approval.              *)
DueIsDecided ==
    \A t \in Torrents :
        (t \in Pending /\ deletions[t].due <= MaxTime) ~> (t \notin Pending \/ blocked # None)

(* After a last disarm the queue ends up empty, even when a run that had   *)
(* loaded the armed settings queues more afterwards.                       *)
DisarmEmptiesQueue == (<>[]~settings.armed) => <>[](Pending = {})

(* What the documentation says and a run does not keep to: see README.     *)
(* "Expired items wait in Pending ..., where Keep protects them."          *)
KeepProtects == [][\A t \in Torrents : Deletes(t) => ~torrents[t].keep]_vars
=============================================================================
