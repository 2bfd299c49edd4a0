-------------------------- MODULE RetentionProofs --------------------------
(***************************************************************************)
(* Proofs about Retention, for every set of torrents and issues and every  *)
(* value of the limits and bounds.                                         *)
(***************************************************************************)
EXTENDS Retention, FiniteSetTheorems, TLAPS

(* The lock and who may be removing issues.                                *)
LockInv ==
    /\ scan.pc # "idle" <=> lock = "scan"
    /\ manual.pc \in {"call", "remove"} <=> lock = "manual"
    /\ lock = "free" \/ scan.pc \notin {"idle", "remove"} \/ manual.pc = "call" =>
          removal = NoRemoval

(* An issue being marked as removed has no folder any more.                *)
FolderInv == removal.marking # None => removal.marking \notin folders

(* What the queue and the run's copy of it say about the grace period.     *)
Waits(row) == row.hurried \/ row.queuedBy + Grace <= row.due

(* The due rows whose deletion the run may still call for.                 *)
Doomed == scan.due \cup IF scan.pc = "call" THEN {scan.current} ELSE {}

Deleting == {"delete", "call", "remove"}

GraceInv ==
    /\ scan.now <= clock
    /\ \A r \in Pending : Waits(deletions[r])
    /\ scan.pc \in Deleting =>
          \A r \in Doomed : \/ scan.batch[r].hurried
                            \/ scan.batch[r].queuedBy + Grace <= scan.now

(* When a linked issue was linked is known, and the plan knows it too.     *)
LinkInv ==
    /\ \A i \in Issues : issues[i].status = "linked" => issues[i].linkedAt # 0
    /\ scan.pc = "plan" =>
          \A i \in Issues : scan.rows[i].status = "linked" =>
              scan.rows[i].linkedAt # 0 /\ issues[i].linkedAt = scan.rows[i].linkedAt

(* What the plan knew of the torrents it holds, and the last look at one.  *)
Planned == {"apply", "queue", "gate"} \cup Deleting

HadExpired(t, i, now) == \/ Days[i] = 0
                         \/ Began(t, i) # 0 /\ Began(t, i) + Days[i] <= now

PlanInv ==
    /\ scan.pc \in Planned =>
          \A t \in scan.torrents :
              /\ scan.snaps[t].clean
              /\ \A i \in Items[t] : HadExpired(t, i, scan.now)
    /\ scan.pc \in Deleting => Doomed \subseteq scan.torrents \cup scan.issues
    /\ scan.pc = "call" => scan.current \in Torrents /\ scan.found.complete /\ scan.found.inCategory

(* Keep flags set before the plan have been seen by it.                    *)
KeepInv ==
    /\ scan.pc = "plan" =>
          \A i \in Issues :
              /\ issues[i].keep /\ issues[i].status = "linked" =>
                    i \in scan.late \/ (scan.rows[i].keep /\ scan.rows[i].status = "linked")
              /\ issues[i].keep /\ scan.rows[i].status = "linked" =>
                    i \in scan.late \/ scan.rows[i].keep
    /\ scan.pc \in Planned =>
          /\ \A t \in scan.torrents :
                /\ torrents[t].keep => t \in scan.late
                /\ \A i \in Items[t] :
                      issues[i].keep /\ (issues[i].status = "linked" \/ i \in scan.owned) =>
                          i \in scan.late
          /\ \A i \in scan.issues : issues[i].keep => i \in scan.late
    /\ scan.pc = "remove" => \A i \in removal.victims : issues[i].keep => i \in scan.late

(* An approval is one the user has pressed and no batch has used.          *)
CreditInv == approval # None => credit # None /\ Covers(credit, approval)

IInv == TypeOK /\ LockInv /\ FolderInv /\ GraceInv /\ LinkInv /\ PlanInv /\ KeepInv /\ CreditInv

---------------------------------------------------------------------------
(* Types.                                                                  *)

(* The records the actions reset things to are of their types.             *)
LEMMA RowTypes ==
    /\ NotInQbit \in QbitTorrent
    /\ NoIssueRow \in IssueRow
    /\ Idle \in ScanLocals
    /\ NoManual \in ManualLocals
    /\ NoRemoval \in RemovalLocals
    /\ \A s \in {"none", "pending", "done", "kept", "cancelled"} : Finished(s) \in DeletionRow
<1>1. NotInQbit \in QbitTorrent
  BY RetentionConstants DEF NotInQbit, QbitTorrent, Time
<1>2. NoIssueRow \in IssueRow
  BY RetentionConstants DEF NoIssueRow, IssueRow, IssueStatus, Time
<1>3. \A s \in {"none", "pending", "done", "kept", "cancelled"} : Finished(s) \in DeletionRow
  BY RetentionConstants DEF Finished, DeletionRow, Time
<1>4. /\ [t \in Torrents |-> NotInQbit] \in [Torrents -> QbitTorrent]
      /\ [i \in Issues |-> NoIssueRow] \in [Issues -> IssueRow]
      /\ [r \in Refs |-> Finished("none")] \in [Refs -> DeletionRow]
  BY <1>1, <1>2, <1>3
<1>5. 0 \in Time
  BY RetentionConstants DEF Time
<1>6. Idle \in ScanLocals
  BY <1>1, <1>4, <1>5 DEF Idle, ScanLocals
<1>7. NoManual \in ManualLocals /\ NoRemoval \in RemovalLocals
  BY DEF NoManual, NoRemoval, ManualLocals, RemovalLocals
<1> QED
  BY <1>1, <1>2, <1>3, <1>6, <1>7

(* A batch counts as many torrents and issues as a natural number.         *)
LEMMA CountsType == ASSUME NEW refs \in SUBSET Refs PROVE CountsOf(refs) \in Counts
<1>1. IsFiniteSet(refs \cap Torrents) /\ IsFiniteSet(refs \cap Issues)
  BY RetentionConstants, FS_Subset
<1> QED
  BY <1>1, FS_CardinalityType DEF CountsOf, Counts

(* The bounded counter of events stays within its bound.                   *)
LEMMA EventType == ASSUME NEW kind, events \in 0..MaxEvents, Event(kind)
                   PROVE events' \in 0..MaxEvents
  BY RetentionConstants DEF Event

(* The initial state has its type.                                         *)
LEMMA TypeInit == Init => TypeOK
<1> SUFFICES ASSUME Init PROVE TypeOK
  OBVIOUS
<1>1. /\ clock \in Time \ {0} /\ events \in 0..MaxEvents
  BY RetentionConstants DEF Init, Time
<1>2. qbit \in [Torrents -> QbitTorrent]
  BY InitiallyType DEF Init
<1>3. torrents \in [Torrents -> TorrentRow]
  BY DEF Init, TorrentRow
<1> QED
  BY <1>1, <1>2, <1>3, RowTypes DEF Init, TypeOK

(* What a run saves of the downloads it looks at are rows.                 *)
LEMMA InspectedType ==
    ASSUME torrents \in [Torrents -> TorrentRow], qbit \in [Torrents -> QbitTorrent],
           NEW ts
    PROVE  Inspected(ts) \in [Torrents -> TorrentRow]
<1>1. ASSUME NEW t \in Torrents
      PROVE  [torrents[t] EXCEPT !.present = TRUE, !.filesOk = qbit[t].clean /\ Items[t] # {}]
                 \in TorrentRow
  BY DEF TorrentRow, QbitTorrent
<1> QED
  BY <1>1 DEF Inspected

(* Every action keeps the types.                                           *)
LEMMA TypeNext == ASSUME TypeOK, [Next]_vars PROVE TypeOK'
<1> USE DEF Refs
<1>1. CASE ScanStart
  BY <1>1 DEF ScanStart, TypeOK, db, ScanLocals, Time
<1>2. CASE ScanUnreachable
  <2>1. torrents' \in [Torrents -> TorrentRow]
    BY <1>2, InspectedType DEF ScanUnreachable, TypeOK
  <2> QED
    BY <1>2, <2>1, RowTypes, EventType DEF ScanUnreachable, EndRun, TypeOK, db_but_torrents
<1>41. CASE ScanFails
  BY <1>41, RowTypes, EventType DEF ScanFails, EndRun, TypeOK, db
<1>3. CASE ScanList
  <2>1. [t \in Torrents |-> IF InLibrary(t) THEN qbit[t] ELSE NotInQbit]
            \in [Torrents -> QbitTorrent]
    BY RowTypes DEF TypeOK
  <2>2. scan' \in ScanLocals
    BY <1>3, <2>1 DEF ScanList, TypeOK, ScanLocals
  <2>3. torrents' \in [Torrents -> TorrentRow]
    BY <1>3, InspectedType DEF ScanList, TypeOK
  <2> QED
    BY <1>3, <2>2, <2>3 DEF ScanList, TypeOK, db_but_torrents, actors
<1>4. ASSUME NEW t \in Torrents, ScanLink(t) PROVE TypeOK'
  <2>1. scan' \in ScanLocals
    BY <1>4 DEF ScanLink, TypeOK, ScanLocals
  <2>2. \A i \in Issues : LinkRow(t, i) \in IssueRow
    BY ZenonT(40) DEF LinkRow, TypeOK, IssueRow, IssueStatus, Time
  <2>3. issues' \in [Issues -> IssueRow] 
    BY <1>4, <2>2 DEF ScanLink, TypeOK
  <2>4. folders' \subseteq Issues
    BY <1>4, RetentionConstants DEF ScanLink, TypeOK
  <2> QED
    BY <1>4, <2>1, <2>3, <2>4 DEF ScanLink, TypeOK, db_but_issues, actors
<1>5. CASE ScanReadIssues
  <2>1. scan' \in ScanLocals
    BY <1>5 DEF ScanReadIssues, TypeOK, ScanLocals
  <2>2. torrents' \in [Torrents -> TorrentRow]
    BY ZenonT(40), <1>5 DEF ScanReadIssues, TypeOK, TorrentRow, ScanLocals, QbitTorrent
  <2> QED
    BY <1>5, <2>1, <2>2 DEF ScanReadIssues, TypeOK, db_but_torrents, actors
<1>6. CASE ScanPlan
  <2>1. Idle.rows \in [Issues -> IssueRow]
    BY RowTypes DEF ScanLocals
  <2>2. \A snaps, rows, kept, now : PlannedTorrents(snaps, rows, kept, now) \in SUBSET Torrents
    BY DEF PlannedTorrents
  <2>3. \A planned, snaps, rows, now : PlannedIssues(planned, snaps, rows, now) \in SUBSET Issues
    BY DEF PlannedIssues, Linked
  <2>4. \A rows : Linked(rows) \in SUBSET Issues
    BY DEF Linked
  <2>5. scan' \in ScanLocals
    BY <1>6, <2>1, <2>2, <2>3, <2>4 DEF ScanPlan, TypeOK, ScanLocals
  <2> QED
    BY <1>6, <2>5 DEF ScanPlan, TypeOK, db, actors
<1> DEFINE CancelledType == \A except : CancelPending(except) => deletions' \in [Refs -> DeletionRow]
<1>7. CancelledType
  BY RowTypes DEF CancelPending, TypeOK
<1>8. CASE ApplyOff
  BY <1>8, <1>7, RowTypes DEF ApplyOff, EndRun, TypeOK, db_but_deletions
<1>9. CASE ApplyCancel
  <2>1. scan' \in ScanLocals
    BY <1>9 DEF ApplyCancel, TypeOK, ScanLocals
  <2> QED
    BY <1>9, <2>1, <1>7 DEF ApplyCancel, TypeOK, db_but_deletions, actors
<1>10. CASE ApplyQueue
  <2>1. scan' \in ScanLocals
    BY <1>10 DEF ApplyQueue, TypeOK, ScanLocals
  <2>2. \A r \in Refs : EnsurePending(r) \in DeletionRow
    BY RetentionConstants DEF EnsurePending, TypeOK, ScanLocals, DeletionRow, Time
  <2>3. deletions' \in [Refs -> DeletionRow]
    BY <1>10, <2>2 DEF ApplyQueue, TypeOK
  <2> QED
    BY <1>10, <2>1, <2>3 DEF ApplyQueue, TypeOK, db_but_deletions, actors
<1>11. CASE GateBlocks
  <2>1. DueRows(scan.now) \in SUBSET Refs
    BY DEF DueRows, Pending
  <2>2. blocked' \in Counts
    BY <1>11, <2>1, CountsType DEF GateBlocks
  <2> QED
    BY <1>11, <2>2, RowTypes DEF GateBlocks, EndRun, TypeOK
<1>12. CASE GateOpens
  <2>1. [r \in Refs |-> IF r \in DueRows(scan.now) THEN deletions[r] ELSE Finished("none")]
            \in [Refs -> DeletionRow]
    BY RowTypes DEF TypeOK
  <2>2. scan' \in ScanLocals
    BY <1>12, <2>1 DEF GateOpens, TypeOK, ScanLocals
  <2> QED
    BY <1>12, <2>2 DEF GateOpens, TypeOK
<1>42. ASSUME NEW t \in Torrents, Recheck(t) PROVE TypeOK'
  <2>1. qbit[t] \in QbitTorrent
    BY DEF TypeOK
  <2>2. scan' \in ScanLocals
    BY <1>42, <2>1 DEF Recheck, TypeOK, ScanLocals
  <2> QED
    BY <1>42, <2>2 DEF Recheck, TypeOK, db, actors
<1>13. ASSUME NEW t \in Torrents, DeleteTorrent(t) PROVE TypeOK'
  <2>1. scan' \in ScanLocals
    BY <1>13, RowTypes DEF DeleteTorrent, TypeOK, ScanLocals
  <2>2. qbit' \in [Torrents -> QbitTorrent]
    BY <1>13, RowTypes DEF DeleteTorrent, DeleteFromQbit, TypeOK
  <2>3. removal' \in RemovalLocals
    BY <1>13 DEF DeleteTorrent, TypeOK, ScanLocals, Removing, NoRemoval, RemovalLocals
  <2> QED
    BY <1>13, <2>1, <2>2, <2>3 DEF DeleteTorrent, TypeOK, db
<1>14. ASSUME NEW t \in Torrents, DeleteRefused(t) PROVE TypeOK'
  <2>1. scan' \in ScanLocals
    BY <1>14 DEF DeleteRefused, TypeOK, ScanLocals
  <2>2. events' \in 0..MaxEvents
    BY <1>14, EventType DEF DeleteRefused, TypeOK
  <2> QED
    BY <1>14, <2>1, <2>2 DEF DeleteRefused, TypeOK, db
<1>15. ASSUME NEW t \in Torrents, DeleteUnanswered(t) PROVE TypeOK'
  <2>1. scan' \in ScanLocals
    BY <1>15, RowTypes DEF DeleteUnanswered, TypeOK, ScanLocals
  <2>2. qbit' \in [Torrents -> QbitTorrent]
    BY <1>15, RowTypes DEF DeleteUnanswered, DeleteFromQbit, TypeOK
  <2>3. events' \in 0..MaxEvents
    BY <1>15, EventType DEF DeleteUnanswered, TypeOK
  <2> QED
    BY <1>15, <2>1, <2>2, <2>3 DEF DeleteUnanswered, TypeOK, db
<1>16. ASSUME NEW i \in Issues, DeleteIssue(i) PROVE TypeOK'
  <2>1. scan' \in ScanLocals
    BY <1>16 DEF DeleteIssue, TypeOK, ScanLocals
  <2>2. removal' \in RemovalLocals
    BY <1>16 DEF DeleteIssue, Removing, NoRemoval, RemovalLocals
  <2> QED
    BY <1>16, <2>1, <2>2 DEF DeleteIssue, TypeOK, db
<1>17. CASE FinishDeletion
  <2>1. scan' \in ScanLocals
    BY <1>17 DEF FinishDeletion, TypeOK, ScanLocals
  <2>2. deletions' \in [Refs -> DeletionRow]
    BY <1>17, RowTypes DEF FinishDeletion, TypeOK
  <2> QED
    BY <1>17, <2>1, <2>2, RowTypes DEF FinishDeletion, TypeOK, db_but_deletions
<1>18. CASE ScanEnd
  BY <1>18, RowTypes DEF ScanEnd, EndRun, TypeOK, db
<1>19. ASSUME NEW i \in Issues, RemoveFolder(i) PROVE TypeOK'
  <2>1. removal' \in RemovalLocals
    BY <1>19 DEF RemoveFolder, TypeOK, RemovalLocals
  <2> QED
    BY <1>19, <2>1 DEF RemoveFolder, TypeOK, db
<1>20. ASSUME NEW i \in Issues, SkipVictim(i) PROVE TypeOK'
  <2>1. removal' \in RemovalLocals
    BY <1>20 DEF SkipVictim, TypeOK, RemovalLocals
  <2>2. events' \in 0..MaxEvents
    BY <1>20, EventType DEF SkipVictim, TypeOK
  <2> QED
    BY <1>20, <2>1, <2>2 DEF SkipVictim, TypeOK, db
<1>21. ASSUME NEW i \in Issues, MarkRemoved(i) PROVE TypeOK'
  <2>1. removal' \in RemovalLocals
    BY <1>21 DEF MarkRemoved, TypeOK, RemovalLocals
  <2>2. issues' \in [Issues -> IssueRow]
    BY <1>21 DEF MarkRemoved, TypeOK, IssueRow, IssueStatus
  <2> QED
    BY <1>21, <2>1, <2>2 DEF MarkRemoved, TypeOK, db_but_issues
<1> DEFINE KeepType == \A t \in Torrents, keep \in BOOLEAN : SetTorrentKeep(t, keep) =>
                          /\ torrents' \in [Torrents -> TorrentRow]
                          /\ issues' \in [Issues -> IssueRow]
           LateType == \A ts \in SUBSET Torrents, is \in SUBSET Issues :
                          KeptLate(ts, is) => scan' \in ScanLocals
<1>22. KeepType
  BY SMTT(30) DEF SetTorrentKeep, TypeOK, TorrentRow, IssueRow
<1>23. LateType
  BY DEF KeptLate, TypeOK, ScanLocals
<1>24. ASSUME NEW t \in Torrents, KeepPendingTorrent(t) PROVE TypeOK'
  <2>1. scan' \in ScanLocals
    BY <1>24, <1>23 DEF KeepPendingTorrent, IssuesFrom
  <2>2. deletions' \in [Refs -> DeletionRow]
    BY <1>24, RowTypes DEF KeepPendingTorrent, TypeOK
  <2>3. events' \in 0..MaxEvents
    BY <1>24, EventType DEF KeepPendingTorrent, TypeOK
  <2> QED
    BY <1>24, <1>22, <2>1, <2>2, <2>3 DEF KeepPendingTorrent, TypeOK, settled
<1>25. ASSUME NEW i \in Issues, KeepPendingIssue(i) PROVE TypeOK'
  <2>1. scan' \in ScanLocals
    BY <1>25, <1>23 DEF KeepPendingIssue
  <2>2. deletions' \in [Refs -> DeletionRow]
    BY <1>25, RowTypes DEF KeepPendingIssue, TypeOK
  <2>3. events' \in 0..MaxEvents
    BY <1>25, EventType DEF KeepPendingIssue, TypeOK
  <2>4. issues' \in [Issues -> IssueRow]
    BY <1>25 DEF KeepPendingIssue, TypeOK, IssueRow
  <2> QED
    BY <1>25, <2>1, <2>2, <2>3, <2>4 DEF KeepPendingIssue, TypeOK, settled
<1>26. ASSUME NEW r \in Refs, DeleteNow(r) PROVE TypeOK'
  <2>1. clock - 1 \in Nat
    BY RetentionConstants DEF TypeOK, Time
  <2>2. deletions' \in [Refs -> DeletionRow]
    BY ZenonT(40), <1>26, <2>1 DEF DeleteNow, TypeOK, DeletionRow
  <2>3. events' \in 0..MaxEvents
    BY <1>26, EventType DEF DeleteNow, TypeOK
  <2> QED
    BY <1>26, <2>2, <2>3 DEF DeleteNow, TypeOK, db_but_deletions, threads
<1>27. ASSUME NEW t \in Torrents, Unkeep(t) PROVE TypeOK'
  <2>1. events' \in 0..MaxEvents
    BY <1>27, EventType DEF Unkeep, TypeOK
  <2> QED
    BY <1>27, <1>22, <2>1 DEF Unkeep, TypeOK, settled, threads
<1>28. ASSUME NEW i \in Issues, ToggleIssueKeep(i) PROVE TypeOK'
  <2>1. scan' \in ScanLocals
    BY <1>28, <1>23 DEF ToggleIssueKeep, TypeOK
  <2>2. issues' \in [Issues -> IssueRow]
    BY ZenonT(40), <1>28 DEF ToggleIssueKeep, TypeOK, IssueRow
  <2>3. events' \in 0..MaxEvents
    BY <1>28, EventType DEF ToggleIssueKeep, TypeOK
  <2> QED
    BY <1>28, <2>1, <2>2, <2>3 DEF ToggleIssueKeep, TypeOK, db_but_issues
<1>29. ASSUME NEW i \in Issues, RemoveIssue(i) \/ RestoreIssue(i) PROVE TypeOK'
  <2>1. issues' \in [Issues -> IssueRow]
    BY <1>29 DEF RemoveIssue, RestoreIssue, TypeOK, IssueRow, IssueStatus
  <2>2. events' \in 0..MaxEvents
    BY <1>29, EventType DEF RemoveIssue, RestoreIssue, TypeOK
  <2>3. folders' \subseteq Issues
    BY <1>29 DEF RemoveIssue, RestoreIssue, TypeOK
  <2> QED
    BY <1>29, <2>1, <2>2, <2>3
    DEF RemoveIssue, RestoreIssue, TypeOK, db_but_issues, threads
<1>30. CASE Arm \/ SwitchRetention
  <2>1. settings.enabled \in BOOLEAN
    BY DEF TypeOK
  <2>2. ASSUME Arm PROVE settings' \in [enabled: BOOLEAN, armed: BOOLEAN]
    BY <2>2 DEF Arm, TypeOK
  <2>3. (~settings.enabled) \in BOOLEAN
    OBVIOUS
  <2>4. ASSUME SwitchRetention PROVE settings' \in [enabled: BOOLEAN, armed: BOOLEAN]
    BY <2>3, <2>4 DEF SwitchRetention
  <2>5. settings' \in [enabled: BOOLEAN, armed: BOOLEAN]
    BY <1>30, <2>2, <2>4
  <2>6. events' \in 0..MaxEvents
    BY <1>30, EventType DEF Arm, SwitchRetention, TypeOK
  <2> QED
    BY <1>30, <2>5, <2>6 DEF Arm, SwitchRetention, TypeOK, db_but_settings, threads
<1>31. CASE Disarm
  <2>1. settings' \in [enabled: BOOLEAN, armed: BOOLEAN]
    BY <1>31 DEF Disarm, TypeOK
  <2>2. events' \in 0..MaxEvents
    BY <1>31, EventType DEF Disarm, TypeOK
  <2> QED
    BY <1>31, <1>7, <2>1, <2>2 DEF Disarm, TypeOK, threads
<1>32. CASE Approve
  <2>1. approval' \in [torrents: Nat, issues: Nat, expires: Nat]
    BY <1>32, RetentionConstants DEF Approve, TypeOK, Counts, Time
  <2>2. events' \in 0..MaxEvents
    BY <1>32, EventType DEF Approve, TypeOK
  <2> QED
    BY <1>32, <2>1, <2>2 DEF Approve, TypeOK, threads
<1>33. ASSUME NEW t \in Torrents, ManualCheck(t) PROVE TypeOK'
  <2>1. events' \in 0..MaxEvents
    BY <1>33, EventType DEF ManualCheck, TypeOK
  <2> QED
    BY <1>33, <2>1 DEF ManualCheck, TypeOK, ManualLocals, db
<1>43. ASSUME NEW t \in Torrents, ManualRecheck(t) PROVE TypeOK'
  BY <1>43 DEF ManualRecheck, TypeOK, ManualLocals, db
<1>44. ASSUME NEW t \in Torrents, ManualUnanswered(t) PROVE TypeOK'
  <2>1. qbit' \in [Torrents -> QbitTorrent]
    BY <1>44, RowTypes DEF ManualUnanswered, DeleteFromQbit, TypeOK
  <2>2. events' \in 0..MaxEvents
    BY <1>44, EventType DEF ManualUnanswered, TypeOK
  <2> QED
    BY <1>44, <2>1, <2>2, RowTypes DEF ManualUnanswered, TypeOK, db
<1>34. ASSUME NEW t \in Torrents, ManualDelete(t) PROVE TypeOK'
  <2>1. qbit' \in [Torrents -> QbitTorrent]
    BY <1>34, RowTypes DEF ManualDelete, DeleteFromQbit, TypeOK
  <2>2. removal' \in RemovalLocals
    BY <1>34 DEF ManualDelete, TypeOK, Linked, Removing, NoRemoval, RemovalLocals
  <2>3. manual' \in ManualLocals
    BY <1>34 DEF ManualDelete, TypeOK, ManualLocals
  <2> QED
    BY <1>34, <2>1, <2>2, <2>3 DEF ManualDelete, TypeOK, db
<1>35. ASSUME NEW t \in Torrents, ManualFinish(t) PROVE TypeOK'
  <2>1. deletions' \in [Refs -> DeletionRow]
    BY <1>35, RowTypes DEF ManualFinish, TypeOK
  <2>2. torrents' \in [Torrents -> TorrentRow]
    BY <1>35 DEF ManualFinish, TypeOK, TorrentRow
  <2> QED
    BY <1>35, <2>1, <2>2, RowTypes DEF ManualFinish, TypeOK, settled
<1>36. CASE ManualRefused
  <2>1. events' \in 0..MaxEvents
    BY <1>36, EventType DEF ManualRefused, TypeOK
  <2> QED
    BY <1>36, <2>1, RowTypes DEF ManualRefused, TypeOK, db
<1>37. ASSUME NEW t \in Torrents, QbitAdd(t) \/ QbitChange(t) \/ FileChange(t)
       PROVE  TypeOK'
  <2>1. CASE QbitAdd(t)
    <3>1. qbit' \in [Torrents -> QbitTorrent]
      <4>1. PICK clean \in BOOLEAN, known \in {0, clock} :
                qbit' = [qbit EXCEPT ![t] = [present |-> TRUE, inCategory |-> TRUE,
                            complete |-> TRUE, clean |-> clean, broken |-> {},
                            completedOn |-> known]]
        BY <2>1 DEF QbitAdd
      <4>2. [present |-> TRUE, inCategory |-> TRUE, complete |-> TRUE, clean |-> clean,
             broken |-> {}, completedOn |-> known] \in QbitTorrent
        BY RetentionConstants DEF TypeOK, QbitTorrent, Time
      <4> QED
        BY <4>1, <4>2 DEF TypeOK
    <3>2. events' \in 0..MaxEvents
      BY <2>1, EventType DEF QbitAdd, TypeOK
    <3> QED
      BY <2>1, <3>1, <3>2 DEF QbitAdd, TypeOK, db, threads
  <2>2. CASE QbitChange(t)
    <3>1. qbit' \in [Torrents -> QbitTorrent]
      <4>1. qbit \in [Torrents -> QbitTorrent]
        BY DEF TypeOK
      <4>2. CASE qbit' = [qbit EXCEPT ![t] = NotInQbit]
        BY <4>1, <4>2, RowTypes
      <4>3. CASE qbit' = [qbit EXCEPT ![t].inCategory = ~@]
        BY <4>1, <4>3 DEF QbitTorrent
      <4>4. CASE qbit' = [qbit EXCEPT ![t].complete = ~@]
        BY <4>1, <4>4 DEF QbitTorrent
      <4>5. CASE qbit' = [qbit EXCEPT ![t].clean = ~@]
        BY <4>1, <4>5 DEF QbitTorrent
      <4> QED
        BY <2>2, <4>2, <4>3, <4>4, <4>5 DEF QbitChange
    <3>2. events' \in 0..MaxEvents
      BY <2>2, EventType DEF QbitChange, TypeOK
    <3> QED
      BY <2>2, <3>1, <3>2 DEF QbitChange, TypeOK, db, threads
  <2>3. CASE FileChange(t)
    <3>1. qbit' \in [Torrents -> QbitTorrent]
      <4>1. qbit \in [Torrents -> QbitTorrent]
        BY DEF TypeOK
      <4>2. PICK i \in Items[t] : qbit' = [qbit EXCEPT ![t].broken =
                                            IF i \in @ THEN @ \ {i} ELSE @ \cup {i}]
        BY <2>3 DEF FileChange
      <4>3. i \in Issues
        BY RetentionConstants
      <4> QED
        BY <4>1, <4>2, <4>3 DEF QbitTorrent
    <3>2. events' \in 0..MaxEvents
      BY <2>3, EventType DEF FileChange, TypeOK
    <3> QED
      BY <2>3, <3>1, <3>2 DEF FileChange, TypeOK, db, threads
  <2> QED
    BY <1>37, <2>1, <2>2, <2>3
<1>38. CASE Tick
  BY <1>38, RetentionConstants DEF Tick, TypeOK, Time, db, threads
<1>39. CASE Restart
  BY <1>39, RowTypes, EventType DEF Restart, TypeOK, db
<1>40. CASE UNCHANGED vars
  BY <1>40 DEF vars, TypeOK
<1> QED
  BY <1>1, <1>2, <1>3, <1>4, <1>5, <1>6, <1>8, <1>9, <1>10, <1>11, <1>12, <1>13,
     <1>14, <1>15,
     <1>16, <1>17, <1>18, <1>19, <1>20, <1>21, <1>24, <1>25, <1>26, <1>27, <1>28, <1>29, <1>30,
     <1>31, <1>32, <1>33, <1>34, <1>35, <1>36, <1>37, <1>38, <1>39, <1>40, <1>41, <1>42, <1>43, <1>44
  DEF Next, Scan, Apply, RemoveIssues, Handlers, Manual, Outside

---------------------------------------------------------------------------
(* What the actions that are not about an invariant leave alone.           *)

(* A web handler changes nothing of the threads but the history of keeps.  *)
LEMMA HandlerFrame ==
    ASSUME Handlers
    PROVE  /\ UNCHANGED <<clock, qbit, lock, manual, removal>>
           /\ UNCHANGED scan \/ \E late : scan' = [scan EXCEPT !.late = late]
<1>1. ASSUME NEW t \in Torrents, KeepPendingTorrent(t) \/ Unkeep(t)
      PROVE UNCHANGED <<clock, qbit, lock, manual, removal>>
           /\ (UNCHANGED scan \/ \E late : scan' = [scan EXCEPT !.late = late])
  BY <1>1 DEF KeepPendingTorrent, Unkeep, KeptLate, threads
<1>2. ASSUME NEW i \in Issues, KeepPendingIssue(i) \/ ToggleIssueKeep(i) \/ RemoveIssue(i) \/ RestoreIssue(i)
      PROVE UNCHANGED <<clock, qbit, lock, manual, removal>>
           /\ (UNCHANGED scan \/ \E late : scan' = [scan EXCEPT !.late = late])
  BY <1>2
  DEF KeepPendingIssue, ToggleIssueKeep, RemoveIssue, RestoreIssue, KeptLate,
      threads
<1>3. ASSUME \/ \E r \in Refs : DeleteNow(r)
             \/ Arm \/ Disarm \/ SwitchRetention \/ Approve
      PROVE UNCHANGED <<clock, qbit, threads>>
  BY <1>3 DEF DeleteNow, Arm, Disarm, SwitchRetention, Approve, threads
<1> QED
  BY <1>1, <1>2, <1>3 DEF Handlers, threads

(* Only an approval and a batch that passes the gate touch the approval.   *)
LEMMA CreditFrame ==
    ASSUME [Next]_vars
    PROVE  GateOpens \/ Approve \/ UNCHANGED <<approval, credit>>
  BY DEF Next, Scan, Apply, RemoveIssues, Handlers, Manual, Outside, vars, ScanStart,
      ScanFails, ScanUnreachable, ScanList, ScanLink, ScanReadIssues, ScanPlan, EndRun, db,
      db_but_issues, db_but_deletions, db_but_torrents, db_but_settings, settled,
      threads, actors, ApplyOff, ApplyCancel, ApplyQueue, GateBlocks, DeleteTorrent,
      Recheck, DeleteRefused, DeleteUnanswered, DeleteIssue, FinishDeletion, ScanEnd,
      RemoveFolder, SkipVictim, MarkRemoved, KeepPendingTorrent, KeepPendingIssue,
      DeleteNow, Unkeep, ToggleIssueKeep, RemoveIssue, RestoreIssue, Arm, Disarm,
      SwitchRetention, ManualCheck, ManualRefused, ManualRecheck, ManualDelete,
      ManualUnanswered, ManualFinish, QbitAdd, QbitChange, FileChange, Tick, Restart

(* The actions that touch issues, folders or remove_issues.                *)
LEMMA FolderFrame == ASSUME [Next]_vars
   PROVE \/ UNCHANGED <<issues, folders, removal>>
         \/ \E t \in Torrents : \/ ScanLink(t) \/ DeleteTorrent(t) \/ KeepPendingTorrent(t)
                                \/ Unkeep(t) \/ ManualDelete(t) \/ ManualFinish(t)
         \/ \E i \in Issues : \/ DeleteIssue(i) \/ RemoveFolder(i) \/ SkipVictim(i) \/ MarkRemoved(i)
                              \/ KeepPendingIssue(i) \/ ToggleIssueKeep(i)
                              \/ RemoveIssue(i) \/ RestoreIssue(i)
         \/ FinishDeletion
         \/ UNCHANGED <<issues, folders>> /\ removal' = NoRemoval
  BY DEF Next, Scan, Apply, RemoveIssues, Handlers, Manual, Outside, vars, ScanStart,
      ScanFails, ScanUnreachable, ScanList, ScanReadIssues, ScanPlan, EndRun, db, db_but_issues,
      db_but_deletions, db_but_torrents, db_but_settings, settled, threads, actors,
      ApplyOff, ApplyCancel, ApplyQueue, GateBlocks, GateOpens, Recheck, DeleteRefused,
      DeleteUnanswered, ScanEnd, DeleteNow, Arm, Disarm, SwitchRetention, Approve,
      ManualCheck, ManualRefused, ManualRecheck, ManualUnanswered, QbitAdd, QbitChange,
      FileChange, Tick, Restart

(* A run that starts, lists or ends holds no plan.                         *)
LEMMA EarlyFrame ==
    ASSUME scan \in ScanLocals,
           \/ ScanStart \/ ScanFails \/ ScanUnreachable \/ ScanList \/ ApplyOff \/ GateBlocks \/ ScanEnd
           \/ Restart
    PROVE  scan'.pc \in {"idle", "list", "link"}
<1>1. CASE ScanStart
  BY <1>1 DEF ScanStart, ScanLocals
<1>2. CASE ScanList
  BY <1>2 DEF ScanList, ScanLocals
<1>3. ASSUME ScanFails \/ ScanUnreachable \/ ApplyOff \/ GateBlocks \/ ScanEnd \/ Restart
      PROVE  scan' = Idle
  BY <1>3 DEF ScanFails, ScanUnreachable, ApplyOff, GateBlocks, ScanEnd, Restart, EndRun
<1>4. Idle.pc = "idle"
  BY DEF Idle
<1> QED
  BY <1>1, <1>2, <1>3, <1>4

(* The steps on a due torrent leave the plan and the database alone, and   *)
(* doom nothing more.                                                      *)
PlanSame == /\ scan'.torrents = scan.torrents /\ scan'.issues = scan.issues
            /\ scan'.snaps = scan.snaps /\ scan'.now = scan.now

LEMMA DeleteFrame ==
    ASSUME scan \in ScanLocals, NEW t \in Torrents,
           Recheck(t) \/ DeleteRefused(t) \/ DeleteTorrent(t) \/ DeleteUnanswered(t)
    PROVE  /\ scan.pc \in Deleting /\ scan'.pc \in Deleting /\ Doomed' \subseteq Doomed
           /\ PlanSame /\ scan'.batch = scan.batch /\ scan'.owned = scan.owned
           /\ scan'.late = scan.late
           /\ UNCHANGED <<clock, torrents, issues, deletions>>
<1> USE DEF ScanLocals, Deleting, Doomed, PlanSame, db
<1>1. CASE Recheck(t)
  BY <1>1 DEF Recheck, StartDelete
<1>2. CASE DeleteRefused(t)
  BY <1>2 DEF DeleteRefused, StartDelete
<1>3. CASE DeleteTorrent(t)
  BY <1>3 DEF DeleteTorrent
<1>4. CASE DeleteUnanswered(t)
  BY <1>4 DEF DeleteUnanswered
<1> QED
  BY <1>1, <1>2, <1>3, <1>4

---------------------------------------------------------------------------
(* Each part of the invariant is kept by every action.                     *)

(* The lock says which thread may be removing.                             *)
LEMMA LockNext == ASSUME TypeOK, LockInv, [Next]_vars PROVE LockInv'
<1>1. scan \in ScanLocals /\ manual \in ManualLocals /\ removal \in RemovalLocals
  BY DEF TypeOK
<1>2. ASSUME NEW t \in Torrents, ScanLink(t) PROVE LockInv'
  BY <1>1, <1>2 DEF ScanLink, LockInv, actors, ScanLocals
<1>3. CASE ScanStart
  BY <1>1, <1>3 DEF ScanStart, LockInv, ScanLocals
<1>4. CASE ScanFails \/ ScanUnreachable \/ ApplyOff \/ GateBlocks \/ ScanEnd
  BY <1>1, <1>4
  DEF ScanFails, ScanUnreachable, ApplyOff, GateBlocks, ScanEnd, EndRun, LockInv, Idle
<1>5. CASE ScanList \/ ScanReadIssues \/ ScanPlan \/ ApplyCancel \/ ApplyQueue
  BY <1>1, <1>5
  DEF ScanList, ScanReadIssues, ScanPlan, ApplyCancel, ApplyQueue, actors, LockInv,
      ScanLocals
<1>6. CASE GateOpens
  BY <1>1, <1>6 DEF GateOpens, LockInv, ScanLocals
<1>7. ASSUME NEW t \in Torrents,
             Recheck(t) \/ DeleteTorrent(t) \/ DeleteRefused(t) \/ DeleteUnanswered(t)
      PROVE  LockInv'
  BY <1>1, <1>7
  DEF Recheck, DeleteTorrent, DeleteRefused, DeleteUnanswered, StartDelete, LockInv,
      ScanLocals, actors
<1>8. ASSUME NEW i \in Issues, DeleteIssue(i) PROVE LockInv'
  BY <1>1, <1>8 DEF DeleteIssue, StartDelete, LockInv, ScanLocals
<1>9. CASE FinishDeletion
  BY <1>1, <1>9 DEF FinishDeletion, LockInv, ScanLocals
<1>10. ASSUME NEW i \in Issues, RemoveFolder(i) \/ SkipVictim(i) \/ MarkRemoved(i)
       PROVE  LockInv'
  BY <1>1, <1>10, RetentionConstants
  DEF RemoveFolder, SkipVictim, MarkRemoved, LockInv, NoRemoval, ManualLocals
<1>11. ASSUME NEW t \in Torrents,
              ManualCheck(t) \/ ManualRecheck(t) \/ ManualDelete(t) \/ ManualUnanswered(t)
              \/ ManualFinish(t)
       PROVE  LockInv'
  BY <1>1, <1>11
  DEF ManualCheck, ManualRecheck, ManualDelete, ManualUnanswered, ManualFinish, LockInv,
      NoManual, ManualLocals
<1>12. CASE ManualRefused
  BY <1>1, <1>12 DEF ManualRefused, LockInv, NoManual
<1>13. CASE Restart
  BY <1>13 DEF Restart, LockInv, Idle, NoManual
<1>14. CASE scan'.pc = scan.pc /\ UNCHANGED <<lock, manual, removal>>
  BY <1>14 DEF LockInv
<1>15. CASE Handlers
  BY <1>1, <1>15, HandlerFrame DEF LockInv, ScanLocals
<1>16. ASSUME (\E t \in Torrents : QbitAdd(t) \/ QbitChange(t) \/ FileChange(t)) \/ Tick \/ UNCHANGED vars
       PROVE UNCHANGED threads
  BY <1>16 DEF QbitAdd, QbitChange, FileChange, Tick, vars, threads
<1> QED
  BY <1>2, <1>3, <1>4, <1>5, <1>6, <1>7, <1>8, <1>9, <1>10, <1>11, <1>12, <1>13,
     <1>14, <1>15, <1>16
  DEF Next, Scan, Apply, RemoveIssues, Manual, Outside, threads

(* A folder is gone before a row says so, and no step brings it back.      *)
LEMMA FolderNext == ASSUME TypeOK, LockInv, FolderInv, [Next]_vars PROVE FolderInv'
<1>1. issues \in [Issues -> IssueRow] /\ removal \in RemovalLocals /\ folders \subseteq Issues
  BY DEF TypeOK
<1> USE DEF FolderInv
<1>2. ASSUME NEW t \in Torrents, ScanLink(t) PROVE FolderInv'
  BY <1>2 DEF ScanLink, LockInv, NoRemoval, actors
<1>3. ASSUME NEW i \in Issues, RemoveFolder(i) PROVE FolderInv'
  BY <1>1, <1>3 DEF RemoveFolder, db, RemovalLocals
<1>4. ASSUME NEW i \in Issues, SkipVictim(i) PROVE FolderInv'
  BY <1>1, <1>4 DEF SkipVictim, db, RemovalLocals
<1>5. ASSUME NEW i \in Issues, MarkRemoved(i) PROVE FolderInv'
  BY <1>1, <1>5, RetentionConstants DEF MarkRemoved, RemovalLocals, IssueRow
<1>6. ASSUME NEW t \in Torrents, KeepPendingTorrent(t) \/ Unkeep(t) PROVE FolderInv'
  BY <1>1, <1>6 DEF KeepPendingTorrent, Unkeep, SetTorrentKeep, IssueRow, threads
<1>7. ASSUME NEW i \in Issues, KeepPendingIssue(i) \/ ToggleIssueKeep(i)
      PROVE  FolderInv'
  BY <1>1, <1>7 DEF KeepPendingIssue, ToggleIssueKeep, IssueRow, threads
<1>8. ASSUME NEW i \in Issues, RemoveIssue(i) PROVE FolderInv'
  BY <1>1, <1>8 DEF RemoveIssue, IssueRow, threads
<1>9. ASSUME NEW i \in Issues, RestoreIssue(i) PROVE FolderInv'
  BY <1>1, <1>9 DEF RestoreIssue, IssueRow, threads
<1>10. ASSUME NEW i \in Issues, DeleteIssue(i) PROVE FolderInv'
  BY <1>10 DEF DeleteIssue, Removing, NoRemoval, db
<1>11. ASSUME NEW t \in Torrents, DeleteTorrent(t) \/ ManualDelete(t) \/ ManualFinish(t)
       PROVE FolderInv'
  BY <1>11 DEF DeleteTorrent, ManualDelete, ManualFinish, Removing, NoRemoval, db
<1>12. CASE FinishDeletion
  BY <1>12 DEF FinishDeletion, NoRemoval, db_but_deletions
<1>13. CASE UNCHANGED <<issues, folders>> /\ removal' = NoRemoval
  BY <1>13 DEF NoRemoval
<1>14. CASE UNCHANGED <<issues, folders, removal>>
  BY <1>14
<1> QED
  BY <1>2, <1>3, <1>4, <1>5, <1>6, <1>7, <1>8, <1>9, <1>10, <1>11, <1>12, <1>13,
     <1>14, FolderFrame

(* An approval is spent together with the credit it gave.                  *)
LEMMA CreditNext == ASSUME TypeOK, CreditInv, [Next]_vars PROVE CreditInv'
<1>1. CASE GateOpens
  BY <1>1 DEF GateOpens, CreditInv
<1>2. CASE Approve
  BY <1>2 DEF Approve, CreditInv, TypeOK, Counts, Covers
<1>3. CASE UNCHANGED <<approval, credit>>
  BY <1>3 DEF CreditInv
<1> QED
  BY <1>1, <1>2, <1>3, CreditFrame

(* A row is due only after its grace period, in the table and in a run.    *)
LEMMA GraceNext == ASSUME TypeOK, GraceInv, [Next]_vars PROVE GraceInv'
<1>1. /\ scan \in ScanLocals /\ deletions \in [Refs -> DeletionRow]
      /\ clock \in Nat /\ scan.now \in Nat /\ Grace \in Nat
  BY RetentionConstants DEF TypeOK, ScanLocals, Time
<1> USE DEF Deleting, Doomed
<1>2. ASSUME NEW t \in Torrents, ScanLink(t) PROVE GraceInv'
  BY <1>1, <1>2 DEF ScanLink, GraceInv, Pending, db_but_issues, actors, ScanLocals
<1>3. CASE ScanStart
  BY <1>1, <1>3 DEF ScanStart, GraceInv, Pending, db, ScanLocals
<1>4. CASE ScanFails \/ ScanUnreachable \/ GateBlocks \/ ScanEnd \/ Restart
  <2>1. scan' = Idle /\ deletions' = deletions
    BY <1>4
    DEF ScanFails, ScanUnreachable, GateBlocks, ScanEnd, Restart, EndRun, db, db_but_torrents
  <2>2. clock' = clock
    BY <1>4
    DEF ScanFails, ScanUnreachable, GateBlocks, ScanEnd, Restart, EndRun
  <2> QED
    BY <1>1, <2>1, <2>2 DEF GraceInv, Pending, Idle
<1>5. CASE ApplyOff
  BY <1>1, <1>5 DEF ApplyOff, EndRun, GraceInv, Pending, Idle, CancelPending, Finished
<1>6. CASE ScanList \/ ScanReadIssues \/ ScanPlan
  BY <1>1, <1>6
  DEF ScanList, ScanReadIssues, ScanPlan, GraceInv, Pending, db, db_but_torrents,
      actors, ScanLocals
<1>7. CASE ApplyCancel
  BY <1>1, <1>7
  DEF ApplyCancel, GraceInv, Pending, CancelPending, Finished, actors, ScanLocals
<1>8. CASE ApplyQueue
  <2>1. ASSUME NEW r \in Refs, deletions'[r].status = "pending"
        PROVE  Waits(deletions'[r])
    BY <1>1, <1>8, <2>1 DEF ApplyQueue, EnsurePending, GraceInv, Pending, Waits
  <2> QED
    BY <1>1, <1>8, <2>1 DEF ApplyQueue, GraceInv, Pending, Waits, actors, ScanLocals
<1>9. CASE GateOpens
  <2>1. ASSUME NEW r \in DueRows(scan.now)
        PROVE deletions[r].hurried \/ deletions[r].queuedBy + Grace <= scan.now
    <3>1. r \in Refs /\ Waits(deletions[r]) /\ deletions[r].due <= scan.now
      BY DEF DueRows, Pending, GraceInv
    <3>2. deletions[r].queuedBy \in Nat /\ deletions[r].due \in Nat
      BY <1>1, <3>1 DEF DeletionRow, Time
    <3> QED
      BY <1>1, <3>1, <3>2 DEF Waits
  <2>2. ASSUME NEW r \in scan'.due
        PROVE scan'.batch[r].hurried \/ scan'.batch[r].queuedBy + Grace <= scan.now
    BY <1>1, <1>9, <2>1 DEF GateOpens, ScanLocals, DueRows, Pending
  <2> QED
    BY <1>1, <1>9, <2>2 DEF GateOpens, GraceInv, Pending, ScanLocals
<1>10. ASSUME NEW t \in Torrents,
              Recheck(t) \/ DeleteTorrent(t) \/ DeleteRefused(t) \/ DeleteUnanswered(t)
       PROVE GraceInv'
  BY <1>1, <1>10, DeleteFrame DEF GraceInv, Pending, PlanSame
<1>11. ASSUME NEW i \in Issues, DeleteIssue(i) PROVE GraceInv'
  BY <1>1, <1>11 DEF DeleteIssue, StartDelete, GraceInv, Pending, ScanLocals, db
<1>12. CASE FinishDeletion
  BY <1>1, <1>12 DEF FinishDeletion, GraceInv, Pending, Finished, ScanLocals
<1>13. CASE RemoveIssues
  BY <1>1, <1>13
  DEF RemoveIssues, RemoveFolder, SkipVictim, MarkRemoved, GraceInv, Pending, db,
      db_but_issues
<1>14. CASE Handlers
  <2>1. \A r \in Pending' : Waits(deletions[r])' 
    <3>1. ASSUME NEW r \in Refs, DeleteNow(r)
          PROVE  \A q \in Pending' : Waits(deletions'[q])
      BY <1>1, <3>1 DEF DeleteNow, GraceInv, Pending, Waits, DeletionRow
    <3>2. CASE Disarm
      BY <3>2 DEF Disarm, CancelPending, Finished, GraceInv, Pending
    <3>3. ASSUME NEW t \in Torrents, KeepPendingTorrent(t)
          PROVE  \A q \in Pending' : Waits(deletions'[q])
      BY <1>1, <3>3 DEF KeepPendingTorrent, Finished, GraceInv, Pending
    <3>4. ASSUME NEW i \in Issues, KeepPendingIssue(i)
          PROVE  \A q \in Pending' : Waits(deletions'[q])
      BY <1>1, <3>4 DEF KeepPendingIssue, Finished, GraceInv, Pending
    <3>5. CASE UNCHANGED deletions
      BY <3>5 DEF GraceInv, Pending
    <3>6. ASSUME \/ \E t \in Torrents : Unkeep(t)
                 \/ \E i \in Issues : ToggleIssueKeep(i) \/ RemoveIssue(i) \/ RestoreIssue(i)
                 \/ Arm \/ SwitchRetention \/ Approve
          PROVE UNCHANGED deletions
      BY <3>6
      DEF Unkeep, ToggleIssueKeep, RemoveIssue, RestoreIssue, Arm, SwitchRetention,
          Approve,
                  db_but_issues, db_but_settings
    <3> QED
      BY <1>14, <3>1, <3>2, <3>3, <3>4, <3>5, <3>6 DEF Handlers
  <2>2. /\ UNCHANGED clock
        /\ scan'.now = scan.now /\ scan'.pc = scan.pc /\ scan'.due = scan.due
        /\ scan'.batch = scan.batch /\ scan'.current = scan.current
    BY <1>1, <1>14, HandlerFrame DEF ScanLocals
  <2> QED
    BY <2>1, <2>2 DEF GraceInv
<1>15. ASSUME NEW t \in Torrents, ManualFinish(t) PROVE GraceInv'
  BY <1>1, <1>15 DEF ManualFinish, Finished, GraceInv, Pending
<1>16. ASSUME NEW t \in Torrents,
              ManualCheck(t) \/ ManualRecheck(t) \/ ManualDelete(t) \/ ManualUnanswered(t)
       PROVE  GraceInv'
  BY <1>16
  DEF ManualCheck, ManualRecheck, ManualDelete, ManualUnanswered, GraceInv, Pending, db
<1>17. ASSUME NEW t \in Torrents, QbitAdd(t) \/ QbitChange(t) \/ FileChange(t)
       PROVE  GraceInv'
  BY <1>17 DEF QbitAdd, QbitChange, FileChange, GraceInv, Pending, db, threads
<1>18. CASE Tick
  BY <1>1, <1>18 DEF Tick, GraceInv, Pending, db, threads
<1>19. CASE UNCHANGED vars
  BY <1>19 DEF vars, GraceInv, Pending
<1>20. CASE ManualRefused
  BY <1>20 DEF ManualRefused, GraceInv, Pending, db
<1> QED
  BY <1>2, <1>3, <1>4, <1>5, <1>6, <1>7, <1>8, <1>9, <1>10, <1>11, <1>12, <1>13,
     <1>14, <1>15,
     <1>16, <1>17, <1>18, <1>19, <1>20
  DEF Next, Scan, Apply, Manual, Outside

(* Only the linking of a download changes when an issue was linked, or     *)
(* makes it linked.                                                        *)
LEMMA LinkFrame ==
    ASSUME TypeOK, [Next]_vars, ~ \E t \in Torrents : ScanLink(t)
    PROVE  \A i \in Issues : /\ issues'[i].linkedAt = issues[i].linkedAt
                             /\ issues'[i].status = "linked" => issues[i].status = "linked"
<1>1. issues \in [Issues -> IssueRow]
  BY DEF TypeOK
<1> DEFINE Same == \A i \in Issues : /\ issues'[i].linkedAt = issues[i].linkedAt
                                     /\ issues'[i].status = "linked" => issues[i].status = "linked"
<1>2. ASSUME NEW t \in Torrents, KeepPendingTorrent(t) \/ Unkeep(t) PROVE Same
  BY <1>1, <1>2 DEF KeepPendingTorrent, Unkeep, SetTorrentKeep, IssueRow
<1>3. ASSUME NEW i \in Issues, KeepPendingIssue(i) \/ ToggleIssueKeep(i) PROVE Same
  BY <1>1, <1>3 DEF KeepPendingIssue, ToggleIssueKeep, IssueRow
<1>4. ASSUME NEW i \in Issues, RemoveIssue(i) \/ RestoreIssue(i) \/ MarkRemoved(i) PROVE Same
  BY <1>1, <1>4 DEF RemoveIssue, RestoreIssue, MarkRemoved, IssueRow
<1>5. ASSUME NEW t \in Torrents, DeleteTorrent(t) \/ ManualDelete(t) \/ ManualFinish(t)
      PROVE  UNCHANGED issues
  BY <1>5 DEF DeleteTorrent, ManualDelete, ManualFinish, db
<1>6. ASSUME NEW i \in Issues, DeleteIssue(i) \/ RemoveFolder(i) \/ SkipVictim(i)
      PROVE  UNCHANGED issues
  BY <1>6 DEF DeleteIssue, RemoveFolder, SkipVictim, db
<1>7. FinishDeletion => UNCHANGED issues
  BY DEF FinishDeletion, db_but_deletions
<1>8. UNCHANGED issues => Same
  OBVIOUS
<1> QED
  BY <1>2, <1>3, <1>4, <1>5, <1>6, <1>7, <1>8, FolderFrame

(* What the steps that are not the scan's do to it.                        *)
LEMMA OthersFrame ==
    ASSUME scan \in ScanLocals,
           \/ RemoveIssues \/ Handlers \/ Manual \/ Tick \/ UNCHANGED vars
           \/ \E t \in Torrents : QbitAdd(t) \/ QbitChange(t) \/ FileChange(t)
    PROVE  \E late : scan' = [scan EXCEPT !.late = late]
<1>1. UNCHANGED scan => scan' = [scan EXCEPT !.late = scan.late]
  BY DEF ScanLocals
<1>2. CASE Handlers
  BY <1>1, <1>2, HandlerFrame
<1>3. ASSUME \/ RemoveIssues \/ Tick \/ UNCHANGED vars
             \/ \E t \in Torrents : QbitAdd(t) \/ QbitChange(t) \/ FileChange(t)
      PROVE UNCHANGED scan
  BY <1>3
  DEF RemoveIssues, RemoveFolder, SkipVictim, MarkRemoved, Tick, vars, QbitAdd, QbitChange,
      FileChange, threads
<1>4. Manual => UNCHANGED scan
  BY DEF Manual, ManualCheck, ManualRefused, ManualRecheck, ManualDelete, ManualUnanswered,
         ManualFinish
<1> QED
  BY <1>1, <1>2, <1>3, <1>4

(* A linked issue knows when it was linked, and so does the plan.          *)
LEMMA LinkNext == ASSUME TypeOK, LinkInv, [Next]_vars PROVE LinkInv'
<1>1. scan \in ScanLocals /\ issues \in [Issues -> IssueRow] /\ clock # 0
  BY DEF TypeOK
<1>2. ASSUME NEW t \in Torrents, ScanLink(t) PROVE LinkInv'
  <2>1. scan'.pc = "link"
    BY <1>1, <1>2 DEF ScanLink, ScanLocals
  <2>2. ASSUME NEW i \in Issues, issues'[i].status = "linked" PROVE issues'[i].linkedAt # 0
    <3>1. issues'[i] = issues[i] \/ issues'[i] = LinkRow(t, i)
      BY <1>2 DEF ScanLink
    <3>2. LinkRow(t, i).status = "linked" => LinkRow(t, i).linkedAt # 0
      BY <1>1 DEF LinkRow, IssueRow
    <3> QED
      BY <2>2, <3>1, <3>2 DEF LinkInv
  <2> QED
    BY <2>1, <2>2 DEF LinkInv
<1>3. CASE ScanReadIssues
  <2>1. scan'.rows = issues /\ UNCHANGED issues
    BY <1>1, <1>3 DEF ScanReadIssues, db_but_torrents, ScanLocals
  <2> QED
    BY <2>1 DEF LinkInv
<1>4. CASE ~(\E t \in Torrents : ScanLink(t)) /\ (scan'.pc = "plan" => scan.pc = "plan" /\ scan'.rows = scan.rows)
  BY <1>4, LinkFrame DEF LinkInv
<1>5. CASE \/ ScanStart \/ ScanFails \/ ScanUnreachable \/ ScanList \/ ApplyOff \/ GateBlocks \/ ScanEnd
           \/ Restart
  BY <1>1, <1>2, <1>4, <1>5, EarlyFrame
<1>6. CASE ScanPlan \/ ApplyCancel \/ ApplyQueue \/ GateOpens \/ FinishDeletion
  <2>1. scan'.pc # "plan"
    BY <1>1, <1>6 DEF ScanPlan, ApplyCancel, ApplyQueue, GateOpens, FinishDeletion, ScanLocals
  <2> QED
    BY <1>2, <1>4, <2>1
<1>7. ASSUME \/ \E t \in Torrents : Recheck(t) \/ DeleteTorrent(t) \/ DeleteRefused(t) \/ DeleteUnanswered(t)
             \/ \E i \in Issues : DeleteIssue(i)
      PROVE LinkInv'
  <2>1. scan'.pc # "plan"
    BY <1>1, <1>7
    DEF Recheck, DeleteTorrent, DeleteRefused, DeleteUnanswered, DeleteIssue, StartDelete, ScanLocals
  <2> QED
    BY <1>2, <1>4, <2>1
<1>8. CASE \/ RemoveIssues \/ Handlers \/ Manual \/ Tick \/ UNCHANGED vars
           \/ \E t \in Torrents : QbitAdd(t) \/ QbitChange(t) \/ FileChange(t)
  <2>1. scan'.pc = scan.pc /\ scan'.rows = scan.rows
    BY <1>1, <1>8, OthersFrame DEF ScanLocals
  <2> QED
    BY <1>2, <1>4, <2>1
<1> QED
  BY <1>2, <1>3, <1>5, <1>6, <1>7, <1>8 DEF Next, Scan, Apply, Outside

(* What is planned had expired when the run started, and stays so.         *)
LEMMA PlanNext == ASSUME TypeOK, LinkInv, PlanInv, [Next]_vars PROVE PlanInv'
<1>1. scan \in ScanLocals /\ \A t \in Torrents : Items[t] \subseteq Issues
  BY RetentionConstants DEF TypeOK
<1> USE DEF Planned, Deleting, Doomed
<1>2. CASE ScanPlan
  <2>1. /\ scan.pc = "plan" /\ scan'.pc = "apply" /\ scan'.now = scan.now
        /\ scan'.snaps = scan.snaps /\ UNCHANGED issues
    BY <1>1, <1>2 DEF ScanPlan, ScanLocals, db
  <2>2. ASSUME NEW t \in scan'.torrents, NEW i \in Items[t] PROVE HadExpired(t, i, scan.now)
    <3>1. /\ t \in Torrents /\ i \in Issues
          /\ ItemExpired(t, i, scan.snaps, scan.rows, scan.now)
      BY <1>1, <1>2, <2>2 DEF ScanPlan, PlannedTorrents, ScanLocals
    <3>2. PICK c \in Nat, d \in Nat, n \in Nat, b \in Nat :
             c = scan.snaps[t].completedOn /\ d = Days[i] /\ n = scan.now /\ b = IssueDate[i]
      BY <3>1, RetentionConstants DEF TypeOK, ScanLocals, QbitTorrent, Time
    <3>3. scan.rows[i].status = "linked" =>
             scan.rows[i].linkedAt # 0 /\ issues[i].linkedAt = scan.rows[i].linkedAt
      BY <2>1, <3>1 DEF LinkInv
    <3>4. PICK l \in Nat : l = issues[i].linkedAt
      BY <3>1 DEF TypeOK, IssueRow, Time
    <3>5. /\ c # 0 => c + d <= n
          /\ c = 0 /\ b # 0 => b + d <= n
          /\ c = 0 /\ b = 0 /\ scan.rows[i].status = "linked" => l # 0 /\ l + d <= n
          /\ c = 0 /\ b = 0 /\ scan.rows[i].status # "linked" => n + d <= n
      BY <3>1, <3>2, <3>3, <3>4 DEF ItemExpired, IsExpired, Reference, FallbackReference
    <3> QED
      BY <3>2, <3>4, <3>5 DEF HadExpired, Began
  <2>3. \A t \in scan'.torrents : t \in Torrents /\ scan.snaps[t].clean
    BY <1>1, <1>2 DEF ScanPlan, PlannedTorrents, ScanLocals
  <2>4. \A t \in Torrents : \A i \in Items[t] : HadExpired(t, i, scan.now)' <=> HadExpired(t, i, scan.now)
    BY <2>1 DEF HadExpired, Began
  <2> QED
    BY <2>1, <2>2, <2>3, <2>4 DEF PlanInv
<1>3. CASE \/ ScanStart \/ ScanFails \/ ScanUnreachable \/ ScanList \/ ApplyOff \/ GateBlocks \/ ScanEnd
           \/ Restart
  BY <1>1, <1>3, EarlyFrame DEF PlanInv
<1>4. ASSUME NEW t \in Torrents, ScanLink(t) PROVE PlanInv'
  BY <1>1, <1>4 DEF ScanLink, PlanInv, ScanLocals
<1>5. CASE ScanReadIssues
  BY <1>1, <1>5 DEF ScanReadIssues, PlanInv, ScanLocals
(* The other steps leave the plan as it is, and the days of its issues.    *)
<1>6. ASSUME ~ \E t \in Torrents : ScanLink(t), PlanSame,
             scan'.pc \in Planned => scan.pc \in Planned,
             scan'.pc \in Deleting => Doomed' \subseteq scan.torrents \cup scan.issues,
             scan'.pc = "call" => scan'.current \in Torrents /\ scan'.found.complete /\ scan'.found.inCategory
      PROVE PlanInv'
  <2>1. \A t \in scan.torrents : \A i \in Items[t] : HadExpired(t, i, scan.now)' <=> HadExpired(t, i, scan.now)
    <3>1. \A t \in scan.torrents : Items[t] \subseteq Issues
      BY <1>1 DEF ScanLocals
    <3> QED
      BY <1>6, <3>1, LinkFrame DEF HadExpired, Began, PlanSame
  <2> QED
    BY <1>6, <2>1 DEF PlanInv, PlanSame
<1>7. CASE ApplyCancel \/ ApplyQueue
  <2>1. PlanSame /\ scan.pc \in Planned /\ scan'.pc \in {"queue", "gate"}
    BY <1>1, <1>7 DEF ApplyCancel, ApplyQueue, ScanLocals, PlanSame
  <2> QED
    BY <1>4, <1>6, <2>1
<1>12. CASE GateOpens
  <2>1. /\ PlanSame /\ scan.pc \in Planned /\ scan'.pc = "delete"
        /\ scan'.due \subseteq scan.torrents \cup scan.issues
    BY <1>1, <1>12 DEF GateOpens, ScanLocals, PlanSame
  <2> QED
    BY <1>4, <1>6, <2>1
<1>13. CASE FinishDeletion
  <2>1. /\ PlanSame /\ scan.pc \in Deleting /\ scan'.pc = "delete" /\ scan'.due = scan.due
    BY <1>1, <1>13 DEF FinishDeletion, ScanLocals, PlanSame
  <2> QED
    BY <1>4, <1>6, <2>1 DEF PlanInv
<1>8. ASSUME NEW t \in Torrents, Recheck(t) PROVE PlanInv'
  <2>1. PlanSame /\ scan.pc \in Deleting /\ Doomed' \subseteq scan.torrents \cup scan.issues
    BY <1>1, <1>8, DeleteFrame DEF PlanInv
  <2>2. scan'.current = t /\ scan'.found = qbit[t]
    BY <1>1, <1>8 DEF Recheck, ScanLocals
  <2>3. qbit[t].complete /\ qbit[t].inCategory
    BY <1>8 DEF Recheck, Deletable, InLibrary
  <2> QED
    BY <1>4, <1>6, <2>1, <2>2, <2>3
<1>9. ASSUME NEW t \in Torrents, DeleteTorrent(t) \/ DeleteRefused(t) \/ DeleteUnanswered(t)
      PROVE PlanInv'
  <2>1. PlanSame /\ scan.pc \in Deleting /\ Doomed' \subseteq scan.torrents \cup scan.issues
    BY <1>1, <1>9, DeleteFrame DEF PlanInv
  <2>2. scan'.pc # "call"
    BY <1>1, <1>9
    DEF DeleteTorrent, DeleteRefused, DeleteUnanswered, StartDelete, ScanLocals
  <2> QED
    BY <1>4, <1>6, <2>1, <2>2
<1>10. ASSUME NEW i \in Issues, DeleteIssue(i) PROVE PlanInv'
  <2>1. /\ PlanSame /\ scan.pc \in Planned /\ scan'.pc # "call"
        /\ Doomed' \subseteq scan.torrents \cup scan.issues
    BY <1>1, <1>10 DEF DeleteIssue, StartDelete, PlanInv, ScanLocals, PlanSame
  <2> QED
    BY <1>4, <1>6, <2>1
<1>11. CASE \/ RemoveIssues \/ Handlers \/ Manual \/ Tick \/ UNCHANGED vars
            \/ \E t \in Torrents : QbitAdd(t) \/ QbitChange(t) \/ FileChange(t)
  <2>1. /\ PlanSame /\ scan'.pc = scan.pc /\ Doomed' = Doomed
        /\ scan'.current = scan.current /\ scan'.found = scan.found
    BY <1>1, <1>11, OthersFrame DEF ScanLocals, PlanSame
  <2> QED
    BY <1>4, <1>6, <2>1 DEF PlanInv
<1> QED
  BY <1>2, <1>3, <1>4, <1>5, <1>7, <1>8, <1>9, <1>10, <1>11, <1>12, <1>13 DEF Next, Scan, Apply, Outside

(* What a handler may do to keep flags: a flag set too late for the run in *)
(* progress is in its history, and no handler links an issue.              *)
KeepEffect ==
    /\ scan.late \subseteq scan'.late
    /\ \A t \in Torrents :
          torrents'[t].keep => torrents[t].keep \/ (BeyondPlan => t \in scan'.late)
    /\ \A i \in Issues :
          /\ issues'[i].keep => issues[i].keep \/ (ReadByPlan => i \in scan'.late)
          /\ issues'[i].status = "linked" => issues[i].status = "linked"

(* Every handler does no more than that.                                   *)
LEMMA HandlerKeeps == ASSUME TypeOK, Handlers PROVE KeepEffect
<1>1. /\ scan \in ScanLocals /\ torrents \in [Torrents -> TorrentRow]
      /\ issues \in [Issues -> IssueRow]
  BY DEF TypeOK
<1>2. ASSUME NEW ts, NEW is, KeptLate(ts, is)
      PROVE  /\ scan.late \subseteq scan'.late
             /\ BeyondPlan => ts \subseteq scan'.late
             /\ ReadByPlan => is \subseteq scan'.late
  BY <1>1, <1>2 DEF KeptLate, ScanLocals
<1>3. ASSUME NEW t \in Torrents, KeepPendingTorrent(t) PROVE KeepEffect
  <2>1. KeptLate({t}, IssuesFrom(t)) /\ SetTorrentKeep(t, TRUE)
    BY <1>3 DEF KeepPendingTorrent
  <2>2. \A q \in Torrents : torrents'[q].keep => torrents[q].keep \/ q = t
    BY <1>1, <2>1 DEF SetTorrentKeep, TorrentRow
  <2>3. \A i \in Issues : /\ issues'[i].status = issues[i].status
                          /\ issues'[i].keep => issues[i].keep \/ i \in IssuesFrom(t)
    BY <1>1, <2>1 DEF SetTorrentKeep, IssueRow
  <2> QED
    BY <1>2, <2>1, <2>2, <2>3 DEF KeepEffect
<1>4. ASSUME NEW t \in Torrents, Unkeep(t) PROVE KeepEffect
  <2>1. SetTorrentKeep(t, FALSE) /\ UNCHANGED scan
    BY <1>4 DEF Unkeep, threads
  <2>2. \A q \in Torrents : torrents'[q].keep => torrents[q].keep
    BY <1>1, <2>1 DEF SetTorrentKeep, TorrentRow
  <2>3. \A i \in Issues : /\ issues'[i].status = issues[i].status
                          /\ issues'[i].keep => issues[i].keep
    BY <1>1, <2>1 DEF SetTorrentKeep, IssueRow
  <2> QED
    BY <2>1, <2>2, <2>3 DEF KeepEffect
<1>5. ASSUME NEW i \in Issues, KeepPendingIssue(i) PROVE KeepEffect
  <2>1. KeptLate({}, {i}) /\ UNCHANGED torrents /\ issues' = [issues EXCEPT ![i].keep = TRUE]
    BY <1>5 DEF KeepPendingIssue
  <2>2. \A j \in Issues : /\ issues'[j].status = issues[j].status
                          /\ issues'[j].keep => issues[j].keep \/ j = i
    BY <1>1, <2>1 DEF IssueRow
  <2> QED
    BY <1>2, <2>1, <2>2 DEF KeepEffect
<1>6. ASSUME NEW i \in Issues, ToggleIssueKeep(i) PROVE KeepEffect
  <2>1. UNCHANGED torrents /\ issues' = [issues EXCEPT ![i].keep = ~@]
        /\ IF issues[i].keep THEN UNCHANGED scan ELSE KeptLate({}, {i})
    BY <1>6 DEF ToggleIssueKeep, db_but_issues
  <2>2. \A j \in Issues : /\ issues'[j].status = issues[j].status
                          /\ issues'[j].keep => issues[j].keep \/ (j = i /\ ~issues[i].keep)
    BY <1>1, <2>1 DEF IssueRow
  <2> QED
    BY <1>2, <2>1, <2>2 DEF KeepEffect
<1>7. ASSUME NEW i \in Issues, RemoveIssue(i) \/ RestoreIssue(i) PROVE KeepEffect
  <2>1. UNCHANGED <<torrents, scan>> 
        /\ \E s \in {"excluded", "pending"} : issues' = [issues EXCEPT ![i].status = s]
    BY <1>7 DEF RemoveIssue, RestoreIssue, db_but_issues, threads
  <2>2. \A j \in Issues : /\ issues'[j].status = "linked" => issues[j].status = "linked"
                          /\ issues'[j].keep => issues[j].keep
    BY <1>1, <2>1 DEF IssueRow
  <2> QED
    BY <2>1, <2>2 DEF KeepEffect
<1>8. ASSUME (\E r \in Refs : DeleteNow(r)) \/ Arm \/ Disarm \/ SwitchRetention \/ Approve
      PROVE KeepEffect
  <2>1. UNCHANGED <<torrents, issues, scan>>
    BY <1>8
    DEF DeleteNow, Arm, Disarm, SwitchRetention, Approve, db_but_deletions,
        db_but_settings, threads
  <2> QED
    BY <2>1 DEF KeepEffect
<1> QED
  BY <1>3, <1>4, <1>5, <1>6, <1>7, <1>8 DEF Handlers

(* A keep flag the plan did not know of was set too late for it.           *)
LEMMA KeepNext == ASSUME TypeOK, LockInv, PlanInv, KeepInv, [Next]_vars PROVE KeepInv'
<1>1. /\ scan \in ScanLocals /\ torrents \in [Torrents -> TorrentRow]
      /\ issues \in [Issues -> IssueRow]
  BY DEF TypeOK
<1> USE DEF Planned, Deleting
<1>2. CASE \/ ScanStart \/ ScanFails \/ ScanUnreachable \/ ScanList \/ ApplyOff \/ GateBlocks \/ ScanEnd
           \/ Restart
  BY <1>1, <1>2, EarlyFrame DEF KeepInv
<1>3. ASSUME NEW t \in Torrents, ScanLink(t) PROVE KeepInv'
  BY <1>1, <1>3 DEF ScanLink, KeepInv, ScanLocals
<1>4. CASE ScanReadIssues
  BY <1>1, <1>4 DEF ScanReadIssues, KeepInv, ScanLocals, db_but_torrents
<1>5. CASE ScanPlan
  <2>1. /\ scan'.pc = "apply" /\ scan'.late = scan.late /\ scan'.owned = Linked(scan.rows)
        /\ UNCHANGED <<torrents, issues>>
    BY <1>1, <1>5 DEF ScanPlan, ScanLocals, db
  <2>2. ASSUME NEW t \in scan'.torrents
        PROVE  t \in Torrents /\ ~torrents[t].keep /\ \A i \in Items[t] \cap Linked(scan.rows) : ~scan.rows[i].keep
    BY <1>1, <1>5, <2>2 DEF ScanPlan, PlannedTorrents, ScanLocals
  <2>3. ASSUME NEW i \in scan'.issues
        PROVE  i \in Linked(scan.rows) /\ ~scan.rows[i].keep
    BY <1>1, <1>5, <2>3 DEF ScanPlan, PlannedIssues, ScanLocals
  <2>4. \A i \in Issues :
              /\ issues[i].keep /\ issues[i].status = "linked" =>
                    i \in scan.late \/ (scan.rows[i].keep /\ scan.rows[i].status = "linked")
              /\ issues[i].keep /\ scan.rows[i].status = "linked" =>
                    i \in scan.late \/ scan.rows[i].keep
    BY <1>5 DEF ScanPlan, KeepInv
  <2>5. \A t \in Torrents : Items[t] \subseteq Issues
    BY RetentionConstants
  <2>6. \A t \in scan'.torrents : \A i \in Items[t] :
            issues[i].keep /\ (issues[i].status = "linked" \/ i \in Linked(scan.rows)) => i \in scan.late
    BY <2>2, <2>4, <2>5 DEF Linked
  <2>7. \A i \in scan'.issues : issues[i].keep => i \in scan.late
    BY <2>3, <2>4 DEF Linked
  <2> QED
    BY <2>1, <2>2, <2>6, <2>7 DEF KeepInv
<1>6. CASE ApplyCancel \/ ApplyQueue \/ GateOpens
  BY ZenonT(40), <1>1, <1>6
  DEF ApplyCancel, ApplyQueue, GateOpens, db_but_deletions, KeepInv, ScanLocals
<1>7. CASE FinishDeletion
  BY <1>1, <1>7 DEF FinishDeletion, db_but_deletions, KeepInv, ScanLocals
<1>8. ASSUME NEW t \in Torrents, DeleteTorrent(t) PROVE KeepInv'
  <2>1. t \in scan.torrents
    BY <1>1, <1>8, RetentionConstants DEF DeleteTorrent, PlanInv, Doomed, ScanLocals
  <2>2. scan.pc = "call" /\ UNCHANGED <<torrents, issues>> /\ scan'.pc = "remove"
        /\ scan'.late = scan.late /\ scan'.torrents = scan.torrents
        /\ scan'.issues = scan.issues
        /\ scan'.owned = scan.owned
    BY <1>1, <1>8 DEF DeleteTorrent, ScanLocals, db
  <2>3. removal'.victims = Items[t] \cap scan.owned
    BY <1>8 DEF DeleteTorrent, Removing, NoRemoval
  <2> QED
    BY <2>1, <2>2, <2>3 DEF KeepInv
<1>9. ASSUME NEW t \in Torrents, Recheck(t) \/ DeleteRefused(t) \/ DeleteUnanswered(t)
      PROVE KeepInv'
  <2>1. scan'.pc # "remove"
    BY <1>1, <1>9 DEF Recheck, DeleteRefused, DeleteUnanswered, StartDelete, ScanLocals
  <2> QED
    BY <1>1, <1>9, <2>1, DeleteFrame DEF KeepInv, PlanSame
<1>10. ASSUME NEW i \in Issues, DeleteIssue(i) PROVE KeepInv'
  <2>1. i \in scan.issues
    BY <1>1, <1>10, RetentionConstants DEF DeleteIssue, StartDelete, PlanInv, Doomed, ScanLocals
  <2>2. scan.pc = "delete" /\ UNCHANGED <<torrents, issues>> /\ scan'.pc = "remove"
        /\ scan'.late = scan.late /\ scan'.torrents = scan.torrents
        /\ scan'.issues = scan.issues
        /\ scan'.owned = scan.owned
    BY <1>1, <1>10 DEF DeleteIssue, StartDelete, ScanLocals, db
  <2>3. removal'.victims = {i}
    BY <1>10 DEF DeleteIssue, Removing, NoRemoval
  <2> QED
    BY <2>1, <2>2, <2>3 DEF KeepInv
<1>11. CASE RemoveIssues
  <2>1. UNCHANGED <<torrents, scan>> /\ removal'.victims \subseteq removal.victims
    BY ZenonT(40), <1>11
    DEF RemoveIssues, RemoveFolder, SkipVictim, MarkRemoved, TypeOK, RemovalLocals,
        db, db_but_issues
  <2>2. \A i \in Issues : /\ issues'[i].keep = issues[i].keep
                          /\ issues'[i].status = "linked" => issues[i].status = "linked"
    BY <1>1, <1>11 DEF RemoveIssues, RemoveFolder, SkipVictim, MarkRemoved, IssueRow, db
  <2>3. \A t \in scan.torrents : Items[t] \subseteq Issues
    BY <1>1, RetentionConstants DEF ScanLocals
  <2>4. removal.victims \subseteq Issues /\ scan.issues \subseteq Issues
    BY <1>1 DEF ScanLocals, TypeOK, RemovalLocals
  <2> QED
    BY <2>1, <2>2, <2>3, <2>4 DEF KeepInv
<1>12. CASE Handlers
  <2>1. UNCHANGED removal /\ (UNCHANGED scan \/ \E late : scan' = [scan EXCEPT !.late = late])
    BY <1>12, HandlerFrame
  <2>2. /\ scan'.pc = scan.pc /\ scan'.torrents = scan.torrents
        /\ scan'.issues = scan.issues
        /\ scan'.owned = scan.owned /\ scan'.rows = scan.rows
    BY <1>1, <2>1 DEF ScanLocals
  <2>3. removal.victims \subseteq Issues /\ scan.issues \subseteq Issues /\ scan.torrents \subseteq Torrents
    BY <1>1 DEF ScanLocals, TypeOK, RemovalLocals
  <2>4. \A t \in scan.torrents : Items[t] \subseteq Issues
    BY <1>1, RetentionConstants DEF ScanLocals
  <2>5. scan.pc = "plan" => KeepInv'
    BY <1>12, <2>2, HandlerKeeps DEF KeepEffect, KeepInv, ReadByPlan
  <2>6. scan.pc \in Planned => KeepInv'
    BY <1>12, <2>1, <2>2, <2>3, <2>4, HandlerKeeps
    DEF KeepEffect, KeepInv, ReadByPlan, BeyondPlan
  <2>7. scan.pc \notin Planned \cup {"plan"} => KeepInv'
    BY <2>2 DEF KeepInv
  <2> QED
    BY <2>5, <2>6, <2>7
<1>13. ASSUME NEW t \in Torrents, ManualFinish(t) PROVE KeepInv'
  <2>1. UNCHANGED <<scan, issues>> /\ \A q \in Torrents : torrents'[q].keep = torrents[q].keep
    BY <1>1, <1>13 DEF ManualFinish, TorrentRow
  <2>2. removal'.victims = {}
    BY <1>13 DEF ManualFinish, NoRemoval
  <2>3. scan.torrents \subseteq Torrents
    BY <1>1 DEF ScanLocals
  <2> QED
    BY <2>1, <2>2, <2>3 DEF KeepInv
<1>14. ASSUME NEW t \in Torrents, ManualDelete(t) PROVE KeepInv'
  BY <1>14 DEF ManualDelete, LockInv, KeepInv, db
<1>15. ASSUME ManualRefused \/ Tick \/ UNCHANGED vars
             \/ \E t \in Torrents : \/ ManualCheck(t) \/ ManualRecheck(t) \/ ManualUnanswered(t)
                                    \/ QbitAdd(t) \/ QbitChange(t) \/ FileChange(t)
      PROVE UNCHANGED <<scan, removal, torrents, issues>>
  BY <1>15
  DEF ManualCheck, ManualRefused, ManualRecheck, ManualUnanswered, Tick, vars, QbitAdd, QbitChange, FileChange,
      threads, db
<1>16. CASE UNCHANGED <<scan, removal, torrents, issues>>
  BY <1>16 DEF KeepInv
<1> QED
  BY <1>2, <1>3, <1>4, <1>5, <1>6, <1>7, <1>8, <1>9, <1>10, <1>11, <1>12, <1>13,
     <1>14, <1>15, <1>16
  DEF Next, Scan, Apply, Manual, Outside

---------------------------------------------------------------------------
(* Theorems.                                                               *)

(* Every variable of the retention model keeps its type, whatever the      *)
(* torrents, issues, limits and bounds are.                                *)
THEOREM TypeCorrect == Spec => []TypeOK
<1>1. Init => TypeOK
  BY TypeInit
<1>2. TypeOK /\ [Next]_vars => TypeOK'
  BY TypeNext
<1> QED
  BY <1>1, <1>2, PTL DEF Spec

(* The conjunction of all parts is inductive; every theorem below follows  *)
(* from it.                                                                *)
THEOREM Inductive == Spec => []IInv
<1>1. Init => IInv
  <2> SUFFICES ASSUME Init PROVE IInv
    OBVIOUS
  <2>1. TypeOK
    BY TypeInit
  <2>2. LockInv /\ FolderInv
    BY DEF Init, Idle, NoManual, NoRemoval, NoIssueRow, LockInv, FolderInv
  <2>3. GraceInv
    BY DEF Init, Idle, Finished, Pending, Deleting, GraceInv
  <2>4. LinkInv /\ PlanInv /\ KeepInv /\ CreditInv
    BY DEF Init, Idle, NoIssueRow, Planned, Deleting, LinkInv, PlanInv, KeepInv, CreditInv
  <2> QED
    BY <2>1, <2>2, <2>3, <2>4 DEF IInv
<1>2. IInv /\ [Next]_vars => IInv'
  <2> SUFFICES ASSUME IInv, [Next]_vars PROVE IInv'
    OBVIOUS
  <2>1. TypeOK /\ LockInv /\ FolderInv /\ GraceInv /\ LinkInv /\ PlanInv /\ KeepInv /\ CreditInv
    BY DEF IInv
  <2>2. TypeOK' /\ LockInv' /\ FolderInv'
    BY <2>1, TypeNext, LockNext, FolderNext
  <2>3. GraceInv' /\ LinkInv' /\ PlanInv' /\ KeepInv' /\ CreditInv'
    BY <2>1, GraceNext, LinkNext, PlanNext, KeepNext, CreditNext
  <2> QED
    BY <2>2, <2>3 DEF IInv
<1> QED
  BY <1>1, <1>2, PTL DEF Spec

(* While a run of the scan is in progress no manual delete is removing     *)
(* anything (Scanner._lock, taken by both with a try).                     *)
THEOREM DeletesAreExclusive == Spec => []OneDeleter
<1>1. IInv => OneDeleter
  BY DEF IInv, TypeOK, ManualLocals, LockInv, OneDeleter
<1> QED
  BY <1>1, Inductive, PTL

(* When a scan or a manual delete writes that an issue was removed, its    *)
(* folder is not in the library, whatever the handlers, qBittorrent or a   *)
(* restart did since it went (remove_issues, Scanner._lock).               *)
THEOREM RemovedHasNoFolder == Spec => RemovedIsGone
<1>1. IInv => [\A i \in Issues : MarkRemoved(i) => i \notin folders]_vars
  BY RetentionConstants DEF IInv, FolderInv, MarkRemoved
<1> QED
  BY <1>1, Inductive, PTL DEF RemovedIsGone

(* The scan acts on a due row only when the grace period since the run     *)
(* that queued it is over, or the user asked for it (ensure_pending,       *)
(* make_due_now, apply).                                                   *)
THEOREM GraceHolds == Spec => GraceIsWaited
<1>1. ASSUME IInv, NEW r \in Refs, ActsOn(r)
      PROVE  scan.batch[r].hurried \/ scan.batch[r].queuedBy + Grace <= clock
  <2>1. scan.pc \in Deleting /\ r \in Doomed
    BY <1>1
    DEF ActsOn, Deletes, DeleteTorrent, DeleteUnanswered, DeleteIssue, StartDelete, Deleting, Doomed
  <2>2. /\ scan.batch[r].hurried \/ scan.batch[r].queuedBy + Grace <= scan.now
        /\ scan.now <= clock
    BY <1>1, <2>1 DEF IInv, GraceInv
  <2>3. scan.batch[r].queuedBy \in Nat /\ scan.now \in Nat /\ clock \in Nat /\ Grace \in Nat
    BY <1>1, RetentionConstants DEF IInv, TypeOK, ScanLocals, DeletionRow, Time
  <2> QED
    BY <2>2, <2>3
<1>2. IInv => [\A r \in Refs : ActsOn(r) => \/ scan.batch[r].hurried
                                            \/ scan.batch[r].queuedBy + Grace <= clock]_vars
  BY <1>1
<1> QED
  BY <1>2, Inductive, PTL DEF GraceIsWaited

(* When the scan calls for the deletion of a torrent, every issue in it    *)
(* has expired since a known time or has no days to wait, the run listed   *)
(* it clean and, at its last look, found it complete and in its category:  *)
(* whatever else the run met in between (plan_retention,                   *)
(* delete_with_files).                                                     *)
THEOREM PacksHaveExpired == Spec => OnlyExpiredPacks
<1>1. ASSUME IInv, NEW t \in Torrents, Deletes(t)
      PROVE  /\ \A i \in Items[t] : \/ Days[i] = 0
                                    \/ Began(t, i) # 0 /\ Began(t, i) + Days[i] <= clock
             /\ scan.snaps[t].clean
             /\ scan.found.complete /\ scan.found.inCategory
  <2>1. scan.pc = "call" /\ t = scan.current
    BY <1>1 DEF Deletes, DeleteTorrent, DeleteUnanswered
  <2>2. t \in scan.torrents /\ scan.found.complete /\ scan.found.inCategory
    BY <1>1, <2>1, RetentionConstants DEF IInv, PlanInv, Deleting, Doomed, TypeOK, ScanLocals
  <2>3. scan.snaps[t].clean /\ \A i \in Items[t] : HadExpired(t, i, scan.now)
    BY <1>1, <2>1, <2>2 DEF IInv, PlanInv, Planned, Deleting
  <2>4. PICK now \in Nat, time \in Nat : now = scan.now /\ time = clock /\ now <= time
    BY <1>1, RetentionConstants DEF IInv, GraceInv, TypeOK, ScanLocals, Time
  <2>5. ASSUME NEW i \in Items[t], Days[i] # 0
        PROVE  Began(t, i) # 0 /\ Began(t, i) + Days[i] <= clock
    <3>1. i \in Issues
      BY RetentionConstants
    <3>2. PICK b \in Nat, d \in Nat : b = Began(t, i) /\ d = Days[i]
      BY <1>1, <3>1, RetentionConstants
      DEF Began, IInv, TypeOK, ScanLocals, QbitTorrent, IssueRow, Time
    <3>3. b # 0 /\ b + d <= now
      BY <2>3, <2>4, <2>5, <3>2 DEF HadExpired
    <3> QED
      BY <2>4, <3>2, <3>3
  <2> QED
    BY <2>2, <2>3, <2>5
<1>2. IInv => [\A t \in Torrents : Deletes(t) =>
          /\ \A i \in Items[t] : \/ Days[i] = 0
                                 \/ Began(t, i) # 0 /\ Began(t, i) + Days[i] <= clock
          /\ scan.snaps[t].clean
          /\ scan.found.complete /\ scan.found.inCategory]_vars
  BY <1>1
<1> QED
  BY <1>2, Inductive, PTL DEF OnlyExpiredPacks

(* Whatever the scan deletes or removes is not kept, unless it was kept    *)
(* after the plan of the run that removes it.                              *)
THEOREM KeepIsRespected == Spec => KeptIsSafe
<1>1. ASSUME IInv, NEW t \in Torrents, Deletes(t)
      PROVE  /\ torrents[t].keep => t \in scan.late
             /\ \A i \in Items[t] :
                   issues[i].keep /\ issues[i].status = "linked" => i \in scan.late
  <2>1. scan.pc = "call" /\ t = scan.current
    BY <1>1 DEF Deletes, DeleteTorrent, DeleteUnanswered
  <2>2. t \in scan.torrents
    BY <1>1, <2>1, RetentionConstants DEF IInv, PlanInv, Deleting, Doomed, TypeOK, ScanLocals
  <2> QED
    BY <1>1, <2>1, <2>2 DEF IInv, KeepInv, Planned, Deleting
<1>2. ASSUME IInv, NEW i \in Issues, RemovedByScan(i)
      PROVE  issues[i].keep => i \in scan.late
  BY <1>2 DEF IInv, KeepInv, RemovedByScan, RemoveFolder
<1>3. IInv => [/\ \A t \in Torrents : Deletes(t) =>
                     /\ torrents[t].keep => t \in scan.late
                     /\ \A i \in Items[t] :
                           issues[i].keep /\ issues[i].status = "linked" => i \in scan.late
               /\ \A i \in Issues : RemovedByScan(i) => (issues[i].keep => i \in scan.late)]_vars
  BY <1>1, <1>2
<1> QED
  BY <1>3, Inductive, PTL DEF KeptIsSafe

(* A batch above the limit passes the gate only on an approval of at least *)
(* its size that no earlier batch has used (the gate of apply).            *)
THEOREM BatchesWaitForApproval == Spec => BatchesAreApproved
<1> DEFINE Batch == CountsOf({r \in Refs : scan'.batch[r].status = "pending"})
<1>1. ASSUME IInv, GateOpens
      PROVE  Covers(Limit, Batch) \/ (credit # None /\ Covers(credit, Batch))
  <2> DEFINE due == DueRows(scan.now)
  <2>1. {r \in Refs : scan'.batch[r].status = "pending"} = due
    BY <1>1 DEF IInv, TypeOK, GateOpens, ScanLocals, DueRows, Pending, Finished
  <2>2. Covers(Limit, CountsOf(due)) \/ Approved(due)
    BY <1>1 DEF GateOpens, Passes
  <2>3. CASE Approved(due)
    <3>1. approval # None /\ Covers(approval, CountsOf(due))
      BY <2>3 DEF Approved
    <3>2. credit # None /\ Covers(credit, approval)
      BY <1>1, <3>1 DEF IInv, CreditInv
    <3>3. due \in SUBSET Refs
      BY DEF DueRows, Pending
    <3>4. CountsOf(due) \in Counts /\ credit \in Counts
          /\ approval.torrents \in Nat /\ approval.issues \in Nat
      BY <1>1, <3>1, <3>2, <3>3, CountsType DEF IInv, TypeOK
    <3>5. Covers(credit, CountsOf(due))
      BY <3>1, <3>2, <3>4 DEF Covers, Counts
    <3> QED
      BY <2>1, <3>2, <3>5
  <2> QED
    BY <2>1, <2>2, <2>3
<1>2. IInv => [GateOpens => LET batch == CountsOf({r \in Refs : scan'.batch[r].status = "pending"})
                            IN Covers(Limit, batch)
                               \/ (credit # None /\ Covers(credit, batch))]_vars
  BY <1>1
<1> QED
  BY <1>2, Inductive, PTL DEF BatchesAreApproved

---------------------------------------------------------------------------
(* Whoever holds the lock releases it.                                     *)

(* Where the holder of the lock is, the last part having the number 1.     *)
Part ==
    LET due  == Cardinality(scan.due)
        refs == Cardinality(Refs)
    IN IF scan.pc = "idle" THEN IF manual.pc = "call" THEN 2 ELSE 1
       ELSE IF scan.pc = "delete" THEN 3 * due + 1
       ELSE IF scan.pc = "remove" THEN 3 * due + 2
       ELSE IF scan.pc = "call" THEN 3 * due + 3
       ELSE IF scan.pc = "gate" THEN 3 * refs + 2
       ELSE IF scan.pc = "queue" THEN 3 * refs + 3
       ELSE IF scan.pc = "apply" THEN 3 * refs + 4
       ELSE IF scan.pc = "plan" THEN 3 * refs + 5
       ELSE IF scan.pc = "link" THEN 3 * refs + 6
       ELSE 3 * refs + 7

(* What waits in this part: downloads to link, or issues to remove; and    *)
(* whether a removed one is still to be marked.                            *)
Waiting == IF scan.pc = "link" THEN scan.todo ELSE removal.victims

Place == IF removal.marking = None THEN 0 ELSE 1

Parts == 3 * Cardinality(Refs) + 7
Most == 2 * Cardinality(Refs) + 1

StepsLeft ==
    IF lock = "free" THEN 0
    ELSE (Most + 1) * Part + 2 * Cardinality(Waiting) + Place

(* The lock is held for no more steps than these.                          *)
Longest == (Parts + 1) * (Most + 1)

(* What the holder does under the lock.                                    *)
Holder ==
    \/ Scan \/ RemoveIssues
    \/ \E t \in Torrents : ManualDelete(t) \/ ManualUnanswered(t) \/ ManualFinish(t)

(* A step of the holder brings the release nearer, and nobody else's sets  *)
(* it back.                                                                *)
HolderGetsOn ==
    [][lock # "free" => \/ StepsLeft' < StepsLeft
                        \/ StepsLeft' = StepsLeft /\ ~Holder]_vars

LEMMA Sizes ==
    /\ Cardinality(Refs) \in Nat
    /\ \A is \in SUBSET Refs :
          /\ Cardinality(is) \in Nat /\ Cardinality(is) <= Cardinality(Refs)
          /\ \A x \in is : Cardinality(is \ {x}) = Cardinality(is) - 1
<1>1. IsFiniteSet(Refs)
  BY RetentionConstants, FS_Union DEF Refs
<1>2. ASSUME NEW is \in SUBSET Refs
      PROVE  IsFiniteSet(is) /\ Cardinality(is) \in Nat /\ Cardinality(is) <= Cardinality(Refs)
  BY <1>1, FS_Subset, FS_CardinalityType
<1>3. ASSUME NEW is \in SUBSET Refs, NEW x \in is
      PROVE  Cardinality(is \ {x}) = Cardinality(is) - 1
  BY <1>2, FS_RemoveElement, FS_CardinalityType
<1> QED
  BY <1>1, <1>2, <1>3, FS_CardinalityType

LEMMA PartTypes ==
    /\ TypeOK => Part \in 1 .. Parts /\ Place \in 0 .. 1 /\ Waiting \in SUBSET Refs
    /\ TypeOK' => Part' \in 1 .. Parts /\ Place' \in 0 .. 1 /\ Waiting' \in SUBSET Refs
<1>1. PICK r \in Nat : r = Cardinality(Refs)
  BY Sizes
<1>2. ASSUME TypeOK PROVE Part \in 1 .. Parts /\ Place \in 0 .. 1 /\ Waiting \in SUBSET Refs
  <2>1. scan.due \in SUBSET Refs /\ scan.todo \in SUBSET Refs /\ removal.victims \in SUBSET Refs
    BY <1>2 DEF TypeOK, ScanLocals, RemovalLocals, Refs
  <2>2. PICK n \in Nat : n = Cardinality(scan.due) /\ n <= r
    BY <1>1, <2>1, Sizes
  <2>3. Part \in 1 .. Parts
    <3>1. PICK k \in Nat : k = Parts /\ k = 3 * r + 7
      BY <1>1 DEF Parts
    <3>2. \/ Part \in {1, 2}
          \/ \E j \in {1, 2, 3} : Part = 3 * Cardinality(scan.due) + j
          \/ \E j \in {2, 3, 4, 5, 6, 7} : Part = 3 * Cardinality(Refs) + j
      BY Zenon DEF Part
    <3>3. \/ Part \in {1, 2}
          \/ \E j \in {1, 2, 3} : Part = 3 * n + j
          \/ \E j \in {2, 3, 4, 5, 6, 7} : Part = 3 * r + j
      BY Zenon, <1>1, <2>2, <3>2
    <3> QED
      BY <2>2, <3>1, <3>3
  <2> QED
    BY <2>1, <2>3 DEF Place, Waiting
<1>3. ASSUME TypeOK' PROVE Part' \in 1 .. Parts /\ Place' \in 0 .. 1 /\ Waiting' \in SUBSET Refs
  <2>1. scan'.due \in SUBSET Refs /\ scan'.todo \in SUBSET Refs /\ removal'.victims \in SUBSET Refs
    BY <1>3 DEF TypeOK, ScanLocals, RemovalLocals, Refs
  <2>2. PICK n \in Nat : n = Cardinality(scan'.due) /\ n <= r
    BY <1>1, <2>1, Sizes
  <2>3. Part' \in 1 .. Parts
    <3>1. PICK k \in Nat : k = Parts /\ k = 3 * r + 7
      BY <1>1 DEF Parts
    <3>2. \/ Part' \in {1, 2}
          \/ \E j \in {1, 2, 3} : Part' = 3 * Cardinality(scan'.due) + j
          \/ \E j \in {2, 3, 4, 5, 6, 7} : Part' = 3 * Cardinality(Refs) + j
      BY Zenon DEF Part
    <3>3. \/ Part' \in {1, 2}
          \/ \E j \in {1, 2, 3} : Part' = 3 * n + j
          \/ \E j \in {2, 3, 4, 5, 6, 7} : Part' = 3 * r + j
      BY Zenon, <1>1, <2>2, <3>2
    <3> QED
      BY <2>2, <3>1, <3>3
  <2> QED
    BY <2>1, <2>3 DEF Place, Waiting
<1> QED
  BY <1>2, <1>3

(* A step takes the holder to a later part, or takes something that        *)
(* waited, or goes on with what it took.                                   *)
Onward ==
    \/ Part' < Part
    \/ Part' = Part /\ \E x \in Waiting : Waiting' = Waiting \ {x} /\ Place = 0
    \/ Part' = Part /\ Waiting' = Waiting /\ Place' < Place

LEMMA HolderStep ==
    ASSUME TypeOK, LockInv, Holder, lock # "free", lock' # "free" PROVE Onward
<1>0. scan \in ScanLocals /\ manual \in ManualLocals /\ removal \in RemovalLocals
  BY DEF TypeOK
<1>1. PICK r \in Nat, n \in Nat : r = Cardinality(Refs) /\ n = Cardinality(scan.due) /\ n <= r
  BY <1>0, Sizes DEF ScanLocals
<1>2. ASSUME NEW t \in Torrents, ScanLink(t) PROVE Onward
  <2>1. /\ scan.pc = "link" /\ scan'.pc = "link" /\ removal = NoRemoval
        /\ t \in scan.todo /\ scan'.todo = scan.todo \ {t}
    BY <1>0, <1>2 DEF ScanLink, LockInv, ScanLocals
  <2>2. Part' = Part /\ Place = 0
    BY <2>1 DEF Part, Place, NoRemoval
  <2> QED
    BY <2>1, <2>2 DEF Onward, Waiting
<1>3. CASE ScanList \/ ScanReadIssues \/ ScanPlan \/ ApplyCancel \/ ApplyQueue
  <2>1. \/ scan.pc = "list" /\ scan'.pc = "link"
        \/ scan.pc = "link" /\ scan'.pc = "plan"
        \/ scan.pc = "plan" /\ scan'.pc = "apply"
        \/ scan.pc = "apply" /\ scan'.pc = "queue"
        \/ scan.pc = "queue" /\ scan'.pc = "gate"
    BY <1>0, <1>3 DEF ScanList, ScanReadIssues, ScanPlan, ApplyCancel, ApplyQueue, ScanLocals
  <2> QED
    BY <1>1, <2>1 DEF Onward, Part
<1>4. CASE GateOpens
  <2>1. scan.pc = "gate" /\ scan'.pc = "delete" /\ scan'.due \in SUBSET Refs
    BY <1>0, <1>4 DEF GateOpens, ScanLocals, DueRows, Pending
  <2>2. PICK m \in Nat : m = Cardinality(scan'.due) /\ m <= r
    BY <1>1, <2>1, Sizes
  <2> QED
    BY <1>1, <2>1, <2>2 DEF Onward, Part
<1>5. ASSUME NEW x \in Refs, scan.pc = "delete", x \in scan.due, scan'.due = scan.due \ {x},
             scan'.pc \in {"delete", "call", "remove"}
      PROVE  Onward
  <2>1. n - 1 \in Nat /\ n - 1 = Cardinality(scan'.due)
    <3>1. scan.due \in SUBSET Refs /\ scan'.due \in SUBSET Refs
      BY <1>0, <1>5 DEF ScanLocals
    <3> QED
      BY <1>1, <1>5, <3>1, Sizes
  <2> QED
    BY <1>1, <1>5, <2>1 DEF Onward, Part
<1>6. ASSUME NEW t \in Torrents, Recheck(t) \/ DeleteRefused(t) PROVE Onward
  <2>1. /\ t \in Refs /\ scan.pc = "delete" /\ t \in scan.due /\ scan'.due = scan.due \ {t}
        /\ scan'.pc \in {"delete", "call", "remove"}
    BY <1>0, <1>6 DEF Recheck, DeleteRefused, StartDelete, ScanLocals, Refs
  <2> QED
    BY <1>5, <2>1
<1>11. ASSUME NEW t \in Torrents, DeleteTorrent(t) \/ DeleteUnanswered(t) PROVE Onward
  <2>1. scan.pc = "call" /\ scan'.pc \in {"remove", "delete"} /\ scan'.due = scan.due
    BY <1>0, <1>11 DEF DeleteTorrent, DeleteUnanswered, ScanLocals
  <2> QED
    BY <1>1, <2>1 DEF Onward, Part
<1>12. ASSUME NEW t \in Torrents, ManualDelete(t) PROVE Onward
  <2>1. /\ manual.pc = "call" /\ manual'.pc = "remove" /\ UNCHANGED scan /\ lock = "manual"
        /\ scan.pc = "idle"
    BY <1>0, <1>12 DEF ManualDelete, ManualLocals, LockInv
  <2> QED
    BY <2>1 DEF Onward, Part
<1>7. ASSUME NEW i \in Issues, DeleteIssue(i) PROVE Onward
  <2>1. /\ i \in Refs /\ scan.pc = "delete" /\ i \in scan.due /\ scan'.due = scan.due \ {i}
        /\ scan'.pc \in {"delete", "call", "remove"}
    BY <1>0, <1>7 DEF DeleteIssue, StartDelete, ScanLocals, Refs
  <2> QED
    BY <1>5, <2>1
<1>8. CASE FinishDeletion
  <2>1. scan.pc = "remove" /\ scan'.pc = "delete" /\ scan'.due = scan.due
    BY <1>0, <1>8 DEF FinishDeletion, ScanLocals
  <2> QED
    BY <1>1, <2>1 DEF Onward, Part
<1>9. ASSUME NEW i \in Issues, RemoveFolder(i) \/ SkipVictim(i) \/ MarkRemoved(i) PROVE Onward
  <2>1. UNCHANGED <<scan, manual>>
    BY <1>9 DEF RemoveFolder, SkipVictim, MarkRemoved
  <2>2. removal # NoRemoval
    BY <1>9, RetentionConstants DEF RemoveFolder, SkipVictim, MarkRemoved, NoRemoval
  <2>3. scan.pc # "link" /\ Part' = Part
    BY <2>1, <2>2 DEF LockInv, Part
  <2>4. Waiting = removal.victims /\ Waiting' = removal'.victims
    BY <2>1, <2>3 DEF Waiting
  <2>5. CASE RemoveFolder(i) \/ SkipVictim(i)
    BY <1>0, <2>3, <2>4, <2>5 DEF Onward, Place, RemoveFolder, SkipVictim, RemovalLocals
  <2>6. CASE MarkRemoved(i)
    BY <1>0, <2>3, <2>4, <2>6, RetentionConstants DEF Onward, Place, MarkRemoved, RemovalLocals
  <2> QED
    BY <1>9, <2>5, <2>6
<1>10. CASE \/ ScanStart \/ ScanUnreachable \/ ApplyOff \/ GateBlocks \/ ScanEnd
            \/ \E t \in Torrents : ManualUnanswered(t) \/ ManualFinish(t)
  BY <1>10
  DEF ScanStart, ScanUnreachable, ApplyOff, GateBlocks, ScanEnd, EndRun, ManualUnanswered,
      ManualFinish
<1> QED
  BY <1>2, <1>3, <1>4, <1>6, <1>7, <1>8, <1>9, <1>10, <1>11, <1>12 DEF Holder, Scan, Apply, RemoveIssues

LEMMA FewerSteps ==
    ASSUME TypeOK, TypeOK', lock # "free", Onward \/ lock' = "free"
    PROVE  StepsLeft' < StepsLeft
<1>1. /\ Part \in 1 .. Parts /\ Place \in 0 .. 1 /\ Waiting \in SUBSET Refs
      /\ Part' \in 1 .. Parts /\ Place' \in 0 .. 1 /\ Waiting' \in SUBSET Refs
  BY PartTypes
<1>2. PICK w \in Nat, n \in Nat, m \in Nat :
         /\ w = Most + 1 /\ n = Cardinality(Waiting) /\ m = Cardinality(Waiting')
         /\ 2 * n + 1 < w /\ 2 * m + 1 < w
  <2>1. PICK r \in Nat, n \in Nat, m \in Nat :
           /\ r = Cardinality(Refs) /\ n = Cardinality(Waiting) /\ m = Cardinality(Waiting')
           /\ n <= r /\ m <= r
    BY <1>1, Sizes
  <2> QED
    BY <2>1 DEF Most
<1>3. PICK p \in 1 .. Parts, q \in 1 .. Parts, i \in 0 .. 1, j \in 0 .. 1 :
         p = Part /\ q = Part' /\ i = Place /\ j = Place'
  BY <1>1
<1>4. /\ StepsLeft = w * p + 2 * n + i
      /\ StepsLeft' = IF lock' = "free" THEN 0 ELSE w * q + 2 * m + j
  BY <1>2, <1>3 DEF StepsLeft, Most
<1>5. Onward => q < p \/ (q = p /\ ((m = n - 1 /\ i = 0) \/ (m = n /\ j < i)))
  <2>1. ASSUME NEW x \in Waiting, Waiting' = Waiting \ {x} PROVE m = n - 1
    BY <1>1, <1>2, <2>1, Sizes
  <2>2. ASSUME Waiting' = Waiting PROVE m = n
    BY <1>2, <2>2
  <2> QED
    BY <1>3, <2>1, <2>2 DEF Onward
<1>6. CASE lock' = "free"
  <2>1. w * p >= w
    OBVIOUS
  <2> QED
    BY <1>2, <1>4, <1>6, <2>1
<1>7. CASE q < p
  <2>1. w * q + w <= w * p
    BY <1>7
  <2> QED
    BY <1>2, <1>4, <2>1
<1>8. CASE q = p /\ ((m = n - 1 /\ i = 0) \/ (m = n /\ j < i))
  <2>1. 2 * m + j < 2 * n + i
    BY <1>8
  <2> QED
    BY <1>4, <1>8, <2>1
<1> QED
  BY <1>5, <1>6, <1>7, <1>8

(* The lock is released: from when a run or a manual delete takes it, it   *)
(* holds it for at most Longest steps of its own, and neither the handlers *)
(* nor qBittorrent can make that more. The code: run in scanner.py and     *)
(* delete_torrent_now in manual_delete.py, and their loops over lists.     *)
THEOREM LockIsReleased == Spec => [](StepsLeft \in 0 .. Longest) /\ HolderGetsOn
<1>1. ASSUME TypeOK PROVE StepsLeft \in 0 .. Longest
  <2>1. PICK r \in Nat, n \in Nat :
           r = Cardinality(Refs) /\ n = Cardinality(Waiting) /\ n <= r
    BY <1>1, PartTypes, Sizes
  <2>2. PICK p \in 1 .. Parts, i \in 0 .. 1 : p = Part /\ i = Place
    BY <1>1, PartTypes
  <2>3. PICK w \in Nat, k \in Nat : w = Most + 1 /\ k = Parts /\ 2 * n + i < w
    BY <2>1, <2>2 DEF Most, Parts
  <2>4. w * p >= 0 /\ w * p <= w * k /\ w * (k + 1) = w * k + w /\ w * k \in Int /\ w * p \in Int
    BY <2>2, <2>3
  <2> QED
    BY <2>1, <2>2, <2>3, <2>4 DEF StepsLeft, Longest
<1>2. ASSUME TypeOK, TypeOK', LockInv, [Next]_vars, lock # "free"
      PROVE  StepsLeft' < StepsLeft \/ (StepsLeft' = StepsLeft /\ ~Holder)
  <2>1. Holder \/ lock' = "free" => StepsLeft' < StepsLeft
    BY <1>2, HolderStep, FewerSteps
  <2>2. ASSUME UNCHANGED <<lock, removal>>, scan.pc # "idle" \/ UNCHANGED manual,
               UNCHANGED scan \/ \E late : scan' = [scan EXCEPT !.late = late]
        PROVE  StepsLeft' = StepsLeft
    <3>1. scan'.pc = scan.pc /\ scan'.due = scan.due /\ scan'.todo = scan.todo
      BY <1>2, <2>2 DEF TypeOK, ScanLocals
    <3>2. Part' = Part
      BY <2>2, <3>1 DEF Part
    <3> QED
      BY <2>2, <3>1, <3>2 DEF StepsLeft, Most, Waiting, Place
  <2>3. Handlers => StepsLeft' = StepsLeft
    BY <2>2, HandlerFrame
  <2>4. Holder \/ Handlers \/ lock' = "free" \/ UNCHANGED <<lock, scan, removal, manual>>
        \/ (manual.pc \in {"idle", "checked"} /\ UNCHANGED <<lock, scan, removal>>)
    BY <1>2 DEF Next, Holder, ScanFails, EndRun, Manual, ManualCheck, ManualRefused, ManualRecheck,
                Outside, QbitAdd, QbitChange, FileChange, Tick, Restart, threads, vars
  <2>5. manual.pc \in {"idle", "checked"} => scan.pc # "idle"
    BY <1>2 DEF LockInv, TypeOK
  <2> QED
    BY <2>1, <2>2, <2>3, <2>4, <2>5
<1> QED
  BY <1>1, <1>2, Inductive, PTL DEF Spec, HolderGetsOn, IInv
=============================================================================
