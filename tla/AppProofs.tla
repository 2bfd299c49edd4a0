----------------------------- MODULE AppProofs -----------------------------
(***************************************************************************)
(* Proofs about App, for all images, numbers of backups kept, tokens and   *)
(* addresses, and clocks.                                                  *)
(***************************************************************************)
EXTENDS App, SequenceTheorems, WellFoundedInduction, TLAPS

(* The migrations 1 to n, in order.                                        *)
InOrder(applied, n) ==
    /\ applied \in Seq(Nat) /\ Len(applied) = n
    /\ \A i \in 1 .. n : applied[i] = i

(* An account whose sessions are those of its password.                    *)
Fits(rows) ==
    /\ rows \in S!Accounts
    /\ \A t \in Tokens : rows.sessions[t] # None =>
          rows.sessions[t].password = rows.password /\ rows.password > 0

Sound == {s \in Snapshots : InOrder(s.applied, s.version) /\ Fits(s.content)}
Files == [whole : BOOLEAN, of : Sound]

Types ==
    /\ pc \in {"down", "open", "backup", "migrate", "serving"}
    /\ image \in Images
    /\ db \in [exists : BOOLEAN, version : Nat, applied : Seq(Nat), key : BOOLEAN]
    /\ backups \in Seq(Files)
    /\ start \in [fresh : BOOLEAN, index : Nat]
    /\ upgrade \in [from : Sound \cup {None}, attempts : Nat, over : BOOLEAN]
    /\ now \in 0 .. MaxTime

(* Where the start is tells how far the schema is.                         *)
SchemaInv ==
    /\ InOrder(db.applied, db.version)
    /\ pc \in {"open", "backup", "migrate"} => start.index = db.version + 1
    /\ pc = "backup" => db.version < image /\ Len(backups) > 0
    /\ pc = "migrate" => db.version <= image
    /\ pc = "serving" => db.version = image

(* A whole copy from before the upgrade, among as many of the newest files *)
(* as the upgrade has been started times.                                  *)
Copied ==
    \E k \in 1 .. Len(backups) :
        /\ k > Len(backups) - upgrade.attempts
        /\ backups[k].whole /\ backups[k].of = upgrade.from

(* An upgrade starts from what is in the database; nothing but a migration *)
(* changes that until it is over, and none runs before the copy is made.   *)
UpgradeInv ==
    /\ upgrade.from = None => upgrade.over
    /\ upgrade.from # None => /\ 0 < upgrade.from.version
                              /\ upgrade.from.version <= db.version
                              /\ upgrade.attempts > 0
                              /\ db.exists
    /\ pc # "down" => db.exists
    /\ pc = "serving" => upgrade.over
    /\ ~upgrade.over /\ db.version = upgrade.from.version => Snapshot = upgrade.from
    /\ pc # "down" /\ start.fresh => upgrade.from = None
    /\ pc = "backup" => ~upgrade.over /\ backups[Len(backups)].of = Snapshot
    /\ upgrade.from # None /\ upgrade.attempts <= Keep =>
          \/ Copied
          \/ db.version = upgrade.from.version /\ (pc = "migrate" => db.version = image)

AInv == Types /\ SchemaInv /\ Fits(content) /\ UpgradeInv

---------------------------------------------------------------------------
(* Requests keep an account sound.                                         *)
LEMMA RequestsFit ==
    ASSUME Fits(content), now \in 0 .. MaxTime, S!Requests
    PROVE  Fits(content')
<1> USE AppConstants DEF Fits, S!Accounts, S!Sessions
<1>0. ASSUME NEW s \in S!Sessions PROVE S!Touched(s) \in S!Sessions /\ S!Touched(s).password = s.password
  BY <1>0 DEF S!Touched
<1>1. ASSUME NEW t \in Tokens, NEW password \in Nat \ {0}, S!CreateSession(t, password),
             content.password \in {0, password}
      PROVE  Fits(content')
  BY <1>1 DEF S!CreateSession, S!Kept
<1>2. ASSUME NEW t \in Tokens, S!Setup(t) PROVE Fits(content')
  BY <1>1, <1>2 DEF S!Setup, S!IsSetUp
<1>3. ASSUME NEW t \in Tokens, NEW ip \in Addresses, S!Login(ip, t) PROVE Fits(content')
  BY <1>1, <1>3 DEF S!Login, S!IsSetUp
<1>4. ASSUME NEW t \in Tokens, S!Request(t) PROVE Fits(content')
  BY <1>0, <1>4 DEF S!Request
<1>5. ASSUME NEW t \in Tokens, S!Logout(t) PROVE Fits(content')
  BY <1>5 DEF S!Logout
<1>6. ASSUME NEW t \in Tokens, S!ChangePassword(t) PROVE Fits(content')
  <2>1. content.sessions[t] \in S!Sessions
    BY <1>6 DEF S!ChangePassword, S!IsValid
  <2>2. [S!Touched(content.sessions[t]) EXCEPT !.password = content.password + 1]
          \in [created : 0 .. MaxTime, seen : 0 .. MaxTime, password : {content.password + 1}]
    BY <1>0, <2>1
  <2> QED
    BY <1>6, <2>2 DEF S!ChangePassword, S!Survivors
<1>7. ASSUME NEW ip \in Addresses, S!LoginFails(ip) \/ S!LoginRefused(ip) PROVE Fits(content')
  BY <1>7 DEF S!LoginFails, S!LoginRefused
<1> QED
  BY <1>2, <1>3, <1>4, <1>5, <1>6, <1>7 DEF S!Requests
(* What the database holds is sound when its schema and account are.       *)
LEMMA SnapshotSound ==
    ASSUME Types, SchemaInv, Fits(content)
    PROVE  Snapshot \in Sound /\ Snapshot.version = db.version
<1>1. /\ Snapshot.version = db.version /\ Snapshot.applied = db.applied
      /\ Snapshot.content = content /\ Snapshot \in Snapshots
  BY DEF Snapshot, Snapshots, Types, SchemaInv, Fits, InOrder
<1> QED
  BY <1>1 DEF Sound, SchemaInv

(* Newest keeps the last files, Keep of them if it drops any.              *)
LEMMA NewestKeeps ==
    ASSUME NEW files \in Seq(Files)
    PROVE  /\ Newest(files) \in Seq(Files)
           /\ \E dropped \in Nat :
                 /\ Len(Newest(files)) = Len(files) - dropped
                 /\ dropped = 0 \/ Len(Newest(files)) = Keep
                 /\ \A i \in 1 .. Len(files) - dropped : Newest(files)[i] = files[dropped + i]
<1>1. Len(files) \in Nat /\ Keep \in Nat \ {0}
  BY UpgradeConstants, LenProperties
<1>2. CASE Len(files) > Keep
  <2> DEFINE first == Len(files) - Keep + 1
  <2>1. first \in Int /\ Newest(files) = SubSeq(files, first, Len(files))
    BY <1>1, <1>2 DEF Newest
  <2>2. \A i \in first .. Len(files) : files[i] \in Files
    BY <1>1, <1>2, ElementOfSeq
  <2>3. /\ Newest(files) \in Seq(Files)
        /\ Len(Newest(files)) = IF first <= Len(files) THEN Len(files) - first + 1 ELSE 0
        /\ \A i \in 1 .. Len(files) - first + 1 : Newest(files)[i] = files[first + i - 1]
    BY <1>1, <2>1, <2>2, SubSeqProperties DEF first
  <2> DEFINE dropped == Len(files) - Keep
  <2>4. /\ dropped \in Nat /\ Len(files) - dropped = Keep
        /\ Len(files) - first + 1 = Keep /\ first <= Len(files)
    BY <1>1, <1>2
  <2>5. Len(Newest(files)) = Len(files) - dropped /\ Len(Newest(files)) = Keep
    BY <2>3, <2>4
  <2>6. ASSUME NEW i \in 1 .. Len(files) - dropped PROVE Newest(files)[i] = files[dropped + i]
    <3>1. i \in 1 .. Len(files) - first + 1 /\ first + i - 1 = dropped + i
      BY <1>1, <2>4
    <3> QED
      BY <2>3, <3>1
  <2> HIDE DEF first, dropped
  <2> QED
    BY <2>3, <2>4, <2>5, <2>6
<1>3. CASE ~(Len(files) > Keep)
  <2>1. Newest(files) = SubSeq(files, 1, Len(files))
    BY <1>3 DEF Newest
  <2>2. Newest(files) = files
    BY <2>1, SubSeqFull
  <2> QED
    BY <1>1, <2>2
<1> QED
  BY <1>2, <1>3
(* A counter of a record stays a number.                                   *)
LEMMA CountedUp ==
    ASSUME NEW F
    PROVE  /\ \A r \in [fresh : BOOLEAN, index : Nat] :
                 [r EXCEPT !.index = r.index + 1] \in [fresh : BOOLEAN, index : Nat]
           /\ \A r \in [from : F, attempts : Nat, over : BOOLEAN] :
                 [r EXCEPT !.attempts = r.attempts + 1] \in [from : F, attempts : Nat, over : BOOLEAN]
  OBVIOUS

---------------------------------------------------------------------------
(* The steps.                                                              *)
LEMMA TypesNext == ASSUME Types, SchemaInv, Fits(content), [Next]_vars PROVE Types'
<1> USE UpgradeConstants, AppConstants DEF Types
<1>1. CASE Begin
  <2> DEFINE fresh == IsNew
  <2>1. fresh \in BOOLEAN /\ start' = [fresh |-> fresh, index |-> FirstMigration]
    BY <1>1 DEF Begin, Open, IsNew
  <2>2. FirstMigration \in Nat
    BY DEF FirstMigration
  <2>3. start' \in [fresh : BOOLEAN, index : Nat]
    <3> HIDE DEF fresh
    <3> QED
      BY <2>1, <2>2
  <2>4. db' \in [exists : BOOLEAN, version : Nat, applied : Seq(Nat), key : BOOLEAN]
    BY <1>1 DEF Begin, Open
  <2>5. pc' = "open" /\ UNCHANGED <<image, backups, upgrade, now>>
    BY <1>1 DEF Begin, Open
  <2> QED
    BY <2>3, <2>4, <2>5
<1>2. CASE Handle
  BY <1>2 DEF Handle, upgradeVars, S!Requests, S!Setup, S!Login, S!Request, S!Logout,
              S!ChangePassword, S!LoginFails, S!LoginRefused
<1>3. CASE Tick
  BY <1>3 DEF Tick, S!Tick, upgradeVars
<1>4. CASE (Refuse \/ NoBackup \/ Stop) /\ UNCHANGED <<failures, now, tried>>
  BY <1>4 DEF Refuse, NoBackup, Stop
<1>5. CASE BackupStart /\ UNCHANGED <<failures, now, tried>>
  <2>1. Snapshot \in Sound
    BY SnapshotSound
  <2>2. [whole |-> FALSE, of |-> Snapshot] \in Files
    BY <2>1 DEF Files
  <2>3. backups' \in Seq(Files)
    BY <1>5, <2>2, AppendProperties DEF BackupStart
  <2>4. upgrade' \in [from : Sound \cup {None}, attempts : Nat, over : BOOLEAN]
    <3>1. upgrade' = IF upgrade.over THEN [from |-> Snapshot, attempts |-> 1, over |-> FALSE]
                     ELSE [upgrade EXCEPT !.attempts = upgrade.attempts + 1]
      BY <1>5 DEF BackupStart
    <3>2. [from |-> Snapshot, attempts |-> 1, over |-> FALSE]
            \in [from : Sound \cup {None}, attempts : Nat, over : BOOLEAN]
      BY <2>1
    <3>3. [upgrade EXCEPT !.attempts = upgrade.attempts + 1]
            \in [from : Sound \cup {None}, attempts : Nat, over : BOOLEAN]
      BY CountedUp
    <3> QED
      BY <3>1, <3>2, <3>3, Zenon
  <2>5. pc' = "backup" /\ UNCHANGED <<image, db, start, now>>
    BY <1>5 DEF BackupStart
  <2> QED
    BY <2>3, <2>4, <2>5
<1>6. CASE BackupDone /\ UNCHANGED <<failures, now, tried>>
  <2> DEFINE files == [backups EXCEPT ![Len(backups)].whole = TRUE]
             last == [backups[Len(backups)] EXCEPT !.whole = TRUE]
  <2>0. Len(backups) \in 1 .. Len(backups) /\ pc = "backup"
    BY <1>6, LenProperties DEF BackupDone, SchemaInv
  <2>1. files \in Seq(Files)
    <3>1. backups[Len(backups)] \in Files
      BY <2>0, ElementOfSeq
    <3>2. last \in Files
      BY <3>1 DEF Files
    <3>3. files = [backups EXCEPT ![Len(backups)] = last]
      BY <2>0
    <3> HIDE DEF files, last
    <3> QED
      BY <2>0, <3>2, <3>3, ExceptSeq
  <2> HIDE DEF files
  <2>2. backups' = Newest(files)
    BY <1>6 DEF BackupDone, files
  <2> QED
    BY <1>6, <2>1, <2>2, NewestKeeps DEF BackupDone
<1>7. CASE Migrate /\ UNCHANGED <<failures, now, tried>>
  <2>0. db.applied \in Seq(Nat) /\ start.index \in Nat
    OBVIOUS
  <2>1. Append(db.applied, start.index) \in Seq(Nat)
    BY <2>0, AppendProperties
  <2>2. db' = [db EXCEPT !.version = start.index, !.applied = Append(db.applied, start.index)]
    BY <1>7 DEF Migrate
  <2>3. db' \in [exists : BOOLEAN, version : Nat, applied : Seq(Nat), key : BOOLEAN]
    BY <2>0, <2>1, <2>2
  <2>4. start' = [start EXCEPT !.index = start.index + 1]
    BY <1>7 DEF Migrate
  <2>5. start' \in [fresh : BOOLEAN, index : Nat]
    BY <2>4, CountedUp
  <2>6. UNCHANGED <<pc, image, backups, upgrade, now>>
    BY <1>7 DEF Migrate
  <2> QED
    BY <2>3, <2>5, <2>6
<1>8. CASE Serve /\ UNCHANGED <<failures, now, tried>>
  BY <1>8 DEF Serve
<1>9. ASSUME NEW i \in Images, ChangeImage(i), UNCHANGED <<failures, now, tried>> PROVE Types'
  BY <1>9 DEF ChangeImage
<1>10. ASSUME NEW k \in DOMAIN backups, Restore(k), UNCHANGED <<failures, now, tried>> PROVE Types'
  <2>1. backups[k] \in Files
    BY ElementOfSeq, LenProperties
  <2>2. backups[k].of \in Snapshots
    BY <2>1 DEF Files, Sound
  <2> QED
    BY <1>10, <2>2 DEF Restore, Snapshots
<1>11. CASE UNCHANGED vars
  BY <1>11 DEF vars
<1> HIDE DEF Types
<1> QED
  BY <1>1, <1>2, <1>3, <1>4, <1>5, <1>6, <1>7, <1>8, <1>9, <1>10, <1>11 DEF Next, Starting

(* The schema keeps up with the start.                                     *)
LEMMA SchemaNext == ASSUME Types, SchemaInv, [Next]_vars PROVE SchemaInv'
<1> USE UpgradeConstants DEF Types, SchemaInv
<1>1. CASE Begin
  BY <1>1 DEF Begin, Open, FirstMigration
<1>2. CASE Handle \/ Tick
  BY <1>2 DEF Handle, Tick, upgradeVars
<1>3. CASE Refuse \/ NoBackup \/ Stop
  BY <1>3 DEF Refuse, NoBackup, Stop, IsTooNew
<1>4. CASE BackupStart \/ BackupDone
  <2>1. CASE BackupStart
    <3>1. Len(backups') > 0
      BY <2>1, LenProperties DEF BackupStart
    <3> QED
      BY <2>1, <3>1 DEF BackupStart, NeedsBackup
  <2>2. CASE BackupDone
    BY <2>2 DEF BackupDone
  <2> QED
    BY <1>4, <2>1, <2>2
<1>5. CASE Migrate
  <2>1. InOrder(Append(db.applied, db.version + 1), db.version + 1)
    BY AppendProperties DEF InOrder
  <2>2. db' = [db EXCEPT !.version = db.version + 1, !.applied = Append(db.applied, db.version + 1)]
    BY <1>5 DEF Migrate
  <2> QED
    BY <1>5, <2>1, <2>2 DEF Migrate
<1>6. CASE Serve
  BY <1>6 DEF Serve
<1>7. ASSUME NEW i \in Images, ChangeImage(i) PROVE SchemaInv'
  BY <1>7 DEF ChangeImage
<1>8. ASSUME NEW k \in DOMAIN backups, Restore(k) PROVE SchemaInv'
  <2>1. backups[k] \in Files
    BY ElementOfSeq, LenProperties
  <2>2. InOrder(backups[k].of.applied, backups[k].of.version)
    BY <2>1 DEF Files, Sound
  <2> QED
    BY <1>8, <2>2 DEF Restore
<1>9. CASE UNCHANGED vars
  BY <1>9 DEF vars
<1> HIDE DEF Types, SchemaInv
<1> QED
  BY <1>1, <1>2, <1>3, <1>4, <1>5, <1>6, <1>7, <1>8, <1>9 DEF Next, Starting

(* So does the account: a backup has sessions of its own password.         *)
LEMMA FitsNext == ASSUME Types, Fits(content), [Next]_vars PROVE Fits(content')
<1>1. CASE Handle
  BY <1>1, RequestsFit DEF Handle, Types
<1>2. ASSUME NEW k \in DOMAIN backups, Restore(k) PROVE Fits(content')
  <2>1. backups[k] \in Files
    BY ElementOfSeq, LenProperties DEF Types
  <2> QED
    BY <1>2, <2>1 DEF Restore, Files, Sound
<1>3. ASSUME UNCHANGED content PROVE Fits(content')
  BY <1>3
<1>4. CASE Begin \/ Tick \/ Starting \/ Stop \/ UNCHANGED vars
  <2>1. UNCHANGED content
    BY <1>4 DEF Begin, Open, Tick, upgradeVars, S!Tick, Starting, Refuse, BackupStart, BackupDone, NoBackup,
                Migrate, Serve, ChangeImage, Stop, vars
  <2> QED
    BY <1>3, <2>1
<1> QED
  BY <1>1, <1>2, <1>4 DEF Next

(* The copy of an upgrade survives another one, and the clearing of the    *)
(* oldest, as long as the upgrade is not started more than Keep times.     *)
LEMMA CopiedStays ==
    ASSUME Types, NEW files \in Seq(Files), Copied,
           \/ /\ Len(files) = Len(backups) + 1 /\ upgrade'.attempts = upgrade.attempts + 1
              /\ \A k \in 1 .. Len(backups) : files[k] = backups[k]
           \/ /\ upgrade'.attempts = upgrade.attempts
              /\ \E dropped \in Nat :
                    /\ Len(files) = Len(backups) - dropped
                    /\ dropped = 0 \/ (Len(files) = Keep /\ upgrade.attempts <= Keep)
                    /\ \A k \in 1 .. Len(files) :
                          /\ files[k].of = backups[dropped + k].of
                          /\ backups[dropped + k].whole => files[k].whole,
           backups' = files, upgrade'.from = upgrade.from
    PROVE  Copied'
<1>1. Len(backups) \in Nat /\ Len(files) \in Nat /\ upgrade.attempts \in Nat /\ Keep \in Nat
  BY LenProperties, UpgradeConstants DEF Types
<1>2. PICK k \in 1 .. Len(backups) : /\ k > Len(backups) - upgrade.attempts
                                     /\ backups[k].whole /\ backups[k].of = upgrade.from
  BY DEF Copied
<1>3. CASE /\ Len(files) = Len(backups) + 1 /\ upgrade'.attempts = upgrade.attempts + 1
           /\ \A j \in 1 .. Len(backups) : files[j] = backups[j]
  <2>1. k \in 1 .. Len(files) /\ k > Len(files) - upgrade'.attempts /\ files[k] = backups[k]
    BY <1>1, <1>2, <1>3
  <2> QED
    BY <1>2, <2>1 DEF Copied
<1>4. ASSUME NEW dropped \in Nat, upgrade'.attempts = upgrade.attempts,
             Len(files) = Len(backups) - dropped,
             dropped = 0 \/ (Len(files) = Keep /\ upgrade.attempts <= Keep),
             \A j \in 1 .. Len(files) : /\ files[j].of = backups[dropped + j].of
                                        /\ backups[dropped + j].whole => files[j].whole
      PROVE  Copied'
  <2> DEFINE j == k - dropped
  <2>1. j \in 1 .. Len(files) /\ j > Len(files) - upgrade'.attempts /\ dropped + j = k
    <3>1. k \in Nat /\ k > Len(backups) - upgrade.attempts /\ k <= Len(backups)
      BY <1>1, <1>2
    <3>2. k > dropped
      BY <1>1, <1>2, <1>4, <3>1
    <3>3. /\ k - dropped \in Int /\ 1 <= k - dropped /\ k - dropped <= Len(files)
          /\ k - dropped > Len(files) - upgrade.attempts /\ dropped + (k - dropped) = k
      <4>1. Len(files) = Len(backups) - dropped
        BY <1>4
      <4> QED
        BY SMTT(30), <1>1, <3>1, <3>2, <4>1
    <3> QED
      BY <1>1, <1>4, <3>3
  <2>2. files[j].of = upgrade.from /\ files[j].whole
    BY <1>2, <1>4, <2>1
  <2> HIDE DEF j
  <2> QED
    BY <2>1, <2>2 DEF Copied
<1> QED
  BY <1>3, <1>4

(* A backup is begun.                                                      *)
LEMMA BackupStartNext ==
    ASSUME Types, SchemaInv, Fits(content), UpgradeInv, BackupStart
    PROVE  UpgradeInv'
<1> DEFINE file == [whole |-> FALSE, of |-> Snapshot]
<1>0. Snapshot' = Snapshot
  BY DEF BackupStart, Snapshot
<1>1. Snapshot \in Sound /\ Snapshot.version = db.version /\ Snapshot # None /\ Snapshot' = Snapshot
  BY <1>0, NoneIsNothing, SnapshotSound DEF Sound
<1>2. file \in Files /\ backups' = Append(backups, file) /\ file.of = Snapshot
  BY <1>1 DEF BackupStart, Files
<1>3. /\ backups' \in Seq(Files) /\ Len(backups') = Len(backups) + 1
      /\ \A k \in 1 .. Len(backups) : backups'[k] = backups[k]
      /\ backups'[Len(backups) + 1] = file
  <2> HIDE DEF file
  <2> QED
    BY <1>2, AppendProperties DEF Types
<1>4. /\ pc = "open" /\ pc' = "backup" /\ UNCHANGED <<image, db, content, start>>
      /\ ~start.fresh /\ 0 < db.version
  BY DEF BackupStart, NeedsBackup
<1>5. backups'[Len(backups')].of = Snapshot'
  BY <1>1, <1>2, <1>3
<1>6. CASE upgrade.over
  <2>1. upgrade' = [from |-> Snapshot, attempts |-> 1, over |-> FALSE]
    BY <1>6 DEF BackupStart
  <2>2. db.exists
    BY <1>4 DEF UpgradeInv
  <2> QED
    BY <1>1, <1>4, <1>5, <2>1, <2>2 DEF UpgradeInv, Types
<1>7. CASE ~upgrade.over
  <2>1. /\ upgrade'.from = upgrade.from /\ upgrade'.over = upgrade.over
        /\ upgrade'.attempts = upgrade.attempts + 1
    BY <1>7 DEF BackupStart, Types
  <2>2. Copied => Copied'
    BY <1>3, <2>1, CopiedStays
  <2>3. upgrade.attempts \in Nat /\ Keep \in Nat
    BY UpgradeConstants DEF Types
  <2> HIDE DEF file
  <2> QED
    BY <1>1, <1>4, <1>5, <1>7, <2>1, <2>2, <2>3 DEF UpgradeInv
<1> QED
  BY <1>6, <1>7
(* A backup is complete, and the oldest files are removed.                 *)
LEMMA BackupDoneNext ==
    ASSUME Types, SchemaInv, Fits(content), UpgradeInv, BackupDone
    PROVE  UpgradeInv'
<1> DEFINE last == [backups[Len(backups)] EXCEPT !.whole = TRUE]
           files == [backups EXCEPT ![Len(backups)] = last]
<1>1. /\ pc = "backup" /\ pc' = "migrate" /\ UNCHANGED <<image, db, content, start, upgrade>>
      /\ backups' = Newest(files) /\ Snapshot' = Snapshot
  BY DEF BackupDone, Snapshot
<1>2. /\ Len(backups) \in 1 .. Len(backups) /\ Len(backups) \in Nat
      /\ ~upgrade.over /\ backups[Len(backups)].of = Snapshot
  BY <1>1, LenProperties DEF Types, SchemaInv, UpgradeInv
<1>3. /\ last \in Files /\ last.whole /\ last.of = Snapshot
  <2>1. backups[Len(backups)] \in Files
    BY <1>2, ElementOfSeq DEF Types
  <2> QED
    BY <1>2, <2>1 DEF Files
<1>4. /\ files \in Seq(Files) /\ Len(files) = Len(backups)
      /\ \A k \in 1 .. Len(backups) : files[k] = IF k = Len(backups) THEN last ELSE backups[k]
  <2> HIDE DEF last
  <2> QED
    BY <1>2, <1>3, ExceptSeq DEF Types
<1> HIDE DEF last, files
<1>5. PICK dropped \in Nat :
          /\ Len(Newest(files)) = Len(files) - dropped
          /\ dropped = 0 \/ Len(Newest(files)) = Keep
          /\ \A i \in 1 .. Len(files) - dropped : Newest(files)[i] = files[dropped + i]
  BY <1>4, NewestKeeps
<1>6. Newest(files) \in Seq(Files) /\ Len(Newest(files)) \in Nat /\ Len(Newest(files)) > 0
  <2>1. Newest(files) \in Seq(Files) /\ Len(Newest(files)) \in Nat
    BY <1>4, NewestKeeps, LenProperties
  <2> QED
    BY <1>2, <1>4, <1>5, <2>1, UpgradeConstants
<1>7. ASSUME upgrade.attempts <= Keep, Copied PROVE Copied'
  <2>1. \A k \in 1 .. Len(Newest(files)) :
            /\ Newest(files)[k].of = backups[dropped + k].of
            /\ backups[dropped + k].whole => Newest(files)[k].whole
    <3> SUFFICES ASSUME NEW k \in 1 .. Len(Newest(files))
                 PROVE  /\ Newest(files)[k].of = backups[dropped + k].of
                        /\ backups[dropped + k].whole => Newest(files)[k].whole
      OBVIOUS
    <3>1. Newest(files)[k] = files[dropped + k] /\ dropped + k \in 1 .. Len(backups)
      BY <1>2, <1>4, <1>5, <1>6
    <3> QED
      BY <1>2, <1>3, <1>4, <3>1
  <2> QED
    BY <1>1, <1>4, <1>5, <1>6, <1>7, <2>1, CopiedStays
<1>8. ASSUME upgrade.from # None, db.version = upgrade.from.version PROVE Copied'
  <2>1. upgrade.from = Snapshot
    BY <1>2, <1>8 DEF UpgradeInv
  <2>2. Newest(files)[Len(Newest(files))] = last
    <3>1. dropped + Len(Newest(files)) = Len(files) /\ Len(Newest(files)) \in 1 .. Len(files) - dropped
      BY <1>2, <1>4, <1>5, <1>6
    <3> QED
      BY <1>2, <1>4, <1>5, <3>1
  <2>3. upgrade.attempts \in Nat /\ upgrade.attempts > 0
    BY <1>8 DEF UpgradeInv, Types
  <2> QED
    BY <1>1, <1>3, <1>6, <2>1, <2>2, <2>3 DEF Copied
<1> QED
  BY <1>1, <1>2, <1>7, <1>8 DEF UpgradeInv

(* The other steps of a start, and what surrounds them.                    *)
LEMMA UpgradeNext ==
    ASSUME Types, SchemaInv, Fits(content), UpgradeInv, [Next]_vars
    PROVE  UpgradeInv'
<1>0. ASSUME UNCHANGED <<backups, upgrade>> PROVE Copied' = Copied
  BY <1>0 DEF Copied
<1>1. CASE Begin
  <2>1. /\ pc = "down" /\ pc' = "open" /\ UNCHANGED <<content, backups, upgrade>>
        /\ db' = [db EXCEPT !.exists = TRUE] /\ start'.fresh = ~db.exists
    BY <1>1 DEF Begin, Open, IsNew
  <2>2. Snapshot' = Snapshot /\ db'.version = db.version /\ db'.exists
    BY <2>1 DEF Snapshot, Types
  <2> QED
    BY <1>0, <2>1, <2>2 DEF UpgradeInv
<1>2. CASE Handle
  BY <1>0, <1>2 DEF Handle, upgradeVars, UpgradeInv
<1>3. CASE Tick \/ Refuse \/ Stop \/ UNCHANGED vars
  <2>1. UNCHANGED <<image, db, content, backups, start, upgrade>> /\ pc' \in {pc, "down"}
    BY <1>3 DEF Tick, S!Tick, upgradeVars, Refuse, Stop, vars
  <2>2. Snapshot' = Snapshot
    BY <2>1 DEF Snapshot
  <2> QED
    BY <1>0, <2>1, <2>2 DEF UpgradeInv
<1>4. CASE NoBackup
  <2>1. /\ UNCHANGED <<image, db, content, backups, start, upgrade>> /\ pc = "open" /\ pc' = "migrate"
        /\ ~(db.version > image) /\ (start.fresh \/ ~(0 < db.version) \/ ~(db.version < image))
    BY <1>4 DEF NoBackup, IsTooNew, NeedsBackup
  <2>2. Snapshot' = Snapshot
    BY <2>1 DEF Snapshot
  <2>3. db.version \in Nat /\ image \in Nat
    BY UpgradeConstants DEF Types
  <2>4. upgrade.from # None => db.version = image
    BY <2>1, <2>3 DEF UpgradeInv, Types, Sound, Snapshots
  <2> QED
    BY <1>0, <2>1, <2>2, <2>4 DEF UpgradeInv
<1>5. CASE Migrate
  <2>1. /\ pc = "migrate" /\ pc' = "migrate" /\ UNCHANGED <<image, content, backups, start.fresh, upgrade>>
        /\ db'.version = db.version + 1 /\ db'.exists = db.exists /\ db.version < image
    BY <1>5, UpgradeConstants DEF Migrate, Types, SchemaInv
  <2>2. db.version \in Nat
    BY DEF Types
  <2>3. upgrade.from # None => upgrade.from.version \in Nat /\ upgrade.from.version <= db.version
    BY DEF UpgradeInv, Types, Sound, Snapshots
  <2>4. upgrade.from # None /\ upgrade.attempts <= Keep => Copied
    BY <2>1, <2>2, UpgradeConstants DEF UpgradeInv, Types
  <2> QED
    BY <1>0, <2>1, <2>2, <2>3, <2>4 DEF UpgradeInv
<1>6. CASE Serve
  <2>1. /\ pc' = "serving" /\ UNCHANGED <<image, content, backups, start>>
        /\ upgrade'.from = upgrade.from /\ upgrade'.attempts = upgrade.attempts /\ upgrade'.over
        /\ db'.version = db.version /\ db'.exists = db.exists /\ pc = "migrate"
    BY <1>6 DEF Serve, Types
  <2>2. Copied' = Copied
    BY <2>1 DEF Copied
  <2> QED
    BY <2>1, <2>2 DEF UpgradeInv
<1>7. ASSUME NEW i \in Images, ChangeImage(i) PROVE UpgradeInv'
  <2>1. UNCHANGED <<pc, db, content, backups, start, upgrade>> /\ pc = "down"
    BY <1>7 DEF ChangeImage
  <2>2. Snapshot' = Snapshot
    BY <2>1 DEF Snapshot
  <2> QED
    BY <1>0, <2>1, <2>2 DEF UpgradeInv
<1>8. ASSUME NEW k \in DOMAIN backups, Restore(k) PROVE UpgradeInv'
  BY <1>8 DEF Restore, UpgradeInv
<1> QED
  BY <1>1, <1>2, <1>3, <1>4, <1>5, <1>6, <1>7, <1>8, BackupStartNext, BackupDoneNext DEF Next, Starting

---------------------------------------------------------------------------
(* Theorems.                                                               *)

(* The parts together are inductive.                                       *)
LEMMA AppInductive == Spec => []AInv
<1>1. AppInit => AInv
  <2> SUFFICES ASSUME AppInit PROVE AInv
    OBVIOUS
  <2>1. Types
    BY UpgradeConstants, AppConstants DEF AppInit, Init, S!Init, NoFile, Types
  <2>2. SchemaInv
    BY DEF AppInit, Init, NoFile, SchemaInv, InOrder
  <2>3. Fits(content)
    BY AppConstants DEF AppInit, Init, Fits, S!Accounts
  <2>4. UpgradeInv
    BY DEF AppInit, Init, NoFile, UpgradeInv
  <2> QED
    BY <2>1, <2>2, <2>3, <2>4 DEF AInv
<1>2. AInv /\ [Next]_vars => AInv'
  BY TypesNext, SchemaNext, FitsNext, UpgradeNext DEF AInv, Fits
<1> QED
  BY <1>1, <1>2, PTL DEF Spec

(* Whatever start was cut short, refused or undone by a backup, the served *)
(* database has each migration of its image once and in order (migrate).   *)
THEOREM SchemaIsComplete == Spec => []SchemaIsServed
<1>1. AInv => SchemaIsServed
  <2> SUFFICES ASSUME AInv, pc = "serving"
               PROVE  db.version = image /\ db.applied = [i \in 1 .. image |-> i]
    BY DEF SchemaIsServed
  <2>1. db.version = image /\ InOrder(db.applied, image)
    BY DEF AInv, SchemaInv
  <2>2. db.applied \in [1 .. image -> Nat]
    BY <2>1, LenProperties DEF InOrder
  <2> QED
    BY <2>1, <2>2 DEF InOrder
<1> QED
  BY <1>1, AppInductive, PTL

(* An upgrade started at most Keep times leaves a whole copy from before   *)
(* it, once it has changed anything (backup, and the pruning in it).       *)
THEOREM UpgradesCanBeUndone == Spec => []Recoverable
<1>1. AInv => Recoverable
  <2> SUFFICES ASSUME AInv, upgrade.from # None, ~(upgrade.attempts > Keep),
                      db.version # upgrade.from.version
               PROVE  \E k \in DOMAIN backups : backups[k].whole /\ backups[k].of = upgrade.from
    BY DEF Recoverable
  <2>1. upgrade.attempts <= Keep
    BY UpgradeConstants DEF AInv, Types
  <2>2. Copied /\ DOMAIN backups = 1 .. Len(backups)
    BY <2>1, LenProperties DEF AInv, Types, UpgradeInv
  <2> QED
    BY <2>2 DEF Copied
<1> QED
  BY <1>1, AppInductive, PTL

(* No session outlives its password, not even one a backup brings back     *)
(* (change_password, create_session).                                      *)
THEOREM SessionsAreOfThePassword == Spec => []SessionsFollowPassword
<1>1. AInv => SessionsFollowPassword
  BY DEF AInv, Fits, SessionsFollowPassword, S!SessionsFollowPassword
<1> QED
  BY <1>1, AppInductive, PTL

---------------------------------------------------------------------------
(* Numbers: any of a set has a least one, and what holds of 0 and of the   *)
(* next number holds of all.                                               *)
Below == {p \in Nat \X Nat : p[1] < p[2]}

LEMMA LeastOf ==
    ASSUME NEW T, T \subseteq Nat, T # {}
    PROVE  \E m \in T : \A k \in T : m <= k
<1>1. IsWellFoundedOn(Below, Nat)
  <2>1. Below = OpToRel(<, Nat)
    BY DEF Below, OpToRel
  <2> QED
    BY <2>1, NatLessThanWellFounded
<1>2. PICK x \in T : \A y \in T : <<y, x>> \notin Below
  BY <1>1, WFMin
<1>3. \A y \in T : x <= y
  <2> TAKE y \in T
  <2>1. <<y, x>> \in Nat \X Nat /\ <<y, x>>[1] = y /\ <<y, x>>[2] = x
    OBVIOUS
  <2> QED
    BY <1>2, <2>1 DEF Below
<1> QED
  BY <1>3

LEMMA EveryNumber ==
    ASSUME NEW R, 0 \in R, \A n \in Nat : n \in R => n + 1 \in R
    PROVE  Nat \subseteq R
<1> DEFINE T == Nat \ R
<1> SUFFICES ASSUME T # {} PROVE FALSE
  OBVIOUS
<1>1. PICK m \in T : \A k \in T : m <= k
  BY LeastOf
<1>2. m # 0 /\ m - 1 \in Nat /\ m - 1 \notin T
  BY <1>1
<1> QED
  BY <1>2

(* The first powers, up to that of n.                                      *)
Powers(n) == {f \in [0 .. n -> Nat] : f[0] = 1 /\ \A i \in 1 .. n : f[i] = 2 * f[i - 1]}

LEMMA PowersAgree ==
    ASSUME NEW n \in Nat, NEW m \in Nat, NEW f \in Powers(n), NEW g \in Powers(m), NEW i \in Nat,
           i <= n, i <= m
    PROVE  f[i] = g[i]
<1> DEFINE same == {k \in Nat : k <= n /\ k <= m => f[k] = g[k]}
<1>1. 0 \in same
  BY DEF Powers
<1>2. ASSUME NEW k \in Nat, k \in same PROVE k + 1 \in same
  <2> SUFFICES ASSUME k + 1 <= n, k + 1 <= m PROVE f[k + 1] = g[k + 1]
    OBVIOUS
  <2>1. k + 1 \in 1 .. n /\ k + 1 \in 1 .. m /\ (k + 1) - 1 = k /\ f[k] = g[k]
    BY <1>2
  <2>2. f[k + 1] = 2 * f[k] /\ g[k + 1] = 2 * g[k]
    BY <2>1 DEF Powers
  <2> QED
    BY <2>1, <2>2
<1> HIDE DEF same
<1>3. Nat \subseteq same
  BY <1>1, <1>2, EveryNumber
<1> QED
  BY <1>3 DEF same

(* There are such, so the function is what its recursion says.             *)
LEMMA PowersThere == ASSUME NEW n \in Nat PROVE Powers(n) # {}
<1> DEFINE there == {k \in Nat : Powers(k) # {}}
<1>1. 0 \in there
  <2>1. [i \in 0 .. 0 |-> 1] \in Powers(0)
    BY DEF Powers
  <2> QED
    BY <2>1
<1>2. ASSUME NEW k \in Nat, k \in there PROVE k + 1 \in there
  <2>1. PICK f \in Powers(k) : TRUE
    BY <1>2
  <2> DEFINE g == [i \in 0 .. k + 1 |-> IF i <= k THEN f[i] ELSE 2 * f[k]]
  <2>2. f \in [0 .. k -> Nat] /\ f[0] = 1 /\ \A i \in 1 .. k : f[i] = 2 * f[i - 1]
    BY <2>1 DEF Powers
  <2>3. g \in [0 .. k + 1 -> Nat] /\ g[0] = 1
    BY <2>2
  <2>4. ASSUME NEW i \in 1 .. k + 1 PROVE g[i] = 2 * g[i - 1]
    <3>1. CASE i <= k
      BY <2>2, <3>1
    <3>2. CASE i = k + 1
      BY <2>2, <3>2
    <3> QED
      BY <3>1, <3>2
  <2> HIDE DEF g
  <2>5. g \in Powers(k + 1)
    BY <2>3, <2>4 DEF Powers
  <2> QED
    BY <2>5
<1> HIDE DEF there
<1>3. Nat \subseteq there
  BY <1>1, <1>2, EveryNumber
<1> QED
  BY <1>3 DEF there

LEMMA PowerIs ==
    /\ S!Power \in [Nat -> Nat]
    /\ S!Power[0] = 1
    /\ \A n \in Nat : S!Power[n + 1] = 2 * S!Power[n]
<1> DEFINE P == [n \in Nat |-> (CHOOSE f \in Powers(n) : TRUE)[n]]
<1>1. ASSUME NEW n \in Nat PROVE \E f \in Powers(n) : P[n] = f[n]
  BY PowersThere
<1>2. P \in [Nat -> Nat] /\ P[0] = 1
  <2>1. ASSUME NEW n \in Nat PROVE P[n] \in Nat /\ (n = 0 => P[n] = 1)
    <3>1. PICK f \in Powers(n) : P[n] = f[n]
      BY <1>1
    <3>2. f \in [0 .. n -> Nat] /\ f[0] = 1 /\ n \in 0 .. n
      BY <3>1 DEF Powers
    <3> QED
      BY <3>1, <3>2
  <2> QED
    BY <2>1
<1> HIDE DEF P
<1>3. ASSUME NEW n \in Nat PROVE P[n + 1] = 2 * P[n]
  <2>0. n + 1 \in Nat
    OBVIOUS
  <2>1. PICK f \in Powers(n + 1) : P[n + 1] = f[n + 1]
    BY <1>1, <2>0
  <2>2. PICK g \in Powers(n) : P[n] = g[n]
    BY <1>1
  <2>3. f[n] = g[n]
    BY <2>1, <2>2, PowersAgree
  <2>4. n + 1 \in 1 .. n + 1 /\ (n + 1) - 1 = n
    OBVIOUS
  <2>5. f[n + 1] = 2 * f[n]
    BY <2>1, <2>4 DEF Powers
  <2> QED
    BY <2>1, <2>2, <2>3, <2>5
<1>4. ASSUME NEW n \in Nat PROVE P[n] = IF n = 0 THEN 1 ELSE 2 * P[n - 1]
  <2>1. n # 0 => n - 1 \in Nat /\ (n - 1) + 1 = n
    OBVIOUS
  <2> QED
    BY <1>2, <1>3, <2>1
<1>5. P = [n \in Nat |-> IF n = 0 THEN 1 ELSE 2 * P[n - 1]]
  <2>1. P = [n \in Nat |-> P[n]]
    BY <1>2
  <2>2. [n \in Nat |-> P[n]] = [n \in Nat |-> IF n = 0 THEN 1 ELSE 2 * P[n - 1]]
    BY <1>4, Zenon
  <2> QED
    BY <2>1, <2>2, Zenon
<1>6. S!Power = [n \in Nat |-> IF n = 0 THEN 1 ELSE 2 * S!Power[n - 1]]
  BY <1>5 DEF S!Power
<1>7. S!Power[0] = 1 /\ \A n \in Nat : S!Power[n + 1] = 2 * S!Power[n]
  <2>1. S!Power[0] = 1
    BY <1>6
  <2>2. ASSUME NEW n \in Nat PROVE S!Power[n + 1] = 2 * S!Power[n]
    <3>1. n + 1 \in Nat /\ n + 1 # 0 /\ (n + 1) - 1 = n
      OBVIOUS
    <3> QED
      BY <1>6, <3>1
  <2> QED
    BY <2>1, <2>2
<1>8. \A n \in Nat : S!Power[n] \in Nat
  <2> DEFINE number == {n \in Nat : S!Power[n] \in Nat}
  <2>1. 0 \in number /\ \A n \in Nat : n \in number => n + 1 \in number
    BY <1>7
  <2> HIDE DEF number
  <2>2. Nat \subseteq number
    BY <2>1, EveryNumber
  <2> QED
    BY <2>2 DEF number
<1> QED
  BY <1>6, <1>7, <1>8

(* The locks grow.                                                         *)
LEMMA PowerGrows ==
    ASSUME NEW n \in Nat
    PROVE  n < S!Power[n] /\ \A k \in 0 .. n : S!Power[k] <= S!Power[n]
<1> DEFINE grown == {m \in Nat : m < S!Power[m] /\ \A k \in 0 .. m : S!Power[k] <= S!Power[m]}
<1>1. 0 \in grown
  BY PowerIs
<1>2. ASSUME NEW m \in Nat, m \in grown PROVE m + 1 \in grown
  <2>1. S!Power[m + 1] = 2 * S!Power[m] /\ S!Power[m] \in Nat /\ m < S!Power[m]
    BY <1>2, PowerIs
  <2>2. ASSUME NEW k \in 0 .. m + 1 PROVE S!Power[k] <= S!Power[m + 1]
    <3>1. CASE k <= m
      <4>1. k \in 0 .. m /\ S!Power[k] <= S!Power[m] /\ S!Power[k] \in Nat
        BY <1>2, <3>1, PowerIs
      <4> QED
        BY <2>1, <4>1
    <3>2. CASE k = m + 1
      BY <2>1, <3>2
    <3> QED
      BY <3>1, <3>2
  <2>3. m + 1 < S!Power[m + 1]
    BY <2>1
  <2> QED
    BY <2>2, <2>3
<1> HIDE DEF grown
<1>3. Nat \subseteq grown
  BY <1>1, <1>2, EveryNumber
<1> QED
  BY <1>3 DEF grown

---------------------------------------------------------------------------
(* The throttle's queues hold times of the past.                           *)
Queues ==
    /\ events \in 0 .. MaxEvents
    /\ failures \in [S!Keys -> Seq(0 .. now)] /\ tried \in Seq(0 .. now)

(* _prune ends: there is a first failure that has not left the window, or  *)
(* none, and what is before it goes.                                       *)
LEMMA RecentIs ==
    ASSUME NEW q \in Seq(0 .. now), now \in Nat
    PROVE  \E left \in 0 .. Len(q) :
              /\ \A i \in 1 .. left : now - q[i] > Window
              /\ left = Len(q) \/ now - q[left + 1] <= Window
              /\ S!Recent(q) \in Seq(0 .. now)
              /\ Len(S!Recent(q)) = Len(q) - left
              /\ \A i \in 1 .. Len(q) - left : S!Recent(q)[i] = q[left + i]
<1> DEFINE stops == {n \in 0 .. Len(q) : n = Len(q) \/ now - q[n + 1] <= Window}
           left == S!Left(q)
<1>0. Len(q) \in Nat /\ \A i \in 1 .. Len(q) : q[i] \in 0 .. now
  BY LenProperties, ElementOfSeq
<1>1. PICK n \in stops : \A k \in stops : n <= k
  <2>1. stops \in SUBSET Nat /\ Len(q) \in stops
    BY <1>0
  <2> HIDE DEF stops
  <2> QED
    BY <2>1, LeastOf
<1>2. \A i \in 1 .. n : now - q[i] > Window
  <2>1. ASSUME NEW i \in 1 .. n PROVE now - q[i] > Window
    <3>1. i - 1 \in 0 .. Len(q) /\ ~(n <= i - 1) /\ i - 1 # Len(q) /\ (i - 1) + 1 = i
      BY <1>0, <1>1
    <3>2. ~(i - 1 \in stops)
      BY <1>1, <3>1
    <3>3. ~(now - q[i] <= Window)
      BY <3>1, <3>2
    <3> QED
      BY <1>0, <1>1, <3>3, AppConstants
  <2> QED
    BY <2>1
<1>3. /\ left \in 0 .. Len(q)
      /\ \A i \in 1 .. left : now - q[i] > Window
      /\ left = Len(q) \/ now - q[left + 1] <= Window
  <2> DEFINE Stops(m) == /\ \A i \in 1 .. m : now - q[i] > Window
                         /\ m = Len(q) \/ now - q[m + 1] <= Window
  <2>1. n \in 0 .. Len(q) /\ Stops(n)
    BY <1>1, <1>2
  <2>2. left = CHOOSE m \in 0 .. Len(q) : Stops(m)
    BY DEF S!Left
  <2> HIDE DEF Stops, left
  <2>3. left \in 0 .. Len(q) /\ Stops(left)
    BY <2>1, <2>2
  <2> QED
    BY <2>3 DEF Stops
<1> HIDE DEF left
<1>4. left + 1 \in Int /\ Len(q) \in Int /\ \A i \in left + 1 .. Len(q) : q[i] \in 0 .. now
  BY <1>0, <1>3
<1>5. /\ SubSeq(q, left + 1, Len(q)) \in Seq(0 .. now)
      /\ Len(SubSeq(q, left + 1, Len(q))) = IF left + 1 <= Len(q) THEN Len(q) - (left + 1) + 1 ELSE 0
      /\ \A i \in 1 .. Len(q) - (left + 1) + 1 : SubSeq(q, left + 1, Len(q))[i] = q[(left + 1) + i - 1]
  BY <1>4, SubSeqProperties
<1>6. S!Recent(q) = SubSeq(q, left + 1, Len(q))
  BY DEF S!Recent, left
<1>7. Len(S!Recent(q)) = Len(q) - left
  BY <1>0, <1>3, <1>5, <1>6
<1>8. ASSUME NEW i \in 1 .. Len(q) - left PROVE S!Recent(q)[i] = q[left + i]
  <2>1. i \in 1 .. Len(q) - (left + 1) + 1 /\ (left + 1) + i - 1 = left + i
    BY <1>0, <1>3
  <2> QED
    BY <1>5, <1>6, <2>1
<1> QED
  BY <1>3, <1>5, <1>6, <1>7, <1>8

(* A sequence of some elements is one of more.                             *)
LEMMA Wider ==
    ASSUME NEW A, NEW B, A \subseteq B
    PROVE  Seq(A) \subseteq Seq(B)
<1>1. ASSUME NEW q \in Seq(A) PROVE q \in Seq(B)
  <2>1. /\ q = [i \in 1 .. Len(q) |-> q[i]] /\ Len(q) \in Nat
        /\ \A i \in 1 .. Len(q) : q[i] \in B
    BY LenProperties, ElementOfSeq
  <2> QED
    BY <2>1
<1> QED
  BY <1>1

LEMMA QueuesNext ==
    ASSUME Queues, now \in 0 .. MaxTime, [Next]_vars
    PROVE  Queues'
<1> USE UpgradeConstants, AppConstants
<1>0. /\ now \in Nat /\ <<>> \in Seq(0 .. now) /\ MaxEvents \in Nat
      /\ failures \in [S!Keys -> Seq(0 .. now)] /\ tried \in Seq(0 .. now) /\ events \in 0 .. MaxEvents
  BY EmptySeq DEF Queues
<1>1. CASE UNCHANGED <<failures, now, tried>> /\ events' \in 0 .. MaxEvents
  BY <1>1 DEF Queues
<1>2. CASE Begin
  <2>1. failures' \in [S!Keys -> Seq(0 .. now)] /\ tried' \in Seq(0 .. now)
    BY <1>0, <1>2 DEF Begin, S!ForgetFailures
  <2> QED
    BY <1>0, <1>2, <2>1 DEF Begin, Open, Queues
<1>3. CASE Tick
  <2>1. now' = now + 1 /\ UNCHANGED <<failures, tried, events>>
    BY <1>3 DEF Tick, S!Tick
  <2>2. Seq(0 .. now) \subseteq Seq(0 .. now')
    <3>1. 0 .. now \subseteq 0 .. now'
      BY <1>0, <2>1
    <3> QED
      BY <3>1, Wider
  <2>3. failures \in [S!Keys -> Seq(0 .. now')] /\ tried \in Seq(0 .. now')
    <3> DEFINE before == Seq(0 .. now)
               after == Seq(0 .. now')
    <3>1. before \subseteq after /\ failures \in [S!Keys -> before] /\ tried \in before
      BY <1>0, <2>2
    <3> HIDE DEF before, after
    <3>2. failures \in [S!Keys -> after] /\ tried \in after
      BY <3>1
    <3> QED
      BY <3>2 DEF after
  <2> QED
    BY <1>0, <2>1, <2>3 DEF Queues
<1>4. ASSUME NEW ip \in Addresses, NEW t \in Tokens, S!Login(ip, t) PROVE Queues'
  <2>1. failures' \in [S!Keys -> Seq(0 .. now)] /\ tried' \in Seq(0 .. now) /\ now' = now
    BY <1>0, <1>4 DEF S!Login
  <2>2. events' \in 0 .. MaxEvents
    BY <1>0, <1>4 DEF S!Login, S!Event
  <2> QED
    BY <2>1, <2>2 DEF Queues
<1>5. ASSUME NEW ip \in Addresses, S!LoginFails(ip) PROVE Queues'
  <2>1. ASSUME NEW q \in Seq(0 .. now) PROVE Append(q, now) \in Seq(0 .. now)
    BY <1>0, AppendProperties
  <2>2. \A k \in S!Keys : Append(S!Recent(failures[k]), now) \in Seq(0 .. now)
    BY <1>0, <2>1, RecentIs
  <2>3. failures' \in [S!Keys -> Seq(0 .. now)] /\ tried' \in Seq(0 .. now)
    BY <1>0, <1>5, <2>1, <2>2 DEF S!LoginFails
  <2> QED
    BY <1>0, <1>5, <2>3 DEF S!LoginFails, S!Event, Queues
<1>6. ASSUME NEW ip \in Addresses, S!LoginRefused(ip) PROVE Queues'
  <2>1. \A k \in S!Keys : S!Recent(failures[k]) \in Seq(0 .. now)
    BY <1>0, RecentIs
  <2>2. failures' \in [S!Keys -> Seq(0 .. now)]
    BY <1>0, <1>6, <2>1 DEF S!LoginRefused, S!Pruned
  <2> QED
    BY <1>0, <1>6, <2>2 DEF S!LoginRefused, Queues
<1>7. ASSUME NEW t \in Tokens, S!Setup(t) \/ S!Request(t) \/ S!Logout(t) \/ S!ChangePassword(t)
      PROVE  Queues'
  BY SMTT(30), <1>0, <1>1, <1>7 DEF S!Setup, S!Request, S!Logout, S!ChangePassword, S!Event
<1>8. CASE Handle
  BY <1>4, <1>5, <1>6, <1>7, <1>8 DEF Handle, S!Requests
<1>9. CASE (Starting \/ Stop \/ \E k \in DOMAIN backups : Restore(k)) /\ UNCHANGED <<failures, now, tried>>
  <2>1. events' \in 0 .. MaxEvents
    BY <1>0, <1>9 DEF Starting, Refuse, BackupStart, BackupDone, NoBackup, Migrate, Serve, ChangeImage,
                      Stop, Restore, Event
  <2> QED
    BY <1>1, <1>9, <2>1
<1>10. CASE UNCHANGED vars
  BY <1>0, <1>10 DEF vars, Queues
<1> QED
  BY <1>2, <1>3, <1>8, <1>9, <1>10 DEF Next

(* The files, the account, the queues and the step a start is at have      *)
(* their types; no image works on a database newer than itself.            *)
THEOREM TypeCorrect == Spec => []TypeOK
<1>1. AppInit => Queues
  BY UpgradeConstants, AppConstants, EmptySeq DEF AppInit, Init, S!Init, Queues
<1>2. Queues /\ AInv /\ [Next]_vars => Queues'
  BY QueuesNext DEF AInv, Types
<1>3. Spec => []Queues
  BY <1>1, <1>2, AppInductive, PTL DEF Spec
<1>4. AInv /\ Queues => TypeOK
  <2> SUFFICES ASSUME AInv, Queues PROVE TypeOK
    OBVIOUS
  <2>1. backups \in Seq([whole : BOOLEAN, of : Snapshots])
    <3>1. Files \subseteq [whole : BOOLEAN, of : Snapshots]
      BY DEF Files, Sound
    <3>2. Seq(Files) \subseteq Seq([whole : BOOLEAN, of : Snapshots])
      BY <3>1, Wider
    <3> QED
      BY <3>2 DEF AInv, Types
  <2>2. upgrade \in [from : Snapshots \cup {None}, attempts : Nat, over : BOOLEAN]
    BY DEF AInv, Types, Sound
  <2>3. pc \in {"backup", "migrate", "serving"} => db.exists /\ db.version <= image
    BY UpgradeConstants DEF AInv, Types, SchemaInv, UpgradeInv
  <2> QED
    BY <2>1, <2>2, <2>3 DEF AInv, Types, Fits, Queues, TypeOK
<1> QED
  BY <1>3, <1>4, AppInductive, PTL

---------------------------------------------------------------------------
(* Failed logins of the name are apart by what the locks between them are. *)
Spaced ==
    \A i, j \in 1 .. Len(tried) : i <= j =>
        /\ tried[i] <= tried[j]
        /\ Free <= j - i + 1 /\ tried[j] - tried[i] <= Window =>
              S!Power[j - i + 1 - Free] - 1 <= tried[j] - tried[i]

(* The throttle's queue of the name is the tries without some that have    *)
(* left the window.                                                        *)
EndsTries(q) ==
    \E k \in 0 .. Len(tried) :
        /\ Len(q) = Len(tried) - k
        /\ \A i \in 1 .. Len(tried) - k : q[i] = tried[k + i]
        /\ \A i \in 1 .. k : now - tried[i] > Window

ThrottleInv == Spaced /\ EndsTries(failures[Owner])

LEMMA RecentEndsTries ==
    ASSUME NEW q \in Seq(0 .. now), now \in Nat, tried \in Seq(0 .. now), EndsTries(q)
    PROVE  EndsTries(S!Recent(q))
<1>0. Len(q) \in Nat /\ Len(tried) \in Nat
  BY LenProperties
<1>1. PICK left \in 0 .. Len(q) :
         /\ \A i \in 1 .. left : now - q[i] > Window
         /\ Len(S!Recent(q)) = Len(q) - left
         /\ \A i \in 1 .. Len(q) - left : S!Recent(q)[i] = q[left + i]
  BY RecentIs
<1>2. PICK k \in 0 .. Len(tried) :
         /\ Len(q) = Len(tried) - k
         /\ \A i \in 1 .. Len(tried) - k : q[i] = tried[k + i]
         /\ \A i \in 1 .. k : now - tried[i] > Window
  BY DEF EndsTries
<1>3. k + left \in 0 .. Len(tried) /\ Len(S!Recent(q)) = Len(tried) - (k + left)
  BY <1>0, <1>1, <1>2
<1>4. ASSUME NEW i \in 1 .. Len(tried) - (k + left) PROVE S!Recent(q)[i] = tried[(k + left) + i]
  <2>1. i \in 1 .. Len(q) - left /\ left + i \in 1 .. Len(tried) - k
    BY <1>0, <1>1, <1>2
  <2>2. S!Recent(q)[i] = q[left + i] /\ q[left + i] = tried[k + (left + i)]
    BY <1>1, <1>2, <2>1
  <2>3. k + (left + i) = (k + left) + i
    BY <1>0
  <2> QED
    BY <2>2, <2>3
<1>5. ASSUME NEW i \in 1 .. k + left PROVE now - tried[i] > Window
  <2>1. CASE i <= k
    BY <1>2, <2>1
  <2>2. CASE i > k
    <3>1. i - k \in 1 .. left /\ i - k \in 1 .. Len(tried) - k /\ k + (i - k) = i
      BY <1>0, <1>1, <1>2, <2>2
    <3>2. now - q[i - k] > Window /\ q[i - k] = tried[k + (i - k)]
      BY <1>1, <1>2, <3>1
    <3> QED
      BY <3>1, <3>2
  <2> QED
    BY <1>0, <2>1, <2>2
<1> QED
  BY <1>3, <1>4, <1>5 DEF EndsTries

LEMMA LockIs ==
    ASSUME NEW n \in Nat, n >= Free
    PROVE  /\ S!Lock(n) \in Nat /\ n - Free \in Nat /\ S!Power[n - Free] \in Nat
           /\ S!Lock(n) = S!Power[n - Free] \/ S!Lock(n) = MaxLock
<1>1. n - Free \in Nat /\ MaxLock \in Nat
  BY AppConstants
<1>2. S!Power[n - Free] \in Nat
  BY <1>1, PowerIs
<1> QED
  BY <1>1, <1>2 DEF S!Lock, S!Shorter

LEMMA FailedLogin ==
    ASSUME Queues, ThrottleInv, now \in Nat, NEW ip \in Addresses, S!LoginFails(ip)
    PROVE  ThrottleInv'
<1> DEFINE q == S!Recent(failures[Owner])
           n == Len(tried)
<1>0. /\ tried \in Seq(0 .. now) /\ failures[Owner] \in Seq(0 .. now) /\ n \in Nat
      /\ \A i \in 1 .. n : tried[i] \in 0 .. now
  <2>1. Owner \in S!Keys
    BY DEF S!Keys
  <2> QED
    BY <2>1, LenProperties, ElementOfSeq DEF Queues
<1>1. EndsTries(q) /\ q \in Seq(0 .. now) /\ Len(q) \in Nat
  BY <1>0, RecentEndsTries, RecentIs, LenProperties DEF ThrottleInv
<1>2. Len(q) >= Free => q[Len(q)] + S!Lock(Len(q)) <= now
  <2>1. Owner \in S!KeysOf(ip)
    BY DEF S!KeysOf
  <2>2. ~(Len(q) >= Free /\ q[Len(q)] + S!Lock(Len(q)) > now)
    BY <2>1 DEF S!LoginFails, S!MustWait
  <2>3. Len(q) >= Free => q[Len(q)] \in Nat /\ S!Lock(Len(q)) \in Nat
    <3>1. Len(q) >= Free => Len(q) \in 1 .. Len(q)
      BY <1>1, AppConstants
    <3> QED
      BY <1>1, <3>1, LockIs, ElementOfSeq
  <2> HIDE DEF q
  <2> QED
    BY <2>2, <2>3
<1>3. tried' = Append(tried, now) /\ failures'[Owner] = Append(q, now) /\ now' = now
  <2>1. Owner \in S!KeysOf(ip) /\ Owner \in S!Keys
    BY DEF S!KeysOf, S!Keys
  <2> QED
    BY <2>1 DEF S!LoginFails
<1> HIDE DEF q, n
<1>4. tried \in Seq(Nat) /\ q \in Seq(Nat) /\ now \in Nat
  <2>1. 0 .. now \subseteq Nat
    OBVIOUS
  <2> QED
    BY <1>0, <1>1, <2>1, Wider
<1>5. /\ Len(tried') = n + 1 /\ tried'[n + 1] = now
      /\ \A i \in 1 .. n : tried'[i] = tried[i]
  BY <1>3, <1>4, AppendProperties DEF n
<1>6. /\ Len(failures'[Owner]) = Len(q) + 1 /\ failures'[Owner][Len(q) + 1] = now
      /\ \A i \in 1 .. Len(q) : failures'[Owner][i] = q[i]
  BY <1>3, <1>4, AppendProperties
<1>7. PICK k \in 0 .. n :
         /\ Len(q) = n - k
         /\ \A i \in 1 .. n - k : q[i] = tried[k + i]
         /\ \A i \in 1 .. k : now - tried[i] > Window
  BY <1>1 DEF EndsTries, n
<1>8. EndsTries(failures[Owner])'
  <2>1. k \in 0 .. n + 1 /\ Len(failures'[Owner]) = n + 1 - k
    BY <1>0, <1>6, <1>7
  <2>2. ASSUME NEW i \in 1 .. n + 1 - k PROVE failures'[Owner][i] = tried'[k + i]
    <3>1. CASE i \in 1 .. n - k
      <4>1. k + i \in 1 .. n /\ i \in 1 .. Len(q)
        BY <1>0, <1>7, <3>1
      <4> QED
        BY <1>5, <1>6, <1>7, <3>1, <4>1
    <3>2. CASE i = n + 1 - k
      <4>1. i = Len(q) + 1 /\ k + i = n + 1
        BY <1>0, <1>7, <3>2
      <4> QED
        BY <1>5, <1>6, <4>1
    <3> QED
      BY <1>0, <3>1, <3>2
  <2>3. ASSUME NEW i \in 1 .. k PROVE now' - tried'[i] > Window
    <3>1. i \in 1 .. n
      BY <1>0
    <3> QED
      BY <1>3, <1>5, <1>7, <3>1
  <2>4. /\ k \in 0 .. Len(tried') /\ Len(failures'[Owner]) = Len(tried') - k
        /\ \A i \in 1 .. Len(tried') - k : failures'[Owner][i] = tried'[k + i]
        /\ \A i \in 1 .. k : now' - tried'[i] > Window
    <3>1. Len(tried') = n + 1 /\ n \in Nat
      BY <1>0, <1>5
    <3>2. k \in 0 .. Len(tried') /\ Len(failures'[Owner]) = Len(tried') - k
      BY <2>1, <3>1
    <3>3. \A i \in 1 .. Len(tried') - k : failures'[Owner][i] = tried'[k + i]
      BY <2>2, <3>1
    <3> QED
      BY <2>3, <3>2, <3>3
  <2> QED
    BY <2>4 DEF EndsTries
<1>9. Spaced'
  <2> SUFFICES ASSUME NEW i \in 1 .. n + 1, NEW j \in 1 .. n + 1, i <= j
               PROVE  /\ tried'[i] <= tried'[j]
                      /\ Free <= j - i + 1 /\ tried'[j] - tried'[i] <= Window =>
                            S!Power[j - i + 1 - Free] - 1 <= tried'[j] - tried'[i]
    BY <1>5 DEF Spaced
  <2>1. CASE j <= n
    <3>1. i \in 1 .. n /\ j \in 1 .. n
      BY <1>0, <2>1
    <3> QED
      BY <1>5, <3>1 DEF ThrottleInv, Spaced, n
  <2>2. CASE j = n + 1 /\ i = n + 1
    <3>1. Free <= 1 => j - i + 1 - Free = 0
      BY <1>0, <2>2, AppConstants
    <3>2. tried'[i] = now /\ tried'[j] = now
      BY <1>5, <2>2
    <3>3. j - i + 1 = 1
      BY <1>0, <2>2
    <3>4. Free <= j - i + 1 => S!Power[j - i + 1 - Free] = 1
      BY <3>1, <3>3, PowerIs
    <3> QED
      BY <1>4, <3>2, <3>4
  <2>3. CASE j = n + 1 /\ i <= n
    <3>1. i \in 1 .. n /\ n \in 1 .. n /\ tried'[i] = tried[i] /\ tried'[j] = now
          /\ tried[i] \in 0 .. now /\ tried[n] \in 0 .. now
      BY <1>0, <1>5, <2>3
    <3> SUFFICES ASSUME Free <= j - i + 1, now - tried[i] <= Window
                 PROVE  S!Power[j - i + 1 - Free] - 1 <= now - tried[i]
      BY <3>1
    <3>2. CASE Free = j - i + 1
      <4>1. j - i + 1 - Free = 0
        BY <1>0, <2>3, <3>2
      <4> QED
        BY <3>1, <4>1, PowerIs
    <3>3. CASE Free # j - i + 1
      <4> DEFINE m == n - i + 1 - Free
      <4>1. /\ m \in Nat /\ j - i + 1 - Free = m + 1 /\ Free <= n - i + 1
            /\ m = n - i + 1 - Free
        BY <1>0, <2>3, <3>3, AppConstants
      <4> HIDE DEF m
      <4>2. k < i
        <5>1. ~(now - tried[i] > Window)
          BY <1>4, <3>1, AppConstants
        <5>2. ~(i \in 1 .. k)
          BY <1>7, <5>1
        <5> QED
          BY <1>0, <5>2
      <4>3. Len(q) >= Free /\ m \in 0 .. Len(q) - Free
        BY <1>0, <1>7, <3>1, <4>1, <4>2, AppConstants
      <4>4. q[Len(q)] = tried[n]
        <5>1. Len(q) \in 1 .. n - k /\ k + Len(q) = n
          BY <1>0, <1>7, <3>1, <4>2
        <5> QED
          BY <1>7, <5>1
      <4>5. tried[n] + S!Lock(Len(q)) <= now
        BY <1>2, <4>3, <4>4
      <4>6. tried[i] <= tried[n] /\ (tried[n] - tried[i] <= Window => S!Power[m] - 1 <= tried[n] - tried[i])
        <5>1. i \in 1 .. Len(tried) /\ n \in 1 .. Len(tried) /\ i <= n
          BY <1>0, <2>3, <3>1 DEF n
        <5> QED
          BY <4>1, <5>1 DEF ThrottleInv, Spaced
      <4>7. /\ S!Power[m] \in Nat /\ S!Power[m + 1] = 2 * S!Power[m] /\ S!Power[m] >= 1
            /\ S!Power[m] <= S!Power[Len(q) - Free]
        <5>1. Len(q) - Free \in Nat
          BY <1>1, <4>3, AppConstants
        <5>2. S!Power[m] <= S!Power[Len(q) - Free]
          BY <4>3, <5>1, PowerGrows
        <5>3. m < S!Power[m]
          BY <4>1, PowerGrows
        <5>4. S!Power[m] \in Nat /\ S!Power[m + 1] = 2 * S!Power[m]
          BY <4>1, PowerIs
        <5> QED
          BY <4>1, <5>2, <5>3, <5>4
      <4>8. /\ S!Lock(Len(q)) \in Nat /\ S!Power[Len(q) - Free] \in Nat
            /\ S!Lock(Len(q)) = S!Power[Len(q) - Free] \/ S!Lock(Len(q)) = MaxLock
        BY <1>1, <4>3, LockIs
      <4>9. S!Lock(Len(q)) >= S!Power[m] \/ S!Lock(Len(q)) = MaxLock
        BY <4>7, <4>8
      <4>10. tried[n] - tried[i] <= Window
        <5>1. tried[i] \in Nat /\ tried[n] \in Nat /\ now \in Nat /\ Window \in Nat
          BY <1>4, <3>1, AppConstants
        <5>2. tried[n] <= now
          BY <1>4, <3>1
        <5> QED
          BY <5>1, <5>2
      <4>11. 2 * S!Power[m] - 1 <= now - tried[i]
        <5>1. /\ tried[i] \in Nat /\ tried[n] \in Nat /\ now \in Nat
              /\ Window \in Nat /\ MaxLock \in Nat \ {0} /\ Window <= MaxLock
          BY <1>4, <3>1, AppConstants
        <5>2. S!Power[m] - 1 <= tried[n] - tried[i]
          BY <4>6, <4>10
        <5>3. CASE S!Lock(Len(q)) >= S!Power[m]
          <6>1. PICK power \in Nat, lock \in Nat : power = S!Power[m] /\ lock = S!Lock(Len(q))
            BY <4>7, <4>8
          <6>2. tried[n] + lock <= now /\ lock >= power /\ power - 1 <= tried[n] - tried[i]
            BY <4>5, <5>2, <5>3, <6>1
          <6>3. 2 * power - 1 <= now - tried[i]
            BY <5>1, <6>2
          <6> QED
            BY <6>1, <6>3
        <5>4. CASE S!Lock(Len(q)) = MaxLock
          <6>1. tried[n] + MaxLock <= now
            BY <4>5, <5>4
          <6>2. tried[n] = tried[i] /\ now - tried[i] >= 1
            BY <4>6, <5>1, <6>1
          <6> QED
            BY <4>7, <5>1, <5>2, <6>2
        <5> QED
          BY <4>9, <5>3, <5>4
      <4> QED
        BY <4>1, <4>7, <4>11
    <3> QED
      BY <3>2, <3>3
  <2> QED
    BY <1>0, <2>1, <2>2, <2>3
<1> QED
  BY <1>8, <1>9 DEF ThrottleInv

(* A good login, and a new process, start anew; time only widens the gap.  *)
LEMMA ThrottleNext ==
    ASSUME Queues, ThrottleInv, now \in 0 .. MaxTime, [Next]_vars
    PROVE  ThrottleInv'
<1>0. /\ now \in Nat /\ tried \in Seq(0 .. now) /\ Len(tried) \in Nat
      /\ Owner \in S!Keys /\ failures[Owner] \in Seq(0 .. now)
      /\ \A i \in 1 .. Len(tried) : tried[i] \in 0 .. now
  <2>1. Owner \in S!Keys
    BY DEF S!Keys
  <2>2. now \in Nat
    BY AppConstants
  <2> QED
    BY <2>1, <2>2, LenProperties, ElementOfSeq DEF Queues
<1>1. CASE UNCHANGED <<failures, now, tried>>
  BY <1>1 DEF ThrottleInv, Spaced, EndsTries
<1>2. ASSUME tried' = <<>>, failures'[Owner] = <<>> PROVE ThrottleInv'
  <2>1. Len(tried') = 0 /\ Len(failures'[Owner]) = 0
    BY <1>2, EmptySeq
  <2>2. Spaced'
    BY <2>1 DEF Spaced
  <2>3. EndsTries(failures[Owner])'
    BY <2>1 DEF EndsTries
  <2> QED
    BY <2>2, <2>3 DEF ThrottleInv
<1>3. CASE Begin
  BY <1>0, <1>2, <1>3 DEF Begin, S!ForgetFailures
<1>4. CASE Tick
  <2>1. now' = now + 1 /\ UNCHANGED <<failures, tried>>
    BY <1>4 DEF Tick, S!Tick
  <2>2. PICK k \in 0 .. Len(tried) :
           /\ Len(failures[Owner]) = Len(tried) - k
           /\ \A i \in 1 .. Len(tried) - k : failures[Owner][i] = tried[k + i]
           /\ \A i \in 1 .. k : now - tried[i] > Window
    BY DEF ThrottleInv, EndsTries
  <2>3. ASSUME NEW i \in 1 .. k PROVE now' - tried'[i] > Window
    <3>1. i \in 1 .. Len(tried)
      BY <1>0
    <3>2. tried[i] \in Nat /\ now - tried[i] > Window /\ Window \in Nat
      BY <1>0, <2>2, <3>1, AppConstants
    <3>3. now + 1 - tried[i] > Window
      BY <1>0, <3>2
    <3> QED
      BY <1>0, <2>1, <3>2, <3>3
  <2>4. EndsTries(failures[Owner])'
    BY <2>1, <2>2, <2>3 DEF EndsTries
  <2> QED
    BY <2>1, <2>4 DEF ThrottleInv, Spaced
<1>5. ASSUME NEW ip \in Addresses, NEW t \in Tokens, S!Login(ip, t) PROVE ThrottleInv'
  <2>1. Owner \in S!KeysOf(ip)
    BY DEF S!KeysOf
  <2> QED
    BY <1>0, <1>2, <1>5, <2>1 DEF S!Login
<1>6. ASSUME NEW ip \in Addresses, S!LoginFails(ip) PROVE ThrottleInv'
  BY <1>0, <1>6, FailedLogin
<1>7. ASSUME NEW ip \in Addresses, S!LoginRefused(ip) PROVE ThrottleInv'
  <2>1. Owner \in S!KeysOf(ip)
    BY DEF S!KeysOf
  <2>2. UNCHANGED <<now, tried>> /\ failures'[Owner] = S!Recent(failures[Owner])
    BY <1>0, <1>7, <2>1 DEF S!LoginRefused, S!Pruned
  <2>3. EndsTries(S!Recent(failures[Owner]))
    BY <1>0, RecentEndsTries DEF ThrottleInv
  <2>4. EndsTries(failures[Owner])'
    BY <2>2, <2>3 DEF EndsTries
  <2> QED
    BY <2>2, <2>4 DEF ThrottleInv, Spaced
<1>8. ASSUME NEW t \in Tokens, S!Setup(t) \/ S!Request(t) \/ S!Logout(t) \/ S!ChangePassword(t)
      PROVE  ThrottleInv'
  BY <1>1, <1>8 DEF S!Setup, S!Request, S!Logout, S!ChangePassword
<1>9. CASE Handle
  BY <1>5, <1>6, <1>7, <1>8, <1>9 DEF Handle, S!Requests
<1>10. CASE UNCHANGED vars
  BY <1>1, <1>10 DEF vars
<1> QED
  BY <1>1, <1>3, <1>4, <1>9, <1>10 DEF Next

(* What the invariant says of the tries in a window.                       *)
LEMMA SpacedIsBounded ==
    ASSUME now \in Nat, tried \in Seq(0 .. now), Spaced
    PROVE  S!TriesAreBounded
<1>0. Len(tried) \in Nat /\ \A i \in 1 .. Len(tried) : tried[i] \in 0 .. now
  BY LenProperties, ElementOfSeq
<1>1. PICK left \in 0 .. Len(tried) :
         /\ left = Len(tried) \/ now - tried[left + 1] <= Window
         /\ Len(S!Recent(tried)) = Len(tried) - left
  BY RecentIs
<1> SUFFICES ASSUME Len(tried) - left > Free
             PROVE  S!Power[Len(tried) - left - Free] - 1 <= Window
  BY <1>1 DEF S!TriesAreBounded
<1> DEFINE first == tried[left + 1]
           last == tried[Len(tried)]
<1>2. /\ left + 1 \in 1 .. Len(tried) /\ Len(tried) \in 1 .. Len(tried)
      /\ Len(tried) - (left + 1) + 1 = Len(tried) - left
  BY <1>0, AppConstants
<1>3. first \in 0 .. now /\ last \in 0 .. now /\ now - first <= Window /\ last - first <= Window
  <2>1. first \in 0 .. now /\ last \in 0 .. now
    BY <1>0, <1>2
  <2>2. left # Len(tried)
    BY <1>0, AppConstants
  <2>3. now - first <= Window
    BY <1>1, <2>2
  <2> HIDE DEF first, last
  <2> QED
    BY <2>1, <2>3, AppConstants
<1>4. S!Power[Len(tried) - (left + 1) + 1 - Free] - 1 <= last - first
  BY <1>0, <1>2, <1>3, AppConstants DEF Spaced
<1>5. S!Power[Len(tried) - left - Free] \in Nat
  <2>1. Len(tried) - left - Free \in Nat
    BY <1>0, AppConstants
  <2> QED
    BY <2>1, PowerIs
<1> HIDE DEF first, last
<1>6. S!Power[Len(tried) - left - Free] - 1 <= last - first
  <2>1. Len(tried) - (left + 1) + 1 - Free = Len(tried) - left - Free
    BY <1>0, AppConstants
  <2> QED
    BY <1>4, <2>1, Zenon
<1>7. last - first <= Window /\ last \in Nat /\ first \in Nat /\ Window \in Nat
  BY <1>3, AppConstants
<1> QED
  BY <1>5, <1>6, <1>7

(* Whatever addresses the tries come from, and whatever restarts and good  *)
(* logins there are, the locks between the tries of a window fit in it     *)
(* (LoginThrottle.retry_after and failure).                                *)
THEOREM LocksBoundTries == Spec => []TriesAreBounded
<1>1. AppInit => Queues /\ ThrottleInv
  <2> SUFFICES ASSUME AppInit PROVE Queues /\ ThrottleInv
    OBVIOUS
  <2>1. Queues
    BY UpgradeConstants, AppConstants, EmptySeq DEF AppInit, Init, S!Init, Queues
  <2>2. tried = <<>> /\ failures[Owner] = <<>>
    BY DEF AppInit, S!Init, S!Keys
  <2>3. Len(tried) = 0 /\ Len(failures[Owner]) = 0
    BY <2>2, EmptySeq
  <2>4. Spaced
    BY <2>3 DEF Spaced
  <2>5. EndsTries(failures[Owner])
    BY <2>3 DEF EndsTries
  <2> QED
    BY <2>1, <2>4, <2>5 DEF ThrottleInv
<1>2. Queues /\ ThrottleInv /\ AInv /\ [Next]_vars => Queues' /\ ThrottleInv'
  BY QueuesNext, ThrottleNext DEF AInv, Types
<1>3. Queues /\ ThrottleInv /\ AInv => TriesAreBounded
  <2> SUFFICES ASSUME Queues, ThrottleInv, AInv PROVE TriesAreBounded
    OBVIOUS
  <2>1. now \in Nat /\ tried \in Seq(0 .. now)
    BY AppConstants DEF AInv, Types, Queues
  <2> QED
    BY <2>1, SpacedIsBounded DEF ThrottleInv, TriesAreBounded
<1> QED
  BY <1>1, <1>2, <1>3, AppInductive, PTL DEF Spec
=============================================================================
