------------------------------ MODULE Upgrade ------------------------------
(***************************************************************************)
(* The start of the app as the database sees it (db.py migrate and backup, *)
(* app.py create_app): the container starts, an older database is backed   *)
(* up and migrated, a newer one is refused, and the container is stopped,  *)
(* killed, given another image or an older backup at any moment.  One      *)
(* process uses the database (docker-compose.yml: run only one Periodica). *)
(***************************************************************************)
EXTENDS Naturals, Sequences

CONSTANTS
    Images,         \* len(MIGRATIONS) of the images there are
    Keep,           \* BACKUPS_TO_KEEP
    NoRows,         \* what the tables of a new database hold
    Events,         \* kinds of outside events that may happen
    MaxEvents,      \* bound: how many of them
    None

ASSUME UpgradeConstants ==
    /\ Images \in SUBSET (Nat \ {0}) /\ Images # {}
    /\ Keep \in Nat \ {0}
    /\ MaxEvents \in Nat

VARIABLES
    pc,             \* where the start is
    image,          \* the image that runs, or runs next
    db,             \* the database file
    content,        \* the rows of its tables
    backups,        \* the files bak-v*, oldest first
    start,          \* locals of migrate(): new_file and the next migration
    upgrade,        \* history: where the upgrade at work, or the last one, began
    events          \* bound: outside events so far

upgradeVars == <<pc, image, db, backups, start, upgrade>>

NoFile == [exists |-> FALSE, version |-> 0, applied |-> <<>>, key |-> FALSE]

(* What a backup holds of the database.                                    *)
Snapshot == [version |-> db.version, applied |-> db.applied, key |-> db.key, content |-> content]

Init ==
    /\ pc = "down"
    /\ image \in Images
    /\ db = NoFile
    /\ content = NoRows
    /\ backups = <<>>
    /\ start = [fresh |-> FALSE, index |-> 1]
    /\ upgrade = [from |-> None, attempts |-> 0, over |-> TRUE]
    /\ events = 0

Event(kind) ==
    /\ kind \in Events
    /\ events < MaxEvents
    /\ events' = events + 1

---------------------------------------------------------------------------
(* new_file: looked at before the connection creates the file.             *)
IsNew == ~db.exists

(* Faulty: the last migration is run again.                                *)
FirstMigrationAgain == IF db.version = 0 THEN 1 ELSE db.version

FirstMigration == db.version + 1

(* create_app, migrate: the database is connected to and its version read. *)
Open ==
    /\ pc = "down"
    /\ pc' = "open"
    /\ db' = [db EXCEPT !.exists = TRUE]
    /\ start' = [fresh |-> IsNew, index |-> FirstMigration]
    /\ UNCHANGED <<image, content, backups, upgrade, events>>

(* DatabaseTooNewError.                                                    *)
IsTooNew == db.version > image

Refuse ==
    /\ pc = "open" /\ IsTooNew
    /\ pc' = "down"
    /\ UNCHANGED <<image, db, content, backups, start, upgrade, events>>

NeedsBackup == ~start.fresh /\ 0 < db.version /\ db.version < image

(* The file of a backup is there before its copy is complete.              *)
BackupStart ==
    /\ pc = "open" /\ NeedsBackup
    /\ pc' = "backup"
    /\ backups' = Append(backups, [whole |-> FALSE, of |-> Snapshot])
    /\ upgrade' = IF upgrade.over THEN [from |-> Snapshot, attempts |-> 1, over |-> FALSE]
                  ELSE [upgrade EXCEPT !.attempts = @ + 1]
    /\ UNCHANGED <<image, db, content, start, events>>

(* Faulty: one backup less is kept.                                        *)
NewestButOne(files) ==
    SubSeq(files, IF Len(files) >= Keep THEN Len(files) - Keep + 2 ELSE 1, Len(files))

(* sorted by mtime, [:-BACKUPS_TO_KEEP] removed: incomplete files count.   *)
Newest(files) ==
    SubSeq(files, IF Len(files) > Keep THEN Len(files) - Keep + 1 ELSE 1, Len(files))

BackupDone ==
    /\ pc = "backup"
    /\ pc' = "migrate"
    /\ backups' = Newest([backups EXCEPT ![Len(backups)].whole = TRUE])
    /\ UNCHANGED <<image, db, content, start, upgrade, events>>

NoBackup ==
    /\ pc = "open" /\ ~IsTooNew /\ ~NeedsBackup
    /\ pc' = "migrate"
    /\ UNCHANGED <<image, db, content, backups, start, upgrade, events>>

(* One migration and its user_version are one transaction.                 *)
Migrate ==
    /\ pc = "migrate" /\ start.index <= image
    /\ db' = [db EXCEPT !.version = start.index, !.applied = Append(@, start.index)]
    /\ start' = [start EXCEPT !.index = @ + 1]
    /\ UNCHANGED <<pc, image, content, backups, upgrade, events>>

(* The end of migrate, and ensure_api_key.                                 *)
Serve ==
    /\ pc = "migrate" /\ start.index > image
    /\ pc' = "serving"
    /\ db' = [db EXCEPT !.key = TRUE]
    /\ upgrade' = [upgrade EXCEPT !.over = TRUE]
    /\ UNCHANGED <<image, content, backups, start, events>>

(* The container is stopped or killed, or a step of the start raises; what *)
(* is not committed is rolled back.                                        *)
Stop ==
    /\ Event("stop")
    /\ pc # "down"
    /\ pc' = "down"
    /\ UNCHANGED <<image, db, content, backups, start, upgrade>>

(* The user starts another image, ...                                      *)
ChangeImage(i) ==
    /\ Event("image")
    /\ pc = "down"
    /\ image' = i
    /\ UNCHANGED <<pc, db, content, backups, start, upgrade>>

(* ... or puts a backup back, as DatabaseTooNewError tells.                *)
Restore(k) ==
    /\ Event("restore")
    /\ pc = "down"
    /\ backups[k].whole
    /\ db' = [exists |-> TRUE, version |-> backups[k].of.version, applied |-> backups[k].of.applied,
              key |-> backups[k].of.key]
    /\ content' = backups[k].of.content
    /\ upgrade' = [from |-> None, attempts |-> 0, over |-> TRUE]
    /\ UNCHANGED <<pc, image, backups, start>>

(* Nothing but the start and the user's hands.                             *)
Starting ==
    \/ Refuse \/ BackupStart \/ BackupDone \/ NoBackup \/ Migrate \/ Serve
    \/ \E i \in Images : ChangeImage(i)

---------------------------------------------------------------------------
(* The database that is served has every migration of its image, each run  *)
(* once and in order, wherever earlier starts were cut short.              *)
SchemaIsServed ==
    pc = "serving" => db.version = image /\ db.applied = [i \in 1 .. image |-> i]

(* Once an upgrade has changed the database, a whole copy from before it   *)
(* is there, unless it has been started again more often than backups are  *)
(* kept (the restart policy starts a failing one again and again).         *)
Recoverable ==
    \/ upgrade.from = None
    \/ upgrade.attempts > Keep
    \/ db.version = upgrade.from.version
    \/ \E k \in DOMAIN backups : backups[k].whole /\ backups[k].of = upgrade.from
=============================================================================
