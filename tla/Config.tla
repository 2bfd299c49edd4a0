------------------------------- MODULE Config -------------------------------
(***************************************************************************)
(* The settings pages (settings.py, routes_settings.py) and the library    *)
(* pages (routes_libraries.py, repo.py): what several signed-in users do   *)
(* to the shared settings and to the libraries, with the dry run and the   *)
(* confirmation that the risky changes need.                               *)
(*                                                                         *)
(* A handler runs on the event loop and is one step, except where it waits *)
(* for its dry run in a thread.  A change that needs a confirmation is     *)
(* kept as a copy of the WHOLE settings, the first library's fields among  *)
(* them, or of the whole library row.                                      *)
(***************************************************************************)
EXTENDS Naturals

CONSTANTS
    Users,          \* sessions
    MaxId,          \* bound: library ids
    Categories,     \* categories a library may have
    NoCategory,     \* the empty category
    Folders,        \* a source and a destination folder; two overlap when equal
    Days,           \* retention_days of a library
    Events,         \* kinds of requests that may come
    MaxEvents,      \* bound: how many of them
    None

ASSUME ConfigConstants ==
    /\ MaxId \in Nat \ {0}
    /\ MaxEvents \in Nat
    /\ NoCategory \in Categories

Ids == 1 .. MaxId

(* download_client, with qbit_url and the path map: "none" is folder mode. *)
Clients == {"qbittorrent", "none"}

(* The shared settings: `enabled' is retention_enabled and stands for all  *)
(* the fields that only disarm, `api' for those that are saved at once.    *)
Settings == [client : Clients, enabled : BOOLEAN, api : BOOLEAN, armed : BOOLEAN]

Library == [category : Categories, folder : Folders, days : Days, enabled : BOOLEAN]

ASSUME NoneIsNoLibrary == None \notin Library

(* The columns of a library that the settings carry too (LIBRARY_FIELDS).  *)
LibraryFields == [category : Categories, folder : Folders, days : Days]

VARIABLES
    settings,       \* table settings
    libs,           \* table libraries, in the order of position and id
    queue,          \* libraries with pending rows in table deletions
    dry,            \* the handler of a session that waits for its dry run
    pendingSettings,    \* state pending_settings:{session}
    pendingLibrary,     \* state pending_library:{session}
    lock,           \* Scanner._lock: its holder and what the run works on
    overwritten,    \* history: a settings copy wrote other library fields back
    events          \* bound: requests so far

vars == <<settings, libs, queue, dry, pendingSettings, pendingLibrary, lock,
          overwritten, events>>

Present == {i \in Ids : libs[i] # None}

(* SELECT * FROM libraries ORDER BY position, id LIMIT 1.                  *)
First == CHOOSE i \in Present : \A j \in Present : i <= j

UsesQbit(s) == s.client = "qbittorrent"

(* The library fields as store.load() puts them into the settings.         *)
Fields(row) == [category |-> row.category, folder |-> row.folder, days |-> row.days]

(* RISKY: what makes the tool touch other files.                           *)
Risky(row) == <<row.category, row.folder>>

(* library_conflicts: a category or a folder of another library.           *)
Conflicts(i, row, rows) ==
    \E j \in Ids \ {i} :
        /\ rows[j] # None
        /\ \/ row.category # NoCategory /\ row.category = rows[j].category
           \/ row.folder = rows[j].folder

(* _mode_problem.                                                          *)
ModeProblem(s) ==
    \/ /\ ~UsesQbit(s) /\ s.api
       /\ \A i \in Present : libs[i].category = NoCategory
    \/ /\ UsesQbit(s)
       /\ \E i \in Present : libs[i].enabled /\ libs[i].category = NoCategory

(* The libraries a run works on: enabled, and without library_problems.    *)
Ready(s, rows, ids) ==
    {i \in ids : /\ rows[i] # None
                 /\ UsesQbit(s) => rows[i].category # NoCategory
                 /\ ~Conflicts(i, rows[i], rows)}

Enabled(rows) == {i \in Ids : rows[i] # None /\ rows[i].enabled}

(* The copies that wait for a confirmation.                                *)
SettingsCopy == [kind : {"settings"}, settings : {s \in Settings : ~s.armed}, fields : LibraryFields]
LibraryCopy == [kind : {"library"}, id : Ids, row : Library]

Init ==
    /\ settings \in {s \in Settings : UsesQbit(s) /\ ~s.armed}
    /\ \E row \in Library :
          /\ row.enabled
          /\ libs = [i \in Ids |-> IF i = 1 THEN row ELSE None]
    /\ queue = {}
    /\ dry = [u \in Users |-> None]
    /\ pendingSettings = [u \in Users |-> None]
    /\ pendingLibrary = [u \in Users |-> None]
    /\ lock = None
    /\ overwritten = FALSE
    /\ events = 0

Event(kind) ==
    /\ kind \in Events
    /\ events < MaxEvents
    /\ events' = events + 1

---------------------------------------------------------------------------
(* The dry run of a handler that waits: it works on `on' if it gets the    *)
(* scan lock, and only reports "already running" if it does not.           *)
DryRun(u, change, on) ==
    /\ dry[u] = None
    /\ dry' = [dry EXCEPT ![u] = change]
    /\ lock' = IF lock = None THEN [by |-> u, on |-> on, armed |-> FALSE] ELSE lock
    /\ UNCHANGED <<settings, libs, queue, pendingSettings, pendingLibrary, overwritten>>

(* settings_save, section retention: saved at once, and disarms.           *)
SaveRetention ==
    /\ Event("retention")
    /\ settings' = [settings EXCEPT !.enabled = ~@, !.armed = FALSE]
    /\ UNCHANGED <<libs, queue, dry, pendingSettings, pendingLibrary, lock, overwritten>>

(* settings_save, section client: the copy is of what was loaded before    *)
(* the dry run.                                                            *)
SaveClient(u) ==
    \E client \in Clients \ {settings.client} :
        LET new == [settings EXCEPT !.client = client, !.armed = FALSE]
        IN  /\ Event("client")
            /\ ~ModeProblem(new)
            /\ DryRun(u, [kind |-> "settings", settings |-> new, fields |-> Fields(libs[First])],
                      Ready(new, libs, Enabled(libs)))

(* The dry run has ended: the change waits for its confirmation, in place  *)
(* of what waited before.                                                  *)
Previewed(u) ==
    /\ dry[u] # None
    /\ IF dry[u].kind = "settings"
       THEN /\ pendingSettings' = [pendingSettings EXCEPT ![u] = dry[u]]
            /\ UNCHANGED pendingLibrary
       ELSE /\ pendingLibrary' = [pendingLibrary EXCEPT ![u] = dry[u]]
            /\ UNCHANGED pendingSettings
    /\ dry' = [dry EXCEPT ![u] = None]
    /\ lock' = IF lock # None /\ lock.by = u THEN None ELSE lock
    /\ UNCHANGED <<settings, libs, queue, overwritten, events>>

(* The unique index on libraries.category.                                 *)
Refused(i, category) ==
    /\ category # NoCategory
    /\ \E j \in Present \ {i} : libs[j].category = category

(* Faulty: only a change of the category cancels.                          *)
CancelsByCategory(new, fields) == fields.category # libs[First].category

(* cancel_pending in _commit of the settings: all that is queued goes.     *)
Cancels(new, fields) ==
    \/ new.client # settings.client
    \/ fields.category # libs[First].category

(* settings_confirm: store.save writes the whole copy, disarmed, with the  *)
(* fields of the library that is the first one now.                        *)
ConfirmSettings(u) ==
    /\ pendingSettings[u] # None
    /\ pendingSettings' = [pendingSettings EXCEPT ![u] = None]
    /\ LET new    == pendingSettings[u].settings
           fields == pendingSettings[u].fields
           first  == First
       IN  IF Refused(first, fields.category)
           THEN UNCHANGED <<settings, libs, queue, overwritten>>
           ELSE /\ settings' = new
                /\ libs' = [libs EXCEPT ![first] =
                              [category |-> fields.category, folder |-> fields.folder,
                               days |-> fields.days, enabled |-> libs[first].enabled]]
                /\ queue' = IF Cancels(new, fields) THEN {} ELSE queue
                /\ overwritten' = (overwritten \/ fields # Fields(libs[first]))
    /\ UNCHANGED <<dry, pendingLibrary, lock, events>>

(* Cancelled, too late, or another token: the copy is forgotten.           *)
Forget(u) ==
    /\ \/ /\ pendingSettings[u] # None
          /\ pendingSettings' = [pendingSettings EXCEPT ![u] = None]
          /\ UNCHANGED pendingLibrary
       \/ /\ pendingLibrary[u] # None
          /\ pendingLibrary' = [pendingLibrary EXCEPT ![u] = None]
          /\ UNCHANGED pendingSettings
    /\ UNCHANGED <<settings, libs, queue, dry, lock, overwritten, events>>

---------------------------------------------------------------------------
(* Handlers that load the settings, change one field and save them.        *)

(* deletions_arm: refused in folder mode and while it is switched off.     *)
Arm ==
    /\ Event("arm")
    /\ UsesQbit(settings) /\ settings.enabled
    /\ settings' = [settings EXCEPT !.armed = TRUE]
    /\ UNCHANGED <<libs, queue, dry, pendingSettings, pendingLibrary, lock, overwritten>>

Disarm ==
    /\ Event("disarm")
    /\ settings' = [settings EXCEPT !.armed = FALSE]
    /\ queue' = {}
    /\ UNCHANGED <<libs, dry, pendingSettings, pendingLibrary, lock, overwritten>>

ToggleApi ==
    /\ Event("api")
    /\ settings' = [settings EXCEPT !.api = ~@]
    /\ UNCHANGED <<libs, queue, dry, pendingSettings, pendingLibrary, lock, overwritten>>

---------------------------------------------------------------------------
(* The library pages.                                                      *)

(* library_enabled: not the last enabled one.  Nothing is disarmed.        *)
SwitchLibrary(i) ==
    /\ Event("switch")
    /\ libs[i] # None
    /\ libs[i].enabled => Enabled(libs) # {i}
    /\ libs' = [libs EXCEPT ![i].enabled = ~libs[i].enabled]
    /\ UNCHANGED <<settings, queue, dry, pendingSettings, pendingLibrary, lock, overwritten>>

(* library_create: the id is the highest one plus one, so the id of a      *)
(* deleted library comes back.                                             *)
NextId(i) == i - 1 \in Present /\ \A j \in Present : j < i

CreateLibrary(i, row) ==
    /\ Event("create")
    /\ NextId(i)
    /\ row.enabled
    /\ UsesQbit(settings) => row.category # NoCategory
    /\ ~Conflicts(i, row, libs)
    /\ libs' = [libs EXCEPT ![i] = row]
    /\ settings' = [settings EXCEPT !.armed = FALSE]
    /\ UNCHANGED <<queue, dry, pendingSettings, pendingLibrary, lock, overwritten>>

(* Faulty: the days to keep do not disarm.                                 *)
DisarmsByFolder(old, new) == Risky(old) # Risky(new)

(* _disarm in _commit of a library.                                        *)
Disarms(old, new) == Fields(old) # Fields(new)

(* _commit of a library: the whole row, disarmed when it matters; what is  *)
(* queued of it is cancelled when its category or folders change.          *)
CommitLibrary(i, row) ==
    /\ libs' = [libs EXCEPT ![i] = row]
    /\ settings' = [settings EXCEPT !.armed = @ /\ ~Disarms(libs[i], row)]
    /\ queue' = IF Risky(libs[i]) # Risky(row) THEN queue \ {i} ELSE queue
    /\ UNCHANGED <<dry, lock, overwritten>>

(* Faulty: a change of the folders alone is saved at once.                 *)
NeedsConfirmationByCategory(old, new) == old.category # new.category

(* changed & RISKY.                                                        *)
NeedsConfirmation(old, new) == Risky(old) # Risky(new)

(* library_save: a form changes anything but `enabled'.                    *)
SaveLibrary(u, i, row) ==
    /\ Event("library")
    /\ libs[i] # None /\ row # libs[i] /\ row.enabled = libs[i].enabled
    /\ ~Conflicts(i, row, libs)
    /\ UsesQbit(settings) => row.category # NoCategory
    /\ IF NeedsConfirmation(libs[i], row)
       THEN DryRun(u, [kind |-> "library", id |-> i, row |-> row],
                   Ready(settings, [libs EXCEPT ![i] = row], {i}))
       ELSE CommitLibrary(i, row) /\ UNCHANGED <<pendingSettings, pendingLibrary>>

(* Faulty: the rules between libraries are not looked at again.            *)
MayConfirmUnchecked(i, row) == libs[i] # None

(* The library is still there and breaks no rule.                          *)
MayConfirm(i, row) == libs[i] # None /\ ~Conflicts(i, row, libs)

(* library_confirm.                                                        *)
ConfirmLibrary(u) ==
    /\ pendingLibrary[u] # None
    /\ pendingLibrary' = [pendingLibrary EXCEPT ![u] = None]
    /\ LET i == pendingLibrary[u].id  row == pendingLibrary[u].row
       IN  IF MayConfirm(i, row)
           THEN CommitLibrary(i, row)
           ELSE UNCHANGED <<settings, libs, queue, dry, lock, overwritten>>
    /\ UNCHANGED <<pendingSettings, events>>

(* Not the last library, and not while a run is at work.                   *)
MayDelete(i) == libs[i] # None /\ Present # {i} /\ lock = None

(* library_delete: its pending deletions are cancelled with it.            *)
DeleteLibrary(i) ==
    /\ Event("delete")
    /\ MayDelete(i)
    /\ libs' = [libs EXCEPT ![i] = None]
    /\ queue' = queue \ {i}
    /\ UNCHANGED <<settings, dry, pendingSettings, pendingLibrary, lock, overwritten>>

---------------------------------------------------------------------------
(* A scan: it reads the settings and the libraries once, at its start.     *)
Armed(s) == UsesQbit(s) /\ s.enabled /\ s.armed

ScanStart ==
    /\ Event("scan")
    /\ lock = None
    /\ lock' = [by |-> "scan", on |-> Ready(settings, libs, Enabled(libs)), armed |-> Armed(settings)]
    /\ UNCHANGED <<settings, libs, queue, dry, pendingSettings, pendingLibrary, overwritten>>

(* Its retention run queues what is due of the libraries it worked on, if  *)
(* it was armed at its start, and empties the queue otherwise; a run that  *)
(* does not come so far (folder mode, nothing ready, no answer) leaves it. *)
ScanEnd ==
    /\ lock # None /\ lock.by = "scan"
    /\ lock' = None
    /\ queue' \in {queue} \cup (IF lock.armed THEN SUBSET lock.on ELSE {{}})
    /\ UNCHANGED <<settings, libs, dry, pendingSettings, pendingLibrary, overwritten, events>>

Next ==
    \/ SaveRetention \/ Arm \/ Disarm \/ ToggleApi
    \/ \E u \in Users :
          \/ SaveClient(u) \/ Previewed(u)
          \/ ConfirmSettings(u) \/ ConfirmLibrary(u) \/ Forget(u)
          \/ \E i \in Ids, row \in Library : SaveLibrary(u, i, row)
    \/ \E i \in Ids :
          \/ SwitchLibrary(i) \/ DeleteLibrary(i)
          \/ \E row \in Library : CreateLibrary(i, row)
    \/ ScanStart \/ ScanEnd

Spec == Init /\ [][Next]_vars

---------------------------------------------------------------------------
(* Types: an overwrite, a copy or a deletion leaves rows that can be read, *)
(* a copy that waits is disarmed, and there is always a first library.     *)
TypeOK ==
    /\ settings \in Settings
    /\ libs \in [Ids -> Library \cup {None}]
    /\ Present # {}
    /\ queue \in SUBSET Ids
    /\ dry \in [Users -> SettingsCopy \cup LibraryCopy \cup {None}]
    /\ pendingSettings \in [Users -> SettingsCopy \cup {None}]
    /\ pendingLibrary \in [Users -> LibraryCopy \cup {None}]
    /\ lock # None => lock \in [by : Users \cup {"scan"}, on : SUBSET Ids, armed : BOOLEAN]
    /\ overwritten \in BOOLEAN
    /\ events \in 0 .. MaxEvents

(* Automatic delete stays armed only over what it was armed for: whatever  *)
(* changes the client, the switch, or a library's category, folders or     *)
(* days disarms it, on every path (DISARM_FIELDS, _disarm), a confirmed    *)
(* copy that is older than the arming included.                            *)
Armament == INSTANCE Arming WITH
    armed <- settings.armed,
    shared <- <<settings.client, settings.enabled>>,
    libraries <- [i \in Present |-> Fields(libs[i])]

ArmedAsReviewed == Armament!Spec

(* No two libraries have a category or folders in common                   *)
(* (library_conflicts), whoever saves and confirms what in which order.    *)
Disjoint == \A i \in Present : ~Conflicts(i, libs[i], libs)

NoOverlap == Disjoint

(* ... unless a confirmed copy of the settings has written older library   *)
(* fields back.                                                            *)
NoOverlapUnlessOverwritten == ~overwritten => Disjoint

(* While a run works on a library, it is there: deleting a library waits   *)
(* for the lock (library_delete).                                          *)
WorkedOnExists == lock # None => lock.on \subseteq Present

(* A library that changes its category, and every library when the client  *)
(* changes, has nothing queued for deletion any more: what was planned     *)
(* with the old one is not deleted with the new one.                       *)
RepointedIsCancelled ==
    [][\A i \in Ids :
         (/\ libs[i] # None /\ libs'[i] # None
          /\ \/ settings'.client # settings.client
             \/ libs'[i].category # libs[i].category) => i \notin queue']_vars

(* Was asked for by the confirmation that this step answers.               *)
ConfirmedFor(u, i) ==
    \/ /\ pendingLibrary[u] # None /\ pendingLibrary'[u] = None
       /\ pendingLibrary[u].id = i
       /\ Risky(libs'[i]) = Risky(pendingLibrary[u].row)
    \/ /\ pendingSettings[u] # None /\ pendingSettings'[u] = None
       /\ i = First
       /\ Risky(libs'[i]) = Risky(pendingSettings[u].fields)

(* What makes the tool touch other files changes only by a confirmation    *)
(* of a copy that has these values (RISKY), each copy at most once.        *)
RiskyIsConfirmed ==
    [][/\ \A i \in Ids :
            (libs[i] # None /\ libs'[i] # None /\ Risky(libs'[i]) # Risky(libs[i]))
                => \E u \in Users : ConfirmedFor(u, i)
       /\ settings'.client # settings.client
            => \E u \in Users : /\ pendingSettings[u] # None /\ pendingSettings'[u] = None
                                /\ settings' = pendingSettings[u].settings]_vars
=============================================================================
