---------------------------- MODULE ConfigProofs ----------------------------
(***************************************************************************)
(* Proofs about Config, for any number of users, libraries, categories and *)
(* folders.                                                                *)
(***************************************************************************)
EXTENDS Config, WellFoundedInduction, TLAPS

CInv == TypeOK /\ NoOverlapUnlessOverwritten /\ WorkedOnExists

(* A non-empty set of numbers has a least one.                             *)
LEMMA LeastExists ==
    ASSUME NEW S \in SUBSET Nat, S # {}
    PROVE  \E i \in S : \A j \in S : i <= j
<1> DEFINE R == OpToRel(<, Nat)
<1>0. \A i, j \in Nat : j < i => <<j, i>> \in R
  BY DEF OpToRel
<1>1. IsWellFoundedOn(R, Nat)
  BY NatLessThanWellFounded
<1> HIDE DEF R
<1>2. PICK i \in S : \A j \in S : ~ (<<j, i>> \in R)
  BY <1>1, WFMin
<1>3. \A j \in S : i <= j
  <2> TAKE j \in S
  <2>1. i \in Nat /\ j \in Nat /\ (j < i \/ i <= j)
    OBVIOUS
  <2>2. ~ (<<j, i>> \in R)
    BY <1>2
  <2> QED
    BY <1>0, <2>1, <2>2
<1> QED
  BY <1>3

(* There is always a first library.                                        *)
LEMMA FirstIsPresent == ASSUME TypeOK PROVE First \in Present /\ First \in Ids
<1>1. Present \in SUBSET Nat /\ Present # {} /\ Present \subseteq Ids
  BY ConfigConstants DEF TypeOK, Present, Ids
<1>2. \E i \in Present : \A j \in Present : i <= j
  BY <1>1, LeastExists
<1> QED
  BY <1>1, <1>2 DEF First

(* What is present is a library.                                           *)
LEMMA RowIsLibrary ==
    ASSUME TypeOK, NEW i \in Present
    PROVE  libs[i] \in Library /\ Fields(libs[i]) \in LibraryFields
  BY DEF TypeOK, Present, Library, Fields, LibraryFields

(* A run works on libraries that are there.                                *)
LEMMA ReadyArePresent ==
    ASSUME NEW s, NEW rows, NEW ids \in SUBSET Ids
    PROVE  Ready(s, rows, ids) \subseteq {i \in ids : rows[i] # None}
  BY DEF Ready

---------------------------------------------------------------------------
(* Types.                                                                  *)
LEMMA TypeInit == ASSUME Init PROVE TypeOK
<1>1. PICK row \in Library : libs = [i \in Ids |-> IF i = 1 THEN row ELSE None]
  BY DEF Init
<1>2. 1 \in Ids
  BY ConfigConstants DEF Ids
<1>3. libs \in [Ids -> Library \cup {None}] /\ 1 \in Present
  BY <1>1, <1>2, NoneIsNoLibrary DEF Present
<1>4. settings \in Settings /\ queue \in SUBSET Ids /\ lock = None /\ overwritten \in BOOLEAN
  BY DEF Init
<1>5. events \in 0 .. MaxEvents
  BY ConfigConstants DEF Init
<1>6. /\ dry \in [Users -> SettingsCopy \cup LibraryCopy \cup {None}]
      /\ pendingSettings \in [Users -> SettingsCopy \cup {None}]
      /\ pendingLibrary \in [Users -> LibraryCopy \cup {None}]
  BY DEF Init
<1> QED
  BY <1>3, <1>4, <1>5, <1>6 DEF TypeOK

(* Where nothing changes but what a step says, the rows stay present.      *)
LEMMA PresentFrame == ASSUME libs' = libs PROVE Present' = Present
  BY DEF Present

LEMMA DryRunType ==
    ASSUME TypeOK, NEW u \in Users, NEW change \in SettingsCopy \cup LibraryCopy,
           NEW on \in SUBSET Ids, DryRun(u, change, on), events' \in 0 .. MaxEvents
    PROVE  TypeOK'
  BY PresentFrame DEF TypeOK, DryRun

LEMMA CommitType ==
    ASSUME TypeOK, NEW i \in Ids, NEW row \in Library, CommitLibrary(i, row),
           UNCHANGED pendingSettings, pendingLibrary' \in [Users -> LibraryCopy \cup {None}],
           events' \in 0 .. MaxEvents
    PROVE  TypeOK'
<1>0. pendingSettings' \in [Users -> SettingsCopy \cup {None}] /\ pendingLibrary' \in [Users -> LibraryCopy \cup {None}]
  BY DEF TypeOK
<1>1. libs' \in [Ids -> Library \cup {None}] /\ i \in Present'
  BY NoneIsNoLibrary DEF TypeOK, CommitLibrary, Present
<1>2. settings' \in Settings
  BY DEF TypeOK, CommitLibrary, Settings
<1>3. queue' \in SUBSET Ids /\ UNCHANGED <<dry, lock, overwritten>>
  BY DEF TypeOK, CommitLibrary
<1> QED
  BY <1>0, <1>1, <1>2, <1>3 DEF TypeOK

LEMMA EventType == ASSUME TypeOK, NEW kind, Event(kind) PROVE events' \in 0 .. MaxEvents
  BY ConfigConstants DEF TypeOK, Event

LEMMA TypeNext == ASSUME TypeOK, [Next]_vars PROVE TypeOK'
<1>1. CASE SaveRetention \/ Arm \/ Disarm \/ ToggleApi
  <2>1. settings' \in Settings /\ queue' \in SUBSET Ids /\ events' \in 0 .. MaxEvents
    BY <1>1, EventType DEF SaveRetention, Arm, Disarm, ToggleApi, TypeOK, Settings, UsesQbit
  <2>2. UNCHANGED <<libs, dry, pendingSettings, pendingLibrary, lock, overwritten>>
    BY <1>1 DEF SaveRetention, Arm, Disarm, ToggleApi
  <2> QED
    BY <2>1, <2>2, PresentFrame DEF TypeOK
<1>2. ASSUME NEW u \in Users, SaveClient(u) PROVE TypeOK'
  <2> DEFINE with(client) == [settings EXCEPT !.client = client, !.armed = FALSE]
  <2>1. PICK client \in Clients :
          /\ Event("client")
          /\ DryRun(u, [kind |-> "settings", settings |-> with(client), fields |-> Fields(libs[First])],
                    Ready(with(client), libs, Enabled(libs)))
    BY <1>2 DEF SaveClient
  <2> DEFINE new == with(client)
  <2>2. new \in {s \in Settings : ~s.armed}
    BY DEF TypeOK, Settings
  <2>3. [kind |-> "settings", settings |-> new, fields |-> Fields(libs[First])] \in SettingsCopy
    BY <2>2, FirstIsPresent, RowIsLibrary DEF SettingsCopy
  <2>4. Ready(new, libs, Enabled(libs)) \in SUBSET Ids
    BY DEF Ready, Enabled
  <2> HIDE DEF with
  <2> QED
    BY <2>1, <2>3, <2>4, DryRunType, EventType
<1>3. ASSUME NEW u \in Users, Previewed(u) PROVE TypeOK'
  <2>1. dry[u] \in SettingsCopy \cup LibraryCopy
    BY <1>3 DEF Previewed, TypeOK
  <2>2. /\ dry[u].kind = "settings" => dry[u] \in SettingsCopy
        /\ dry[u].kind # "settings" => dry[u] \in LibraryCopy
    BY <2>1 DEF SettingsCopy, LibraryCopy
  <2> QED
    BY <1>3, <2>2, PresentFrame DEF Previewed, TypeOK
<1>4. ASSUME NEW u \in Users, ConfirmSettings(u) PROVE TypeOK'
  <2> DEFINE new == pendingSettings[u].settings
             fields == pendingSettings[u].fields
             row == [category |-> fields.category, folder |-> fields.folder,
                     days |-> fields.days, enabled |-> libs[First].enabled]
  <2>1. pendingSettings[u] \in SettingsCopy
    BY <1>4 DEF ConfirmSettings, TypeOK
  <2>2. new \in Settings /\ fields \in LibraryFields
    BY <2>1 DEF SettingsCopy
  <2>3. row \in Library
    BY <2>2, FirstIsPresent, RowIsLibrary DEF Library, LibraryFields
  <2>4. pendingSettings' \in [Users -> SettingsCopy \cup {None}]
    BY <1>4 DEF ConfirmSettings, TypeOK
  <2>5. UNCHANGED <<dry, pendingLibrary, lock, events>>
    BY <1>4 DEF ConfirmSettings
  <2>6. CASE UNCHANGED <<settings, libs, queue, overwritten>>
    BY <2>4, <2>5, <2>6, PresentFrame DEF TypeOK
  <2>7. CASE /\ settings' = new
             /\ libs' = [libs EXCEPT ![First] = row]
             /\ queue' \in {{}, queue}
             /\ overwritten' = (overwritten \/ fields # Fields(libs[First]))
    <3> HIDE DEF row, new, fields
    <3>1. libs' \in [Ids -> Library \cup {None}]
      BY <2>3, <2>7 DEF TypeOK
    <3>2. Present' # {}
      BY <2>3, <2>7, FirstIsPresent, NoneIsNoLibrary DEF TypeOK, Present
    <3>3. queue' \in SUBSET Ids /\ overwritten' \in BOOLEAN /\ settings' \in Settings
      BY <2>2, <2>7 DEF TypeOK
    <3> QED
      BY <2>4, <2>5, <3>1, <3>2, <3>3 DEF TypeOK
  <2> QED
    BY <1>4, <2>6, <2>7 DEF ConfirmSettings
<1>5. ASSUME NEW u \in Users, Forget(u) PROVE TypeOK'
  BY <1>5, PresentFrame DEF Forget, TypeOK
<1>6. ASSUME NEW u \in Users, ConfirmLibrary(u) PROVE TypeOK'
  <2> DEFINE i == pendingLibrary[u].id
             row == pendingLibrary[u].row
  <2>1. i \in Ids /\ row \in Library
    BY <1>6 DEF ConfirmLibrary, TypeOK, LibraryCopy
  <2>2. /\ pendingLibrary' \in [Users -> LibraryCopy \cup {None}]
        /\ pendingSettings' = pendingSettings
        /\ events' \in 0 .. MaxEvents
    BY <1>6 DEF ConfirmLibrary, TypeOK
  <2>3. CASE CommitLibrary(i, row)
    BY <2>1, <2>2, <2>3, CommitType
  <2>4. CASE UNCHANGED <<settings, libs, queue, dry, lock, overwritten>>
    BY <2>2, <2>4, PresentFrame DEF TypeOK
  <2> QED
    BY <1>6, <2>3, <2>4 DEF ConfirmLibrary
<1>7. ASSUME NEW u \in Users, NEW i \in Ids, NEW row \in Library, SaveLibrary(u, i, row)
      PROVE  TypeOK'
  <2>1. events' \in 0 .. MaxEvents
    BY <1>7, EventType DEF SaveLibrary
  <2>2. [kind |-> "library", id |-> i, row |-> row] \in LibraryCopy
    BY DEF LibraryCopy
  <2>3. Ready(settings, [libs EXCEPT ![i] = row], {i}) \in SUBSET Ids
    BY DEF Ready
  <2>4. CASE DryRun(u, [kind |-> "library", id |-> i, row |-> row],
                    Ready(settings, [libs EXCEPT ![i] = row], {i}))
    BY <2>1, <2>2, <2>3, <2>4, DryRunType
  <2>5. CASE CommitLibrary(i, row) /\ UNCHANGED <<pendingSettings, pendingLibrary>>
    <3>1. pendingLibrary' \in [Users -> LibraryCopy \cup {None}]
      BY <2>5 DEF TypeOK
    <3> QED
      BY <2>1, <2>5, <3>1, CommitType
  <2> QED
    BY <1>7, <2>4, <2>5 DEF SaveLibrary
<1>8. ASSUME NEW i \in Ids, SwitchLibrary(i) PROVE TypeOK'
  <2>1. libs[i] \in Library
    BY <1>8, RowIsLibrary DEF SwitchLibrary, Present
  <2>2. [libs[i] EXCEPT !.enabled = ~libs[i].enabled] \in Library
    BY <2>1 DEF Library
  <2>3. libs' = [libs EXCEPT ![i] = [libs[i] EXCEPT !.enabled = ~libs[i].enabled]]
    BY <1>8 DEF SwitchLibrary, TypeOK
  <2>4. libs' \in [Ids -> Library \cup {None}] /\ i \in Present'
    BY <2>2, <2>3, NoneIsNoLibrary DEF TypeOK, Present
  <2>5. events' \in 0 .. MaxEvents
    BY <1>8, EventType DEF SwitchLibrary
  <2> QED
    BY <1>8, <2>4, <2>5 DEF SwitchLibrary, TypeOK
<1>9. ASSUME NEW i \in Ids, DeleteLibrary(i) PROVE TypeOK'
  <2>1. libs' \in [Ids -> Library \cup {None}]
    BY <1>9 DEF DeleteLibrary, TypeOK
  <2>2. PICK j \in Present : j # i
    BY <1>9 DEF DeleteLibrary, MayDelete, Present
  <2>3. Present' # {}
    BY <1>9, <2>2 DEF DeleteLibrary, TypeOK, Present
  <2>4. events' \in 0 .. MaxEvents
    BY <1>9, EventType DEF DeleteLibrary
  <2> QED
    BY <1>9, <2>1, <2>3, <2>4 DEF DeleteLibrary, TypeOK
<1>10. ASSUME NEW i \in Ids, NEW row \in Library, CreateLibrary(i, row) PROVE TypeOK'
  <2>1. libs' \in [Ids -> Library \cup {None}] /\ Present \subseteq Present'
    BY <1>10, NoneIsNoLibrary DEF CreateLibrary, TypeOK, Present
  <2>2. settings' \in Settings /\ events' \in 0 .. MaxEvents
    BY <1>10, EventType DEF CreateLibrary, TypeOK, Settings
  <2> QED
    BY <1>10, <2>1, <2>2 DEF CreateLibrary, TypeOK
<1>11. CASE ScanStart
  <2>1. /\ Ready(settings, libs, Enabled(libs)) \in SUBSET Ids
        /\ Armed(settings) \in BOOLEAN
        /\ events' \in 0 .. MaxEvents
    BY <1>11, EventType DEF ScanStart, Ready, Enabled, Armed, TypeOK, Settings, UsesQbit
  <2> QED
    BY <1>11, <2>1, PresentFrame DEF ScanStart, TypeOK
<1>12. CASE ScanEnd
  BY <1>12, PresentFrame DEF ScanEnd, TypeOK
<1>13. CASE UNCHANGED vars
  BY <1>13, PresentFrame DEF vars, TypeOK
<1> QED
  BY <1>1, <1>2, <1>3, <1>4, <1>5, <1>6, <1>7, <1>8, <1>9, <1>10, <1>11, <1>12, <1>13 DEF Next

---------------------------------------------------------------------------
(* The rules between libraries.                                            *)
LEMMA DisjointCommit ==
    ASSUME TypeOK, Disjoint, NEW i \in Ids, NEW row \in Library, ~Conflicts(i, row, libs),
           libs' = [libs EXCEPT ![i] = row]
    PROVE  Disjoint'
  BY DEF TypeOK, Disjoint, Conflicts, Present

LEMMA DisjointNext ==
    ASSUME TypeOK, NoOverlapUnlessOverwritten, [Next]_vars
    PROVE  NoOverlapUnlessOverwritten'
<1> USE DEF NoOverlapUnlessOverwritten
<1>0. ASSUME libs' = libs, overwritten => overwritten' PROVE NoOverlapUnlessOverwritten'
  BY <1>0 DEF Disjoint, Conflicts, Present
<1>1. CASE SaveRetention \/ Arm \/ Disarm \/ ToggleApi \/ ScanStart \/ ScanEnd \/ UNCHANGED vars
  BY <1>0, <1>1 DEF SaveRetention, Arm, Disarm, ToggleApi, ScanStart, ScanEnd, vars
<1>2. ASSUME NEW u \in Users, SaveClient(u) \/ Previewed(u) \/ Forget(u)
      PROVE  NoOverlapUnlessOverwritten'
  BY <1>0, <1>2 DEF SaveClient, DryRun, Previewed, Forget
<1>3. ASSUME NEW u \in Users, ConfirmSettings(u) PROVE NoOverlapUnlessOverwritten'
  <2> DEFINE fields == pendingSettings[u].fields
             row == [category |-> fields.category, folder |-> fields.folder,
                     days |-> fields.days, enabled |-> libs[First].enabled]
  <2>1. CASE UNCHANGED <<settings, libs, queue, overwritten>>
    BY <1>0, <2>1
  <2>2. CASE /\ libs' = [libs EXCEPT ![First] = row]
             /\ overwritten' = (overwritten \/ fields # Fields(libs[First]))
    <3>1. CASE fields # Fields(libs[First])
      BY <2>2, <3>1
    <3>2. CASE fields = Fields(libs[First])
      <4>1. libs[First] \in Library /\ libs \in [Ids -> Library \cup {None}]
        BY FirstIsPresent, RowIsLibrary DEF TypeOK
      <4>2. row = libs[First]
        BY <3>2, <4>1 DEF Fields, Library
      <4>3. libs' = libs
        BY <2>2, <4>1, <4>2
      <4> QED
        BY <1>0, <2>2, <4>3
    <3> QED
      BY <3>1, <3>2
  <2> QED
    BY <1>3, <2>1, <2>2 DEF ConfirmSettings
<1>4. ASSUME NEW u \in Users, ConfirmLibrary(u) PROVE NoOverlapUnlessOverwritten'
  <2> DEFINE i == pendingLibrary[u].id
             row == pendingLibrary[u].row
  <2>1. i \in Ids /\ row \in Library
    BY <1>4 DEF ConfirmLibrary, TypeOK, LibraryCopy
  <2>2. CASE MayConfirm(i, row) /\ CommitLibrary(i, row)
    BY <2>1, <2>2, DisjointCommit DEF MayConfirm, CommitLibrary
  <2>3. CASE UNCHANGED <<settings, libs, queue, dry, lock, overwritten>>
    BY <1>0, <2>3
  <2> QED
    BY <1>4, <2>2, <2>3 DEF ConfirmLibrary
<1>5. ASSUME NEW u \in Users, NEW i \in Ids, NEW row \in Library, SaveLibrary(u, i, row)
      PROVE  NoOverlapUnlessOverwritten'
  <2>1. CASE UNCHANGED <<libs, overwritten>>
    BY <1>0, <2>1
  <2>2. CASE CommitLibrary(i, row)
    BY <1>5, <2>2, DisjointCommit DEF SaveLibrary, CommitLibrary
  <2> QED
    BY <1>5, <2>1, <2>2 DEF SaveLibrary, DryRun
<1>6. ASSUME NEW i \in Ids, SwitchLibrary(i) PROVE NoOverlapUnlessOverwritten'
  <2>1. libs[i] \in Library /\ libs \in [Ids -> Library \cup {None}]
    BY <1>6, RowIsLibrary DEF SwitchLibrary, Present, TypeOK
  <2> DEFINE row == [libs[i] EXCEPT !.enabled = ~libs[i].enabled]
  <2>2. row \in Library /\ row.category = libs[i].category /\ row.folder = libs[i].folder
    BY <2>1 DEF Library
  <2>3. libs' = [libs EXCEPT ![i] = row] /\ overwritten' = overwritten
    BY <1>6, <2>1 DEF SwitchLibrary
  <2> HIDE DEF row
  <2>4. ASSUME Disjoint PROVE ~Conflicts(i, row, libs)
    BY <1>6, <2>2, <2>4 DEF Disjoint, Conflicts, Present, SwitchLibrary
  <2> QED
    BY <2>2, <2>3, <2>4, DisjointCommit
<1>7. ASSUME NEW i \in Ids, DeleteLibrary(i) PROVE NoOverlapUnlessOverwritten'
  BY <1>7 DEF DeleteLibrary, Disjoint, Conflicts, Present, TypeOK
<1>8. ASSUME NEW i \in Ids, NEW row \in Library, CreateLibrary(i, row) PROVE NoOverlapUnlessOverwritten'
  BY <1>8, DisjointCommit DEF CreateLibrary
<1> QED
  BY <1>1, <1>2, <1>3, <1>4, <1>5, <1>6, <1>7, <1>8 DEF Next

---------------------------------------------------------------------------
(* What a run works on stays.                                              *)
LEMMA WorkedOnNext ==
    ASSUME TypeOK, WorkedOnExists, [Next]_vars
    PROVE  WorkedOnExists'
<1>1. ASSUME Present \subseteq Present', lock' \in {lock, None} PROVE WorkedOnExists'
  BY <1>1 DEF WorkedOnExists
<1>2. ASSUME NEW u \in Users, NEW change, NEW on, DryRun(u, change, on), on \subseteq Present
      PROVE  WorkedOnExists'
  BY <1>2, PresentFrame DEF DryRun, WorkedOnExists
<1>3. CASE \/ SaveRetention \/ Arm \/ Disarm \/ ToggleApi \/ ScanEnd \/ UNCHANGED vars
           \/ \E u \in Users : Previewed(u) \/ Forget(u)
  <2>1. libs' = libs /\ lock' \in {lock, None}
    BY <1>3 DEF SaveRetention, Arm, Disarm, ToggleApi, ScanEnd, vars, Previewed, Forget
  <2> QED
    BY <1>1, <2>1, PresentFrame
<1>4. ASSUME NEW s PROVE Ready(s, libs, Enabled(libs)) \subseteq Present
  BY DEF Ready, Enabled, Present
<1>5. ASSUME NEW u \in Users, SaveClient(u) PROVE WorkedOnExists'
  BY <1>2, <1>4, <1>5 DEF SaveClient
<1>6. CASE ScanStart
  BY <1>4, <1>6, PresentFrame DEF ScanStart, WorkedOnExists
<1>7. ASSUME NEW u \in Users, ConfirmSettings(u) PROVE WorkedOnExists'
  <2> DEFINE fields == pendingSettings[u].fields
             row == [category |-> fields.category, folder |-> fields.folder,
                     days |-> fields.days, enabled |-> libs[First].enabled]
  <2>0. libs' = libs \/ libs' = [libs EXCEPT ![First] = row]
    BY <1>7 DEF ConfirmSettings
  <2>1. Present \subseteq Present' /\ lock' = lock
    <3>1. TypeOK' /\ First \in Ids /\ lock' = lock
      BY <1>7, TypeNext, FirstIsPresent DEF ConfirmSettings
    <3>2. fields \in LibraryFields /\ libs[First] \in Library
      BY <1>7, FirstIsPresent, RowIsLibrary DEF ConfirmSettings, TypeOK, SettingsCopy
    <3>3. row \in Library
      BY <3>2 DEF LibraryFields, Library
    <3> HIDE DEF row
    <3> QED
      BY <2>0, <3>1, <3>3, NoneIsNoLibrary DEF TypeOK, Present
  <2> QED
    BY <1>1, <2>1
<1>8. ASSUME NEW i \in Ids, NEW row \in Library, CommitLibrary(i, row) PROVE WorkedOnExists'
  <2>1. Present \subseteq Present' /\ lock' = lock
    BY <1>8, NoneIsNoLibrary DEF CommitLibrary, TypeOK, Present
  <2> QED
    BY <1>1, <2>1
<1>9. ASSUME NEW u \in Users, ConfirmLibrary(u) PROVE WorkedOnExists'
  <2>1. pendingLibrary[u].id \in Ids /\ pendingLibrary[u].row \in Library
    BY <1>9 DEF ConfirmLibrary, TypeOK, LibraryCopy
  <2>2. CASE CommitLibrary(pendingLibrary[u].id, pendingLibrary[u].row)
    BY <1>8, <2>1, <2>2
  <2>3. CASE UNCHANGED <<settings, libs, queue, dry, lock, overwritten>>
    BY <1>1, <2>3, PresentFrame
  <2> QED
    BY <1>9, <2>2, <2>3 DEF ConfirmLibrary
<1>10. ASSUME NEW u \in Users, NEW i \in Ids, NEW row \in Library, SaveLibrary(u, i, row)
       PROVE  WorkedOnExists'
  <2>1. i \in Present /\ Ready(settings, [libs EXCEPT ![i] = row], {i}) \subseteq {i}
    BY <1>10 DEF SaveLibrary, Present, Ready
  <2> QED
    BY <1>2, <1>8, <1>10, <2>1 DEF SaveLibrary
<1>11. ASSUME NEW i \in Ids, SwitchLibrary(i) PROVE WorkedOnExists'
  <2>1. /\ libs[i] \in Library /\ libs \in [Ids -> Library \cup {None}]
        /\ TypeOK'
    BY <1>11, RowIsLibrary, TypeNext DEF SwitchLibrary, Present, TypeOK
  <2>2. libs' = [libs EXCEPT ![i] = [libs[i] EXCEPT !.enabled = ~libs[i].enabled]]
    BY <1>11, <2>1 DEF SwitchLibrary
  <2>3. [libs[i] EXCEPT !.enabled = ~libs[i].enabled] \in Library
    BY <2>1 DEF Library
  <2>4. Present \subseteq Present' /\ lock' = lock
    BY <1>11, <2>1, <2>2, <2>3, NoneIsNoLibrary DEF SwitchLibrary, Present
  <2> QED
    BY <1>1, <2>4
<1>12. ASSUME NEW i \in Ids, DeleteLibrary(i) PROVE WorkedOnExists'
  BY <1>12 DEF DeleteLibrary, MayDelete, WorkedOnExists
<1>13. ASSUME NEW i \in Ids, NEW row \in Library, CreateLibrary(i, row) PROVE WorkedOnExists'
  <2>1. Present \subseteq Present' /\ lock' = lock
    BY <1>13, NoneIsNoLibrary DEF CreateLibrary, TypeOK, Present
  <2> QED
    BY <1>1, <2>1
<1> QED
  BY <1>3, <1>5, <1>6, <1>7, <1>9, <1>10, <1>11, <1>12, <1>13 DEF Next

---------------------------------------------------------------------------
LEMMA ConfigInductive == Spec => []CInv
<1>1. Init => CInv
  <2>1. ASSUME Init PROVE Disjoint
    BY <2>1 DEF Init, Disjoint, Conflicts, Present
  <2> QED
    BY <2>1, TypeInit DEF Init, CInv, NoOverlapUnlessOverwritten, WorkedOnExists
<1>2. CInv /\ [Next]_vars => CInv'
  BY TypeNext, DisjointNext, WorkedOnNext DEF CInv
<1> QED
  BY <1>1, <1>2, PTL DEF Spec

(* The settings, the libraries and the copies keep their types, and the    *)
(* last library stays.                                                     *)
THEOREM TypeCorrect == Spec => []TypeOK
<1>1. CInv => TypeOK
  BY DEF CInv
<1> QED
  BY <1>1, ConfigInductive, PTL

(* No two libraries overlap, as long as no confirmed settings copy wrote   *)
(* other library fields back: library_confirm checks the rules again.      *)
THEOREM LibrariesAreDisjoint == Spec => []NoOverlapUnlessOverwritten
<1>1. CInv => NoOverlapUnlessOverwritten
  BY DEF CInv
<1> QED
  BY <1>1, ConfigInductive, PTL

(* A run never loses a library it works on.                                *)
THEOREM RunsKeepTheirLibraries == Spec => []WorkedOnExists
<1>1. CInv => WorkedOnExists
  BY DEF CInv
<1> QED
  BY <1>1, ConfigInductive, PTL

(* What automatic delete depends on, as Arming sees it.                    *)
LEMMA ReviewedFrame ==
    ASSUME Present' = Present, \A i \in Present : Fields(libs'[i]) = Fields(libs[i])
    PROVE  [i \in Present |-> Fields(libs[i])]' = [i \in Present |-> Fields(libs[i])]
  OBVIOUS

(* The pages implement Arming: on every path, a change of what automatic   *)
(* delete depends on disarms it.                                           *)
THEOREM ArmingIsReviewed == Spec => ArmedAsReviewed
<1> DEFINE armed == settings.armed
           shared == <<settings.client, settings.enabled>>
           reviewed == [i \in Present |-> Fields(libs[i])]
<1>1. Init => Armament!Init
  BY DEF Init, Armament!Init
<1>2. ASSUME TypeOK, [Next]_vars
      PROVE  [Armament!Next]_<<armed, shared, reviewed>>
  <2>0. ASSUME armed' = FALSE PROVE Armament!Change
    BY <2>0 DEF Armament!Change
  <2>1. ASSUME UNCHANGED <<settings, libs>> PROVE UNCHANGED <<armed, shared, reviewed>>
    BY <2>1, PresentFrame
  <2>2. CASE SaveRetention \/ Disarm \/ \E i \in Ids, row \in Library : CreateLibrary(i, row)
    <3>1. armed' = FALSE
      BY <1>2, <2>2 DEF SaveRetention, Disarm, CreateLibrary, TypeOK, Settings
    <3> QED
      BY <2>0, <3>1 DEF Armament!Next
  <2>3. CASE Arm
    <3>1. settings' = [settings EXCEPT !.armed = TRUE] /\ libs' = libs
      BY <2>3 DEF Arm
    <3>2. armed' = TRUE /\ shared' = shared /\ reviewed' = reviewed
      BY <1>2, <3>1, PresentFrame DEF TypeOK, Settings
    <3> QED
      BY <3>2 DEF Armament!Arm, Armament!Next
  <2>4. CASE ToggleApi
    <3>1. settings' = [settings EXCEPT !.api = ~settings.api] /\ libs' = libs
      BY <2>4 DEF ToggleApi
    <3>2. armed' = armed /\ shared' = shared /\ reviewed' = reviewed
      BY <1>2, <3>1, PresentFrame DEF TypeOK, Settings
    <3> QED
      BY <3>2
  <2>5. ASSUME NEW u \in Users, SaveClient(u) \/ Previewed(u) \/ Forget(u)
        PROVE  UNCHANGED <<armed, shared, reviewed>>
    BY <2>1, <2>5 DEF SaveClient, DryRun, Previewed, Forget
  <2>6. CASE ScanStart \/ ScanEnd \/ UNCHANGED vars
    BY <2>1, <2>6 DEF ScanStart, ScanEnd, vars
  <2>7. ASSUME NEW u \in Users, ConfirmSettings(u)
        PROVE  [Armament!Next]_<<armed, shared, reviewed>>
    <3>1. CASE UNCHANGED <<settings, libs, queue, overwritten>>
      BY <2>1, <3>1
    <3>2. CASE settings' = pendingSettings[u].settings
      <4>1. armed' = FALSE
        BY <1>2, <2>7, <3>2 DEF ConfirmSettings, TypeOK, SettingsCopy
      <4> QED
        BY <2>0, <4>1 DEF Armament!Next
    <3> QED
      BY <2>7, <3>1, <3>2 DEF ConfirmSettings
  <2>8. ASSUME NEW i \in Present, NEW row \in Library, CommitLibrary(i, row)
        PROVE  [Armament!Next]_<<armed, shared, reviewed>>
    <3>0. i \in Ids /\ libs \in [Ids -> Library \cup {None}]
      BY <1>2 DEF Present, TypeOK
    <3>1. settings' = [settings EXCEPT !.armed = settings.armed /\ ~Disarms(libs[i], row)]
      BY <2>8 DEF CommitLibrary
    <3>2. CASE Disarms(libs[i], row)
      <4>1. armed' = FALSE
        BY <1>2, <3>1, <3>2 DEF TypeOK, Settings
      <4> QED
        BY <2>0, <4>1 DEF Armament!Next
    <3>3. CASE Fields(libs[i]) = Fields(row)
      <4>1. Present' = Present
        BY <2>8, <3>0, NoneIsNoLibrary DEF CommitLibrary, Present
      <4>2. \A j \in Present : libs'[j] = IF j = i THEN row ELSE libs[j]
        BY <2>8, <3>0 DEF CommitLibrary, Present
      <4>3. reviewed' = reviewed
        BY <3>3, <4>1, <4>2, ReviewedFrame
      <4>4. armed' = armed /\ shared' = shared
        BY <1>2, <3>1, <3>3 DEF TypeOK, Settings, Disarms
      <4> QED
        BY <4>3, <4>4
    <3> QED
      BY <3>2, <3>3 DEF Disarms
  <2>9. ASSUME NEW u \in Users, ConfirmLibrary(u)
        PROVE  [Armament!Next]_<<armed, shared, reviewed>>
    <3>1. pendingLibrary[u].id \in Ids /\ pendingLibrary[u].row \in Library
      BY <1>2, <2>9 DEF ConfirmLibrary, TypeOK, LibraryCopy
    <3>2. \/ UNCHANGED <<settings, libs>>
          \/ /\ pendingLibrary[u].id \in Present
             /\ CommitLibrary(pendingLibrary[u].id, pendingLibrary[u].row)
      BY <2>9, <3>1 DEF ConfirmLibrary, MayConfirm, Present
    <3> QED
      BY <2>1, <2>8, <3>1, <3>2
  <2>10. ASSUME NEW u \in Users, NEW i \in Ids, NEW row \in Library, SaveLibrary(u, i, row)
         PROVE  [Armament!Next]_<<armed, shared, reviewed>>
    <3>1. i \in Present /\ (UNCHANGED <<settings, libs>> \/ CommitLibrary(i, row))
      BY <2>10 DEF SaveLibrary, DryRun, Present
    <3> QED
      BY <2>1, <2>8, <3>1
  <2>11. ASSUME NEW i \in Ids, SwitchLibrary(i) PROVE UNCHANGED <<armed, shared, reviewed>>
    <3>1. libs[i] \in Library /\ libs \in [Ids -> Library \cup {None}]
      BY <1>2, <2>11, RowIsLibrary DEF SwitchLibrary, Present, TypeOK
    <3> DEFINE row == [libs[i] EXCEPT !.enabled = ~libs[i].enabled]
    <3>2. libs' = [libs EXCEPT ![i] = row] /\ settings' = settings
      BY <2>11, <3>1 DEF SwitchLibrary
    <3>3. row \in Library /\ Fields(row) = Fields(libs[i])
      BY <3>1 DEF Library, Fields
    <3> HIDE DEF row
    <3>4. Present' = Present
      BY <2>11, <3>1, <3>2, <3>3, NoneIsNoLibrary DEF SwitchLibrary, Present
    <3>5. \A j \in Present : libs'[j] = IF j = i THEN row ELSE libs[j]
      BY <3>1, <3>2 DEF Present
    <3> QED
      BY <3>2, <3>3, <3>4, <3>5, ReviewedFrame
  <2>12. ASSUME NEW i \in Ids, DeleteLibrary(i) PROVE Armament!Leave
    <3>1. libs' = [libs EXCEPT ![i] = None] /\ settings' = settings
      BY <2>12 DEF DeleteLibrary
    <3>2. Present' = Present \ {i} /\ \A j \in Present' : libs'[j] = libs[j]
      BY <1>2, <3>1 DEF TypeOK, Present
    <3>3. DOMAIN reviewed = Present /\ DOMAIN reviewed' = Present'
      OBVIOUS
    <3>4. \A j \in Present' : reviewed'[j] = reviewed[j]
      BY <3>2
    <3>5. armed' = armed /\ shared' = shared
      BY <3>1
    <3> HIDE DEF reviewed
    <3> QED
      BY <3>2, <3>3, <3>4, <3>5 DEF Armament!Leave, reviewed
  <2> HIDE DEF armed, shared, reviewed
  <2> QED
    BY <1>2, <2>2, <2>3, <2>4, <2>5, <2>6, <2>7, <2>9, <2>10, <2>11, <2>12 DEF Next, Armament!Next
<1> QED
  BY <1>1, <1>2, TypeCorrect, PTL DEF Spec, ArmedAsReviewed, Armament!Spec

---------------------------------------------------------------------------
(* Only a confirmation changes the client or what a library touches; every *)
(* other step leaves both alone.                                           *)
SameTouch ==
    /\ settings'.client = settings.client
    /\ \A i \in Ids : libs[i] # None /\ libs'[i] # None => Risky(libs'[i]) = Risky(libs[i])

(* What a confirmed settings copy does.                                    *)
ConfirmedCopy(u) ==
    /\ settings' = pendingSettings[u].settings
    /\ \A i \in Ids \ {First} : libs'[i] = libs[i]
    /\ Risky(libs'[First]) = Risky(pendingSettings[u].fields)
    /\ pendingSettings[u] # None /\ pendingSettings'[u] = None
    /\ Cancels(pendingSettings[u].settings, pendingSettings[u].fields) => queue' = {}

(* What a committed library change does.                                   *)
CommittedRow(i, row) ==
    /\ settings'.client = settings.client
    /\ libs' = [libs EXCEPT ![i] = row]
    /\ Risky(libs[i]) # Risky(row) => i \notin queue'

LEMMA CommitEffect ==
    ASSUME TypeOK, NEW i \in Ids, NEW row \in Library, CommitLibrary(i, row)
    PROVE  CommittedRow(i, row)
<1>1. settings' = [settings EXCEPT !.armed = settings.armed /\ ~Disarms(libs[i], row)]
  BY DEF CommitLibrary
<1>2. settings'.client = settings.client
  BY <1>1 DEF TypeOK, Settings
<1> QED
  BY <1>2 DEF CommitLibrary, CommittedRow

LEMMA StepTouches ==
    ASSUME TypeOK, [Next]_vars
    PROVE  \/ SameTouch
           \/ \E u \in Users : ConfirmedCopy(u)
           \/ \E u \in Users : /\ CommittedRow(pendingLibrary[u].id, pendingLibrary[u].row)
                              /\ pendingLibrary[u].id \in Ids
                              /\ pendingLibrary[u] # None /\ pendingLibrary'[u] = None
<1>1. ASSUME UNCHANGED <<settings, libs>> PROVE SameTouch
  BY <1>1 DEF SameTouch
<1>2. CASE SaveRetention \/ Arm \/ Disarm \/ ToggleApi
  <2>1. libs' = libs /\ settings'.client = settings.client
    BY <1>2 DEF SaveRetention, Arm, Disarm, ToggleApi, TypeOK, Settings
  <2> QED
    BY <2>1 DEF SameTouch
<1>3. ASSUME NEW u \in Users, SaveClient(u) \/ Previewed(u) \/ Forget(u) PROVE SameTouch
  BY <1>1, <1>3 DEF SaveClient, DryRun, Previewed, Forget
<1>4. CASE ScanStart \/ ScanEnd \/ UNCHANGED vars
  BY <1>1, <1>4 DEF ScanStart, ScanEnd, vars
<1>5. ASSUME NEW u \in Users, ConfirmSettings(u) PROVE SameTouch \/ ConfirmedCopy(u)
  <2> DEFINE new == pendingSettings[u].settings
             fields == pendingSettings[u].fields
             row == [category |-> fields.category, folder |-> fields.folder,
                     days |-> fields.days, enabled |-> libs[First].enabled]
  <2>1. CASE UNCHANGED <<settings, libs, queue, overwritten>>
    BY <1>1, <2>1
  <2>2. CASE /\ settings' = new
             /\ libs' = [libs EXCEPT ![First] = row]
             /\ queue' = IF Cancels(new, fields) THEN {} ELSE queue
    <3>1. First \in Ids /\ libs \in [Ids -> Library \cup {None}]
      BY FirstIsPresent DEF TypeOK
    <3>2. pendingSettings[u] # None /\ pendingSettings'[u] = None
      BY <1>5 DEF ConfirmSettings, TypeOK
    <3>3. libs'[First] = row /\ \A i \in Ids \ {First} : libs'[i] = libs[i]
      BY <2>2, <3>1
    <3>4. Risky(row) = Risky(fields)
      BY DEF Risky
    <3> HIDE DEF row
    <3>5. Risky(libs'[First]) = Risky(fields)
      BY <3>3, <3>4
    <3> QED
      BY <2>2, <3>2, <3>3, <3>5 DEF ConfirmedCopy
  <2> QED
    BY <1>5, <2>1, <2>2 DEF ConfirmSettings
<1>6. ASSUME NEW u \in Users, ConfirmLibrary(u)
      PROVE  SameTouch \/ /\ CommittedRow(pendingLibrary[u].id, pendingLibrary[u].row)
                          /\ pendingLibrary[u].id \in Ids
                          /\ pendingLibrary[u] # None /\ pendingLibrary'[u] = None
  <2>1. pendingLibrary[u].id \in Ids /\ pendingLibrary[u].row \in Library
    BY <1>6 DEF ConfirmLibrary, TypeOK, LibraryCopy
  <2>2. pendingLibrary[u] # None /\ pendingLibrary'[u] = None
    BY <1>6 DEF ConfirmLibrary, TypeOK
  <2>3. \/ UNCHANGED <<settings, libs>>
        \/ CommitLibrary(pendingLibrary[u].id, pendingLibrary[u].row)
    BY <1>6 DEF ConfirmLibrary
  <2> QED
    BY <1>1, <2>1, <2>2, <2>3, CommitEffect
<1>7. ASSUME NEW u \in Users, NEW i \in Ids, NEW row \in Library, SaveLibrary(u, i, row)
      PROVE  SameTouch
  <2>1. CASE UNCHANGED <<settings, libs>>
    BY <1>1, <2>1
  <2>2. CASE Risky(libs[i]) = Risky(row) /\ CommitLibrary(i, row)
    BY <2>2, CommitEffect DEF CommittedRow, SameTouch, TypeOK
  <2> QED
    BY <1>7, <2>1, <2>2 DEF SaveLibrary, NeedsConfirmation, DryRun
<1>8. ASSUME NEW i \in Ids, SwitchLibrary(i) PROVE SameTouch
  <2>1. libs[i] \in Library /\ libs \in [Ids -> Library \cup {None}]
    BY <1>8, RowIsLibrary DEF SwitchLibrary, Present, TypeOK
  <2> DEFINE row == [libs[i] EXCEPT !.enabled = ~libs[i].enabled]
  <2>2. Risky(row) = Risky(libs[i])
    BY <2>1 DEF Library, Risky
  <2>3. libs' = [libs EXCEPT ![i] = row] /\ settings' = settings
    BY <1>8, <2>1 DEF SwitchLibrary
  <2> HIDE DEF row
  <2> QED
    BY <2>1, <2>2, <2>3 DEF SameTouch
<1>9. ASSUME NEW i \in Ids, DeleteLibrary(i) PROVE SameTouch
  BY <1>9 DEF DeleteLibrary, SameTouch, TypeOK
<1>10. ASSUME NEW i \in Ids, NEW row \in Library, CreateLibrary(i, row) PROVE SameTouch
  <2>1. settings'.client = settings.client
    BY <1>10 DEF CreateLibrary, TypeOK, Settings
  <2>2. libs[i] = None
    BY <1>10 DEF CreateLibrary, NextId, Present, Ids
  <2> QED
    BY <1>10, <2>1, <2>2 DEF CreateLibrary, SameTouch, TypeOK
<1> QED
  BY <1>2, <1>3, <1>4, <1>5, <1>6, <1>7, <1>8, <1>9, <1>10 DEF Next

(* What is queued of a library that changes its category, or of any when   *)
(* the client changes, is cancelled in the same step, whichever page did   *)
(* it (both _commit functions).                                            *)
THEOREM RepointingCancels == Spec => RepointedIsCancelled
<1>1. ASSUME TypeOK, [Next]_vars, NEW i \in Ids, libs[i] # None, libs'[i] # None,
             settings'.client # settings.client \/ libs'[i].category # libs[i].category
      PROVE  i \notin queue'
  <2>1. CASE SameTouch
    BY <1>1, <2>1 DEF SameTouch, Risky
  <2>2. ASSUME NEW u \in Users, ConfirmedCopy(u) PROVE i \notin queue'
    <3>1. i = First => libs'[i].category = pendingSettings[u].fields.category
      BY <2>2 DEF ConfirmedCopy, Risky
    <3> QED
      BY <1>1, <2>2, <3>1 DEF ConfirmedCopy, Cancels
  <2>3. ASSUME NEW j \in Ids, NEW row, CommittedRow(j, row) PROVE i \notin queue'
    BY <1>1, <2>3 DEF CommittedRow, TypeOK, Risky
  <2> QED
    BY <1>1, <2>1, <2>2, <2>3, StepTouches
<1>2. TypeOK /\ [Next]_vars
        => [\A i \in Ids :
              (/\ libs[i] # None /\ libs'[i] # None
               /\ \/ settings'.client # settings.client
                  \/ libs'[i].category # libs[i].category) => i \notin queue']_vars
  BY <1>1
<1> QED
  BY <1>2, TypeCorrect, PTL DEF Spec, RepointedIsCancelled

(* What a library touches, and the client, change only by a confirmation   *)
(* of a copy that has the new values, which is used up by it.              *)
THEOREM RiskyChangesAreConfirmed == Spec => RiskyIsConfirmed
<1>1. ASSUME TypeOK, [Next]_vars, NEW i \in Ids, libs[i] # None, libs'[i] # None,
             Risky(libs'[i]) # Risky(libs[i])
      PROVE  \E u \in Users : ConfirmedFor(u, i)
  <2>1. CASE SameTouch
    BY <1>1, <2>1 DEF SameTouch
  <2>2. ASSUME NEW u \in Users, ConfirmedCopy(u) PROVE ConfirmedFor(u, i)
    BY <1>1, <2>2 DEF ConfirmedCopy, ConfirmedFor
  <2>3. ASSUME NEW u \in Users, CommittedRow(pendingLibrary[u].id, pendingLibrary[u].row),
               pendingLibrary[u] # None, pendingLibrary'[u] = None
        PROVE  ConfirmedFor(u, i)
    BY <1>1, <2>3 DEF CommittedRow, ConfirmedFor, TypeOK
  <2> QED
    BY <1>1, <2>1, <2>2, <2>3, StepTouches
<1>2. ASSUME TypeOK, [Next]_vars, settings'.client # settings.client
      PROVE  \E u \in Users : /\ pendingSettings[u] # None /\ pendingSettings'[u] = None
                              /\ settings' = pendingSettings[u].settings
  BY <1>2, StepTouches DEF SameTouch, ConfirmedCopy, CommittedRow
<1>3. TypeOK /\ [Next]_vars
        => [/\ \A i \in Ids :
                 (libs[i] # None /\ libs'[i] # None /\ Risky(libs'[i]) # Risky(libs[i]))
                    => \E u \in Users : ConfirmedFor(u, i)
            /\ settings'.client # settings.client
                 => \E u \in Users : /\ pendingSettings[u] # None /\ pendingSettings'[u] = None
                                     /\ settings' = pendingSettings[u].settings]_vars
  BY <1>1, <1>2
<1> QED
  BY <1>3, TypeCorrect, PTL DEF Spec, RiskyIsConfirmed
=============================================================================
