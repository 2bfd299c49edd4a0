---------------------------- MODULE FolderProofs ----------------------------
(***************************************************************************)
(* Proofs about Folder, for all sets of downloads and libraries.           *)
(***************************************************************************)
EXTENDS Folder, WellFoundedInduction, FiniteSetTheorems, TLAPS

Unfinished == {"partial", "writing"}

(* A call, and a run that is about to write the marks, hold no more and no *)
(* less than what they overwrite: runs only forget, calls only add.        *)
MarksInv ==
    /\ api.of # None => marks \subseteq api.marks
    /\ scan.kept \subseteq marks

(* What may be taken for finished and is not bears the name of an older    *)
(* download.                                                               *)
CountsInv == \A d \in Downloads : disk[d] \in Unfinished /\ Counts(d) => d \in reused

---------------------------------------------------------------------------
(* No pattern is a list of patterns; teaching and forgetting one leave one.*)
LEMMA UntaughtType == Untaught \in PatternLists
BY DEF Untaught, PatternLists

LEMMA SavedType ==
    ASSUME patterns \in PatternLists, NEW l \in Libraries, NEW taught \in Taught
    PROVE  Saved(l, taught) \in Seq(Taught)
<1> DEFINE list == patterns[l]
           new == [i \in DOMAIN list |-> IF list[i].parts = taught.parts THEN taught ELSE list[i]]
<1>1. list \in Seq(Taught)
  BY DEF PatternLists
<1>2. new \in [1 .. Len(list) -> Taught] /\ Len(list) \in Nat
  BY <1>1
<1>3. new \in Seq(Taught)
  BY <1>2
<1>4. Append(list, taught) \in Seq(Taught)
  BY <1>1
<1> QED
  BY <1>3, <1>4 DEF Saved

LEMMA RemovedType ==
    ASSUME NEW list \in Seq(Taught), NEW i \in DOMAIN list
    PROVE  RemoveAt(list, i) \in Seq(Taught)
<1>1. SubSeq(list, 1, i - 1) \in Seq(Taught) /\ SubSeq(list, i + 1, Len(list)) \in Seq(Taught)
  OBVIOUS
<1> QED
  BY <1>1 DEF RemoveAt

(* A user teaches and forgets: only the patterns and the history change.   *)
LEMMA TeachEffect ==
    ASSUME TypeOK, NEW l \in Libraries, NEW file, NEW taught \in Taught, PatternSave(l, file, taught)
    PROVE  /\ patterns' \in PatternLists /\ events' \in 0 .. MaxEvents
           /\ UNCHANGED <<disk, settled, marks, api, rows, ignored, known, linked, scan, warned, reused>>
<1>1. Saved(l, taught) \in Seq(Taught) /\ patterns \in PatternLists
  BY SavedType DEF TypeOK
<1>2. patterns' = [patterns EXCEPT ![l] = Saved(l, taught)]
  BY DEF PatternSave
<1>3. patterns' \in PatternLists
  BY <1>1, <1>2 DEF PatternLists
<1>4. events' \in 0 .. MaxEvents
  BY FolderConstants DEF TypeOK, PatternSave, Event
<1> QED
  BY <1>3, <1>4 DEF PatternSave

LEMMA ForgetEffect ==
    ASSUME TypeOK, NEW l \in Libraries, NEW i \in 1 .. MaxPatterns, PatternDelete(l, i)
    PROVE  /\ patterns' \in PatternLists /\ events' \in 0 .. MaxEvents
           /\ warned' \in [Downloads -> Nat]
           /\ UNCHANGED <<disk, settled, marks, api, rows, ignored, known, linked, scan, reused>>
<1>1. patterns \in PatternLists /\ warned \in [Downloads -> Nat]
  BY DEF TypeOK
<1>2. RemoveAt(patterns[l], i) \in Seq(Taught)
  BY <1>1, RemovedType DEF PatternDelete, PatternLists
<1>3. patterns' \in PatternLists
  BY <1>1, <1>2 DEF PatternDelete, PatternLists
<1>4. events' \in 0 .. MaxEvents
  BY FolderConstants DEF TypeOK, PatternDelete, Event
<1>5. warned' \in [Downloads -> Nat]
  BY <1>1 DEF PatternDelete
<1> QED
  BY <1>3, <1>4, <1>5 DEF PatternDelete

(* What the form proposes and what is written may be taught.               *)
LEMMA Teachable ==
    /\ \A l \in Libraries : Written[l] \subseteq Taught
    /\ \A d \in Downloads : Suggest(Path[d]) \subseteq Taught
<1>1. \A d \in Downloads : Path[d] \in Files
  BY FolderConstants
<1> QED
  BY <1>1, Zenon DEF Taught

LEMMA ProposalIsTaught ==
    ASSUME NEW d \in Downloads, SaveProposal(d)
    PROVE  \E taught \in Taught : PatternSave(LibraryOf[d], Path[d], taught)
BY Teachable DEF SaveProposal

---------------------------------------------------------------------------
(* A set of numbers has a least one.                                       *)
Below == {p \in Nat \X Nat : p[1] < p[2]}

LEMMA LeastIsMin ==
    ASSUME NEW S, S \subseteq Nat, S # {}
    PROVE  Min(S) \in S /\ \A k \in S : Min(S) <= k
<1>1. IsWellFoundedOn(Below, Nat)
  <2>1. Below = OpToRel(<, Nat)
    BY DEF Below, OpToRel
  <2> QED
    BY <2>1, NatLessThanWellFounded
<1>2. PICK x \in S : \A y \in S : <<y, x>> \notin Below
  BY <1>1, WFMin
<1>3. \A y \in S : x <= y
  <2> TAKE y \in S
  <2>1. <<y, x>> \in Nat \X Nat /\ <<y, x>>[1] = y /\ <<y, x>>[2] = x
    OBVIOUS
  <2> QED
    BY <1>2, <2>1 DEF Below
<1> QED
  BY <1>3 DEF Min

(* Whether a pattern tells a name is a matter of its parts.                *)
LEMMA PartsTell ==
    ASSUME NEW p, NEW q, p.parts = q.parts, NEW file
    PROVE  Parse(p, file) = {} <=> Parse(q, file) = {}
BY DEF Parse

(* The built-in rules tell a file or one of the patterns does.             *)
Builtin(file) == ParseName(file[Len(file)])

Result(p, file) == IF Len(p.parts) > 1 /\ Builtin(file) # {} THEN {} ELSE Parse(p, file)

Telling(file, list) == {i \in 1 .. Len(list) : Result(list[i], file) # {}}

LEMMA FirstTells ==
    ASSUME NEW list \in Seq(Taught), NEW file
    PROVE  /\ Telling(file, list) = {} => Read(file, list) = Builtin(file)
           /\ Telling(file, list) # {} =>
                LET i == Min(Telling(file, list)) IN
                /\ i \in Telling(file, list) /\ \A k \in Telling(file, list) : i <= k
                /\ Read(file, list) = Result(list[i], file)
<1> DEFINE results == [i \in DOMAIN list |-> Result(list[i], file)]
           found == {i \in DOMAIN results : results[i] # {}}
<1>1. Read(file, list) = FirstOf(results, Builtin(file))
  BY DEF Read, Result, Builtin
<1>0. DOMAIN list = 1 .. Len(list)
  OBVIOUS
<1>2. found = Telling(file, list) /\ Telling(file, list) \subseteq Nat
  <2>1. found = {i \in DOMAIN list : Result(list[i], file) # {}}
    BY Zenon
  <2> QED
    BY <1>0, <2>1 DEF Telling
<1>3. Telling(file, list) # {} =>
         /\ Min(Telling(file, list)) \in Telling(file, list)
         /\ \A k \in Telling(file, list) : Min(Telling(file, list)) <= k
  BY <1>2, LeastIsMin
<1>4. FirstOf(results, Builtin(file)) = IF found = {} THEN Builtin(file) ELSE results[Min(found)]
  BY DEF FirstOf
<1>5. Telling(file, list) # {} =>
         results[Min(Telling(file, list))] = Result(list[Min(Telling(file, list))], file)
  BY <1>0, <1>3, Zenon DEF Telling
<1> HIDE DEF results, found
<1> QED
  BY <1>1, <1>2, <1>3, <1>4, <1>5

LEMMA ReadIfTold ==
    ASSUME NEW list \in Seq(Taught), NEW file
    PROVE  Read(file, list) # {} <=>
              Builtin(file) # {} \/ \E i \in 1 .. Len(list) : Parse(list[i], file) # {}
<1>1. Telling(file, list) # {} => Read(file, list) # {}
  BY FirstTells DEF Telling
<1>2. Builtin(file) = {} => Telling(file, list) = {i \in 1 .. Len(list) : Parse(list[i], file) # {}}
  BY DEF Telling, Result
<1> QED
  BY <1>1, <1>2, FirstTells

(* The lists there may be, and what each says of a file.                   *)
LEMMA ListType == ASSUME NEW list PROVE list \in Lists <=> list \in Seq(Taught) /\ Len(list) <= MaxPatterns
<1>1. ASSUME list \in Lists PROVE list \in Seq(Taught) /\ Len(list) <= MaxPatterns
  <2>1. PICK n \in 0 .. MaxPatterns : list \in [1 .. n -> Taught]
    BY <1>1 DEF Lists
  <2> QED
    BY <2>1, FolderConstants
<1>2. ASSUME list \in Seq(Taught), Len(list) <= MaxPatterns PROVE list \in Lists
  <2>1. Len(list) \in 0 .. MaxPatterns /\ list \in [1 .. Len(list) -> Taught]
    BY <1>2, FolderConstants
  <2> QED
    BY <2>1 DEF Lists
<1> QED
  BY <1>1, <1>2

LEMMA ReadingIsRead ==
    ASSUME NEW file \in Files, NEW list \in Lists
    PROVE  Reading(file, list) = Read(file, list)
<1>1. PICK of \in Files \X Lists : of = <<file, list>>
  OBVIOUS
<1>2. \E r \in Readings : r.of = <<file, list>>
  <2>1. [of |-> of, issue |-> Read(of[1], of[2])] \in Readings
    BY DEF Readings
  <2> QED
    BY <1>1, <2>1
<1>3. \A r \in Readings : r.of = <<file, list>> => r.issue = Read(file, list)
  BY DEF Readings
<1> QED
  BY <1>2, <1>3 DEF Reading

---------------------------------------------------------------------------
(* A library has so many patterns, no two of the same text.                *)
Distinct(list) == \A i, j \in 1 .. Len(list) : list[i].parts = list[j].parts => i = j

PatternsInv == \A l \in Libraries : patterns[l] \in Lists /\ Distinct(patterns[l])

(* A pattern is saved in the place of that of its text, or at the end.     *)
LEMMA SavedIs ==
    ASSUME TypeOK, NEW l \in Libraries, NEW taught \in Taught
    PROVE  LET list == patterns[l] IN
           /\ list \in Seq(Taught) /\ Saved(l, taught) \in Seq(Taught)
           /\ (\E i \in 1 .. Len(list) : list[i].parts = taught.parts) =>
                /\ Len(Saved(l, taught)) = Len(list)
                /\ \A i \in 1 .. Len(list) :
                      Saved(l, taught)[i] = IF list[i].parts = taught.parts THEN taught ELSE list[i]
           /\ (\A i \in 1 .. Len(list) : list[i].parts # taught.parts) =>
                /\ Len(Saved(l, taught)) = Len(list) + 1
                /\ \A i \in 1 .. Len(list) : Saved(l, taught)[i] = list[i]
                /\ Saved(l, taught)[Len(list) + 1] = taught
<1>1. patterns[l] \in Seq(Taught) /\ DOMAIN patterns[l] = 1 .. Len(patterns[l])
  BY DEF TypeOK, PatternLists
<1>2. Saved(l, taught) \in Seq(Taught)
  BY SavedType DEF TypeOK
<1>3. CASE \E i \in 1 .. Len(patterns[l]) : patterns[l][i].parts = taught.parts
  <2>1. Saved(l, taught) = [i \in 1 .. Len(patterns[l]) |->
                              IF patterns[l][i].parts = taught.parts THEN taught ELSE patterns[l][i]]
    BY <1>1, <1>3 DEF Saved
  <2>2. Len(Saved(l, taught)) = Len(patterns[l])
    BY <1>1, <2>1
  <2> QED
    BY <1>1, <1>2, <1>3, <2>1, <2>2
<1>4. CASE \A i \in 1 .. Len(patterns[l]) : patterns[l][i].parts # taught.parts
  <2>1. Saved(l, taught) = Append(patterns[l], taught)
    BY <1>1, <1>4 DEF Saved
  <2> QED
    BY <1>1, <1>2, <1>4, <2>1
<1> QED
  BY <1>3, <1>4

(* What the patterns tell they tell with one more, or another publication. *)
LEMMA SavedTells ==
    ASSUME TypeOK, NEW l \in Libraries, NEW taught \in Taught, NEW file,
           Read(file, patterns[l]) # {}
    PROVE  Read(file, Saved(l, taught)) # {}
<1> DEFINE list == patterns[l]
           new == Saved(l, taught)
<1>1. list \in Seq(Taught) /\ new \in Seq(Taught)
  BY SavedIs
<1>2. CASE Builtin(file) # {}
  BY <1>1, <1>2, ReadIfTold
<1>3. ASSUME NEW i \in 1 .. Len(list), Parse(list[i], file) # {}
      PROVE  i \in 1 .. Len(new) /\ Parse(new[i], file) # {}
  <2>1. CASE \E k \in 1 .. Len(list) : list[k].parts = taught.parts
    <3>1. i \in 1 .. Len(new) /\ new[i].parts = list[i].parts
      BY <2>1, SavedIs
    <3> QED
      BY <1>3, <3>1, PartsTell
  <2>2. CASE \A k \in 1 .. Len(list) : list[k].parts # taught.parts
    <3>1. Len(new) = Len(list) + 1 /\ new[i] = list[i] /\ Len(list) \in Nat
      BY <1>1, <2>2, SavedIs
    <3> QED
      BY <1>3, <3>1
  <2> QED
    BY <2>1, <2>2
<1> HIDE DEF new
<1> QED
  BY <1>1, <1>2, <1>3, ReadIfTold DEF new

(* One that is deleted leaves the others as they were.                     *)
LEMMA RemovedIs ==
    ASSUME NEW list \in Seq(Taught), NEW i \in 1 .. Len(list)
    PROVE  /\ RemoveAt(list, i) \in Seq(Taught)
           /\ Len(RemoveAt(list, i)) = Len(list) - 1
           /\ \A k \in 1 .. Len(list) - 1 : RemoveAt(list, i)[k] = list[IF k < i THEN k ELSE k + 1]
<1> DEFINE before == SubSeq(list, 1, i - 1)
           after  == SubSeq(list, i + 1, Len(list))
<1>0. Len(list) \in Nat /\ i \in Nat
  OBVIOUS
<1>1. before \in Seq(Taught) /\ Len(before) = i - 1 /\ \A k \in 1 .. i - 1 : before[k] = list[k]
  OBVIOUS
<1>2. after \in Seq(Taught) /\ Len(after) = Len(list) - i
      /\ \A k \in 1 .. Len(list) - i : after[k] = list[k + i]
  OBVIOUS
<1> HIDE DEF before, after
<1>3. before \o after \in Seq(Taught) /\ Len(before \o after) = Len(list) - 1
  BY <1>1, <1>2
<1>4. ASSUME NEW k \in 1 .. Len(list) - 1
      PROVE  (before \o after)[k] = list[IF k < i THEN k ELSE k + 1]
  <2>1. CASE k < i
    BY <1>1, <1>2, <2>1
  <2>2. CASE k >= i
    <3>1. (before \o after)[k] = after[k - (i - 1)]
      BY <1>1, <1>2, <2>2
    <3>2. k - (i - 1) \in 1 .. Len(list) - i
      BY <2>2
    <3>3. after[k - (i - 1)] = list[k - (i - 1) + i]
      BY <1>2, <3>2
    <3>4. k - (i - 1) + i = k + 1 /\ ~(k < i)
      BY <2>2
    <3> QED
      BY <3>1, <3>3, <3>4
  <2>3. k < i \/ k >= i
    BY <1>0
  <2> QED
    BY <2>1, <2>2, <2>3
<1> QED
  BY <1>3, <1>4 DEF RemoveAt, before, after

(* Only teaching and forgetting change the patterns.                       *)
LEMMA PatternSteps ==
    ASSUME [Next]_vars
    PROVE  \/ UNCHANGED patterns
           \/ \E l \in Libraries, taught \in Taught : \E file : PatternSave(l, file, taught)
           \/ \E l \in Libraries, i \in 1 .. MaxPatterns : PatternDelete(l, i)
<1>1. ASSUME Run \/ ApiWrite \/ Restart \/ UNCHANGED vars PROVE UNCHANGED patterns
  BY <1>1 DEF Run, ScanStart, Listed, Prune, Warn, Remember, ForgetRead, ForgetWrite, List,
              InspectRead, InspectClear, InspectRecord, Link, ApiWrite, Restart, vars
<1>2. ASSUME NEW l \in Libraries, ListFails(l) PROVE UNCHANGED patterns
  BY <1>2 DEF ListFails
<1>3. ASSUME NEW l \in Libraries, NEW taught \in Written[l], PatternSave(l, <<>>, taught)
      PROVE  taught \in Taught
  BY <1>3, Teachable
<1>4. ASSUME NEW d \in Downloads,
             \/ Appear(d) \/ Complete(d) \/ Vanish(d) \/ Age(d)
             \/ ApiRead(d) \/ Ignore(d) \/ Unignore(d)
      PROVE  UNCHANGED patterns
  BY <1>4 DEF Appear, Complete, Vanish, Age, ApiRead, Ignore, Unignore
<1>5. ASSUME NEW d \in Downloads, SaveProposal(d)
      PROVE  \E l \in Libraries, taught \in Taught : \E file : PatternSave(l, file, taught)
  BY <1>5, ProposalIsTaught, FolderConstants
<1> QED
  BY <1>1, <1>2, <1>3, <1>4, <1>5 DEF Next

LEMMA PatternsNext == ASSUME TypeOK, PatternsInv, [Next]_vars PROVE PatternsInv'
<1> SUFFICES ASSUME NEW l \in Libraries PROVE patterns'[l] \in Lists /\ Distinct(patterns'[l])
  BY DEF PatternsInv, Distinct
<1>0. /\ patterns[l] \in Lists /\ Distinct(patterns[l]) /\ patterns[l] \in Seq(Taught)
      /\ Len(patterns[l]) <= MaxPatterns /\ Len(patterns[l]) \in Nat
  BY ListType DEF PatternsInv
<1>1. ASSUME NEW m \in Libraries, NEW taught \in Taught, NEW file, PatternSave(m, file, taught)
      PROVE  patterns'[l] \in Lists /\ Distinct(patterns'[l])
  <2>1. CASE l # m
    BY <1>0, <1>1, <2>1 DEF PatternSave, TypeOK, PatternLists
  <2>2. CASE l = m
    <3> DEFINE new == Saved(l, taught)
    <3>1. patterns'[l] = new /\ Len(new) <= MaxPatterns
      BY <1>1, <2>2 DEF PatternSave, TypeOK, PatternLists
    <3>2. new \in Lists
      BY <3>1, SavedIs, ListType
    <3>3. CASE \E i \in 1 .. Len(patterns[l]) : patterns[l][i].parts = taught.parts
      <4>1. /\ Len(new) = Len(patterns[l])
            /\ \A i \in 1 .. Len(patterns[l]) :
                  new[i] = IF patterns[l][i].parts = taught.parts THEN taught ELSE patterns[l][i]
        BY <3>3, SavedIs
      <4> HIDE DEF new
      <4>2. \A i \in 1 .. Len(patterns[l]) : new[i].parts = patterns[l][i].parts
        BY <4>1
      <4>3. Distinct(new)
        BY <1>0, <4>1, <4>2 DEF Distinct
      <4> QED
        BY <3>1, <3>2, <4>3
    <3>4. CASE \A i \in 1 .. Len(patterns[l]) : patterns[l][i].parts # taught.parts
      <4>1. /\ Len(new) = Len(patterns[l]) + 1 /\ new[Len(patterns[l]) + 1] = taught
            /\ \A i \in 1 .. Len(patterns[l]) : new[i] = patterns[l][i]
        BY <3>4, SavedIs
      <4> HIDE DEF new
      <4>2. \A i \in 1 .. Len(new) : i \in 1 .. Len(patterns[l]) \/ i = Len(patterns[l]) + 1
        BY <1>0, <4>1
      <4>3. Distinct(new)
        BY <1>0, <3>4, <4>1, <4>2 DEF Distinct
      <4> QED
        BY <3>1, <3>2, <4>3
    <3> QED
      BY <3>3, <3>4
  <2> QED
    BY <2>1, <2>2
<1>2. ASSUME NEW m \in Libraries, NEW i \in 1 .. MaxPatterns, PatternDelete(m, i)
      PROVE  patterns'[l] \in Lists /\ Distinct(patterns'[l])
  <2>1. CASE l # m
    BY <1>0, <1>2, <2>1 DEF PatternDelete, TypeOK, PatternLists
  <2>2. CASE l = m
    <3> DEFINE new == RemoveAt(patterns[l], i)
    <3>1. patterns'[l] = new /\ i \in 1 .. Len(patterns[l])
      BY <1>0, <1>2, <2>2 DEF PatternDelete, TypeOK, PatternLists
    <3>2. /\ new \in Seq(Taught) /\ Len(new) = Len(patterns[l]) - 1
          /\ \A k \in 1 .. Len(patterns[l]) - 1 : new[k] = patterns[l][IF k < i THEN k ELSE k + 1]
      BY <1>0, <3>1, RemovedIs
    <3> HIDE DEF new
    <3>3. new \in Lists
      BY <1>0, <3>2, ListType, FolderConstants
    <3>4. Distinct(new)
      <4> SUFFICES ASSUME NEW j \in 1 .. Len(new), NEW k \in 1 .. Len(new),
                          new[j].parts = new[k].parts
                   PROVE  j = k
        BY DEF Distinct
      <4> DEFINE from(x) == IF x < i THEN x ELSE x + 1
      <4>0. /\ j \in 1 .. Len(patterns[l]) - 1 /\ k \in 1 .. Len(patterns[l]) - 1
            /\ i \in Nat /\ Len(patterns[l]) \in Nat
        BY <1>0, <3>1, <3>2
      <4>1. /\ from(j) \in 1 .. Len(patterns[l]) /\ from(k) \in 1 .. Len(patterns[l])
            /\ new[j] = patterns[l][from(j)] /\ new[k] = patterns[l][from(k)]
        BY <3>2, <4>0
      <4>2. patterns[l][from(j)].parts = patterns[l][from(k)].parts
        BY <4>1
      <4>3. ASSUME NEW x \in 1 .. Len(patterns[l]), NEW y \in 1 .. Len(patterns[l]),
                   patterns[l][x].parts = patterns[l][y].parts
            PROVE  x = y
        BY <1>0, <4>3 DEF Distinct
      <4> HIDE DEF from
      <4>5. from(j) = from(k)
        BY <4>1, <4>2, <4>3
      <4> QED
        BY <4>0, <4>5 DEF from
    <3> QED
      BY <3>1, <3>3, <3>4
  <2> QED
    BY <2>1, <2>2
<1>3. CASE UNCHANGED patterns
  BY <1>0, <1>3
<1> QED
  BY <1>1, <1>2, <1>3, PatternSteps

(* A file that was read is read otherwise only by what has been taught.    *)
LEMMA TeachingStep ==
    ASSUME TypeOK, PatternsInv, NEW l \in Libraries, NEW file, NEW taught \in Taught,
           IsPattern(taught.parts),
           Read(file, patterns[l]) \notin {{}, Read(file, Saved(l, taught))}
    PROVE  /\ taught \in ToSet(Saved(l, taught)) \ ToSet(patterns[l])
           /\ \/ Len(taught.parts) = 1 /\ Read(file, patterns[l]) = Builtin(file)
              \/ \E q \in ToSet(patterns[l]) :
                    q.parts = taught.parts /\ Parse(q, file) = Read(file, patterns[l])
<1> DEFINE list == patterns[l]
           new  == Saved(l, taught)
<1>0. /\ list \in Seq(Taught) /\ new \in Seq(Taught) /\ Distinct(list) /\ Len(list) \in Nat
      /\ DOMAIN list = 1 .. Len(list) /\ DOMAIN new = 1 .. Len(new)
  BY SavedIs DEF PatternsInv
<1>1. CASE \A i \in 1 .. Len(list) : list[i].parts # taught.parts
  <2>1. /\ Len(new) = Len(list) + 1 /\ new[Len(list) + 1] = taught
        /\ \A i \in 1 .. Len(list) : new[i] = list[i]
    BY <1>1, SavedIs
  <2> HIDE DEF new
  <2>2. taught \in ToSet(new) \ ToSet(list)
    BY <1>0, <1>1, <2>1 DEF ToSet
  <2>3. Telling(file, list) = {}
    <3> SUFFICES ASSUME Telling(file, list) # {} PROVE FALSE
      OBVIOUS
    <3>1. PICK i \in Telling(file, list) :
             i = Min(Telling(file, list)) /\ Read(file, list) = Result(list[i], file)
      BY <1>0, FirstTells
    <3>2. i \in 1 .. Len(list) /\ i \in Telling(file, new) /\ Result(new[i], file) = Result(list[i], file)
      BY <1>0, <2>1 DEF Telling
    <3>3. PICK k \in Telling(file, new) : /\ k = Min(Telling(file, new)) /\ k <= i
                                         /\ Read(file, new) = Result(new[k], file)
      BY <1>0, <3>2, FirstTells
    <3>4. k \in Telling(file, list)
      <4>0. k \in 1 .. Len(new) /\ Result(new[k], file) # {}
        BY Zenon DEF Telling
      <4>1. k \in 1 .. Len(list)
        BY <1>0, <3>2, <3>3, <4>0
      <4>2. new[k] = list[k]
        BY <2>1, <4>1
      <4> QED
        BY <4>0, <4>1, <4>2 DEF Telling
    <3>5. i <= k
      BY <1>0, <3>1, <3>4, FirstTells
    <3>6. k = i
      BY <3>2, <3>3, <3>4, <3>5 DEF Telling
    <3> QED
      BY <3>1, <3>2, <3>3, <3>6 DEF new
  <2>4. Read(file, list) = Builtin(file) /\ Builtin(file) # {}
    BY <1>0, <2>3, FirstTells
  <2>5. Telling(file, new) # {}
    BY <1>0, <2>4, FirstTells DEF new
  <2>6. PICK k \in Telling(file, new) : TRUE
    BY <2>5
  <2>7. k = Len(list) + 1
    <3>1. k \in 1 .. Len(list) + 1 /\ Result(new[k], file) # {}
      BY <1>0, <2>1, <2>6 DEF Telling
    <3>2. ASSUME k \in 1 .. Len(list) PROVE FALSE
      <4>1. new[k] = list[k]
        BY <2>1, <3>2
      <4>2. k \in Telling(file, list)
        BY <3>1, <3>2, <4>1 DEF Telling
      <4> QED
        BY <2>3, <4>2
    <3> QED
      BY <1>0, <3>1, <3>2
  <2>8. ~(Len(taught.parts) > 1)
    BY <2>1, <2>4, <2>6, <2>7 DEF Telling, Result
  <2>9. Len(taught.parts) = 1
    BY <2>8 DEF IsPattern, MaxParts
  <2> QED
    BY <2>2, <2>4, <2>9 DEF new
<1>2. CASE \E i \in 1 .. Len(list) : list[i].parts = taught.parts
  <2>1. /\ Len(new) = Len(list)
        /\ \A i \in 1 .. Len(list) : new[i] = IF list[i].parts = taught.parts THEN taught ELSE list[i]
    BY <1>2, SavedIs
  <2> HIDE DEF new
  <2>2. ASSUME NEW i \in 1 .. Len(list)
        PROVE  Result(new[i], file) = {} <=> Result(list[i], file) = {}
    <3>1. new[i].parts = list[i].parts
      BY <2>1
    <3> QED
      BY <3>1, PartsTell DEF Result
  <2>3. Telling(file, new) = Telling(file, list)
    BY <2>1, <2>2 DEF Telling
  <2>4. Telling(file, list) # {}
    BY <1>0, <2>3, FirstTells DEF new
  <2>5. PICK i \in Telling(file, list) :
           /\ Read(file, list) = Result(list[i], file) /\ Read(file, new) = Result(new[i], file)
    BY <1>0, <2>3, <2>4, FirstTells
  <2>6. i \in 1 .. Len(list) /\ new[i] # list[i] /\ Result(list[i], file) # {}
    BY <2>5 DEF Telling, new
  <2>7. list[i].parts = taught.parts /\ new[i] = taught
    BY <2>1, <2>6
  <2>8. taught \in ToSet(new)
    BY <1>0, <2>1, <2>6, <2>7 DEF ToSet
  <2>9. taught \notin ToSet(list)
    <3> SUFFICES ASSUME NEW j \in 1 .. Len(list), list[j] = taught PROVE FALSE
      BY <1>0 DEF ToSet
    <3>1. j = i
      BY <1>0, <2>6, <2>7 DEF Distinct
    <3> QED
      BY <2>6, <2>7, <3>1
  <2>10. list[i] \in ToSet(list) /\ Parse(list[i], file) = Read(file, list)
    BY <1>0, <2>5, <2>6 DEF ToSet, Result
  <2> QED
    BY <2>7, <2>8, <2>9, <2>10 DEF new
<1> QED
  BY <1>1, <1>2

LEMMA ReadingsStep ==
    ASSUME TypeOK, PatternsInv, [Next]_vars, NEW l \in Libraries, NEW file \in Files,
           Reading(file, patterns[l]) \notin {{}, Reading(file, patterns'[l])},
           Len(patterns'[l]) >= Len(patterns[l])
    PROVE  \E p \in ToSet(patterns'[l]) \ ToSet(patterns[l]) :
              \/ Len(p.parts) = 1 /\ Reading(file, patterns[l]) = ParseName(Last(file))
              \/ \E q \in ToSet(patterns[l]) :
                    q.parts = p.parts /\ Parse(q, file) = Reading(file, patterns[l])
<1>1. Reading(file, patterns[l]) = Read(file, patterns[l])
  BY ReadingIsRead DEF PatternsInv
<1>2. Reading(file, patterns'[l]) = Read(file, patterns'[l])
  BY PatternsNext, ReadingIsRead DEF PatternsInv
<1>3. ASSUME NEW m \in Libraries, NEW taught \in Taught, NEW f, PatternSave(m, f, taught)
      PROVE  l = m /\ IsPattern(taught.parts) /\ patterns'[l] = Saved(l, taught)
  <2>1. patterns' = [patterns EXCEPT ![m] = Saved(m, taught)] /\ IsPattern(taught.parts)
    BY <1>3 DEF PatternSave
  <2>2. l # m => patterns'[l] = patterns[l]
    BY <2>1 DEF TypeOK, PatternLists
  <2> QED
    BY <2>1, <2>2 DEF TypeOK, PatternLists
<1>4. ASSUME NEW m \in Libraries, NEW i \in 1 .. MaxPatterns, PatternDelete(m, i) PROVE FALSE
  <2>1. patterns' = [patterns EXCEPT ![m] = RemoveAt(patterns[m], i)] /\ i \in DOMAIN patterns[m]
    BY <1>4 DEF PatternDelete
  <2>2. l # m => patterns'[l] = patterns[l]
    BY <2>1 DEF TypeOK, PatternLists
  <2>3. patterns[l] \in Seq(Taught) /\ (l = m => patterns'[l] = RemoveAt(patterns[l], i))
    BY <2>1 DEF TypeOK, PatternLists
  <2>4. l = m => Len(patterns'[l]) = Len(patterns[l]) - 1
    BY <2>1, <2>3, RemovedIs
  <2>5. Len(patterns[l]) \in Nat
    BY <2>3
  <2> QED
    BY <2>2, <2>4, <2>5
<1>5. PICK taught \in Taught : IsPattern(taught.parts) /\ patterns'[l] = Saved(l, taught)
  BY <1>3, <1>4, PatternSteps
<1>6. Builtin(file) = ParseName(Last(file))
  BY DEF Builtin, Last
<1>7. /\ taught \in ToSet(Saved(l, taught)) \ ToSet(patterns[l])
      /\ \/ Len(taught.parts) = 1 /\ Read(file, patterns[l]) = Builtin(file)
         \/ \E q \in ToSet(patterns[l]) :
               q.parts = taught.parts /\ Parse(q, file) = Read(file, patterns[l])
  BY <1>1, <1>2, <1>5, TeachingStep
<1> QED
  BY <1>1, <1>5, <1>6, <1>7

---------------------------------------------------------------------------
(* Reading the ignored paths changes nothing else a run knows.             *)
LEMMA ReadEffect ==
    ASSUME TypeOK, NEW d \in Downloads, InspectRead(d)
    PROVE  /\ scan' \in Running /\ scan'.reading = d
           /\ UNCHANGED <<scan.pc, scan.finished, scan.seen, scan.complete, scan.inspect, scan.kept>>
           /\ UNCHANGED patterns
<1> DEFINE ignoring == d \in ignored
<1>1. ignoring \in BOOLEAN /\ scan' = [scan EXCEPT !.reading = d, !.ignoring = ignoring]
  BY DEF InspectRead
<1>2. UNCHANGED patterns
  BY DEF InspectRead
<1> HIDE DEF ignoring
<1> QED
  BY <1>1, <1>2 DEF TypeOK, Running

(* Folder's variables keep their types.                                    *)
LEMMA TypeNext == ASSUME TypeOK, [Next]_vars PROVE TypeOK'
<1> USE FolderConstants, UntaughtType DEF TypeOK, Running, Phases, Idle
<1>1. CASE ScanStart
  BY <1>1 DEF ScanStart
<1>2. CASE Listed
  BY <1>2 DEF Listed, Inspected
<1>3. CASE Prune
  BY <1>3 DEF Prune
<1>4. CASE Warn
  <2>1. warned' \in [Downloads -> Nat]
    BY <1>4 DEF Warn
  <2>2. scan' \in Running /\ UNCHANGED <<scan.inspect, scan.complete, scan.seen, scan.reading>>
    BY <1>4 DEF Warn
  <2>3. scan.inspect = {}
    BY <1>4 DEF Warn
  <2> QED
    BY <1>4, <2>1, <2>2, <2>3 DEF Warn
<1>5. CASE Remember
  <2>1. scan' \in Running /\ UNCHANGED <<scan.inspect, scan.complete, scan.seen, scan.reading>>
    BY <1>5 DEF Remember
  <2>2. scan.inspect = {}
    BY <1>5 DEF Remember
  <2> QED
    BY <1>5, <2>1, <2>2 DEF Remember, Known
<1>6. CASE ForgetRead
  BY <1>6 DEF ForgetRead, Kept
<1>7. CASE ForgetWrite
  BY <1>7 DEF ForgetWrite
<1>8. ASSUME NEW l \in Libraries, List(l) PROVE TypeOK'
  BY ZenonT(40), <1>8 DEF List, In, Finished, Inspected
<1>9. ASSUME NEW d \in Downloads, InspectRead(d) PROVE TypeOK'
  BY <1>9, ReadEffect DEF InspectRead
<1>10. ASSUME NEW d \in Downloads, InspectClear(d) PROVE TypeOK'
  BY <1>10 DEF InspectClear, Cleared
<1>11. ASSUME NEW d \in Downloads, InspectRecord(d) PROVE TypeOK'
  BY ZenonT(40), <1>11 DEF InspectRecord
<1>12. ASSUME NEW d \in Downloads, Link(d) PROVE TypeOK'
  BY <1>12 DEF Link
<1>13. CASE ApiWrite
  BY <1>13 DEF ApiWrite
<1>14. CASE Restart
  BY <1>14 DEF Restart, Event
<1>15. ASSUME NEW l \in Libraries, ListFails(l) PROVE TypeOK'
  BY <1>15 DEF ListFails, Event
<1>16. ASSUME NEW d \in Downloads, Appear(d) PROVE TypeOK'
  BY <1>16 DEF Appear, Event
<1>17. ASSUME NEW d \in Downloads, Complete(d) PROVE TypeOK'
  BY <1>17 DEF Complete
<1>18. ASSUME NEW d \in Downloads, Vanish(d) PROVE TypeOK'
  BY <1>18 DEF Vanish, Event
<1>19. ASSUME NEW d \in Downloads, Age(d) PROVE TypeOK'
  BY <1>19 DEF Age
<1>20. ASSUME NEW d \in Downloads, ApiRead(d) PROVE TypeOK'
  BY <1>20 DEF ApiRead, Event
<1>21. ASSUME NEW d \in Downloads, Ignore(d) \/ Unignore(d) PROVE TypeOK'
  BY <1>21 DEF Ignore, Unignore, Event
<1>23. ASSUME NEW l \in Libraries, NEW taught \in Written[l], PatternSave(l, <<>>, taught) PROVE TypeOK'
  BY <1>23, Teachable, TeachEffect
<1>24. ASSUME NEW d \in Downloads, SaveProposal(d) PROVE TypeOK'
  BY <1>24, ProposalIsTaught, TeachEffect, FolderConstants
<1>25. ASSUME NEW l \in Libraries, NEW i \in 1 .. MaxPatterns, PatternDelete(l, i) PROVE TypeOK'
  BY <1>25, ForgetEffect
<1>22. CASE UNCHANGED vars
  BY <1>22 DEF vars
<1> HIDE DEF TypeOK
<1> QED
  BY <1>1, <1>2, <1>3, <1>4, <1>5, <1>6, <1>7, <1>8, <1>9, <1>10, <1>11, <1>12, <1>13, <1>14,
     <1>15, <1>16, <1>17, <1>18, <1>19, <1>20, <1>21, <1>22, <1>23, <1>24, <1>25 DEF Next, Run
---------------------------------------------------------------------------
(* Neither a call nor a run that forgets brings a mark back, or drops one  *)
(* the other has not seen gone.                                            *)
LEMMA MarksNext == ASSUME TypeOK, MarksInv, [Next]_vars PROVE MarksInv'
<1> USE FolderConstants DEF TypeOK, Running, MarksInv, Idle
<1>1. ASSUME NEW d \in Downloads, ApiRead(d) PROVE MarksInv'
  BY <1>1 DEF ApiRead
<1>2. CASE ApiWrite
  BY <1>2 DEF ApiWrite
<1>3. CASE ForgetRead
  BY <1>3 DEF ForgetRead, Kept
<1>4. CASE ForgetWrite
  BY <1>4 DEF ForgetWrite
<1>5. CASE ScanStart \/ Listed
  <2>1. CASE ScanStart
    BY <2>1 DEF ScanStart
  <2>2. CASE Listed
    <3>1. UNCHANGED <<marks, api>> /\ scan'.kept \in {{}, scan.kept}
      BY <2>2 DEF Listed
    <3> QED
      BY <3>1
  <2> QED
    BY <1>5, <2>1, <2>2
<1>6. CASE Prune \/ Warn \/ Remember
  BY ZenonT(40), <1>6 DEF Prune, Warn, Remember
<1>7. CASE Restart
  BY <1>7 DEF Restart
<1>8. ASSUME NEW l \in Libraries, List(l) \/ ListFails(l) PROVE MarksInv'
  <2>1. UNCHANGED <<marks, api, scan.kept>>
    BY ZenonT(40), <1>8 DEF List, ListFails
  <2> QED
    BY <2>1
<1>9. ASSUME NEW d \in Downloads,
             InspectRead(d) \/ InspectClear(d) \/ InspectRecord(d) \/ Link(d)
      PROVE  MarksInv'
  <2>1. CASE InspectRead(d)
    BY <2>1, ReadEffect DEF InspectRead
  <2>2. CASE InspectClear(d) \/ InspectRecord(d) \/ Link(d)
    BY ZenonT(40), <2>2 DEF InspectClear, InspectRecord, Link
  <2> QED
    BY <1>9, <2>1, <2>2
<1>10. ASSUME NEW d \in Downloads,
              Appear(d) \/ Complete(d) \/ Vanish(d) \/ Age(d) \/ Ignore(d) \/ Unignore(d)
       PROVE  MarksInv'
  BY <1>10 DEF Appear, Complete, Vanish, Age, Ignore, Unignore
<1>12. ASSUME NEW l \in Libraries, NEW taught \in Written[l], PatternSave(l, <<>>, taught) PROVE MarksInv'
  BY <1>12, Teachable, TeachEffect
<1>13. ASSUME NEW d \in Downloads, SaveProposal(d) PROVE MarksInv'
  BY <1>13, ProposalIsTaught, TeachEffect, FolderConstants
<1>14. ASSUME NEW l \in Libraries, NEW i \in 1 .. MaxPatterns, PatternDelete(l, i) PROVE MarksInv'
  BY <1>14, ForgetEffect
<1>11. CASE UNCHANGED vars
  BY <1>11 DEF vars
<1> HIDE DEF TypeOK, MarksInv
<1> QED
  BY <1>1, <1>2, <1>3, <1>4, <1>5, <1>6, <1>7, <1>8, <1>9, <1>10, <1>11, <1>12,
     <1>13, <1>14 DEF Next, Run

(* A step that only forgets keeps CountsInv.                               *)
LEMMA CountsShrink ==
    ASSUME CountsInv, UNCHANGED <<disk, api, reused>>, marks' \subseteq marks,
           scan'.finished \subseteq scan.finished, scan'.complete \subseteq scan.complete
    PROVE  CountsInv'
  BY DEF CountsInv, Counts

(* What is unfinished counts as finished only under a name that was used   *)
(* before.                                                                 *)
LEMMA CountsNext == ASSUME TypeOK, MarksInv, CountsInv, [Next]_vars PROVE CountsInv'
<1> DEFINE Shrinks ==
        /\ UNCHANGED <<disk, api, reused>> /\ marks' \subseteq marks
        /\ scan'.finished \subseteq scan.finished /\ scan'.complete \subseteq scan.complete
<1>0. Shrinks => CountsInv'
  BY CountsShrink
<1> USE DEF TypeOK, Running, Idle
<1>1. ASSUME NEW d \in Downloads, Appear(d) PROVE CountsInv'
  BY <1>1 DEF Appear, CountsInv, Counts, Unfinished
<1>2. ASSUME NEW d \in Downloads, ApiRead(d) PROVE CountsInv'
  BY <1>2 DEF ApiRead, CountsInv, Counts, Unfinished
<1>3. CASE ApiWrite
  BY <1>3, FolderConstants DEF ApiWrite, CountsInv, Counts, Unfinished
<1>4. ASSUME NEW l \in Libraries, List(l) PROVE CountsInv'
  <2>1. /\ UNCHANGED <<disk, marks, api, reused>> /\ scan'.finished = scan.finished
        /\ \A d \in scan'.complete \ scan.complete : Finished(d, scan.finished)
    BY <1>4 DEF List
  <2> QED
    BY <2>1 DEF Finished, CountsInv, Counts, Unfinished
<1>5. CASE ScanStart
  BY <1>5 DEF ScanStart, CountsInv, Counts, Unfinished
<1>6. CASE Listed
  <2>1. Shrinks
    BY <1>6 DEF Listed
  <2> QED
    BY <1>0, <2>1
<1>7. CASE Prune \/ Warn \/ Remember
  <2>1. Shrinks
    BY <1>7 DEF Prune, Warn, Remember
  <2> QED
    BY <1>0, <2>1
<1>8. CASE ForgetRead \/ ForgetWrite
  <2>1. CASE ForgetRead
    <3>1. Shrinks
      BY <2>1 DEF ForgetRead
    <3> QED
      BY <1>0, <3>1
  <2>2. CASE ForgetWrite
    <3>1. Shrinks
      BY <2>2 DEF ForgetWrite, MarksInv
    <3> QED
      BY <1>0, <3>1
  <2> QED
    BY <1>8, <2>1, <2>2
<1>9. CASE Restart
  BY <1>9, FolderConstants DEF Restart, CountsInv, Counts, Unfinished
<1>10. ASSUME NEW l \in Libraries, ListFails(l) PROVE CountsInv'
  <2>1. Shrinks
    BY <1>10 DEF ListFails
  <2> QED
    BY <1>0, <2>1
<1>11. ASSUME NEW d \in Downloads,
              InspectRead(d) \/ InspectClear(d) \/ InspectRecord(d) \/ Link(d)
       PROVE  CountsInv'
  <2>1. CASE InspectRead(d)
    BY <1>0, <2>1, ReadEffect DEF InspectRead
  <2>2. CASE InspectClear(d) \/ InspectRecord(d) \/ Link(d)
    <3>1. Shrinks
      <4>1. CASE InspectClear(d)
        BY <4>1 DEF InspectClear
      <4>2. CASE InspectRecord(d)
        BY <4>2 DEF InspectRecord
      <4>3. CASE Link(d)
        BY <4>3 DEF Link
      <4> QED
        BY <2>2, <4>1, <4>2, <4>3
    <3> QED
      BY <1>0, <3>1
  <2> QED
    BY <1>11, <2>1, <2>2
<1>12. ASSUME NEW d \in Downloads,
              Complete(d) \/ Vanish(d) \/ Age(d) \/ Ignore(d) \/ Unignore(d)
       PROVE  CountsInv'
  BY <1>12 DEF Complete, Vanish, Age, Ignore, Unignore, CountsInv, Counts, Unfinished
<1>14. ASSUME NEW l \in Libraries, NEW taught \in Written[l], PatternSave(l, <<>>, taught) PROVE CountsInv'
  BY <1>14, Teachable, TeachEffect DEF CountsInv, Counts
<1>15. ASSUME NEW d \in Downloads, SaveProposal(d) PROVE CountsInv'
  BY <1>15, ProposalIsTaught, TeachEffect, FolderConstants DEF CountsInv, Counts
<1>16. ASSUME NEW l \in Libraries, NEW i \in 1 .. MaxPatterns, PatternDelete(l, i) PROVE CountsInv'
  BY <1>16, ForgetEffect DEF CountsInv, Counts
<1>13. CASE UNCHANGED vars
  BY <1>13 DEF vars, CountsInv, Counts
<1> HIDE DEF TypeOK
<1> QED
  BY <1>1, <1>2, <1>3, <1>4, <1>5, <1>6, <1>7, <1>8, <1>9, <1>10, <1>11, <1>12, <1>13,
     <1>14, <1>15, <1>16 DEF Next, Run

(* Only Link links, and only what counts.                                  *)
LEMMA LinkedNext == ASSUME TypeOK, CountsInv, LinkedIsFinished, [Next]_vars PROVE LinkedIsFinished'
<1> USE FolderConstants DEF TypeOK, LinkedIsFinished
<1>1. ASSUME NEW d \in Downloads, Link(d) PROVE LinkedIsFinished'
  BY <1>1 DEF Link, Phases, CountsInv, Counts, Unfinished
<1>2. ASSUME NEW d \in Downloads, Appear(d) PROVE LinkedIsFinished'
  BY <1>2 DEF Appear
<1>3. ASSUME UNCHANGED <<linked, reused>> PROVE LinkedIsFinished'
  BY <1>3
<1>4. CASE Run /\ ~\E d \in Downloads : Link(d)
  <2>1. UNCHANGED <<linked, reused>>
    BY <1>4 DEF Run, ScanStart, Listed, Prune, Warn, Remember, ForgetRead, ForgetWrite, List,
                InspectRead, InspectClear, InspectRecord
  <2> QED
    BY <1>3, <2>1
<1>5. CASE ApiWrite \/ Restart \/ \E l \in Libraries : ListFails(l)
  BY <1>3, <1>5 DEF ApiWrite, Restart, ListFails
<1>6. ASSUME NEW d \in Downloads,
             \/ Complete(d) \/ Vanish(d) \/ Age(d) \/ ApiRead(d) \/ Ignore(d) \/ Unignore(d)
      PROVE  LinkedIsFinished'
  BY <1>3, <1>6 DEF Complete, Vanish, Age, ApiRead, Ignore, Unignore
<1>8. ASSUME NEW l \in Libraries, NEW taught \in Written[l], PatternSave(l, <<>>, taught) PROVE LinkedIsFinished'
  BY <1>3, <1>8, Teachable, TeachEffect
<1>9. ASSUME NEW d \in Downloads, SaveProposal(d) PROVE LinkedIsFinished'
  BY <1>3, <1>9, ProposalIsTaught, TeachEffect, FolderConstants
<1>10. ASSUME NEW l \in Libraries, NEW i \in 1 .. MaxPatterns, PatternDelete(l, i) PROVE LinkedIsFinished'
  BY <1>3, <1>10, ForgetEffect
<1>7. CASE UNCHANGED vars
  BY <1>7 DEF vars
<1> HIDE DEF TypeOK, LinkedIsFinished
<1> QED
  BY <1>1, <1>2, <1>4, <1>5, <1>6, <1>7, <1>8, <1>9, <1>10 DEF Next, Run

---------------------------------------------------------------------------
(* Warnings, file by file.  A file is quiet when no run may warn about it. *)
Told(d, lists) == Reading(Path[d], lists[LibraryOf[d]]) # {}
Quiet(d) == d \in ignored \/ disk[d] = "none" \/ Told(d, patterns)
Silent(d) == warned[d] = 0 \/ Quiet(d)

(* What the state will say is known.                                       *)
ToBeKnown(d) == IF scan.pc = "remember" THEN d \in scan.current ELSE d \in known

(* The run may still record the file.                                      *)
Recordable(d) ==
    /\ scan.pc = "list" /\ ~Told(d, scan.patterns)
    /\ \/ LibraryOf[d] \in scan.todo /\ disk[d] # "none" /\ d \notin ignored
       \/ d \in scan.inspect /\ scan.reading # d /\ d \notin ignored
       \/ scan.reading = d /\ ~scan.ignoring

(* What a run has not seen, and is to prune, has no warning, or is gone.   *)
GoneIsQuiet(d) ==
    scan.pc \in {"list", "link"} /\ LibraryOf[d] \in scan.scanned /\ d \notin scan.seen =>
        warned[d] = 0 \/ disk[d] = "none"

(* A file that was warned about, and is not quiet, is known by its row.    *)
WarnedIsKnown(d) ==
    ~Silent(d) => (d \in rows \/ (scan.reading = d /\ scan.cleared)) /\ ToBeKnown(d)

(* A row of one that was warned about is known, and one that may come is.  *)
RowIsKnown(d) ==
    warned[d] # 0 => (d \in rows => ToBeKnown(d)) /\ (Recordable(d) => d \in known)

(* A run that will not write a row again knows why.                        *)
LeftOut(d) ==
    scan.pc = "list" /\ (Told(d, scan.patterns) \/ (scan.reading = d /\ scan.ignoring)) => Silent(d)

WarningInv(d) ==
    warned[d] <= 1 /\ GoneIsQuiet(d) /\ WarnedIsKnown(d) /\ RowIsKnown(d) /\ LeftOut(d)

(* What a name tells it goes on telling when another is taught.            *)
LEMMA ToldStays ==
    ASSUME TypeOK, PatternsInv, NEW d \in Downloads, Told(d, patterns),
           NEW l \in Libraries, NEW taught \in Taught, NEW file, PatternSave(l, file, taught)
    PROVE  Told(d, patterns')
<1> DEFINE m == LibraryOf[d]
           f == Path[d]
<1>1. m \in Libraries /\ f \in Files
  BY FolderConstants
<1>2. patterns[m] \in Lists /\ patterns'[m] \in Lists
  <2>1. m # l => patterns'[m] = patterns[m]
    BY <1>1 DEF PatternSave, TypeOK, PatternLists
  <2>2. m = l => patterns'[m] = Saved(m, taught) /\ Len(Saved(m, taught)) <= MaxPatterns
    BY <1>1 DEF PatternSave, TypeOK, PatternLists
  <2>3. m = l => patterns'[m] \in Lists
    BY <1>1, <2>2, SavedIs, ListType
  <2> QED
    BY <1>1, <2>1, <2>3 DEF PatternsInv
<1>3. Reading(f, patterns[m]) = Read(f, patterns[m]) /\ Reading(f, patterns'[m]) = Read(f, patterns'[m])
  BY <1>1, <1>2, ReadingIsRead
<1>4. patterns'[m] = IF m = l THEN Saved(m, taught) ELSE patterns[m]
  BY <1>1 DEF PatternSave, TypeOK, PatternLists
<1>5. Read(f, Saved(m, taught)) # {}
  BY <1>1, <1>3, SavedTells DEF Told
<1> QED
  BY <1>3, <1>4, <1>5 DEF Told

(* No step of the run, of a handler or of the client makes a second        *)
(* warning possible.                                                       *)
LEMMA WarningNext ==
    ASSUME TypeOK, PatternsInv, [Next]_vars, NEW d \in Downloads, WarningInv(d)
    PROVE  WarningInv(d)'
<1>0. /\ d # None /\ LibraryOf[d] \in Libraries
      /\ warned \in [Downloads -> Nat] /\ disk \in [Downloads -> Phases]
      /\ scan.reading = d => d \in scan.inspect
      /\ scan.reading \notin {None} => scan.pc = "list"
      /\ scan.inspect # {} => scan.pc = "list"
  BY FolderConstants DEF TypeOK
<1>a. DOMAIN scan = {"pc", "finished", "todo", "scanned", "seen", "complete", "inspect", "reading",
                     "ignoring", "cleared", "current", "kept", "patterns"}
  BY DEF TypeOK, Running
<1> USE DEF WarningInv, GoneIsQuiet, WarnedIsKnown, RowIsKnown, LeftOut, Silent, Quiet, Recordable,
            ToBeKnown
<1> HIDE DEF Told
<1>1. CASE ScanStart
  <2>1. /\ scan'.pc = "list" /\ scan.pc = "idle" /\ scan'.patterns = patterns
        /\ scan'.scanned = {} /\ scan'.inspect = {} /\ scan'.reading = None
        /\ UNCHANGED <<disk, patterns, rows, ignored, known, warned>>
    BY <1>1 DEF ScanStart, Idle
  <2> QED
    BY <1>0, <2>1
<1>2. CASE Listed
  <2>1. /\ scan.pc = "list" /\ scan'.pc \in {"idle", "link"} /\ scan.reading = None /\ scan'.reading = None
        /\ scan'.pc = "link" => scan'.scanned = scan.scanned /\ scan'.seen = scan.seen
        /\ UNCHANGED <<disk, patterns, rows, ignored, known, warned>>
    BY <1>2, <1>a DEF Listed, Idle, Inspected
  <2> QED
    BY <1>0, <2>1
<1>3. CASE Prune
  <2>1. /\ scan.pc = "link" /\ scan'.pc = "warn"
        /\ scan'.reading = scan.reading
        /\ rows' = rows \ Gone /\ ignored' = ignored \ Gone
        /\ d \in Gone <=> LibraryOf[d] \in scan.scanned /\ d \notin scan.seen
        /\ UNCHANGED <<disk, patterns, known, warned>>
    BY <1>3, <1>a DEF Prune, Gone
  <2> HIDE DEF Gone
  <2> QED
    BY <1>0, <2>1
<1>4. CASE Warn
  <2>1. /\ scan.pc = "warn" /\ scan'.pc = "remember" /\ scan'.current = rows
        /\ scan'.reading = scan.reading
        /\ warned'[d] = IF d \in rows \ known THEN warned[d] + 1 ELSE warned[d]
        /\ UNCHANGED <<disk, patterns, rows, ignored, known>>
    BY <1>4, <1>a DEF Warn
  <2> QED
    BY <1>0, <2>1
<1>5. CASE Remember
  <2>1. /\ scan.pc = "remember" /\ scan'.pc = "forget" /\ known' = scan.current
        /\ scan'.reading = scan.reading
        /\ UNCHANGED <<disk, patterns, rows, ignored, warned>>
    BY <1>5, <1>a DEF Remember, Known
  <2> QED
    BY <1>0, <2>1
<1>6. CASE ForgetRead \/ ForgetWrite
  <2>1. scan.pc \in {"forget", "write"} /\ scan'.pc \in {"idle", "write"}
    <3>1. CASE ForgetRead
      BY <3>1, <1>a DEF ForgetRead, Idle
    <3>2. CASE ForgetWrite
      BY <3>2 DEF ForgetWrite, Idle
    <3> QED
      BY <1>6, <3>1, <3>2
  <2>2. UNCHANGED <<disk, patterns, rows, ignored, known, warned>>
    BY <1>6 DEF ForgetRead, ForgetWrite
  <2> QED
    BY <1>0, <2>1, <2>2
<1>7. ASSUME NEW l \in Libraries, List(l) PROVE WarningInv(d)'
  <2>1. /\ scan.pc = "list" /\ scan.reading = None /\ l \in scan.todo
        /\ scan'.todo = scan.todo \ {l} /\ scan'.scanned = scan.scanned \cup {l}
        /\ scan'.seen = scan.seen \cup In(l) /\ scan'.inspect \subseteq In(l)
        /\ UNCHANGED <<scan.pc, scan.reading, scan.ignoring, scan.patterns>>
        /\ UNCHANGED <<disk, patterns, rows, ignored, known, warned>>
    BY <1>7, <1>a DEF List, Inspected
  <2>2. d \in In(l) <=> LibraryOf[d] = l /\ disk[d] # "none"
    BY DEF In
  <2> QED
    BY <1>0, <2>1, <2>2
<1>8. ASSUME NEW l \in Libraries, ListFails(l) PROVE WarningInv(d)'
  <2>1. /\ scan'.todo = scan.todo \ {l}
        /\ UNCHANGED <<scan.pc, scan.patterns, scan.scanned, scan.seen, scan.inspect, scan.reading,
                       scan.ignoring, scan.cleared, scan.current>>
        /\ UNCHANGED <<disk, patterns, rows, ignored, known, warned>>
    BY <1>8, <1>a DEF ListFails
  <2> QED
    BY <1>0, <2>1
<1>9. ASSUME NEW e \in Downloads, InspectRead(e) PROVE WarningInv(d)'
  <2>1. /\ e \in scan.inspect /\ scan.reading = None
        /\ scan'.reading = e /\ (scan'.ignoring <=> e \in ignored)
        /\ UNCHANGED <<scan.pc, scan.patterns, scan.todo, scan.scanned, scan.seen, scan.inspect,
                       scan.cleared, scan.current>>
        /\ UNCHANGED <<disk, patterns, rows, ignored, known, warned>>
    BY <1>9, <1>a DEF InspectRead
  <2> QED
    BY <1>0, <2>1
<1>10. ASSUME NEW e \in Downloads, InspectClear(e) PROVE WarningInv(d)'
  <2>1. /\ scan.reading = e /\ ~scan.cleared /\ scan'.cleared = TRUE /\ rows' = rows \ {e}
        /\ UNCHANGED <<scan.pc, scan.patterns, scan.todo, scan.scanned, scan.seen, scan.inspect,
                       scan.reading, scan.ignoring, scan.current>>
        /\ UNCHANGED <<disk, patterns, ignored, known, warned>>
    BY <1>10, <1>a DEF InspectClear, Cleared
  <2> QED
    BY <1>0, <2>1
<1>11. ASSUME NEW e \in Downloads, InspectRecord(e) PROVE WarningInv(d)'
  <2>1. /\ scan.reading = e /\ scan'.reading = None /\ scan'.inspect = scan.inspect \ {e}
        /\ UNCHANGED <<scan.pc, scan.patterns, scan.todo, scan.scanned, scan.seen, scan.current>>
        /\ UNCHANGED <<disk, patterns, ignored, known, warned>>
    BY <1>11, <1>a DEF InspectRecord
  <2>5. /\ Told(e, scan.patterns) \/ scan.ignoring => rows' = rows
        /\ ~Told(e, scan.patterns) /\ ~scan.ignoring => rows' = rows \cup {e}
    <3>1. /\ Reading(Path[e], scan.patterns[LibraryOf[e]]) # {} => rows' = rows
          /\ scan.ignoring => rows' = rows
          /\ Reading(Path[e], scan.patterns[LibraryOf[e]]) = {} /\ ~scan.ignoring => rows' = rows \cup {e}
      BY <1>11 DEF InspectRecord
    <3> QED
      BY <3>1, Zenon DEF Told
  <2>2. scan.pc = "list"
    BY <1>0, <2>1, FolderConstants
  <2>3. CASE d = e
    BY <1>0, <2>1, <2>2, <2>3, <2>5
  <2>4. CASE d # e
    BY <1>0, <2>1, <2>2, <2>4, <2>5
  <2> QED
    BY <2>3, <2>4
<1>12. ASSUME NEW e \in Downloads, Link(e) PROVE WarningInv(d)'
  <2>1. /\ scan.pc = "link"
        /\ UNCHANGED <<scan.pc, scan.scanned, scan.seen, scan.reading>>
        /\ UNCHANGED <<disk, patterns, rows, ignored, known, warned>>
    BY <1>12, <1>a DEF Link
  <2> QED
    BY <1>0, <2>1
<1>13. CASE Restart
  <2>1. /\ scan'.pc = "idle" /\ scan'.reading = None
        /\ warned'[d] = IF WarnedAgain(d) THEN 0 ELSE warned[d]
        /\ UNCHANGED <<disk, patterns, rows, ignored, known>>
    BY <1>13 DEF Restart, Idle
  <2> QED
    BY <1>0, <2>1 DEF WarnedAgain
<1>14. ASSUME NEW e \in Downloads, Appear(e) PROVE WarningInv(d)'
  <2>1. /\ warned'[e] = 0 /\ (d # e => warned'[d] = warned[d] /\ disk'[d] = disk[d])
        /\ UNCHANGED <<patterns, rows, ignored, known, scan>>
    BY <1>0, <1>14 DEF Appear
  <2> QED
    BY <1>0, <2>1
<1>15. ASSUME NEW e \in Downloads, Complete(e) \/ Vanish(e) \/ Age(e) PROVE WarningInv(d)'
  <2>1. /\ disk[d] = "none" => disk'[d] = "none"
        /\ UNCHANGED <<patterns, rows, ignored, known, scan, warned>>
    BY <1>0, <1>15 DEF Complete, Vanish, Age
  <2> QED
    BY <1>0, <2>1
<1>16. ASSUME NEW e \in Downloads, Ignore(e) PROVE WarningInv(d)'
  <2>1. /\ rows' = rows \ {e} /\ ignored' = ignored \cup {e}
        /\ UNCHANGED <<disk, patterns, known, scan, warned>>
    BY <1>16 DEF Ignore
  <2> QED
    BY <1>0, <2>1
<1>17. ASSUME NEW e \in Downloads, Unignore(e) PROVE WarningInv(d)'
  <2>1. /\ ignored' = ignored \ {e} /\ warned'[e] = 0 /\ (d # e => warned'[d] = warned[d])
        /\ UNCHANGED <<disk, patterns, rows, known, scan>>
    BY <1>0, <1>17 DEF Unignore
  <2> QED
    BY <1>0, <2>1
<1>18. ASSUME ApiWrite \/ (\E e \in Downloads : ApiRead(e)) \/ UNCHANGED vars PROVE WarningInv(d)'
  <2>1. UNCHANGED <<disk, patterns, rows, ignored, known, scan, warned>>
    BY <1>18 DEF ApiWrite, ApiRead, vars
  <2> QED
    BY <2>1
<1>19. ASSUME NEW l \in Libraries, NEW taught \in Taught, NEW file, PatternSave(l, file, taught)
       PROVE  WarningInv(d)'
  <2>1. UNCHANGED <<disk, rows, ignored, known, scan, warned>>
    BY <1>19, TeachEffect
  <2>2. Told(d, patterns) => Told(d, patterns')
    BY <1>19, ToldStays
  <2> QED
    BY <1>0, <2>1, <2>2
<1>20. ASSUME NEW l \in Libraries, NEW i \in 1 .. MaxPatterns, PatternDelete(l, i) PROVE WarningInv(d)'
  <2>1. UNCHANGED <<disk, rows, ignored, known, scan>>
    BY <1>20, ForgetEffect
  <2>2. /\ warned'[d] = IF LibraryOf[d] = l /\ Told(d, patterns) THEN 0 ELSE warned[d]
        /\ LibraryOf[d] # l => patterns'[LibraryOf[d]] = patterns[LibraryOf[d]]
    BY <1>0, <1>20 DEF PatternDelete, Told, TypeOK, PatternLists
  <2>3. LibraryOf[d] # l /\ Told(d, patterns) => Told(d, patterns')
    BY <2>2 DEF Told
  <2> QED
    BY <1>0, <2>1, <2>2, <2>3
<1>21. ASSUME NEW e \in Downloads, SaveProposal(e) PROVE WarningInv(d)'
  BY <1>19, <1>21, ProposalIsTaught, FolderConstants
<1>22. ASSUME NEW l \in Libraries, NEW taught \in Written[l], PatternSave(l, <<>>, taught)
       PROVE  WarningInv(d)'
  BY <1>19, <1>22, Teachable
<1> HIDE DEF WarningInv
<1> QED
  BY <1>1, <1>2, <1>3, <1>4, <1>5, <1>6, <1>7, <1>8, <1>9, <1>10, <1>11, <1>12, <1>13, <1>14, <1>15,
     <1>16, <1>17, <1>18, <1>20, <1>21, <1>22 DEF Next, Run

---------------------------------------------------------------------------
(* Theorems.                                                               *)

WarningsInv == \A d \in Downloads : WarningInv(d)

FInv == TypeOK /\ MarksInv /\ CountsInv /\ LinkedIsFinished /\ PatternsInv /\ WarningsInv

LEMMA FolderStart == Init => FInv
<1> SUFFICES ASSUME Init PROVE FInv
  OBVIOUS
<1>1. TypeOK /\ MarksInv /\ CountsInv /\ LinkedIsFinished
  BY FolderConstants, UntaughtType DEF Init, Idle, TypeOK, Running, Phases, MarksInv, CountsInv, Counts,
                                       Unfinished, LinkedIsFinished
<1>2. PatternsInv
  <2> SUFFICES ASSUME NEW l \in Libraries PROVE patterns[l] \in Lists /\ Distinct(patterns[l])
    BY DEF PatternsInv
  <2>1. patterns[l] = <<>>
    BY DEF Init, Untaught
  <2>2. patterns[l] \in Seq(Taught) /\ Len(patterns[l]) = 0
    BY <2>1
  <2>3. Distinct(patterns[l])
    BY <2>2 DEF Distinct
  <2> QED
    BY <2>2, <2>3, ListType, FolderConstants
<1>3. WarningsInv
  <2> SUFFICES ASSUME NEW d \in Downloads PROVE WarningInv(d)
    BY DEF WarningsInv
  <2>1. warned[d] = 0 /\ scan.pc = "idle"
    BY DEF Init, Idle
  <2> QED
    BY <2>1 DEF WarningInv, GoneIsQuiet, WarnedIsKnown, RowIsKnown, LeftOut, Silent
<1> QED
  BY <1>1, <1>2, <1>3 DEF FInv

(* The parts together are inductive.                                       *)
LEMMA FolderInductive == Spec => []FInv
<1>1. FInv /\ [Next]_vars => FInv'
  BY TypeNext, MarksNext, CountsNext, LinkedNext, PatternsNext, WarningNext DEF FInv, WarningsInv
<1> QED
  BY <1>1, FolderStart, PTL DEF Spec

(* The variables of folder mode keep their types (scan_once's locals and   *)
(* the tables it shares with the handlers).                                *)
THEOREM TypeCorrect == Spec => []TypeOK
<1>1. FInv => TypeOK
  BY DEF FInv
<1> QED
  BY <1>1, FolderInductive, PTL

(* However calls, scans, restarts and downloads interleave, what is linked *)
(* unfinished bears a name that an older mark spoke for                    *)
(* (FolderSource.downloads, _folder_api_scan, _forget_api_finished).       *)
THEOREM OnlyFinishedIsLinked == Spec => []LinkedIsFinished
<1>1. FInv => LinkedIsFinished
  BY DEF FInv
<1> QED
  BY <1>1, FolderInductive, PTL

(* A user is warned once about a file, however ignoring, teaching and runs *)
(* interleave (_warn_new_unmatched, prune_unmatched, clear_unmatched_for). *)
THEOREM WarnedOnlyOnce == Spec => []WarnedOnce
<1>1. FInv => WarnedOnce
  BY DEF FInv, WarningsInv, WarningInv, WarnedOnce
<1> QED
  BY <1>1, FolderInductive, PTL

(* Teaching names leaves what was read as it was, whatever rules the two   *)
(* patterns are: but for one of one part before the built-in rules, and a  *)
(* pattern that is taught anew (Scanner._parse, add_name_pattern).         *)
THEOREM TeachingKeepsReadings == Spec => ReadingsStay
<1>1. FInv => TypeOK /\ PatternsInv
  BY DEF FInv
<1>2. ASSUME TypeOK, PatternsInv, [Next]_vars
      PROVE  \A l \in Libraries, file \in Files :
                LET before == Reading(file, patterns[l])
                    added == ToSet(patterns'[l]) \ ToSet(patterns[l])
                IN  before \notin {{}, Reading(file, patterns'[l])} /\ Len(patterns'[l]) >= Len(patterns[l]) =>
                      \E p \in added :
                          \/ Len(p.parts) = 1 /\ before = ParseName(Last(file))
                          \/ \E q \in ToSet(patterns[l]) : q.parts = p.parts /\ Parse(q, file) = before
  BY <1>2, ReadingsStep
<1> QED
  BY <1>1, <1>2, FolderInductive, PTL DEF Spec, ReadingsStay

---------------------------------------------------------------------------
(* A run ends.                                                             *)

(* A run lists the libraries one by one, links, warns, remembers, forgets. *)
Part ==
    IF scan.pc = "list" THEN 6 + Cardinality(scan.todo)
    ELSE IF scan.pc = "link" THEN 5 ELSE IF scan.pc = "warn" THEN 4
    ELSE IF scan.pc = "remember" THEN 3 ELSE IF scan.pc = "forget" THEN 2 ELSE 1

(* What waits in this part, and what is still to be done with the one      *)
(* that no longer waits.                                                   *)
Waiting == IF scan.pc = "list" THEN scan.inspect \ {scan.reading} ELSE scan.complete

Place == IF scan.reading = None THEN 0 ELSE IF scan.cleared THEN 1 ELSE 2

Parts == 6 + Cardinality(Libraries)
Most == 3 * Cardinality(Downloads) + 2

StepsLeft ==
    IF scan.pc = "idle" THEN 0
    ELSE (Most + 1) * Part + 3 * Cardinality(Waiting) + Place

(* A run takes no more steps than these.                                   *)
Longest == (Parts + 1) * (Most + 1)

(* A step of a run brings it nearer to its end, and nobody else's sets it  *)
(* back.                                                                   *)
RunsGetOn ==
    [][scan.pc # "idle" => \/ StepsLeft' < StepsLeft
                           \/ StepsLeft' = StepsLeft /\ ~Run]_vars

Waitings == SUBSET Downloads

LEMMA Sizes ==
    /\ Most \in Nat
    /\ \A S \in Waitings : Cardinality(S) \in Nat /\ 3 * Cardinality(S) + 2 <= Most
<1>1. Cardinality(Downloads) \in Nat
  BY FolderConstants, FS_CardinalityType
<1>2. ASSUME NEW S \in SUBSET Downloads
      PROVE  Cardinality(S) \in Nat /\ Cardinality(S) <= Cardinality(Downloads)
  BY FolderConstants, FS_Subset, FS_CardinalityType
<1> QED
  BY <1>1, <1>2 DEF Most, Waitings

LEMMA OneLess ==
    ASSUME NEW S \in Waitings, NEW x \in S
    PROVE  Cardinality(S \ {x}) = Cardinality(S) - 1
<1>1. IsFiniteSet(S)
  BY FolderConstants, FS_Subset DEF Waitings
<1> QED
  BY <1>1, FS_RemoveElement, FS_CardinalityType

LEMMA Numbers ==
    /\ Parts \in Nat
    /\ \A S \in SUBSET Libraries :
          /\ Cardinality(S) \in Nat /\ 6 + Cardinality(S) <= Parts
          /\ \A x \in S : Cardinality(S \ {x}) = Cardinality(S) - 1
<1>1. Cardinality(Libraries) \in Nat
  BY FolderConstants, FS_CardinalityType
<1>2. ASSUME NEW S \in SUBSET Libraries
      PROVE  IsFiniteSet(S) /\ Cardinality(S) \in Nat /\ Cardinality(S) <= Cardinality(Libraries)
  BY FolderConstants, FS_Subset, FS_CardinalityType
<1>3. ASSUME NEW S \in SUBSET Libraries, NEW x \in S
      PROVE  Cardinality(S \ {x}) = Cardinality(S) - 1
  BY <1>2, FS_RemoveElement, FS_CardinalityType
<1> QED
  BY <1>1, <1>2, <1>3 DEF Parts

LEMMA PartTypes ==
    /\ TypeOK => Part \in 1 .. Parts /\ Place \in 0 .. 2 /\ Waiting \in Waitings
    /\ TypeOK' => Part' \in 1 .. Parts /\ Place' \in 0 .. 2 /\ Waiting' \in Waitings
<1>1. ASSUME TypeOK PROVE Part \in 1 .. Parts /\ Place \in 0 .. 2 /\ Waiting \in Waitings
  <2>1. scan.todo \in SUBSET Libraries /\ scan.inspect \in SUBSET Downloads /\ scan.complete \in SUBSET Downloads
    BY <1>1 DEF TypeOK, Running
  <2>2. PICK n \in Nat : n = Cardinality(scan.todo)
    BY <2>1, Numbers
  <2>3. Parts \in Nat /\ 6 <= Parts /\ 6 + n <= Parts
    BY <2>1, <2>2, Numbers
  <2>4. Part \in 1 .. Parts
    BY <2>2, <2>3 DEF Part
  <2> QED
    BY <2>1, <2>4 DEF Place, Waiting, Waitings
<1>2. ASSUME TypeOK' PROVE Part' \in 1 .. Parts /\ Place' \in 0 .. 2 /\ Waiting' \in Waitings
  <2>1. scan'.todo \in SUBSET Libraries /\ scan'.inspect \in SUBSET Downloads /\ scan'.complete \in SUBSET Downloads
    BY <1>2 DEF TypeOK, Running
  <2>2. PICK n \in Nat : n = Cardinality(scan'.todo)
    BY <2>1, Numbers
  <2>3. Parts \in Nat /\ 6 <= Parts /\ 6 + n <= Parts
    BY <2>1, <2>2, Numbers
  <2>4. Part' \in 1 .. Parts
    BY <2>2, <2>3 DEF Part
  <2> QED
    BY <2>1, <2>4 DEF Place, Waiting, Waitings
<1> QED
  BY <1>1, <1>2

(* A step takes the run to a later part, or takes something that waited,   *)
(* or goes on with what it took.                                           *)
Onward ==
    \/ Part' < Part
    \/ Part' = Part /\ \E x \in Waiting : Waiting' = Waiting \ {x} /\ Place = 0
    \/ Part' = Part /\ Waiting' = Waiting /\ Place' < Place

LEMMA RunStep ==
    ASSUME TypeOK, scan.pc # "idle", scan'.pc # "idle", Run \/ (\E l \in Libraries : ListFails(l)) PROVE Onward
<1>0. /\ scan \in Running
      /\ scan.reading # None => scan.reading \in scan.inspect
      /\ scan.inspect # {} => scan.pc = "list"
      /\ scan.todo \in SUBSET Libraries
      /\ scan.inspect \in SUBSET Downloads
      /\ None \notin Downloads
  BY FolderConstants DEF TypeOK, Running
<1>1. ASSUME NEW l \in Libraries, List(l) \/ ListFails(l) PROVE Onward
  <2>1. /\ scan.pc = "list" /\ l \in scan.todo
        /\ scan'.pc = "list" /\ scan'.todo = scan.todo \ {l}
    BY <1>0, <1>1 DEF List, ListFails, Running
  <2>2. PICK n \in Nat, m \in Nat : n = Cardinality(scan.todo) /\ m = Cardinality(scan'.todo) /\ m = n - 1
    <3>1. scan'.todo \in SUBSET Libraries
      BY <1>0, <2>1
    <3> QED
      BY <1>0, <2>1, <3>1, Numbers
  <2> QED
    BY <2>1, <2>2 DEF Onward, Part
<1>2. ASSUME NEW d \in Downloads, InspectRead(d) PROVE Onward
  <2>1. /\ scan.pc = "list" /\ scan.reading = None /\ d \in scan.inspect
        /\ scan'.pc = "list" /\ scan'.reading = d /\ scan'.inspect = scan.inspect
        /\ scan'.todo = scan.todo
    BY <1>0, <1>2 DEF InspectRead, Running
  <2>2. Part' = Part /\ Place = 0 /\ d \in Waiting /\ Waiting' = Waiting \ {d}
    BY <1>0, <2>1 DEF Part, Place, Waiting
  <2> QED
    BY <2>2 DEF Onward
<1>3. ASSUME NEW d \in Downloads, InspectClear(d) PROVE Onward
  <2>1. /\ scan.pc = "list" /\ scan.reading = d /\ ~scan.cleared
        /\ scan'.pc = "list" /\ scan'.reading = d /\ scan'.inspect = scan.inspect
        /\ scan'.todo = scan.todo /\ scan'.cleared
    BY <1>0, <1>3 DEF InspectClear, Running
  <2>2. Part' = Part /\ Waiting' = Waiting /\ Place = 2 /\ Place' = 1
    BY <1>0, <2>1 DEF Part, Place, Waiting
  <2> QED
    BY <2>2 DEF Onward
<1>4. ASSUME NEW d \in Downloads, InspectRecord(d) PROVE Onward
  <2>1. /\ scan.pc = "list" /\ scan.reading = d /\ scan.cleared
        /\ scan'.pc = "list" /\ scan'.reading = None /\ scan'.inspect = scan.inspect \ {d}
        /\ scan'.todo = scan.todo
    BY <1>0, <1>4 DEF InspectRecord, Running
  <2>2. Part' = Part /\ Waiting' = Waiting /\ Place = 1 /\ Place' = 0
    BY <1>0, <2>1 DEF Part, Place, Waiting
  <2> QED
    BY <2>2 DEF Onward
<1>5. CASE Listed
  <2>1. scan.pc = "list" /\ scan'.pc = "link"
    BY <1>0, <1>5 DEF Listed, Idle, Running
  <2>2. PICK n \in Nat : n = Cardinality(scan.todo)
    BY <1>0, Numbers
  <2> QED
    BY <2>1, <2>2 DEF Onward, Part
<1>6. ASSUME NEW d \in Downloads, Link(d) PROVE Onward
  <2>1. /\ scan.pc = "link" /\ d \in scan.complete /\ scan.inspect = {}
        /\ scan'.pc = "link" /\ scan'.complete = scan.complete \ {d}
    BY <1>0, <1>6 DEF Link, Running
  <2>2. Part' = Part /\ Place = 0 /\ d \in Waiting /\ Waiting' = Waiting \ {d}
    BY <1>0, <2>1 DEF Part, Place, Waiting
  <2> QED
    BY <2>2 DEF Onward
<1>7. CASE Prune \/ Warn \/ Remember \/ ForgetRead \/ ForgetWrite
  <2>1. \/ scan.pc = "link" /\ scan'.pc = "warn"
        \/ scan.pc = "warn" /\ scan'.pc = "remember"
        \/ scan.pc = "remember" /\ scan'.pc = "forget"
        \/ scan.pc = "forget" /\ scan'.pc = "write"
    <3>1. CASE Prune
      BY <1>0, <3>1 DEF Prune, Running
    <3>2. CASE Warn
      BY <1>0, <3>2 DEF Warn, Running
    <3>3. CASE Remember
      BY <1>0, <3>3 DEF Remember, Running
    <3>4. CASE ForgetRead
      <4>1. scan' = [scan EXCEPT !.pc = "write", !.kept = Kept]
        BY <3>4 DEF ForgetRead, Idle
      <4> QED
        BY <1>0, <3>4, <4>1 DEF ForgetRead, Running
    <3>5. CASE ForgetWrite
      BY <3>5 DEF ForgetWrite, Idle
    <3> QED
      BY <1>7, <3>1, <3>2, <3>3, <3>4, <3>5
  <2> QED
    BY <2>1 DEF Onward, Part
<1>8. CASE ScanStart
  BY <1>8 DEF ScanStart
<1> QED
  BY <1>1, <1>2, <1>3, <1>4, <1>5, <1>6, <1>7, <1>8 DEF Run

LEMMA FewerSteps ==
    ASSUME TypeOK, TypeOK', scan.pc # "idle", Onward \/ scan'.pc = "idle"
    PROVE  StepsLeft' < StepsLeft
<1>1. /\ Part \in 1 .. Parts /\ Place \in 0 .. 2 /\ Waiting \in Waitings
      /\ Part' \in 1 .. Parts /\ Place' \in 0 .. 2 /\ Waiting' \in Waitings
  BY PartTypes
<1>2. PICK w \in Nat, n \in Nat, m \in Nat :
         /\ w = Most + 1 /\ n = Cardinality(Waiting) /\ m = Cardinality(Waiting')
         /\ 3 * n + 2 < w /\ 3 * m + 2 < w
  <2>1. Most + 1 \in Nat
    BY Sizes
  <2>2. Cardinality(Waiting) \in Nat /\ 3 * Cardinality(Waiting) + 2 < Most + 1
    BY <1>1, Sizes
  <2>3. Cardinality(Waiting') \in Nat /\ 3 * Cardinality(Waiting') + 2 < Most + 1
    BY <1>1, Sizes
  <2> QED
    BY <2>1, <2>2, <2>3
<1>3. PICK p \in 1 .. Parts, q \in 1 .. Parts, i \in 0 .. 2, j \in 0 .. 2 :
         p = Part /\ q = Part' /\ i = Place /\ j = Place'
  BY <1>1
<1>4. /\ StepsLeft = w * p + 3 * n + i
      /\ StepsLeft' = IF scan'.pc = "idle" THEN 0 ELSE w * q + 3 * m + j
  BY <1>2, <1>3 DEF StepsLeft, Most
<1>5. Onward => q < p \/ (q = p /\ ((m = n - 1 /\ i = 0) \/ (m = n /\ j < i)))
  <2>1. ASSUME NEW x \in Waiting, Waiting' = Waiting \ {x} PROVE m = n - 1
    BY <1>1, <1>2, <2>1, OneLess
  <2>2. ASSUME Waiting' = Waiting PROVE m = n
    BY <1>2, <2>2
  <2> QED
    BY <1>3, <2>1, <2>2 DEF Onward
<1>6. CASE scan'.pc = "idle"
  <2>1. w * p >= w
    OBVIOUS
  <2> QED
    BY <1>2, <1>4, <1>6, <2>1
<1>7. CASE q < p
  <2>1. w * q + w <= w * p
    BY <1>7
  <2> QED
    BY <1>2, <1>4, <2>1
<1>8. CASE q = p /\ ((m = n - 1 /\ i = 0) \/ (m = n /\ j < i))
  <2>1. 3 * m + j < 3 * n + i
    BY <1>8
  <2> QED
    BY <1>4, <1>8, <2>1
<1> QED
  BY <1>5, <1>6, <1>7, <1>8

(* A run ends: from its start on it takes at most Longest steps, and       *)
(* neither patterns that are taught nor downloads that appear or complete  *)
(* meanwhile give it more to do. The code: _run in scanner.py inspects     *)
(* what it has listed, library by library, then links what was complete.   *)
THEOREM RunsEnd == Spec => [](StepsLeft \in 0 .. Longest) /\ RunsGetOn
<1>1. ASSUME TypeOK PROVE StepsLeft \in 0 .. Longest
  <2>1. /\ Part \in 1 .. Parts /\ Place \in 0 .. 2
        /\ Most \in Nat /\ Cardinality(Waiting) \in Nat /\ 3 * Cardinality(Waiting) + 2 <= Most
    BY <1>1, PartTypes, Sizes
  <2>2. PICK w \in Nat : w = Most + 1
    BY <2>1
  <2>3. PICK p \in 1 .. Parts : p = Part
    BY <2>1
  <2>4. PICK n \in Nat : n = Parts
    BY Numbers
  <2>5. w * p >= 0 /\ w * p <= w * n /\ w * (n + 1) = w * n + w /\ w * n \in Int /\ w * p \in Int
    BY <2>3, <2>4
  <2> QED
    BY <2>1, <2>2, <2>3, <2>4, <2>5 DEF StepsLeft, Longest
<1>2. ASSUME TypeOK, TypeOK', [Next]_vars, scan.pc # "idle"
      PROVE  StepsLeft' < StepsLeft \/ (StepsLeft' = StepsLeft /\ ~Run)
  <2>1. Run \/ (\E l \in Libraries : ListFails(l)) \/ scan'.pc = "idle" => StepsLeft' < StepsLeft
    BY <1>2, RunStep, FewerSteps
  <2>2. UNCHANGED scan => StepsLeft' = StepsLeft
    BY DEF StepsLeft, Most, Part, Waiting, Place
  <2>3. Run \/ (\E l \in Libraries : ListFails(l)) \/ UNCHANGED scan \/ scan'.pc = "idle"
    BY <1>2 DEF Next, ApiWrite, Restart, Idle, ListFails, PatternSave, PatternDelete, Appear, Complete,
                Vanish, Age, ApiRead, Ignore, Unignore, SaveProposal, vars
  <2> QED
    BY <2>1, <2>2, <2>3
<1> QED
  BY <1>1, <1>2, TypeCorrect, PTL DEF Spec, RunsGetOn
=============================================================================
