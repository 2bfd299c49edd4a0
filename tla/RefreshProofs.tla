--------------------------- MODULE RefreshProofs ----------------------------
(***************************************************************************)
(* Proofs about Refresh, for all sets of libraries and worker threads.     *)
(***************************************************************************)
EXTENDS Refresh, TLAPS

(* _running is set as long as a worker is at work or about to be started,  *)
(* or one has died; nothing is pending or taken without one of these.      *)
RunningInv ==
    /\ \A w \in Workers : worker[w] # "off" => running
    /\ starting > 0 => running
    /\ running => starting > 0 \/ \E w \in Workers : worker[w] # "off"
    /\ \A v, w \in Workers : worker[v] # "off" /\ worker[w] # "off" => v = w
    /\ (\E w \in Workers : worker[w] # "off") => starting = 0
    /\ starting <= 1
    /\ ~running => pending = {}
    /\ \A w \in Workers : worker[w] \in {"off", "take"} => todo[w] = {}

RInv == TypeOK /\ RunningInv /\ NothingForgotten

(* The coordinator's variables keep their types.                           *)
LEMMA TypeNext == ASSUME TypeOK, [Next]_vars PROVE TypeOK'
<1> USE RefreshConstants DEF TypeOK
<1>1. ASSUME NEW wanted \in SUBSET Targets \ {{}}, Request(wanted) PROVE TypeOK'
  BY <1>1 DEF Request, Event, Covered, Targets
<1>2. ASSUME NEW w \in Workers, Start(w) PROVE TypeOK'
  BY <1>2 DEF Start
<1>3. ASSUME NEW w \in Workers, Take(w) PROVE TypeOK'
  BY <1>3 DEF Take, Targets
<1>4. ASSUME NEW w \in Workers, Retire(w) PROVE TypeOK'
  BY <1>4 DEF Retire
<1>5. ASSUME NEW w \in Workers, NEW target \in Targets, Ask(w, target) PROVE TypeOK'
  BY <1>5 DEF Ask
<1>6. ASSUME NEW w \in Workers, Answer(w) PROVE TypeOK'
  BY <1>6 DEF Answer
<1>7. ASSUME NEW w \in Workers, Crash(w) PROVE TypeOK'
  BY <1>7 DEF Crash, Event
<1>8. ASSUME NEW w \in Workers, Again(w) PROVE TypeOK'
  BY <1>8 DEF Again
<1>9. CASE UNCHANGED vars
  BY <1>9 DEF vars
<1> HIDE DEF TypeOK
<1> QED
  BY <1>1, <1>2, <1>3, <1>4, <1>5, <1>6, <1>7, <1>8, <1>9 DEF Next, Work

(* There is one worker whenever there is something to do, and never two.   *)
LEMMA RunningNext == ASSUME TypeOK, RunningInv, [Next]_vars PROVE RunningInv'
<1> USE DEF TypeOK, RunningInv
<1>1. ASSUME NEW wanted \in SUBSET Targets \ {{}}, Request(wanted) PROVE RunningInv'
  BY <1>1 DEF Request
<1>2. ASSUME NEW w \in Workers, Start(w) PROVE RunningInv'
  BY <1>2 DEF Start
<1>3. ASSUME NEW w \in Workers, Take(w) PROVE RunningInv'
  BY <1>3 DEF Take
<1>4. ASSUME NEW w \in Workers, Retire(w) PROVE RunningInv'
  BY <1>4 DEF Retire
<1>5. ASSUME NEW w \in Workers, NEW target \in Targets, Ask(w, target) PROVE RunningInv'
  BY <1>5 DEF Ask
<1>6. ASSUME NEW w \in Workers, Answer(w) PROVE RunningInv'
  BY <1>6 DEF Answer
<1>7. ASSUME NEW w \in Workers, Crash(w) PROVE RunningInv'
  BY <1>7 DEF Crash
<1>8. ASSUME NEW w \in Workers, Again(w) PROVE RunningInv'
  BY <1>8 DEF Again
<1>9. CASE UNCHANGED vars
  BY <1>9 DEF vars
<1> HIDE DEF TypeOK, RunningInv
<1> QED
  BY <1>1, <1>2, <1>3, <1>4, <1>5, <1>6, <1>7, <1>8, <1>9 DEF Next, Work

---------------------------------------------------------------------------
(* Merging targets merges what they cover.                                 *)
LEMMA CoveredUnion ==
    ASSUME NEW A \in SUBSET Targets, NEW B \in SUBSET Targets
    PROVE  /\ Covered(A \cup B) = Covered(A) \cup Covered(B)
           /\ Covered(A) \subseteq Libraries
           /\ Covered({}) = {}
  BY DEF Covered, Targets

(* What is taken is what the one worker has taken.                         *)
LEMMA TakenByOne ==
    ASSUME TypeOK, RunningInv, NEW w \in Workers, worker[w] # "off"
    PROVE  Taken = todo[w]
<1>1. \A v \in Workers : v # w => todo[v] = {}
  BY DEF TypeOK, RunningInv
<1> QED
  BY <1>1 DEF Taken

(* Nothing is taken while no thread runs.                                  *)
LEMMA TakenByNone ==
    ASSUME RunningInv, \A w \in Workers : worker[w] = "off"
    PROVE  Taken = {}
  BY DEF Taken, RunningInv

(* What is taken stays, unless a worker takes or asks.                     *)
LEMMA TakenFrame == ASSUME UNCHANGED todo PROVE Taken' = Taken
  BY DEF Taken

(* What the steps do to what is taken.                                     *)
LEMMA TakeEffect ==
    ASSUME TypeOK, RunningInv, NEW w \in Workers, Take(w)
    PROVE  Taken = {} /\ Covered(Taken') = Covered(pending) /\ pending' = {}
<1>1. Taken = {}
  BY TakenByOne DEF Take, RunningInv
<1>2. Taken' = todo'[w]
  BY TypeNext, RunningNext DEF Take, TypeOK, RunningInv, Taken
<1>3. todo'[w] = IF All \in pending THEN {All} ELSE pending
  BY DEF Take, TypeOK
<1> QED
  BY <1>1, <1>2, <1>3 DEF Take, Covered

(* A refresh of a target takes that target away.                           *)
LEMMA AskEffect ==
    ASSUME TypeOK, RunningInv, NEW w \in Workers, NEW target \in Targets, Ask(w, target)
    PROVE  target \in Taken /\ Taken' = Taken \ {target}
<1>1. Taken = todo[w] /\ target \in todo[w]
  BY TakenByOne DEF Ask
<1>2. todo' = [todo EXCEPT ![w] = @ \ {target}]
  BY DEF Ask
<1>3. \A v \in Workers : v # w => todo[v] = {}
  BY DEF TypeOK, RunningInv, Ask
<1>4. Taken' = todo[w] \ {target}
  BY <1>2, <1>3 DEF Taken, TypeOK
<1> QED
  BY <1>1, <1>4

(* No step forgets a change.                                               *)
LEMMA ForgottenNext ==
    ASSUME TypeOK, RunningInv, NothingForgotten, [Next]_vars
    PROVE  NothingForgotten'
<1>0. pending \subseteq Targets /\ Taken \subseteq Targets
  BY DEF TypeOK, Taken
<1>1. RunningInv' /\ TypeOK'
  BY TypeNext, RunningNext
<1>2. ASSUME NEW wanted \in SUBSET Targets \ {{}}, Request(wanted) PROVE NothingForgotten'
  <2>1. Taken' = Taken
    BY <1>2, TakenFrame DEF Request
  <2>2. Covered(pending') = Covered(wanted) \cup Covered(pending)
    BY <1>0, <1>2, CoveredUnion DEF Request
  <2>3. stale' = stale \cup Covered(wanted) /\ running'
    BY <1>2 DEF Request
  <2> QED
    BY <1>1, <2>1, <2>2, <2>3 DEF NothingForgotten, RunningInv
<1>3. ASSUME NEW w \in Workers, Start(w) PROVE NothingForgotten'
  <2>1. Taken' = Taken
    BY <1>3, TakenFrame DEF Start
  <2> QED
    BY <1>3, <2>1 DEF Start, NothingForgotten, TypeOK
<1>4. ASSUME NEW w \in Workers, Take(w) PROVE NothingForgotten'
  <2>1. stale \subseteq Covered(Taken')
    BY <1>0, <1>4, TakeEffect, CoveredUnion DEF NothingForgotten
  <2> QED
    BY <1>4, <2>1 DEF Take, NothingForgotten, TypeOK
<1>5. ASSUME NEW w \in Workers, Retire(w) PROVE NothingForgotten'
  <2>1. Taken = {} /\ Taken' = Taken
    BY <1>5, TakenByOne, TakenFrame DEF Retire, RunningInv
  <2>2. stale = {}
    BY <1>0, <1>5, <2>1, CoveredUnion DEF NothingForgotten, Retire
  <2> QED
    BY <1>5, <2>2 DEF Retire, NothingForgotten
<1>6. ASSUME NEW w \in Workers, NEW target \in Targets, Ask(w, target) PROVE NothingForgotten'
  <2>1. Taken' = Taken \ {target} /\ target \in Taken
    BY <1>6, AskEffect
  <2>2. Covered(Taken) \subseteq Covered({target}) \cup Covered(Taken')
    <3>1. Taken = {target} \cup Taken' /\ Taken' \subseteq Targets
      BY <1>0, <2>1
    <3> QED
      BY <3>1, CoveredUnion
  <2>3. stale' = stale \ Covered({target}) /\ pending' = pending
    BY <1>6 DEF Ask
  <2>4. worker'[w] # "off"
    BY <1>6 DEF Ask, TypeOK
  <2> QED
    BY <2>2, <2>3, <2>4 DEF NothingForgotten
<1>7. ASSUME NEW w \in Workers, Answer(w) \/ Crash(w) \/ Again(w) PROVE NothingForgotten'
  <2>1. Taken' = Taken
    BY <1>7, TakenFrame DEF Answer, Crash, Again
  <2>2. worker'[w] # "off" /\ UNCHANGED <<stale, pending>>
    BY <1>7 DEF Answer, Crash, Again, TypeOK
  <2> QED
    BY <2>1, <2>2 DEF NothingForgotten
<1>8. CASE UNCHANGED vars
  BY <1>8, TakenFrame DEF vars, NothingForgotten
<1> QED
  BY <1>2, <1>3, <1>4, <1>5, <1>6, <1>7, <1>8 DEF Next, Work

---------------------------------------------------------------------------
(* Theorems.                                                               *)

(* The parts together are inductive.                                       *)
LEMMA RefreshInductive == Spec => []RInv
<1>1. Init => RInv
  <2> SUFFICES ASSUME Init PROVE RInv
    OBVIOUS
  <2>1. TypeOK
    <3>1. /\ worker \in [Workers -> {"off", "take", "refresh", "asking", "dead"}]
          /\ todo \in [Workers -> SUBSET Targets]
      BY DEF Init
    <3>2. pending \subseteq Targets /\ stale \subseteq Libraries
      BY DEF Init
    <3>3. running \in BOOLEAN /\ starting \in Nat /\ status \in {"none", "ok", "failed"}
      BY DEF Init
    <3>4. events \in 0..MaxEvents
      BY RefreshConstants DEF Init
    <3> QED
      BY <3>1, <3>2, <3>3, <3>4 DEF TypeOK
  <2>3. RunningInv
    BY DEF Init, RunningInv, Active
  <2>2. NothingForgotten
    BY DEF Init, NothingForgotten
  <2> QED
    BY <2>1, <2>2, <2>3 DEF RInv
<1>2. RInv /\ [Next]_vars => RInv'
  BY TypeNext, RunningNext, ForgottenNext DEF RInv
<1> QED
  BY <1>1, <1>2, PTL DEF Spec

(* Every variable has its type.                                            *)
THEOREM TypeCorrect == Spec => []TypeOK
<1>1. RInv => TypeOK
  BY DEF RInv
<1> QED
  BY <1>1, RefreshInductive, PTL

(* However requests interleave with a worker that ends, there are never    *)
(* two workers, nor one about to be started beside another (request and    *)
(* _worker under self._lock).                                              *)
THEOREM WorkersAreAlone == Spec => []OneWorker
<1>1. RInv => OneWorker
  BY DEF RInv, RunningInv, OneWorker, Active
<1> QED
  BY <1>1, RefreshInductive, PTL

(* A change no refresh has followed is always pending or taken, with a     *)
(* thread there for it (the merge in request, the hand-over in _worker).   *)
THEOREM ChangesAreKept == Spec => []NothingForgotten
<1>1. RInv => NothingForgotten
  BY DEF RInv
<1> QED
  BY <1>1, RefreshInductive, PTL

(* RefreshCoordinator implements FollowUp: what is owed is what is pending *)
(* or taken, and only the refresh of a library that is owed one, begun     *)
(* while no other runs, ends what it is owed.                              *)
THEOREM PromiseIsKept == Spec => KeepsPromise
<1> DEFINE owed == Covered(pending) \cup Covered(Taken)
           busy == \E w \in Workers : worker[w] = "asking"
<1>1. Init => Promise!Init
  <2>1. ASSUME Init PROVE Taken = {} /\ pending = {}
    BY <2>1 DEF Init, Taken
  <2> QED
    BY <2>1, CoveredUnion DEF Init, Promise!Init
<1>2. ASSUME TypeOK, RunningInv, [Next]_vars
      PROVE  [Promise!Next]_<<stale, owed, busy>>
  <2>0. pending \subseteq Targets /\ Taken \subseteq Targets
    BY <1>2 DEF TypeOK, Taken
  <2>1. ASSUME NEW wanted \in SUBSET Targets \ {{}}, Request(wanted) PROVE Promise!Change
    <3>1. Taken' = Taken /\ busy' = busy /\ stale' = stale \cup Covered(wanted)
      BY <2>1, TakenFrame DEF Request
    <3>2. Covered(pending') = Covered(wanted) \cup Covered(pending)
          /\ Covered(wanted) \subseteq Libraries
      BY <2>0, <2>1, CoveredUnion DEF Request
    <3>3. owed' = owed \cup Covered(wanted)
      BY <3>1, <3>2
    <3> QED
      BY <3>1, <3>2, <3>3 DEF Promise!Change
  <2>2. ASSUME NEW w \in Workers, Start(w) \/ Retire(w) \/ Again(w)
        PROVE  UNCHANGED <<stale, owed, busy>>
    <3>1. Taken' = Taken /\ pending' = pending /\ stale' = stale
      BY <2>2, TakenFrame DEF Start, Retire, Again
    <3>2. busy' = busy
      BY <1>2, <2>2 DEF Start, Retire, Again, TypeOK
    <3> QED
      BY <3>1, <3>2
  <2>3. ASSUME NEW w \in Workers, Take(w) PROVE UNCHANGED <<stale, owed, busy>>
    <3>1. owed' = owed
      BY <1>2, <2>0, <2>3, TakeEffect, CoveredUnion
    <3>2. busy' = busy /\ stale' = stale
      BY <1>2, <2>3 DEF Take, TypeOK
    <3> QED
      BY <3>1, <3>2
  <2>4. ASSUME NEW w \in Workers, NEW target \in Targets, Ask(w, target) PROVE Promise!Begin
    <3>1. Taken' = Taken \ {target} /\ target \in Taken /\ pending' = pending
      BY <1>2, <2>4, AskEffect DEF Ask
    <3>2. Covered(Taken) = Covered({target}) \cup Covered(Taken')
      <4>1. Taken = {target} \cup Taken' /\ Taken' \subseteq Targets
        BY <2>0, <3>1
      <4> QED
        BY <4>1, CoveredUnion
    <3>3. Covered({target}) \in Promise!Scopes /\ Covered({target}) # {}
      BY RefreshConstants DEF Covered, Targets, Promise!Scopes
    <3>4. ~busy /\ busy'
      BY <1>2, <2>4 DEF Ask, TypeOK, RunningInv
    <3>5. stale' = stale \ Covered({target})
      BY <2>4 DEF Ask
    <3>6. /\ Covered({target}) \subseteq owed
          /\ owed' \in SUBSET owed
          /\ owed \ Covered({target}) \subseteq owed'
      BY <3>1, <3>2
    <3> QED
      BY <3>3, <3>4, <3>5, <3>6 DEF Promise!Begin
  <2>5. ASSUME NEW w \in Workers, Answer(w) \/ Crash(w) PROVE Promise!End
    <3>1. Taken' = Taken /\ pending' = pending /\ stale' = stale
      BY <2>5, TakenFrame DEF Answer, Crash
    <3>2. busy /\ ~busy'
      BY <1>2, <2>5 DEF Answer, Crash, TypeOK, RunningInv
    <3> QED
      BY <3>1, <3>2 DEF Promise!End
  <2>6. CASE UNCHANGED vars
    BY <2>6, TakenFrame DEF vars
  <2> QED
    BY <1>2, <2>1, <2>2, <2>3, <2>4, <2>5, <2>6 DEF Next, Work, Promise!Next
<1>3. RInv /\ [Next]_vars => [Promise!Next]_<<stale, owed, busy>>
  BY <1>2 DEF RInv
<1> QED
  BY <1>1, <1>3, RefreshInductive, PTL DEF Spec, KeepsPromise, Promise!Spec
=============================================================================
