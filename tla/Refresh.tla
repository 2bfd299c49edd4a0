------------------------------ MODULE Refresh -------------------------------
(***************************************************************************)
(* RefreshCoordinator (jellyfin.py): Jellyfin library refreshes run in a   *)
(* background thread that is started by the first request and ends when    *)
(* nothing is pending.  Requests come from the scan thread and from the    *)
(* threads of manual deletes; the bodies under self._lock are one step.    *)
(***************************************************************************)
EXTENDS Integers

CONSTANTS
    Libraries,      \* Jellyfin libraries a request may name
    All,            \* the empty library id: refresh everything
    Workers,        \* threads that may be started
    Events,         \* kinds of outside events that may happen
    MaxEvents       \* bound: how many of them

ASSUME RefreshConstants ==
    /\ Libraries # {}
    /\ All \notin Libraries
    /\ MaxEvents \in Nat

VARIABLES
    pending,    \* self._pending: the merged targets; {} stands for None
    running,    \* self._running
    starting,   \* requests that set _running and have not started the thread yet
    worker,     \* position of each worker thread
    todo,       \* targets each worker has taken and not asked for yet
    status,     \* app_state[JELLYFIN_STATUS_KEY]
    stale,      \* history: libraries changed since their last refresh began
    events      \* bound: outside events so far

vars == <<pending, running, starting, worker, todo, status, stale, events>>

Targets == Libraries \cup {All}

(* The libraries that refreshes of these targets cover.                    *)
Covered(targets) == IF All \in targets THEN Libraries ELSE targets

Init ==
    /\ pending = {}
    /\ running = FALSE
    /\ starting = 0
    /\ worker = [w \in Workers |-> "off"]
    /\ todo = [w \in Workers |-> {}]
    /\ status = "none"
    /\ stale = {}
    /\ events = 0

Event(kind) ==
    /\ kind \in Events
    /\ events < MaxEvents
    /\ events' = events + 1

(* Faulty: a new request takes the place of the pending one.               *)
RequestUnmerged(wanted) ==
    /\ Event("request")
    /\ pending' = wanted
    /\ running' = TRUE
    /\ starting' = IF running THEN starting ELSE starting + 1
    /\ stale' = stale \cup Covered(wanted)
    /\ UNCHANGED <<worker, todo, status>>

(* A request, after the change it is about: merged into what is pending;   *)
(* only the one that finds no worker running starts one.                   *)
Request(wanted) ==
    /\ Event("request")
    /\ pending' = wanted \cup pending
    /\ running' = TRUE
    /\ starting' = IF running THEN starting ELSE starting + 1
    /\ stale' = stale \cup Covered(wanted)
    /\ UNCHANGED <<worker, todo, status>>

(* thread.start(), outside the lock.                                       *)
Start(w) ==
    /\ starting > 0
    /\ worker[w] = "off"
    /\ starting' = starting - 1
    /\ worker' = [worker EXCEPT ![w] = "take"]
    /\ UNCHANGED <<pending, running, todo, status, stale, events>>

(* _worker takes all that is pending; one refresh of everything replaces   *)
(* the individual ones.                                                    *)
Take(w) ==
    /\ worker[w] = "take"
    /\ pending # {}
    /\ pending' = {}
    /\ todo' = [todo EXCEPT ![w] = IF All \in pending THEN {All} ELSE pending]
    /\ worker' = [worker EXCEPT ![w] = "refresh"]
    /\ UNCHANGED <<running, starting, status, stale, events>>

(* Faulty: the worker ends and leaves _running set.                        *)
RetireRunning(w) ==
    /\ worker[w] = "take"
    /\ pending = {}
    /\ worker' = [worker EXCEPT ![w] = "off"]
    /\ UNCHANGED <<pending, running, starting, todo, status, stale, events>>

(* Nothing is pending: the worker ends, and under the same lock says so.   *)
Retire(w) ==
    /\ worker[w] = "take"
    /\ pending = {}
    /\ running' = FALSE
    /\ worker' = [worker EXCEPT ![w] = "off"]
    /\ UNCHANGED <<pending, starting, todo, status, stale, events>>

(* Jellyfin begins a refresh of the target.                                *)
Ask(w, target) ==
    /\ worker[w] = "refresh"
    /\ target \in todo[w]
    /\ todo' = [todo EXCEPT ![w] = @ \ {target}]
    /\ worker' = [worker EXCEPT ![w] = "asking"]
    /\ stale' = stale \ Covered({target})
    /\ UNCHANGED <<pending, running, starting, status, events>>

(* It has answered, refused or timed out; a failure is logged, not retried.*)
Answer(w) ==
    /\ worker[w] = "asking"
    /\ status' \in {"ok", "failed"}
    /\ worker' = [worker EXCEPT ![w] = "refresh"]
    /\ UNCHANGED <<pending, running, starting, todo, stale, events>>

(* Logging the outcome or saving the status raises, outside every handler. *)
Crash(w) ==
    /\ worker[w] = "asking"
    /\ Event("dbfails")
    /\ worker' = [worker EXCEPT ![w] = "dead"]
    /\ UNCHANGED <<pending, running, starting, todo, status, stale>>

(* Every taken target has been asked for.                                  *)
Again(w) ==
    /\ worker[w] = "refresh"
    /\ todo[w] = {}
    /\ worker' = [worker EXCEPT ![w] = "take"]
    /\ UNCHANGED <<pending, running, starting, todo, status, stale, events>>

Work(w) ==
    \/ Take(w) \/ Retire(w) \/ Answer(w) \/ Again(w)
    \/ \E target \in Targets : Ask(w, target)

Next ==
    \/ \E wanted \in SUBSET Targets \ {{}} : Request(wanted)
    \/ \E w \in Workers : Start(w) \/ Work(w) \/ Crash(w)

Spec == Init /\ [][Next]_vars

(* A started thread runs on, and every call to Jellyfin has a timeout.     *)
Starts == \E w \in Workers : Start(w)
FairSpec == Spec /\ WF_vars(Starts) /\ \A w \in Workers : WF_vars(Work(w))

---------------------------------------------------------------------------
(* Properties.                                                             *)

TypeOK ==
    /\ pending \subseteq Targets
    /\ running \in BOOLEAN
    /\ starting \in Nat
    /\ worker \in [Workers -> {"off", "take", "refresh", "asking", "dead"}]
    /\ todo \in [Workers -> SUBSET Targets]
    /\ status \in {"none", "ok", "failed"}
    /\ stale \subseteq Libraries
    /\ events \in 0..MaxEvents

Active(w) == worker[w] \notin {"off", "dead"}
Taken == UNION {todo[w] : w \in Workers}

(* Refreshes run one at a time: no two threads are at work, and none is    *)
(* about to be started while one is.                                       *)
OneWorker ==
    /\ \A v, w \in Workers : Active(v) /\ Active(w) => v = w
    /\ (\E w \in Workers : Active(w)) => starting = 0
    /\ starting <= 1

(* A change that no refresh has followed is pending, or taken and not yet  *)
(* asked for; and unless a worker has died, one is there to do so.         *)
NothingForgotten ==
    /\ stale \subseteq Covered(pending) \cup Covered(Taken)
    /\ stale # {} => starting > 0 \/ \E w \in Workers : worker[w] # "off"

(* Merging keeps the promise of FollowUp: no request gets lost, whatever   *)
(* it is merged with, no refresh begins while another one runs, and none   *)
(* covers what nobody asked for.                                           *)
Promise == INSTANCE FollowUp WITH
    changed <- stale,
    owed <- Covered(pending) \cup Covered(Taken),
    busy <- \E w \in Workers : worker[w] = "asking"
KeepsPromise == Promise!Spec

(* "... so a change made during a Jellyfin scan ... is always picked up by *)
(* a later scan.", unless the worker has died.                             *)
EveryChangeIsPickedUp ==
    \A l \in Libraries : l \in stale ~> l \notin stale \/ \E w \in Workers : worker[w] = "dead"
=============================================================================
