----------------------------- MODULE Scheduler ------------------------------
(***************************************************************************)
(* The scheduler task (app.py) and the scan lock (scanner.py): how a       *)
(* request for a scan, with or without a trigger that is shown as queued,  *)
(* turns into a run.  Handlers and the scheduler share the event loop, the *)
(* run and the other holders of the lock (dry runs, a manual delete, the   *)
(* deletion of a library) are threads or steps of their own.               *)
(***************************************************************************)
EXTENDS Naturals

CONSTANTS
    Triggered,      \* requests that carry a trigger (Scan now, the API, ...)
    Silent,         \* changes that only set the event (arm, settings, ...)
    Interval,       \* scan_interval_minutes > 0
    Events,         \* kinds of outside events that may happen
    MaxEvents,      \* bound: how many of them
    None            \* no trigger

ASSUME SchedulerConstants ==
    /\ None \notin Triggered
    /\ Triggered \cap Silent = {}
    /\ Interval \in BOOLEAN
    /\ MaxEvents \in Nat

VARIABLES
    event,          \* app.state.scan_event is set
    trigger,        \* app.state.scan_trigger
    requestId,      \* app.state.scan_request_id
    loop,           \* the scheduler task: its position, the trigger and id it took
    lock,           \* who holds Scanner._lock
    owed,           \* history: requests since the last run started
    skipped,        \* history: the last run found the lock held
    events          \* bound: outside events so far

vars == <<event, trigger, requestId, loop, lock, owed, skipped, events>>

Requests == Triggered \cup Silent

Booted == [pc |-> "startup", trigger |-> None, id |-> 0]

Init ==
    /\ event = FALSE
    /\ trigger = None
    /\ requestId = 0
    /\ loop = Booted
    /\ lock = "free"
    /\ owed = {}
    /\ skipped = FALSE
    /\ events = 0

Event(kind) ==
    /\ kind \in Events
    /\ events < MaxEvents
    /\ events' = events + 1

---------------------------------------------------------------------------
(* Requests: request_scan, and the handlers that set the event themselves. *)

(* Faulty: the request number stays.                                       *)
RequestUnnumbered(r) ==
    /\ Event("request")
    /\ event' = TRUE
    /\ trigger' = IF r \in Triggered THEN r ELSE trigger
    /\ requestId' = requestId
    /\ owed' = owed \cup {r}
    /\ UNCHANGED <<loop, lock, skipped>>

Request(r) ==
    /\ Event("request")
    /\ event' = TRUE
    /\ trigger' = IF r \in Triggered THEN r ELSE trigger
    /\ requestId' = IF r \in Triggered THEN requestId + 1 ELSE requestId
    /\ owed' = owed \cup {r}
    /\ UNCHANGED <<loop, lock, skipped>>

---------------------------------------------------------------------------
(* The scheduler task.                                                     *)

(* It wakes on the event or after its delay: STARTUP_SCAN_DELAY at first,  *)
(* the interval later, if there is one.                                    *)
Awake ==
    \/ loop.pc = "startup"
    \/ loop.pc = "waiting" /\ (event \/ Interval)

Take ==
    /\ Awake
    /\ event' = FALSE
    /\ loop' = [pc |-> "starting", trigger |-> trigger, id |-> requestId]
    /\ UNCHANGED <<trigger, requestId, lock, owed, skipped, events>>

(* Scanner.run gets the lock; what the run reads it reads from here on.    *)
Start ==
    /\ loop.pc = "starting"
    /\ lock = "free"
    /\ lock' = "scan"
    /\ loop' = [loop EXCEPT !.pc = "running"]
    /\ owed' = {}
    /\ skipped' = FALSE
    /\ UNCHANGED <<event, trigger, requestId, events>>

(* The lock is held: the run is skipped.                                   *)
Skip ==
    /\ loop.pc = "starting"
    /\ lock # "free"
    /\ loop' = [loop EXCEPT !.pc = "ended"]
    /\ skipped' = TRUE
    /\ UNCHANGED <<event, trigger, requestId, lock, owed, events>>

(* Faulty: the lock is released on some paths only.                        *)
FinishHolding ==
    /\ loop.pc = "running"
    /\ lock' \in {"free", lock}
    /\ loop' = [loop EXCEPT !.pc = "ended"]
    /\ UNCHANGED <<event, trigger, requestId, owed, skipped, events>>

Finish ==
    /\ loop.pc = "running"
    /\ lock' = "free"
    /\ loop' = [loop EXCEPT !.pc = "ended"]
    /\ UNCHANGED <<event, trigger, requestId, owed, skipped, events>>

(* Faulty: the event is cleared when the run has ended.                    *)
SettleClearing ==
    /\ loop.pc = "ended"
    /\ trigger' = IF requestId = loop.id THEN None ELSE trigger
    /\ event' = FALSE
    /\ loop' = [loop EXCEPT !.pc = "waiting"]
    /\ UNCHANGED <<requestId, lock, owed, skipped, events>>

(* The trigger is cleared unless a newer request has set it again.         *)
Settle ==
    /\ loop.pc = "ended"
    /\ trigger' = IF requestId = loop.id THEN None ELSE trigger
    /\ loop' = [loop EXCEPT !.pc = "waiting"]
    /\ UNCHANGED <<event, requestId, lock, owed, skipped, events>>

(* A database error where nothing catches it: saving the report in the     *)
(* finally of run, before the lock is released; logging a skipped trigger; *)
(* loading the settings for the interval.                                  *)
Fail ==
    /\ Event("dbfails")
    /\ \/ loop.pc = "running" /\ UNCHANGED trigger
       \/ loop.pc = "starting" /\ lock # "free" /\ loop.trigger # None /\ UNCHANGED trigger
       \/ loop.pc = "ended" /\ trigger' = IF requestId = loop.id THEN None ELSE trigger
    /\ loop' = [loop EXCEPT !.pc = "dead"]
    /\ skipped' = (skipped \/ loop.pc = "starting")
    /\ UNCHANGED <<event, requestId, lock, owed>>

Loop == Take \/ Start \/ Skip \/ Finish \/ Settle

---------------------------------------------------------------------------
(* A dry run, a manual delete or a library's deletion holds the lock.      *)

OtherStart ==
    /\ Event("other")
    /\ lock = "free"
    /\ lock' = "other"
    /\ UNCHANGED <<event, trigger, requestId, loop, owed, skipped>>

OtherEnd ==
    /\ lock = "other"
    /\ lock' = "free"
    /\ UNCHANGED <<event, trigger, requestId, loop, owed, skipped, events>>

(* The container restarts: what was asked for is left to the first run.    *)
Restart ==
    /\ Event("restart")
    /\ event' = FALSE
    /\ trigger' = None
    /\ requestId' = 0
    /\ loop' = Booted
    /\ lock' = "free"
    /\ skipped' = FALSE
    /\ UNCHANGED owed

Next ==
    \/ \E r \in Requests : Request(r)
    \/ Loop \/ Fail
    \/ OtherStart \/ OtherEnd \/ Restart

Spec == Init /\ [][Next]_vars

(* The task and its threads run on; every holder of the lock lets it go.   *)
FairSpec == Spec /\ WF_vars(Loop) /\ WF_vars(OtherEnd)

---------------------------------------------------------------------------
(* Properties.                                                             *)

TypeOK ==
    /\ event \in BOOLEAN
    /\ trigger \in Triggered \cup {None}
    /\ requestId \in 0..MaxEvents
    /\ loop \in [pc: {"startup", "starting", "running", "ended", "waiting", "dead"},
                 trigger: Triggered \cup {None}, id: 0..MaxEvents]
    /\ lock \in {"free", "scan", "other"}
    /\ owed \subseteq Requests
    /\ skipped \in BOOLEAN
    /\ events \in 0..MaxEvents

(* No wake-up is lost: a request no run has started after will find the    *)
(* task about to start one, or has left the event set for it; the only     *)
(* exception is a run that found the lock held.                            *)
NoLostWakeup ==
    owed # {} => event \/ loop.pc \in {"startup", "starting"} \/ skipped

(* The dashboard's "queued" tells the truth: the trigger of a request is   *)
(* cleared only when a run has started after it, or was skipped.           *)
QueuedUntilRun ==
    [][Settle /\ trigger # None /\ trigger' = None =>
          owed \cap Triggered = {} \/ skipped]_vars

(* Every request is followed by a run that starts after it, unless the     *)
(* task has died: "Scan started." tells the truth.                         *)
EveryRequestRuns == \A r \in Requests : r \in owed ~> r \notin owed \/ loop.pc = "dead"
=============================================================================
