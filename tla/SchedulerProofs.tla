-------------------------- MODULE SchedulerProofs ---------------------------
(***************************************************************************)
(* Proofs about Scheduler, for all sets of requests and with or without an *)
(* interval.                                                               *)
(***************************************************************************)
EXTENDS Scheduler, TLAPS

(* A request made since the last run started has a number that the task    *)
(* has not taken yet.                                                      *)
NumberInv ==
    /\ loop.pc # "dead" => loop.id <= requestId
    /\ loop.pc \in {"running", "ended"} /\ owed \cap Triggered # {} =>
           skipped \/ loop.id < requestId

SInv == TypeOK /\ requestId <= events /\ NoLostWakeup /\ NumberInv

(* The task's state after a start of the process has its type.             *)
LEMMA BootedType ==
    Booted \in [pc: {"startup", "starting", "running", "ended", "waiting", "dead"},
                trigger: Triggered \cup {None}, id: 0..MaxEvents]
  BY SchedulerConstants DEF Booted

(* The scheduler's variables keep their types, and the request number is   *)
(* bounded by the number of outside events.                                *)
LEMMA TypeNext == ASSUME TypeOK, requestId <= events, [Next]_vars
                  PROVE  TypeOK' /\ requestId' <= events'
<1> USE SchedulerConstants DEF TypeOK, Requests
<1>1. ASSUME NEW r \in Requests, Request(r) PROVE TypeOK' /\ requestId' <= events'
  BY <1>1 DEF Request, Event
<1>2. CASE Take
  BY <1>2 DEF Take
<1>3. CASE Start
  BY <1>3 DEF Start
<1>4. CASE Skip
  BY <1>4 DEF Skip
<1>5. CASE Finish
  BY <1>5 DEF Finish
<1>6. CASE Settle
  BY <1>6 DEF Settle
<1>7. CASE Fail
  BY <1>7 DEF Fail, Event
<1>8. CASE OtherStart \/ OtherEnd
  BY <1>8 DEF OtherStart, OtherEnd, Event
<1>9. CASE Restart
  <2>1. loop' = Booted /\ requestId' = 0 /\ events' = events + 1 /\ events < MaxEvents
        /\ event' = FALSE /\ trigger' = None /\ lock' = "free" /\ skipped' = FALSE
        /\ owed' = owed
    BY <1>9 DEF Restart, Event
  <2>2. requestId' \in 0..MaxEvents /\ events' \in 0..MaxEvents /\ requestId' <= events'
    BY <2>1
  <2>3. loop' \in [pc: {"startup", "starting", "running", "ended", "waiting", "dead"},
                   trigger: Triggered \cup {None}, id: 0..MaxEvents]
    BY <2>1, BootedType
  <2> QED
    BY <2>1, <2>2, <2>3
<1>10. CASE UNCHANGED vars
  BY <1>10 DEF vars
<1> QED
  BY <1>1, <1>2, <1>3, <1>4, <1>5, <1>6, <1>7, <1>8, <1>9, <1>10 DEF Next, Loop

(* Every step keeps a wake-up on its way, and numbers what it takes.       *)
LEMMA WakeupNext == ASSUME TypeOK, NoLostWakeup, NumberInv, [Next]_vars
                    PROVE  NoLostWakeup' /\ NumberInv'
<1> USE SchedulerConstants DEF TypeOK, NoLostWakeup, NumberInv, Requests
<1>1. ASSUME NEW r \in Requests, Request(r) PROVE NoLostWakeup' /\ NumberInv'
  BY <1>1 DEF Request
<1>2. CASE Take
  BY <1>2 DEF Take
<1>3. CASE Start
  BY <1>3 DEF Start
<1>4. CASE Skip
  BY <1>4 DEF Skip
<1>5. CASE Finish
  BY <1>5 DEF Finish
<1>6. CASE Settle
  BY <1>6 DEF Settle
<1>7. CASE Fail
  BY <1>7 DEF Fail
<1>8. CASE OtherStart \/ OtherEnd
  BY <1>8 DEF OtherStart, OtherEnd
<1>9. CASE Restart
  BY <1>9 DEF Restart, Booted
<1>10. CASE UNCHANGED vars
  BY <1>10 DEF vars
<1> QED
  BY <1>1, <1>2, <1>3, <1>4, <1>5, <1>6, <1>7, <1>8, <1>9, <1>10 DEF Next, Loop

(* The parts together are inductive.                                       *)
LEMMA SchedulerInductive == Spec => []SInv
<1>1. Init => SInv
  <2> SUFFICES ASSUME Init PROVE SInv
    OBVIOUS
  <2>1. TypeOK /\ requestId <= events
    <3>1. /\ event = FALSE /\ trigger = None /\ lock = "free" /\ skipped = FALSE
          /\ loop = Booted /\ requestId = 0 /\ events = 0 /\ owed = {}
      BY DEF Init
    <3>2. requestId \in 0..MaxEvents /\ events \in 0..MaxEvents /\ requestId <= events
      BY <3>1, SchedulerConstants
    <3>3. loop \in [pc: {"startup", "starting", "running", "ended", "waiting", "dead"},
                    trigger: Triggered \cup {None}, id: 0..MaxEvents]
      BY <3>1, BootedType
    <3> QED
      BY <3>1, <3>2, <3>3 DEF TypeOK
  <2>2. NoLostWakeup /\ NumberInv
    BY DEF Init, Booted, NoLostWakeup, NumberInv
  <2> QED
    BY <2>1, <2>2 DEF SInv
<1>2. SInv /\ [Next]_vars => SInv'
  BY TypeNext, WakeupNext DEF SInv
<1> QED
  BY <1>1, <1>2, PTL DEF Spec

(* Every variable has its type.                                            *)
THEOREM TypeCorrect == Spec => []TypeOK
<1>1. SInv => TypeOK
  BY DEF SInv
<1> QED
  BY <1>1, SchedulerInductive, PTL

(* No wake-up of the scheduler is lost, whatever arrives while it starts,  *)
(* runs, fails or restarts: a request finds the task about to start a run, *)
(* or its event set, unless the last run met a held lock (_scheduler,      *)
(* request_scan, Scanner.run).                                             *)
THEOREM WakeupsAreKept == Spec => []NoLostWakeup
<1>1. SInv => NoLostWakeup
  BY DEF SInv
<1> QED
  BY <1>1, SchedulerInductive, PTL

(* The dashboard stops showing a scan as queued only when a run has        *)
(* started after the request, or was skipped (_scheduler's comparison of   *)
(* request ids).                                                           *)
THEOREM QueuedIsTrue == Spec => QueuedUntilRun
<1>1. ASSUME SInv, Settle, trigger # None, trigger' = None
      PROVE  owed \cap Triggered = {} \/ skipped
  BY <1>1 DEF SInv, TypeOK, NumberInv, Settle
<1>2. SInv => [Settle /\ trigger # None /\ trigger' = None =>
                  owed \cap Triggered = {} \/ skipped]_vars
  BY <1>1
<1> QED
  BY <1>2, SchedulerInductive, PTL DEF QueuedUntilRun
=============================================================================
