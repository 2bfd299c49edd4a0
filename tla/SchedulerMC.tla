---------------------------- MODULE SchedulerMC -----------------------------
(* Instances of Scheduler for TLC.                                         *)
EXTENDS Scheduler

CONSTANTS scanNow, apiScan, settingsSaved

TwoTriggers == {scanNow, apiScan}
OneTrigger  == {scanNow}
OneChange   == {settingsSaved}
=============================================================================
