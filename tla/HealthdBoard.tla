---------------------------- MODULE HealthdBoard ----------------------------
(* healthd_board_intel.cpp: healthd's battery updates and the inotify thread   *)
(* that watches for a shutdown both run the fuel gauge helper, which saves the *)
(* gauge's state; fg_sem keeps the two apart.                                  *)
EXTENDS Integers

CONSTANTS HbLevels,      \* battery levels reported
          MaxHbUpdates,  \* battery updates that run the helper
          MaxHbEvents,   \* changes of the watchdog's directory
          MaxHbFaults    \* threads that cannot be created

HbAssumption == /\ HbLevels \subseteq 0..100
                /\ MaxHbUpdates \in Nat /\ MaxHbEvents \in Nat /\ MaxHbFaults \in Nat
ASSUME HbAssumption

VARIABLES hbBoard,    \* [mos, present, semValid]: what healthd_board_init finds
          hbSem,      \* the value of fg_sem
          hbFast,     \* whether periodic_chores_interval_fast is set
          hbSaved,    \* savedLevel and savedStatus
          hbProps,    \* the properties of the last or the running update
          hbUpdate,   \* where the update and its execfn thread are
          hbThread,   \* where healthd_inotify_thread is
          hbQueued, hbBatch,  \* inotify events unread, and of the read being handled
          hbShutdown,         \* sys.shutdown.requested is set
          kill_thread, hbUpdates, hbEvents, hbFaults
hbCounts == <<hbUpdates, hbEvents, hbFaults>>
hbBattery == <<hbFast, hbSaved, hbProps, hbUpdate>>
hbWatch == <<hbThread, hbQueued, hbBatch, hbShutdown, kill_thread>>
hbVars == <<hbBoard, hbSem, hbBattery, hbWatch, hbCounts>>

Statuses == {"charging", "discharging", "not_charging", "full"}
Props == [level : HbLevels, status : Statuses, online : BOOLEAN]

HbTypeOK ==
  /\ hbBoard \in [mos : BOOLEAN, present : BOOLEAN, semValid : BOOLEAN]
  /\ hbSem \in Nat /\ hbFast \in BOOLEAN
  /\ hbSaved \in [level : HbLevels \cup {0}, status : Statuses \cup {"unset"}]
  /\ hbProps \in Props /\ hbUpdate \in {"returned", "wait", "helper"}
  /\ hbThread \in {"none", "poll", "event", "wait", "helper"}
  /\ hbQueued \in 0..MaxHbEvents /\ hbBatch \in 0..MaxHbEvents
  /\ hbShutdown \in BOOLEAN /\ kill_thread \in BOOLEAN
  /\ hbUpdates \in 0..MaxHbUpdates /\ hbEvents \in 0..MaxHbEvents /\ hbFaults \in 0..MaxHbFaults

\* A faulty variant; no step uses it.
FreshSem_two == 2
FreshSem == 1

\* healthd_board_init; the thread is missing when it, epoll or inotify fails.
HealthdInit ==
  /\ hbBoard \in [mos : BOOLEAN, present : BOOLEAN, semValid : BOOLEAN]
  /\ hbSem = FreshSem /\ hbFast = FALSE /\ hbSaved = [level |-> 0, status |-> "unset"]
  /\ hbProps \in {p \in Props : p.status = "charging" /\ p.online /\ \A l \in HbLevels : l <= p.level}
  /\ hbUpdate = "returned" /\ hbThread \in {"none", "poll"}
  /\ hbQueued = 0 /\ hbBatch = 0 /\ hbShutdown = FALSE /\ kill_thread = FALSE
  /\ hbUpdates = 0 /\ hbEvents = 0 /\ hbFaults = 0

\* Without a semaphore nobody waits.
sem_wait == IF hbBoard.semValid THEN hbSem > 0 /\ hbSem' = hbSem - 1 ELSE UNCHANGED hbSem

sem_post == hbSem' = IF hbBoard.semValid THEN hbSem + 1 ELSE hbSem

-----------------------------------------------------------------------------
(* The battery update *)

SaveLevels == {0, 5, 70}
MustSave(p) ==
  /\ hbBoard.present
  /\ \/ p.level # hbSaved.level /\ p.level \in SaveLevels
     \/ p.status # hbSaved.status /\ p.status \in {"full", "discharging"}

Reported(p) ==
  [p EXCEPT !.online = @ /\ ~(hbBoard.mos /\ p.status = "not_charging")]
UpdateReturns(p) == hbUpdate' = "returned" /\ hbProps' = Reported(p)
Saved(p) == hbSaved' = [level |-> p.level, status |-> p.status]

\* pthread_create fails with a positive number, which is not taken for a failure:
\* the update joins a thread id that was never set, and which pthread_join does
\* not know, and goes on as if the helper had run.
healthd_board_battery_update(p) ==
  /\ hbUpdate = "returned"
  /\ hbFast' = (hbFast \/ (p.online /\ p.level = 0))
  /\ \/ ~MustSave(p) /\ UpdateReturns(p) /\ UNCHANGED <<hbSaved, hbUpdates, hbFaults>>
     \/ /\ MustSave(p) /\ hbUpdates < MaxHbUpdates /\ hbUpdates' = hbUpdates + 1
        /\ hbUpdate' = "wait" /\ hbProps' = p /\ UNCHANGED <<hbSaved, hbFaults>>
     \/ /\ MustSave(p) /\ hbFaults < MaxHbFaults /\ hbFaults' = hbFaults + 1
        /\ UpdateReturns(p) /\ Saved(p) /\ UNCHANGED hbUpdates
  /\ UNCHANGED <<hbBoard, hbSem, hbWatch, hbEvents>>

execfn ==
  /\ hbUpdate = "wait" /\ sem_wait /\ hbUpdate' = "helper"
  /\ UNCHANGED <<hbBoard, hbFast, hbSaved, hbProps, hbWatch, hbCounts>>

\* The helper ends; execfn posts and the update, which joined it, goes on.
UpdateSaved ==
  /\ hbUpdate = "helper" /\ sem_post /\ Saved(hbProps) /\ UpdateReturns(hbProps)
  /\ UNCHANGED <<hbBoard, hbFast, hbWatch, hbCounts>>

-----------------------------------------------------------------------------
(* The inotify thread *)

\* External: the framework asks for a shutdown; the watchdog's attributes change.
ShutdownRequested ==
  /\ ~hbShutdown /\ hbShutdown' = TRUE
  /\ UNCHANGED <<hbBoard, hbSem, hbBattery, hbThread, hbQueued, hbBatch, kill_thread, hbCounts>>
WatchdogModified ==
  /\ hbEvents < MaxHbEvents /\ hbEvents' = hbEvents + 1 /\ hbThread # "none"
  /\ hbQueued' = hbQueued + 1
  /\ UNCHANGED <<hbBoard, hbSem, hbBattery, hbThread, hbBatch, hbShutdown, kill_thread, hbUpdates, hbFaults>>

InotifyRead ==
  /\ hbThread = "poll" /\ hbQueued > 0
  /\ hbThread' = "event" /\ hbBatch' = hbQueued /\ hbQueued' = 0
  /\ UNCHANGED <<hbBoard, hbSem, hbBattery, hbShutdown, kill_thread, hbCounts>>

\* The property is read anew for every event.  kill_thread only ends the inner
\* loop of healthd_inotify_thread, so the thread goes back to epoll_wait.
healthd_process_inotify_evt ==
  /\ hbThread = "event"
  /\ IF hbBatch = 0 THEN hbThread' = "poll" /\ UNCHANGED hbBatch
     ELSE hbBatch' = hbBatch - 1 /\ hbThread' = IF hbShutdown THEN "wait" ELSE "event"
  /\ UNCHANGED <<hbBoard, hbSem, hbBattery, hbQueued, hbShutdown, kill_thread, hbCounts>>

InotifyWait ==
  /\ hbThread = "wait" /\ sem_wait /\ hbThread' = "helper"
  /\ UNCHANGED <<hbBoard, hbBattery, hbQueued, hbBatch, hbShutdown, kill_thread, hbCounts>>
InotifySaved ==
  /\ hbThread = "helper" /\ sem_post /\ hbThread' = "event" /\ kill_thread' = TRUE
  /\ UNCHANGED <<hbBoard, hbBattery, hbQueued, hbBatch, hbShutdown, hbCounts>>

HealthdSteps ==
  \/ execfn \/ UpdateSaved
  \/ InotifyRead \/ healthd_process_inotify_evt \/ InotifyWait \/ InotifySaved

HealthdNext ==
  \/ \E p \in Props : healthd_board_battery_update(p)
  \/ ShutdownRequested \/ WatchdogModified
  \/ HealthdSteps

\* Both threads run, and the helper ends.
HealthdFairness ==
  /\ WF_hbVars(execfn \/ UpdateSaved)
  /\ WF_hbVars(InotifyRead \/ healthd_process_inotify_evt \/ InotifyWait \/ InotifySaved)
HealthdSpec == HealthdInit /\ [][HealthdNext]_hbVars /\ HealthdFairness

-----------------------------------------------------------------------------
(* Properties *)

(* The update's thread and the shutdown thread never run the helper at the     *)
(* same time, as long as the semaphore could be made.                          *)
HelperRunsAlone ==
  hbBoard.semValid => ~(hbUpdate = "helper" /\ hbThread = "helper")

(* A battery update that waits for the helper returns to healthd's main loop,  *)
(* also while the shutdown thread keeps running the helper for every event.    *)
BatteryUpdateReturns == hbUpdate = "wait" ~> hbUpdate = "returned"

(* The first change of the watchdog's directory after the shutdown was asked   *)
(* for saves the gauge.                                                        *)
ShutdownSavesTheGauge == hbShutdown /\ hbQueued > 0 ~> kill_thread
=============================================================================
