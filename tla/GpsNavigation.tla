---------------------------- MODULE GpsNavigation ----------------------------
(* GpsLocationProvider.java: when the engine runs.  Requests, power changes    *)
(* and alarms are handled one after the other on the provider's thread; fixes  *)
(* come on the engine's own thread, whose steps fall between them.  The second *)
(* part of the module is the choice of the SUPL server.                        *)
EXTENDS Integers, Sequences

CONSTANTS MaxNavInputs,   \* calls of the location manager, power and SIM events
          MaxNavFaults,   \* engine starts that fail
          MaxFixes        \* fixes the engine reports

ASSUME GpsNavAssumption == MaxNavInputs \in Nat /\ MaxNavFaults \in Nat /\ MaxFixes \in Nat

\* Intervals as the code tells them apart: GPS_POLLING_THRESHOLD_INTERVAL and NO_FIX_TIMEOUT.
Intervals == {"short", "medium", "long"}
NoRequest == [report |-> FALSE, single |-> FALSE, interval |-> "short"]
SingleShot == [report |-> TRUE, single |-> TRUE, interval |-> "short"]
ClientRequests == [report : {TRUE}, single : {FALSE}, interval : Intervals] \cup {SingleShot, NoRequest}

VARIABLES navQueue,     \* messages of mHandler that concern the engine
          navEnabled,   \* mEnabled
          navInit,      \* native_init succeeded, native_cleanup has not run since
          navRequest,   \* mProviderRequest
          navOff,       \* mDisableGps
          navStarted, navSingle, navInterval, navFixed,  \* mStarted, mSingleShot, mFixInterval, mStatus = AVAILABLE
          navEngine,    \* the engine runs
          navModem,     \* the modem is held by csmStartModem
          navCharged,   \* mClientSource names the application
          navAlarms,    \* alarms that are set
          navSched,     \* GPS_CAPABILITY_SCHEDULING
          navFix,       \* where the engine's thread is in reportLocation
          navSlept,     \* put to sleep by hibernate, not started or stopped since
          navLate,      \* a withdrawal or a start crossed an alarm on its way or a fix in progress
          navFailed,    \* a start failed
          navInputs, navFixes
navEngineVars == <<navStarted, navSingle, navFixed, navEngine, navModem>>
navVars == <<navQueue, navEnabled, navInit, navRequest, navOff, navEngineVars, navInterval, navCharged, navAlarms,
             navSched, navFix, navSlept, navLate, navFailed, navInputs, navFixes>>

Alarms == {"wakeup", "timeout"}
FixSteps == {"none", "shot", "shot_rest", "status", "sleep", "sleep_rest", "alarm"}
GpsNavTypeOK ==
  /\ navEnabled \in BOOLEAN /\ navInit \in BOOLEAN /\ navRequest \in ClientRequests /\ navOff \in BOOLEAN
  /\ navStarted \in BOOLEAN /\ navSingle \in BOOLEAN /\ navFixed \in BOOLEAN /\ navEngine \in BOOLEAN
  /\ navModem \in BOOLEAN /\ navInterval \in Intervals /\ navCharged \in BOOLEAN /\ navAlarms \subseteq Alarms
  /\ navFix \in FixSteps /\ navSlept \in BOOLEAN /\ navLate \in BOOLEAN /\ navFailed \in 0..MaxNavFaults
  /\ (navSched => "wakeup" \notin navAlarms /\ "timeout" \notin navAlarms)

GpsNavInit ==
  /\ navQueue = <<>> /\ navEnabled = FALSE /\ navInit = FALSE /\ navRequest = NoRequest /\ navOff = FALSE
  /\ navStarted = FALSE /\ navSingle = FALSE /\ navFixed = FALSE /\ navEngine = FALSE /\ navModem = FALSE
  /\ navInterval = "short" /\ navCharged = FALSE /\ navAlarms = {} /\ navSched \in BOOLEAN
  /\ navFix = "none" /\ navSlept = FALSE /\ navLate = FALSE /\ navFailed = 0 /\ navInputs = 0 /\ navFixes = 0

NavInput == navInputs < MaxNavInputs /\ navInputs' = navInputs + 1
NavPost(msg) == navQueue' = Append(navQueue, msg)
NavMsg(what, request) == [what |-> what, request |-> request]
-----------------------------------------------------------------------------
(* Who puts messages into the queue *)

enable ==
  /\ ~navEnabled /\ NavInput /\ navEnabled' = TRUE /\ NavPost(NavMsg("enable", NoRequest))
  /\ UNCHANGED <<navInit, navRequest, navOff, navEngineVars, navInterval, navCharged, navAlarms, navSched, navFix,
                 navSlept, navLate, navFailed, navFixes>>
disable ==
  /\ navEnabled /\ NavInput /\ navEnabled' = FALSE /\ NavPost(NavMsg("disable", NoRequest))
  /\ UNCHANGED <<navInit, navRequest, navOff, navEngineVars, navInterval, navCharged, navAlarms, navSched, navFix,
                 navSlept, navLate, navFailed, navFixes>>
setRequest ==
  /\ navEnabled /\ NavInput /\ \E r \in ClientRequests : NavPost(NavMsg("request", r))
  /\ UNCHANGED <<navEnabled, navInit, navRequest, navOff, navEngineVars, navInterval, navCharged, navAlarms,
                 navSched, navFix, navSlept, navLate, navFailed, navFixes>>
\* POWER_SAVE_MODE_CHANGED, SCREEN_OFF and SCREEN_ON.
PowerChange ==
  /\ NavInput /\ NavPost(NavMsg("power", NoRequest))
  /\ UNCHANGED <<navEnabled, navInit, navRequest, navOff, navEngineVars, navInterval, navCharged, navAlarms,
                 navSched, navFix, navSlept, navLate, navFailed, navFixes>>
\* An alarm goes off: its broadcast is on its way and can no longer be cancelled.
AlarmFires ==
  \E a \in navAlarms :
    /\ navAlarms' = navAlarms \ {a} /\ NavPost(NavMsg(a, NoRequest))
    /\ UNCHANGED <<navEnabled, navInit, navRequest, navOff, navEngineVars, navInterval, navCharged, navSched,
                   navFix, navSlept, navLate, navFailed, navInputs, navFixes>>
-----------------------------------------------------------------------------
(* Starting and stopping *)

NavHead == Head(navQueue)
NavIs(what) == navQueue # <<>> /\ NavHead.what = what
AlarmOnItsWay == \E i \in DOMAIN navQueue : navQueue[i].what \in Alarms

\* csmStartModem comes first; a start that fails afterwards does not undo it.
startNavigating(single, interval, alarms) ==
  IF navStarted THEN UNCHANGED <<navEngineVars, navFailed, navSlept, navLate>> /\ navAlarms' = alarms
  ELSE /\ navSlept' = FALSE /\ navSingle' = single
       /\ \E held \in BOOLEAN : navModem' = (navModem \/ held)
       /\ navLate' = (navLate \/ navFix # "none")
       /\ \/ /\ navStarted' = TRUE /\ navEngine' = TRUE /\ navFixed' = FALSE /\ UNCHANGED navFailed
             /\ navAlarms' = IF ~navSched /\ interval = "long" THEN alarms \cup {"timeout"} ELSE alarms
          \/ /\ navFailed < MaxNavFaults /\ navFailed' = navFailed + 1
             /\ navAlarms' = alarms /\ UNCHANGED <<navStarted, navEngine, navFixed>>

\* stopNavigating after it has cleared mStarted.
StopRest == navEngine' = FALSE /\ navFixed' = FALSE /\ navModem' = FALSE

stopNavigating ==
  IF navStarted THEN navStarted' = FALSE /\ navSingle' = FALSE /\ StopRest
  ELSE UNCHANGED navEngineVars

\* A faulty variant; no step uses it.
Withdrawn_timeout == navAlarms' = navAlarms \ {"timeout"} /\ navCharged' = FALSE

\* What every stop on the provider's thread does beside stopNavigating.
Withdrawn == navAlarms' = {} /\ navCharged' = FALSE
StopForGood ==
  /\ stopNavigating /\ Withdrawn /\ navSlept' = FALSE
  /\ navLate' = (navLate \/ AlarmOnItsWay \/ navFix # "none")

updateRequirements(request, off) ==
  IF ~request.report \/ off
  THEN StopForGood /\ UNCHANGED <<navInterval, navFailed>>
  ELSE /\ navCharged' = TRUE /\ navInterval' = request.interval
       /\ startNavigating(request.single, request.interval, navAlarms)

\* hibernate cancels both alarms, then sets the wake-up.
SleepAlarms(alarms) == {"wakeup"}
hibernate == stopNavigating /\ navAlarms' = SleepAlarms(navAlarms) /\ navSlept' = TRUE
-----------------------------------------------------------------------------
(* The handler *)

NavTail == navQueue' = Tail(navQueue)

\* A native_init that fails takes mEnabled back, whatever was asked for since.
handleEnable ==
  /\ NavIs("enable") /\ NavTail
  /\ \/ navInit' = TRUE /\ UNCHANGED <<navEnabled, navFailed>>
     \/ /\ navFailed < MaxNavFaults /\ navFailed' = navFailed + 1
        /\ navEnabled' = FALSE /\ UNCHANGED navInit
  /\ UNCHANGED <<navRequest, navOff, navEngineVars, navInterval, navCharged, navAlarms, navSched, navFix,
                 navSlept, navLate, navInputs, navFixes>>

handleDisable ==
  /\ NavIs("disable") /\ NavTail /\ StopForGood /\ navInit' = FALSE
  /\ UNCHANGED <<navEnabled, navRequest, navOff, navInterval, navSched, navFix, navFailed, navInputs, navFixes>>

handleSetRequest ==
  /\ NavIs("request") /\ NavTail /\ navRequest' = NavHead.request
  /\ updateRequirements(navRequest', navOff)
  /\ UNCHANGED <<navEnabled, navInit, navOff, navSched, navFix, navInputs, navFixes>>

updateLowPowerMode ==
  /\ NavIs("power") /\ NavTail
  /\ navOff' \in BOOLEAN
  /\ IF navOff' = navOff
     THEN UNCHANGED <<navEngineVars, navInterval, navCharged, navAlarms, navSlept, navLate, navFailed>>
     ELSE updateRequirements(navRequest, navOff')
  /\ UNCHANGED <<navEnabled, navInit, navRequest, navSched, navFix, navInputs, navFixes>>

\* onReceive(ALARM_WAKEUP) looks at no request.
WakeupReceived ==
  /\ NavIs("wakeup") /\ NavTail /\ startNavigating(FALSE, navInterval, navAlarms)
  /\ UNCHANGED <<navEnabled, navInit, navRequest, navOff, navInterval, navCharged, navSched, navFix,
                 navInputs, navFixes>>
TimeoutReceived ==
  /\ NavIs("timeout") /\ NavTail /\ hibernate
  /\ UNCHANGED <<navEnabled, navInit, navRequest, navOff, navInterval, navCharged, navSched, navFix,
                 navLate, navFailed, navInputs, navFixes>>
NavHandle == handleEnable \/ handleDisable \/ handleSetRequest \/ updateLowPowerMode
             \/ WakeupReceived \/ TimeoutReceived
-----------------------------------------------------------------------------
(* reportLocation, on the engine's thread *)

navNotFix == <<navQueue, navEnabled, navInit, navRequest, navOff, navInterval, navCharged, navSched, navLate,
               navFailed, navInputs>>
reportLocation ==
  /\ navFix = "none" /\ navEngine /\ navFixes < MaxFixes /\ navFixes' = navFixes + 1
  /\ navFix' = IF navSingle THEN "shot" ELSE "status"
  /\ UNCHANGED <<navNotFix, navEngineVars, navAlarms, navSlept>>

\* stopNavigating in two steps, here for a single shot and for a hibernation.
FixStop ==
  /\ navFix \in {"shot", "sleep"}
  /\ IF navStarted
     THEN /\ navStarted' = FALSE /\ navSingle' = FALSE
          /\ navFix' = IF navFix = "shot" THEN "shot_rest" ELSE "sleep_rest"
     ELSE /\ navFix' = (IF navFix = "shot" THEN "status" ELSE "alarm") /\ UNCHANGED <<navStarted, navSingle>>
  /\ UNCHANGED <<navNotFix, navFixed, navEngine, navModem, navAlarms, navSlept, navFixes>>
FixStopRest ==
  /\ navFix \in {"shot_rest", "sleep_rest"} /\ StopRest
  /\ navFix' = IF navFix = "shot_rest" THEN "status" ELSE "alarm"
  /\ UNCHANGED <<navNotFix, navStarted, navSingle, navAlarms, navSlept, navFixes>>

\* An engine that schedules fixes by itself is left running.
MaySleep == ~navSched /\ navStarted /\ navInterval # "short"
FixStatus ==
  /\ navFix = "status"
  /\ IF navStarted /\ ~navFixed
     THEN /\ navFixed' = TRUE
          /\ navAlarms' = IF ~navSched /\ navInterval # "long" THEN navAlarms \ {"timeout"} ELSE navAlarms
     ELSE UNCHANGED <<navFixed, navAlarms>>
  /\ navFix' = IF MaySleep THEN "sleep" ELSE "none"
  /\ UNCHANGED <<navNotFix, navStarted, navSingle, navEngine, navModem, navSlept, navFixes>>
FixSleep ==
  /\ navFix = "alarm" /\ navFix' = "none" /\ navAlarms' = SleepAlarms(navAlarms) /\ navSlept' = TRUE
  /\ UNCHANGED <<navNotFix, navEngineVars, navFixes>>
\* reportSvStatus: no fix for RECENT_FIX_TIMEOUT.
reportSvStatus ==
  /\ navFix = "none" /\ navEngine /\ navFixed /\ navFixed' = FALSE
  /\ UNCHANGED <<navNotFix, navStarted, navSingle, navEngine, navModem, navAlarms, navSlept, navFix, navFixes>>
FixRest == FixStop \/ FixStopRest \/ FixStatus \/ FixSleep

GpsNavNext == enable \/ disable \/ setRequest \/ PowerChange \/ AlarmFires \/ NavHandle
              \/ reportLocation \/ FixRest \/ reportSvStatus
\* Alarms go off, the looper handles what is queued, a callback returns.
GpsNavFairness == WF_navVars(AlarmFires) /\ WF_navVars(NavHandle) /\ WF_navVars(FixRest)
GpsNavSpec == GpsNavInit /\ [][GpsNavNext]_navVars /\ GpsNavFairness
-----------------------------------------------------------------------------
(* The SUPL server: csmClient callbacks, GetBootstrapTask, the SIM broadcast   *)

VARIABLES suplSim,      \* the SIM is loaded
          suplTasks,    \* GetBootstrapTask threads that run
          suplHslp,     \* mUiccHslp is set
          suplHost,     \* mSuplServerHost is set
          suplServer,   \* what native_set_agps_server was told last
          suplEnabled, suplReady,  \* mEnabled; handleEnable is done
          suplEnabling, \* handleEnable has found mUiccHslp set
          suplLate,     \* when the SIM went away its address was being read or handed over, or no other was known
          suplInputs
suplVars == <<suplSim, suplTasks, suplHslp, suplHost, suplServer, suplEnabled, suplReady, suplEnabling, suplLate,
              suplInputs>>
Servers == {"none", "conf", "uicc", "null"}
SuplTypeOK ==
  /\ suplSim \in BOOLEAN /\ suplTasks \in 0..MaxNavInputs /\ suplHslp \in BOOLEAN /\ suplHost \in BOOLEAN
  /\ suplServer \in Servers /\ suplEnabled \in BOOLEAN /\ suplReady \in BOOLEAN /\ suplEnabling \in BOOLEAN
SuplInit ==
  /\ suplSim = FALSE /\ suplTasks = 0 /\ suplHslp = FALSE /\ suplHost \in BOOLEAN /\ suplServer = "none"
  /\ suplEnabled = FALSE /\ suplReady = FALSE /\ suplEnabling = FALSE /\ suplLate = FALSE /\ suplInputs = 0
SuplInput == suplInputs < MaxNavInputs /\ suplInputs' = suplInputs + 1

onSimLoaded ==
  /\ ~suplSim /\ SuplInput /\ suplSim' = TRUE /\ suplTasks' = suplTasks + 1
  /\ UNCHANGED <<suplHslp, suplHost, suplServer, suplEnabled, suplReady, suplEnabling, suplLate>>

\* The server of the configuration, told to the engine when the provider is enabled.
ConfAgain == IF suplEnabled /\ suplHost THEN "conf" ELSE suplServer
onSimAbsent ==
  /\ suplSim /\ SuplInput /\ suplSim' = FALSE /\ suplHslp' = FALSE
  /\ suplServer' = IF suplHslp THEN ConfAgain ELSE suplServer
  /\ suplLate' = (suplLate \/ suplTasks > 0 \/ suplEnabling \/ ~suplHost)
  /\ UNCHANGED <<suplTasks, suplHost, suplEnabled, suplReady, suplEnabling>>

\* doInBackground: the card has an address or it has none, or cannot be read.
GetBootstrapTask ==
  /\ suplTasks > 0 /\ suplTasks' = suplTasks - 1 /\ suplHslp' \in BOOLEAN
  /\ suplServer' = IF ~suplHslp' THEN ConfAgain ELSE IF suplEnabled THEN "uicc" ELSE suplServer
  /\ UNCHANGED <<suplSim, suplHost, suplEnabled, suplReady, suplEnabling, suplLate, suplInputs>>

\* reloadGpsProperties and setSuplHostPort tell the engine without a look at mUiccHslp.
reloadGpsProperties ==
  /\ SuplInput /\ suplHost' \in {suplHost, TRUE}
  /\ suplServer' \in IF suplHost' THEN {"conf", suplServer} ELSE {suplServer}
  /\ UNCHANGED <<suplSim, suplTasks, suplHslp, suplEnabled, suplReady, suplEnabling, suplLate>>

SuplEnable ==
  /\ ~suplEnabled /\ ~suplReady /\ SuplInput /\ suplEnabled' = TRUE
  /\ UNCHANGED <<suplSim, suplTasks, suplHslp, suplHost, suplServer, suplReady, suplEnabling, suplLate>>
SuplDisable ==
  /\ suplEnabled /\ suplReady /\ SuplInput /\ suplEnabled' = FALSE /\ suplReady' = FALSE
  /\ UNCHANGED <<suplSim, suplTasks, suplHslp, suplHost, suplServer, suplEnabling, suplLate>>
\* handleEnable reads mUiccHslp twice: for the test, and for the call.
EnableServer ==
  /\ suplEnabled /\ ~suplReady
  /\ IF suplEnabling
     THEN suplServer' = (IF suplHslp THEN "uicc" ELSE "null") /\ suplEnabling' = FALSE /\ suplReady' = TRUE
     ELSE IF suplHslp THEN suplEnabling' = TRUE /\ UNCHANGED <<suplServer, suplReady>>
     ELSE /\ suplServer' = (IF suplHost THEN "conf" ELSE suplServer)
          /\ suplReady' = TRUE /\ UNCHANGED suplEnabling
  /\ UNCHANGED <<suplSim, suplTasks, suplHslp, suplHost, suplEnabled, suplLate, suplInputs>>
SuplNext == onSimLoaded \/ onSimAbsent \/ GetBootstrapTask \/ reloadGpsProperties
            \/ SuplEnable \/ SuplDisable \/ EnableServer
-----------------------------------------------------------------------------
(* Properties *)

(* The engine runs only while a client asks for fixes and is charged for it in *)
(* the battery and app-op accounts, through every order of requests, disabling,*)
(* power changes, sleeping and waking up.  A start that crosses an alarm       *)
(* already on its way, or a stop made by a fix still in progress, is the       *)
(* exception: WakeupReceived looks at nothing.                                 *)
EngineRunsForAClient == navStarted /\ ~navLate => navCharged /\ navRequest.report /\ ~navOff

(* mStarted tells the truth about the engine, and a stopped engine has given   *)
(* the modem back.  A failed start keeps the modem: nothing calls csmStop.     *)
StoppedReleasesTheModem ==
  navFix = "none" /\ ~navLate => /\ navEngine = navStarted
                                 /\ (~navStarted /\ navFailed = 0 => ~navModem)

(* An engine that hibernates between two fixes is started again, unless its    *)
(* request is withdrawn: the wake-up alarm is never lost.                      *)
HibernationEnds == navSlept ~> (navStarted \/ ~navSlept)

(* Once the SIM is gone the engine no longer uses the H-SLP address read from  *)
(* it, unless the address was still being read or handed over at that moment,  *)
(* or the configuration names no other server.                                 *)
ServerFollowsTheSim == suplReady /\ ~suplSim /\ ~suplLate => suplServer # "uicc"

(* The engine and the SUPL server serve who asks now: the engine runs for a    *)
(* client that is charged for it, a stopped engine has given the modem back,   *)
(* and the H-SLP address of a SIM goes with the SIM.                           *)
EngineServesItsClients ==
  /\ GpsNavTypeOK /\ SuplTypeOK
  /\ EngineRunsForAClient /\ StoppedReleasesTheModem /\ ServerFollowsTheSim
=============================================================================
