----------------------------- MODULE MdsObserver -----------------------------
(* DisplayObserver.java, DisplaySetting.java and its JNI code, together with   *)
(* the service they talk to.  Three threads: the composer's event thread tells *)
(* the listener while it holds mMutex; the observer's main thread and the      *)
(* input thread call the service through JNI, taking gMutex, then mMutex.      *)
EXTENDS Integers, Sequences, SequencesExt

CONSTANTS MaxObsEvents,  \* changes of the sink, of video and WiDi, broadcasts
          MaxTouches     \* touch events

ObserverAssumption == MaxObsEvents \in Nat /\ MaxTouches \in Nat
ASSUME ObserverAssumption

VARIABLES obsSink,       \* what is on the cable: "none", "hdmi", "dvi"
          obsOwed,       \* hotplug events not yet handled by the service
          obsMode,       \* mMode of the composer
          obsVpp,        \* mDisplayId of the composer is the virtual display
          obsInput,      \* input state the display callback was told last
          obsBlank,      \* phone call state the display callback was told last
          obsM, obsG,    \* holders of mMutex and gMutex
          obsTell,       \* the mode being told under mMutex, or NoTell
          obsCalls,      \* what the main and the input thread ask of the service
          obsHdmi, obsDvi, obsAllow,  \* mHDMIConnected, mDVIConnected, mAllowModeSet
          obsWidi,       \* mWidiConnected
          obsTold,       \* a mode was told
          obsBuilt,      \* progress of the constructor
          obsRead,       \* the mode the constructor has read
          obsLate,       \* a mode was told during construction, or the one read has both bits
          obsQueue,      \* messages of mHandler
          obsTimers,     \* MSG_INPUT_TIMEOUT messages that are not due yet
          obsListens,    \* mTouchEventListener is registered
          obsSticky,     \* the last sticky hotplug intent
          obsSettings,   \* the last MDS_ALLOW_MODE_SET broadcast
          obsEvents, obsTouches
obsService == <<obsSink, obsOwed, obsMode, obsVpp, obsInput, obsBlank>>
obsLocks == <<obsM, obsG, obsTell, obsCalls>>
obsFlags == <<obsHdmi, obsDvi, obsAllow, obsWidi, obsTold>>
obsCtor == <<obsBuilt, obsRead, obsLate>>
obsHandler == <<obsQueue, obsTimers, obsListens>>
obsSent == <<obsSticky, obsSettings>>
obsBounds == <<obsEvents, obsTouches>>
obsVars == <<obsService, obsLocks, obsFlags, obsCtor, obsHandler, obsSent, obsBounds>>

Callers == {"main", "input"}
NoCall == [op |-> "none", step |-> "idle"]
NoTell == {"nothing"}
NoIntent == [type |-> "none", on |-> FALSE]
Types == {"hdmi", "dvi"}
Bits == Types \cup {"widi", "video"}

ObserverTypeOK ==
  /\ obsSink \in {"none"} \cup Types /\ obsOwed \in 0..MaxObsEvents /\ obsMode \subseteq Bits
  /\ obsM \in Callers \cup {"event", "free"} /\ obsG \in Callers \cup {"free"}
  /\ (obsTell = NoTell) = (obsM = "free")
  /\ obsHdmi \in BOOLEAN /\ obsDvi \in BOOLEAN /\ (obsHdmi /\ obsDvi => obsLate)
  /\ obsTimers \in 0..1 /\ obsListens \in BOOLEAN /\ obsInput \in BOOLEAN /\ obsBlank \in BOOLEAN
  /\ obsSticky.type \in {"none"} \cup Types

\* The service runs, video may be playing, and DisplayObserver has just set its listener.
ObserverStart(used) ==
  /\ obsSink \in {"none"} \cup Types /\ obsOwed = 0
  /\ \E video \in SUBSET {"video"} : obsMode = video \cup ({obsSink} \cap Types)
  /\ obsVpp = FALSE /\ obsInput = FALSE /\ obsBlank = FALSE
  /\ obsM = "free" /\ obsG = "free" /\ obsTell = NoTell /\ obsCalls = [t \in Callers |-> NoCall]
  /\ obsHdmi = FALSE /\ obsDvi = FALSE /\ obsAllow = TRUE /\ obsWidi = FALSE /\ obsTold = FALSE
  /\ obsBuilt = "listening" /\ obsRead = {} /\ obsLate = FALSE
  /\ obsQueue = <<>> /\ obsTimers = 0 /\ obsListens = FALSE
  /\ obsSticky = NoIntent /\ obsSettings = TRUE /\ obsEvents = used /\ obsTouches = 0
ObserverInit == ObserverStart(0)
ObsEvent == obsEvents < MaxObsEvents /\ obsEvents' = obsEvents + 1 /\ UNCHANGED obsTouches
-----------------------------------------------------------------------------
(* The service *)

\* The cable is plugged in or out; the composer will be called about it.
SinkChange ==
  /\ ObsEvent /\ obsOwed' = obsOwed + 1
  /\ obsSink' \in IF obsSink = "none" THEN Types ELSE {"none"}
  /\ UNCHANGED <<obsMode, obsVpp, obsInput, obsBlank, obsLocks, obsFlags, obsCtor, obsHandler, obsSent>>

\* The composer takes a mode and tells it, if it must, with its lock held.
SetMode(mode, tell) ==
  /\ obsM = "free" /\ obsMode' = mode
  /\ IF tell THEN obsM' = "event" /\ obsTell' = mode ELSE UNCHANGED <<obsM, obsTell>>
  /\ UNCHANGED <<obsSink, obsVpp, obsInput, obsBlank, obsG, obsCalls, obsFlags, obsCtor, obsHandler, obsSent>>
Toggled(bit) == IF bit \in obsMode THEN obsMode \ {bit} ELSE obsMode \cup {bit}
\* A connected sink only adds its bit; no sink removes both.
WithSink == IF obsSink = "none" THEN obsMode \ Types ELSE obsMode \cup {obsSink}
HotplugHandled ==
  obsOwed > 0 /\ obsOwed' = obsOwed - 1 /\ SetMode(WithSink, WithSink # obsMode) /\ UNCHANGED obsBounds
VideoSwitched == ObsEvent /\ SetMode(Toggled("video"), TRUE) /\ UNCHANGED obsOwed
WidiSwitched == ObsEvent /\ SetMode(Toggled("widi"), TRUE) /\ UNCHANGED obsOwed
-----------------------------------------------------------------------------
(* The observer is told: listenerOnMdsMessage on a binder thread *)

ObsMsg(what, arg) == [what |-> what, arg |-> arg]
Monitoring(mode) == mode \cap {"hdmi", "dvi", "widi"} # {} /\ "video" \in mode
Hotplugged(hdmi, dvi, type, on) ==
  [hdmi |-> hdmi, dvi |-> dvi, msgs |-> <<ObsMsg("edp", [type |-> type, on |-> on])>>]
NotHotplugged == [hdmi |-> obsHdmi, dvi |-> obsDvi, msgs |-> <<>>]
NewDvi(mode) ==
  CASE ~obsDvi /\ "dvi" \in mode -> Hotplugged(FALSE, TRUE, "dvi", TRUE)
    [] obsDvi /\ "dvi" \notin mode -> Hotplugged(obsHdmi, FALSE, "dvi", FALSE)
    [] OTHER -> NotHotplugged

\* A faulty variant; no step uses it.
NewConnection_plugs(mode) ==
  CASE ~obsHdmi /\ "hdmi" \in mode -> Hotplugged(TRUE, FALSE, "hdmi", TRUE)
    [] OTHER -> NewDvi(mode)

\* A change of HDMI ends the handling; DVI is looked at when HDMI did not change.
NewConnection(mode) ==
  CASE ~obsHdmi /\ "hdmi" \in mode -> Hotplugged(TRUE, FALSE, "hdmi", TRUE)
    [] obsHdmi /\ "hdmi" \notin mode -> Hotplugged(FALSE, obsDvi, "hdmi", FALSE)
    [] OTHER -> NewDvi(mode)

\* A faulty variant; no step uses it.
MayTell_locked == obsG = "free"

\* JNIMDSListener::listenerOnMdsMessage takes no lock of the client.
MayTell == TRUE

ModeMessages(mode) ==
  <<ObsMsg(IF Monitoring(mode) THEN "start" ELSE "stop", NoIntent), ObsMsg("enable", "video" \notin mode)>>

\* The composer's lock is given back; when the teller was a call of the client, so is gMutex.
listenerOnMdsMessage ==
  /\ obsTell # NoTell /\ MayTell /\ obsTell' = NoTell /\ obsM' = "free"
  /\ IF obsM = "event" THEN UNCHANGED <<obsG, obsCalls>>
     ELSE obsG' = "free" /\ obsCalls' = [obsCalls EXCEPT ![obsM] = NoCall]
  /\ LET new == NewConnection(obsTell) IN
       /\ obsHdmi' = new.hdmi /\ obsDvi' = new.dvi
       /\ obsQueue' = obsQueue \o ModeMessages(obsTell) \o new.msgs
  /\ obsAllow' = ("video" \notin obsTell) /\ obsTold' = TRUE
  /\ obsLate' = (obsLate \/ obsBuilt # "done")
  /\ UNCHANGED <<obsService, obsWidi, obsBuilt, obsRead, obsTimers, obsListens, obsSent, obsBounds>>
-----------------------------------------------------------------------------
(* Calls through JNI: gMutex, then mMutex; both are given back at the end *)

CallOf(t, op) == obsCalls[t] = NoCall /\ obsCalls' = [obsCalls EXCEPT ![t] = [op |-> op, step |-> "want_g"]]
TakeG(t) ==
  /\ obsCalls[t].step = "want_g" /\ obsG = "free" /\ obsG' = t
  /\ obsCalls' = [obsCalls EXCEPT ![t].step = "want_m"]
  /\ UNCHANGED <<obsService, obsM, obsTell, obsFlags, obsCtor, obsHandler, obsSent, obsBounds>>

WantsM(t) == obsCalls[t].step = "want_m" /\ obsM = "free"
Answered(t) == obsG' = "free" /\ obsCalls' = [obsCalls EXCEPT ![t] = NoCall] /\ UNCHANGED <<obsM, obsTell>>
OpIs(t, op) == WantsM(t) /\ obsCalls[t].op = op
getMode(t) ==
  /\ OpIs(t, "mode") /\ Answered(t) /\ obsRead' = obsMode /\ obsBuilt' = "read"
  /\ UNCHANGED <<obsService, obsFlags, obsLate, obsHandler, obsSent, obsBounds>>
updatePhoneCallState(t) ==
  /\ OpIs(t, "ringing") \/ OpIs(t, "hangup")
  /\ Answered(t) /\ obsBlank' = (obsCalls[t].op = "ringing")
  /\ UNCHANGED <<obsSink, obsOwed, obsMode, obsVpp, obsInput, obsFlags, obsCtor, obsHandler, obsSent, obsBounds>>
updateInputState(t) ==
  /\ OpIs(t, "touch") \/ OpIs(t, "timeout")
  /\ obsInput' = (obsCalls[t].op = "touch") /\ obsG' = "free" /\ UNCHANGED <<obsM, obsTell>>
  /\ obsCalls' = [obsCalls EXCEPT ![t] = IF @.op = "touch" THEN [op |-> "touch", step |-> "rearm"] ELSE NoCall]
  /\ UNCHANGED <<obsSink, obsOwed, obsMode, obsVpp, obsBlank, obsFlags, obsCtor, obsHandler, obsSent, obsBounds>>
\* setVppState with status -1 notes the connection; with another one the
\* composer tells its mode while the caller waits inside the call.
setVppConnected(t) ==
  /\ OpIs(t, "widi_on") \/ OpIs(t, "widi_off")
  /\ Answered(t) /\ obsVpp' = (obsCalls[t].op = "widi_on")
  /\ UNCHANGED <<obsSink, obsOwed, obsMode, obsInput, obsBlank, obsFlags, obsCtor, obsHandler, obsSent, obsBounds>>
setVppStatus(t) ==
  /\ OpIs(t, "vpp") /\ obsM' = t /\ obsTell' = obsMode
  /\ UNCHANGED <<obsService, obsG, obsCalls, obsFlags, obsCtor, obsHandler, obsSent, obsBounds>>
TakeM(t) ==
  \/ getMode(t) \/ updatePhoneCallState(t) \/ updateInputState(t) \/ setVppConnected(t) \/ setVppStatus(t)
-----------------------------------------------------------------------------
(* The main thread: the constructor, then the receiver and the handler *)

ResetFlags ==
  /\ obsBuilt = "listening" /\ obsBuilt' = "reading" /\ obsHdmi' = FALSE /\ obsDvi' = FALSE /\ CallOf("main", "mode")
  /\ UNCHANGED <<obsService, obsM, obsG, obsTell, obsAllow, obsWidi, obsTold, obsRead, obsLate, obsHandler, obsSent,
                 obsBounds>>
UseMode ==
  /\ obsBuilt = "read" /\ obsBuilt' = "done"
  /\ obsHdmi' = (obsHdmi \/ "hdmi" \in obsRead) /\ obsDvi' = (obsDvi \/ (obsRead \cap Types = {"dvi"}))
  /\ obsLate' = (obsLate \/ Types \subseteq obsRead)
  /\ UNCHANGED <<obsService, obsLocks, obsAllow, obsWidi, obsTold, obsRead, obsHandler, obsSent, obsBounds>>

\* PHONE_STATE_CHANGED: RINGING and IDLE count.
PhoneStateChanged ==
  /\ obsBuilt = "done" /\ ObsEvent /\ \E op \in {"ringing", "hangup"} : CallOf("main", op)
  /\ UNCHANGED <<obsService, obsM, obsG, obsTell, obsFlags, obsCtor, obsHandler, obsSent>>
WifiDisplayStatusChanged ==
  /\ obsBuilt = "done" /\ ObsEvent /\ obsWidi' = ~obsWidi /\ CallOf("main", IF obsWidi' THEN "widi_on" ELSE "widi_off")
  /\ UNCHANGED <<obsService, obsM, obsG, obsTell, obsHdmi, obsDvi, obsAllow, obsTold, obsCtor, obsHandler, obsSent>>
SetVppStatus ==
  /\ obsBuilt = "done" /\ ObsEvent /\ CallOf("main", "vpp")
  /\ UNCHANGED <<obsService, obsM, obsG, obsTell, obsFlags, obsCtor, obsHandler, obsSent>>

NoTimeout(queue) == SelectSeq(queue, LAMBDA m : m.what # "timeout")
ObsTakes(what) ==
  obsBuilt = "done" /\ obsCalls["main"] = NoCall /\ obsQueue # <<>> /\ Head(obsQueue).what = what
\* startMonitoringInput starts the "input idle" count down.
CountDown == 1

startMonitoringInput ==
  /\ ObsTakes("start") /\ obsQueue' = Tail(obsQueue) /\ obsListens' = TRUE
  /\ obsTimers' = IF obsListens THEN obsTimers ELSE CountDown
  /\ UNCHANGED <<obsService, obsLocks, obsFlags, obsCtor, obsSent, obsBounds>>
stopMonitoringInput ==
  /\ ObsTakes("stop") /\ obsListens' = FALSE
  /\ obsTimers' = IF obsListens THEN 0 ELSE obsTimers
  /\ obsQueue' = IF obsListens THEN NoTimeout(Tail(obsQueue)) ELSE Tail(obsQueue)
  /\ UNCHANGED <<obsService, obsLocks, obsFlags, obsCtor, obsSent, obsBounds>>
sendEdpConnectionChangeIntent ==
  /\ ObsTakes("edp") /\ obsQueue' = Tail(obsQueue) /\ obsSticky' = Head(obsQueue).arg
  /\ UNCHANGED <<obsService, obsLocks, obsFlags, obsCtor, obsTimers, obsListens, obsSettings, obsBounds>>
enableHdmiSetting ==
  /\ ObsTakes("enable") /\ obsQueue' = Tail(obsQueue) /\ obsSettings' = Head(obsQueue).arg
  /\ UNCHANGED <<obsService, obsLocks, obsFlags, obsCtor, obsTimers, obsListens, obsSticky, obsBounds>>
HandleTimeout ==
  /\ ObsTakes("timeout") /\ obsQueue' = Tail(obsQueue) /\ CallOf("main", "timeout")
  /\ UNCHANGED <<obsService, obsM, obsG, obsTell, obsFlags, obsCtor, obsTimers, obsListens, obsSent, obsBounds>>
handleObserverMessage ==
  \/ startMonitoringInput \/ stopMonitoringInput \/ sendEdpConnectionChangeIntent \/ enableHdmiSetting
  \/ HandleTimeout
InputTimeout ==
  /\ obsTimers > 0 /\ obsTimers' = obsTimers - 1 /\ obsQueue' = Append(obsQueue, ObsMsg("timeout", NoIntent))
  /\ UNCHANGED <<obsService, obsLocks, obsFlags, obsCtor, obsListens, obsSent, obsBounds>>
-----------------------------------------------------------------------------
(* The input thread: the service is told, then the timeout is set anew *)

onPointerEvent ==
  /\ obsListens /\ obsTouches < MaxTouches /\ obsTouches' = obsTouches + 1 /\ CallOf("input", "touch")
  /\ UNCHANGED <<obsService, obsM, obsG, obsTell, obsFlags, obsCtor, obsHandler, obsSent, obsEvents>>
RearmTimeout ==
  /\ obsCalls["input"].step = "rearm" /\ obsCalls' = [obsCalls EXCEPT !["input"] = NoCall]
  /\ obsTimers' = 1 /\ obsQueue' = NoTimeout(obsQueue)
  /\ UNCHANGED <<obsService, obsM, obsG, obsTell, obsFlags, obsCtor, obsListens, obsSent, obsBounds>>

ObserverCore ==
  \/ SinkChange \/ HotplugHandled \/ VideoSwitched \/ listenerOnMdsMessage \/ ResetFlags \/ UseMode
  \/ handleObserverMessage \/ InputTimeout \/ onPointerEvent \/ RearmTimeout
  \/ \E t \in Callers : TakeG(t) \/ TakeM(t)
ObserverBroadcasts == WidiSwitched \/ PhoneStateChanged \/ WifiDisplayStatusChanged \/ SetVppStatus
ObserverNext == ObserverCore \/ ObserverBroadcasts
\* Every thread goes on while it can: a lock that stays free is taken.
ObserverFairness ==
  /\ WF_obsVars(listenerOnMdsMessage)
  /\ WF_obsVars(ResetFlags \/ UseMode \/ handleObserverMessage)
  /\ WF_obsVars(RearmTimeout) /\ WF_obsVars(InputTimeout)
  /\ \A t \in Callers : /\ WF_obsVars(TakeG(t))
                        /\ WF_obsVars(TakeM(t))
ObserverSpec == ObserverInit /\ [][ObserverNext]_obsVars /\ ObserverFairness
-----------------------------------------------------------------------------
(* Properties *)

ObsQuiet == obsBuilt = "done" /\ obsOwed = 0 /\ obsTell = NoTell /\ obsQueue = <<>>

(* Once everything told is handled, the flags of DisplayObserver are the bits  *)
(* of the composer, and the sticky hotplug intent, if one was sent, agrees     *)
(* with them.  Left out are a mode told while the constructor runs, which it   *)
(* may overwrite, and both bits at once after a quick swap: every later        *)
(* message turns the flags over, and a constructor that reads them can end     *)
(* with both flags set, of which a disconnect clears one.                      *)
ObserverKnowsTheConnection ==
  ObsQuiet /\ ~obsLate /\ ~(Types \subseteq obsMode) =>
    /\ obsHdmi = ("hdmi" \in obsMode) /\ obsDvi = ("dvi" \in obsMode)
    /\ (obsSticky.on => obsSticky.type \in obsMode)
    /\ (obsSticky # NoIntent /\ ~obsSticky.on => obsMode \cap Types = {})

(* Once a mode was told and handled, the observer listens to touches exactly   *)
(* while video plays on an external display, and the last broadcast allows a   *)
(* change of the timing exactly while no video plays.                          *)
VideoGatesTheDisplay ==
  ObsQuiet /\ obsTold => /\ obsListens = Monitoring(obsMode)
                         /\ obsSettings = ("video" \notin obsMode)

(* The threads that call the service, and the one that tells its listener with *)
(* the composer's lock held, all come back: the order gMutex, mMutex of the    *)
(* calls never meets a listener that waits for gMutex.                         *)
ServiceCallsReturn ==
  LET busy == obsTell # NoTell \/ \E t \in Callers : obsCalls[t] # NoCall
  IN  busy ~> ~busy

(* While touches are listened to, an active input state goes back to idle,     *)
(* also when the listening stopped with the state active and starts again.     *)
InputGoesIdle == (obsListens /\ obsInput) ~> (~obsInput \/ ~obsListens)
=============================================================================
