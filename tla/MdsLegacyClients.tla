-------------------------- MODULE MdsLegacyClients --------------------------
(***************************************************************************)
(* Who drives the legacy composer: the DisplayObserver of the system       *)
(* server (hot-plug events, incoming calls, forced landscape), the video   *)
(* players through MultiDisplayVideoClient, and the graphics stack through *)
(* MultiDisplayClient.                                                     *)
(***************************************************************************)
EXTENDS MdsLegacy

CONSTANTS Players,
          VideoGarbage   \* what the uninitialised mVideoState may hold

VARIABLES
  lobs,      \* DisplayObserver: its fields and the step its handler is at
  lobsMsg,   \* the hot-plug and power-off messages pending on its handler
  luevent,   \* the kernel's event on its way
  lturn,     \* mIsExtMode, the pending FORCING_LANDSCAPE, mForceLandscape
  lplay,     \* per player: mState, the call in progress, whether it died
  legEarly   \* history: another caller saw the plug before the observer did

clientVars == <<lobs, lobsMsg, luevent, lplay>>
legacyVars == <<legVars, clientVars, lturn, legEarly>>

NoHotplug == "none"
NoTurn == "none"

LegacyInit ==
  /\ legCable \in Cables
  /\ \E v \in VideoGarbage :
       leg = [mode |-> {}, told |-> Untold, heard |-> FALSE, panel |-> TRUE,
              on |-> TRUE, dark |-> FALSE, offAllowed |-> FALSE,
              allowed |-> TRUE, playing |-> FALSE, vstate |-> v, widi |-> FALSE,
              status |-> "none", audio |-> FALSE, power |-> FALSE,
              boot |-> "hdmi"]
  /\ legLock = NoLock
  /\ legMipi = [req |-> "no", taken |-> "no"]
  /\ legWidi = NoWidi
  /\ legTimer = "none"
  /\ legWork = [t \in HdcpThreads |-> NoWork]
  /\ legLink = FALSE /\ legIed = TRUE /\ legTorn = FALSE /\ legUsed = 0
  /\ lobs = [event |-> "out", at |-> "start", connected |-> FALSE,
             allowed |-> TRUE]
  /\ lobsMsg = [hotplug |-> NoHotplug, powerOff |-> "no"]
  /\ luevent = NoHotplug
  /\ lturn = [ext |-> FALSE, msg |-> NoTurn, forced |-> FALSE]
  /\ lplay = [p \in Players |-> [state |-> "UNPREPARED", at |-> "idle",
                                 to |-> "UNPREPARED", dead |-> FALSE]]
  /\ legEarly = FALSE

(***************************************************************************)
(* The cable and DisplayObserver                                           *)
(***************************************************************************)
\* The constructor: the listener and the event observer are registered, then
\* the mode is read.
ObserverStarts ==
  /\ lobs.at = "start"
  /\ registerListener(TRUE)
  /\ lobs' = [lobs EXCEPT !.at = "idle", !.connected = "CONNECTED" \in leg.mode]
  /\ UNCHANGED <<lobsMsg, luevent, lplay, legUsed>>

\* onUEvent: only the newest hot-plug event stays pending.
onUEvent(e) == lobsMsg' = [lobsMsg EXCEPT !.hotplug = e]

\* The cable is plugged or pulled: its link stops being encrypted, and the
\* driver sends an event if someone listens.
CableMoves ==
  /\ Ready /\ LegEvent
  /\ legCable' = (IF legCable = "none" THEN "hdmi" ELSE "none")
  /\ legLink' = (legLink /\ legCable' # "none")
  /\ luevent' = IF lobs.at = "start" THEN luevent
                ELSE IF legCable' = "none" THEN "out" ELSE "in"
  /\ UNCHANGED <<leg, legLock, legMipi, legWidi, legTimer, legWork, legIed,
                 legTorn, lobs, lobsMsg, lplay>>

UEventArrives ==
  /\ luevent # NoHotplug
  /\ onUEvent(luevent)
  /\ lobs' = [lobs EXCEPT !.event = luevent]
  /\ luevent' = NoHotplug
  /\ UNCHANGED <<legVars, lplay>>

\* preNotifyHotplug: a pending power-off goes, the connection is announced.
preNotifyHotplug(e) ==
  /\ lobsMsg' = [lobsMsg EXCEPT !.hotplug = NoHotplug, !.powerOff = "no"]
  /\ lobs' = [lobs EXCEPT !.connected = (e = "in"), !.at = "notify"]

\* handleMessage, HDMI_HOTPLUG: an event that is no longer the latest is
\* dropped.
HandleHotplug ==
  LET e == lobsMsg.hotplug
  IN  /\ lobs.at = "idle" /\ e # NoHotplug /\ lobsMsg.powerOff # "due"
      /\ IF e = lobs.event THEN preNotifyHotplug(e)
         ELSE lobsMsg' = [lobsMsg EXCEPT !.hotplug = NoHotplug] /\ UNCHANGED lobs
      /\ UNCHANGED <<legVars, luevent, lplay>>

\* mDs.notifyHotPlug(), and its return: postNotifyHotplug.  A plug-out asks
\* for the power to be cut a second later.
NotifyHotplug ==
  /\ lobs.at = "notify"
  /\ notifyHotPlug("handler")
  /\ lobs' = [lobs EXCEPT !.at = "post"]
  /\ UNCHANGED <<lobsMsg, luevent, lplay, legUsed>>

PostHotplug ==
  /\ lobs.at = "post" /\ legLock.by # "handler"
  /\ lobs' = [lobs EXCEPT !.at = "idle"]
  /\ lobsMsg' = [lobsMsg EXCEPT !.powerOff = IF lobs.connected THEN @ ELSE "sent"]
  /\ UNCHANGED <<legVars, luevent, lplay>>

\* The second passes: what happened before it was handled first.
PowerOffDue ==
  /\ lobsMsg.powerOff = "sent" /\ lobsMsg.hotplug = NoHotplug /\ luevent = NoHotplug
  /\ lobsMsg' = [lobsMsg EXCEPT !.powerOff = "due"]
  /\ UNCHANGED <<legVars, lobs, luevent, lplay>>

\* handleMessage, HDMI_POWER_OFF.
HandlePowerOff ==
  /\ lobs.at = "idle" /\ lobsMsg.powerOff = "due"
  /\ setHdmiPowerOff
  /\ lobsMsg' = [lobsMsg EXCEPT !.powerOff = "no"]
  /\ UNCHANGED <<lobs, luevent, lplay, legUsed>>

\* onReceive, ACTION_PHONE_STATE_CHANGED: the panel policy first, then the
\* HDMI policy if it differs from the last one set here.
PhoneState(ringing) ==
  /\ lobs.at = "idle" /\ LegEvent
  /\ setMipiPolicy("handler", FALSE)
  /\ lobs' = [lobs EXCEPT !.at = IF lobs.allowed = ringing THEN "policy" ELSE @]
  /\ UNCHANGED <<lobsMsg, luevent, lplay>>

SetHdmiPolicy ==
  /\ lobs.at = "policy"
  /\ setHdmiPolicy("handler", ~lobs.allowed)
  /\ lobs' = [lobs EXCEPT !.at = "policed"]
  /\ UNCHANGED <<lobsMsg, luevent, lplay, legUsed>>

PolicySet ==
  /\ lobs.at = "policed" /\ legLock.by # "handler"
  /\ lobs' = [lobs EXCEPT !.at = "idle", !.allowed = ~@]
  /\ UNCHANGED <<legVars, lobsMsg, luevent, lplay>>

\* onMdsMessage, inside the composer's broadcast: entering or leaving extended
\* mode leaves one message to turn the screen, the latest.
onMdsMessage(told) ==
  lturn' = IF told = Untold \/ ("EXT" \in told) = lturn.ext THEN lturn
           ELSE [lturn EXCEPT !.ext = ~@,
                              !.msg = IF lturn.ext THEN "thaw" ELSE "force"]

\* handleMessage, FORCING_LANDSCAPE: setLandscape.  A rotation the user locked
\* stays as it is.
HandleTurn ==
  /\ lobs.at = "idle" /\ lturn.msg # NoTurn
  /\ \E locked \in BOOLEAN :
       lturn' = [lturn EXCEPT !.msg = NoTurn,
                              !.forced = IF lturn.msg = "thaw" THEN FALSE
                                         ELSE @ \/ ~locked]
  /\ UNCHANGED <<legVars, clientVars, legEarly>>

(***************************************************************************)
(* MultiDisplayVideoClient                                                 *)
(***************************************************************************)
Step(p, at) == lplay' = [lplay EXCEPT ![p].at = at]

\* prepare: which states a player may move to.  Clear content skips the
\* intermediate ones.
MayMove(p, to, protected) ==
  /\ to \in {"UNPREPARING", "UNPREPARED"} => lplay[p].state # "UNPREPARED"
  /\ to # lplay[p].state
  /\ to \in {"PREPARING", "UNPREPARING"} => protected

\* setVideoState: the source's data first, if it is prepared and known.
SetVideoState(p) ==
  /\ Ready /\ LegEvent
  /\ lplay[p].at = "idle" /\ ~lplay[p].dead
  /\ \E to \in {"PREPARING", "PREPARED", "UNPREPARING", "UNPREPARED"},
        protected, known \in BOOLEAN :
       /\ MayMove(p, to, protected)
       /\ known => to = "PREPARED"
       /\ lplay' = [lplay EXCEPT ![p].to = to,
                                 ![p].at = IF known THEN "info" ELSE "state"]
  /\ UNCHANGED <<leg, legCable, legLock, legMipi, legWidi, hdcpVars, legTorn,
                 lobs, lobsMsg, luevent>>

\* reset: MultiDisplayClient::resetVideoPlayback, two calls.
Reset(p) ==
  /\ Ready /\ LegEvent
  /\ lplay[p].at = "idle" /\ ~lplay[p].dead /\ lplay[p].state # "UNPREPARED"
  /\ Step(p, "reset")
  /\ UNCHANGED <<leg, legCable, legLock, legMipi, legWidi, hdcpVars, legTorn,
                 lobs, lobsMsg, luevent>>

PlayerCall(p) ==
  /\ \/ lplay[p].at = "info" /\ updateVideoInfo(p, TRUE) /\ Step(p, "informed")
     \/ lplay[p].at = "state" /\ prepareForVideo(p, lplay[p].to) /\ Step(p, "stated")
     \/ lplay[p].at = "reset" /\ prepareForVideo(p, "UNPREPARED") /\ Step(p, "clear")
     \/ /\ lplay[p].at = "clear" /\ legLock.by # p
        /\ updateVideoInfo(p, FALSE) /\ Step(p, "cleared")
  /\ UNCHANGED <<legUsed, lobs, lobsMsg, luevent>>

PlayerReturns(p) ==
  /\ legLock.by # p
  /\ \/ lplay[p].at = "informed" /\ Step(p, "state")
     \/ lplay[p].at = "cleared" /\ Step(p, "idle")
     \/ /\ lplay[p].at = "stated"
        /\ lplay' = [lplay EXCEPT ![p].at = "idle", ![p].state = lplay[p].to]
  /\ UNCHANGED <<legVars, lobs, lobsMsg, luevent>>

\* A player's process dies.  The composer keeps no death recipient.
PlayerDies(p) ==
  /\ LegEvent /\ ~lplay[p].dead
  /\ lplay[p].state # "UNPREPARED" \/ lplay[p].at # "idle"
  /\ lplay' = [lplay EXCEPT ![p].at = "idle", ![p].dead = TRUE]
  /\ UNCHANGED <<leg, legCable, legLock, legMipi, legWidi, hdcpVars, legTorn,
                 lobs, lobsMsg, luevent>>

(***************************************************************************)
(* MultiDisplayClient in the graphics stack                                *)
(***************************************************************************)
ClientCalls ==
  /\ LegEvent
  /\ \/ \E req \in {"on", "off"} : notifyMipi(req)
     \/ \E on \in BOOLEAN : notifyWidi(on)
     \/ setMipiPolicy("client", TRUE)
  /\ UNCHANGED clientVars

(***************************************************************************)
(* The whole                                                               *)
(***************************************************************************)
LegacyHandler ==
  \/ ObserverStarts \/ UEventArrives \/ HandleHotplug \/ NotifyHotplug
  \/ PostHotplug \/ PowerOffDue \/ HandlePowerOff \/ SetHdmiPolicy \/ PolicySet
  \/ \E ringing \in BOOLEAN : PhoneState(ringing)

LegacyPlayers ==
  \E p \in Players :
    SetVideoState(p) \/ Reset(p) \/ PlayerCall(p) \/ PlayerReturns(p) \/ PlayerDies(p)

LegacyThreads ==
  /\ Initialize \/ ComposerWork \/ MipiTake \/ MipiServe \/ WidiStore
  /\ UNCHANGED clientVars

LegacyTimers ==
  /\ \E t \in TimerThreads : CheckLinkStatus(t) \/ TimerWork(t)
  /\ UNCHANGED clientVars

\* Another caller than the observer saw the plug first.
SeenEarly ==
  legEarly' = (legEarly \/ (/\ Ready /\ lobs.at # "notify"
                           /\ "CONNECTED" \notin leg.mode
                           /\ "CONNECTED" \in leg'.mode))

LegacyNext ==
  \/ /\ CableMoves \/ LegacyHandler \/ LegacyPlayers \/ LegacyThreads
        \/ LegacyTimers \/ ClientCalls
     /\ onMdsMessage(leg'.told)
     /\ SeenEarly
  \/ HandleTurn

\* The composer's own threads, the handler's looper and a binder call in
\* progress keep running; nothing outside has to happen.
LegacyFairness ==
  /\ WF_legacyVars(ComposerWork /\ UNCHANGED clientVars /\ onMdsMessage(leg'.told) /\ SeenEarly)
  /\ WF_legacyVars(Initialize /\ UNCHANGED clientVars /\ onMdsMessage(leg'.told) /\ SeenEarly)
  /\ WF_legacyVars(/\ legMipi.req # "no"
                   /\ MipiTake /\ UNCHANGED clientVars /\ onMdsMessage(leg'.told) /\ SeenEarly)
  /\ WF_legacyVars(MipiServe /\ UNCHANGED clientVars /\ onMdsMessage(leg'.told) /\ SeenEarly)
  /\ WF_legacyVars(WidiStore /\ UNCHANGED clientVars /\ onMdsMessage(leg'.told) /\ SeenEarly)
  /\ WF_legacyVars(PostHotplug /\ onMdsMessage(leg'.told) /\ SeenEarly)
  /\ WF_legacyVars(PolicySet /\ onMdsMessage(leg'.told) /\ SeenEarly)
  /\ WF_legacyVars(NotifyHotplug /\ onMdsMessage(leg'.told) /\ SeenEarly)
  /\ WF_legacyVars(SetHdmiPolicy /\ onMdsMessage(leg'.told) /\ SeenEarly)
  /\ WF_legacyVars(HandleTurn)

LegacySpec == LegacyInit /\ [][LegacyNext]_legacyVars /\ LegacyFairness

(***************************************************************************)
(* Properties                                                              *)
(***************************************************************************)
Idle == LegFree /\ ~legTorn /\ Ready

LegacyTypeOK ==
  /\ leg.mode \subseteq LegBits /\ leg.told \subseteq LegBits \cup Untold
  /\ leg.vstate \in {"PREPARING", "PREPARED", "UNPREPARING", "UNPREPARED", "OTHER"}
  /\ legLock.by \in {"none", "ctor", "handler"} \cup Players
  /\ (legLock.by = "none") = ~legWork["composer"].busy
  /\ legTimer \in TimerThreads \cup {"none"}
  /\ \A t \in HdcpThreads : legWork[t].n < HdcpTries

\* Whatever cable, calls and players did, an idle composer's mode is what its
\* inputs ask for: a connected and allowed output is cloned, or extended while
\* a video plays; no other output is on (setHdmiMode_l).  Only a torn store of
\* mMode by notifyWidi, which takes the other lock, breaks this.
LegacyModeFollowsItsInputs ==
  Idle =>
    /\ ("CONNECTED" \in leg.mode) = (leg.status = "hdmi")
    /\ ("EXT" \in leg.mode) = (leg.status = "hdmi" /\ leg.allowed /\ leg.playing)
    /\ ("CLONE" \in leg.mode) = (leg.status = "hdmi" /\ leg.allowed /\ ~leg.playing)
    /\ ("HDMI" \in leg.mode) = ({"EXT", "CLONE"} \cap leg.mode # {})
    /\ "HDCP" \in leg.mode => "HDMI" \in leg.mode
    /\ ("PLAYING" \in leg.mode) = leg.playing

\* The local panel is dark only while a video is shown on HDMI instead, or
\* after WiDi or a client's policy asked for it: a request that waited while
\* the mode changed is refused (setMipiMode_l looks at mMode again).
PanelIsDarkForAReason ==
  Idle /\ ~leg.panel => "EXT" \in leg.mode \/ leg.dark

\* mMipiOn may say off while the panel is lit, never on while it is dark: a
\* later request to switch on is not taken for done (setMipiMode_l).
MipiOnMeansLit ==
  ~legTorn /\ leg.on => leg.panel

\* The audio driver knows of the cable what mMode knows, across plugs while
\* HDMI is not allowed and plugs seen by a player first.
AudioFollowsThePlug ==
  Idle => leg.audio = ("CONNECTED" \in leg.mode)

\* What a listener was last told about HDMI, video and overlay is mMode, once
\* the call is over: every path of setHdmiMode_l broadcasts last what it set.
\* (The panel and WiDi bits change without a broadcast.)
ListenersKnowTheMode ==
  Idle /\ leg.told # Untold => leg.told \ {"MIPI", "WIDI"} = leg.mode \ {"MIPI", "WIDI"}

\* The video ends with its last player: mVideo says playing only while some
\* player is prepared, in a call, or died without a word.
VideoEndsWithItsPlayers ==
  leg.playing => \E p \in Players :
    lplay[p].dead \/ lplay[p].at # "idle" \/ lplay[p].state # "UNPREPARED"

\* HDMI that is on has power, although the power is cut by a message sent a
\* second before.  The exception is a player that turned HDMI on before the
\* observer heard of the plug: the old message then cuts a running output.
HdmiOnIsPowered ==
  Idle /\ ~legEarly /\ "HDMI" \in leg.mode => leg.power

\* Display IED is on whenever no thread authenticates a link, although two
\* threads switch it off and on without a lock (drm_hdcp_enable_hdcp_work).
IedComesBack ==
  (\A t \in HdcpThreads : ~legWork[t].busy) => legIed

\* The link-checking timer exists only while the cable is known to be
\* plugged: nothing checks a link that is gone.
TimerNeedsThePlug ==
  Idle /\ legTimer # "none" => "CONNECTED" \in leg.mode

\* A request to light the panel lights it, or a later one replaces it: the
\* request is not lost while setHdmiMode_l holds mLock.
PanelOnIsServed ==
  legMipi.req = "on" ~> leg.panel \/ legMipi.req = "off" \/ legTorn

\* A screen that was forced to landscape is released after extended mode ends.
LandscapeIsReleased ==
  lturn.forced /\ ~lturn.ext ~> ~lturn.forced \/ lturn.ext

=============================================================================
