---------------------------- MODULE MdsComposer ----------------------------
(***************************************************************************)
(* The multi-display service's composer (libmultidisplay/native/           *)
(* MultiDisplayComposer.cpp): the display mode and who was told of it, the *)
(* video sessions, the listener table and the HDMI scaling.  Every public  *)
(* operation holds mMutex from its first to its last line, so each is one  *)
(* action.  A binder call the composer makes while it holds the mutex (to  *)
(* a listener, to the hardware composer's callback, to SurfaceFlinger) is  *)
(* part of the action, and its outcome is chosen by the environment.       *)
(***************************************************************************)
EXTENDS Integers, FiniteSets

CONSTANTS
  MaxListeners,   \* MDS_LISTENER_MAX_VALUE (64 in the build)
  MaxSessions,    \* MDS_VIDEO_SESSION_MAX_VALUE (16 in the build)
  Infos,          \* the video source infos players may send
  OverscanMax,    \* overscan_max (5 in the build)
  OverscanArgs    \* the values a caller passes to setHdmiOverscan

\* An overscan step fits the eight bits setDisplayScalingLocked packs it into.
ASSUME ComposerAssumption ==
  /\ MaxListeners \in Nat \ {0}
  /\ MaxSessions \in Nat \ {0}
  /\ OverscanMax \in Nat
  /\ OverscanArgs \subseteq {arg \in Int : OverscanMax - arg <= 255}

Ids == 0 .. MaxListeners - 1

Sessions == 0 .. MaxSessions - 1

\* The MDS_DISPLAY_MODE bits; a mode value is the set of its bits.
ModeBits == {"DVI", "HDMI", "WIDI", "VIDEO_ON", "VPP_CHANGED"}

\* The values setState accepts; anything else an uninitialized session holds
\* is the one value GARBAGE.
VideoStates == {"PREPARING", "PREPARED", "UNPREPARING", "UNPREPARED"}

ScalingTypes == {"NONE", "FULL_SCREEN", "CENTER", "ASPECT"}

NoInfo == "NoInfo"

\* The view of a listener no broadcast reached yet.
NotTold == {"NotTold"}

VARIABLES
  mDrmInit,       \* drm_init succeeded
  mMode,          \* the current mode, a set of ModeBits
  mVideos,        \* one record per session
  mListeners,     \* the listener table: a function on the ids in use
  mListenerId,    \* the id the next registration takes
  mMDSCallback,   \* is a hardware composer callback registered?
  mScaling,       \* mScaleType, mHorizontalStep and mVerticalStep
  mDisplayId,     \* MDS_DISPLAY_VIRTUAL while Widi is connected (Vpp policy)
  sink,           \* environment: what the HDMI connector reports
  display,        \* environment: the scaling the display really applies
  told            \* environment: the last mode each listener was sent

sessionVars == <<mDrmInit, mVideos>>
listenerVars == <<mListeners, mListenerId>>
scalingVars == <<mScaling, display>>
vars == <<mDrmInit, mMode, mVideos, mListeners, mListenerId, mMDSCallback,
          mScaling, mDisplayId, sink, display, told>>

-----------------------------------------------------------------------------
(***************************************************************************)
(* Video sessions.                                                         *)
(***************************************************************************)

\* MultiDisplayVideoSession::init.
InitSession == [state |-> "UNPREPARED", info |-> NoInfo, decoder |-> FALSE]

\* What an uninitialized MultiDisplayVideoSession may hold.
RawSession ==
  [state : VideoStates \cup {"GARBAGE"}, info : Infos \cup {NoInfo},
   decoder : BOOLEAN]

hasVideoPlaying_l(videos) == \E s \in Sessions : videos[s].state = "PREPARED"

liveSessions(videos) == {s \in Sessions : videos[s].state # "UNPREPARED"}

\* The id allocateVideoSessionId answers: the lowest unprepared session, or -1.
allocateVideoSessionId ==
  LET free == Sessions \ liveSessions(mVideos)
  IN  IF free = {} THEN -1 ELSE CHOOSE s \in free : \A t \in free : s <= t

-----------------------------------------------------------------------------
(***************************************************************************)
(* The mode and its broadcast.                                             *)
(***************************************************************************)

\* Mutant: the bit is never cleared.
WithVideoBit_sticky(mode, videos) ==
  IF hasVideoPlaying_l(videos) THEN mode \cup {"VIDEO_ON"} ELSE mode

WithVideoBit(mode, videos) ==
  IF hasVideoPlaying_l(videos)
    THEN mode \cup {"VIDEO_ON"}
    ELSE mode \ {"VIDEO_ON"}

\* The mode after updateHdmiConnectStatusLocked read the connector: a
\* connected sink adds its bit and removes none.
updateHdmiConnectStatusLocked(mode) ==
  IF ~mDrmInit THEN mode
  ELSE IF sink = "NONE" THEN mode \ {"HDMI", "DVI"}
  ELSE mode \cup {sink}

\* Does the broadcast loop call this listener?
Reached(listener, ignoreVideoDriver) ==
  /\ listener.wantsMode
  /\ ~(ignoreVideoDriver /\ listener.isVideoDriver)

broadcastMessageLocked(mode, ignoreVideoDriver) ==
  told' = [id \in Ids |->
             IF id \in DOMAIN mListeners
                /\ Reached(mListeners[id], ignoreVideoDriver)
               THEN mode
               ELSE told[id]]

-----------------------------------------------------------------------------
(***************************************************************************)
(* The listener table.                                                     *)
(***************************************************************************)

\* registerListener's search after mListenerId ran past the last id: the
\* lowest id not in use, or MaxListeners when every id is in use.
FirstFreeId(used) ==
  IF Ids \subseteq used
    THEN MaxListeners
    ELSE CHOOSE id \in Ids \ used : \A other \in Ids \ used : id <= other

NextListenerId(used) ==
  IF mListenerId + 1 >= MaxListeners
    THEN FirstFreeId(used)
    ELSE mListenerId + 1

\* Mutant: the next id is not checked against the ids in use.
CanRegister_unchecked ==
  /\ Cardinality(DOMAIN mListeners) < MaxListeners
  /\ mListenerId < MaxListeners

\* The checks registerListener makes before it takes mListenerId.
CanRegister ==
  /\ Cardinality(DOMAIN mListeners) < MaxListeners
  /\ mListenerId < MaxListeners
  /\ mListenerId \notin DOMAIN mListeners

Listener == [wantsMode : BOOLEAN, isVideoDriver : BOOLEAN]

RegisterListener(listener) ==
  /\ CanRegister
  /\ mListeners' = [id \in DOMAIN mListeners \cup {mListenerId} |->
                      IF id = mListenerId THEN listener ELSE mListeners[id]]
  /\ mListenerId' = NextListenerId(DOMAIN mListeners \cup {mListenerId})
  /\ UNCHANGED <<sessionVars, mMode, mMDSCallback, scalingVars, mDisplayId,
                 sink, told>>

\* The listener's own view goes with it.
UnregisterListener(id) ==
  /\ id \in DOMAIN mListeners
  /\ mListeners' = [other \in DOMAIN mListeners \ {id} |-> mListeners[other]]
  /\ told' = [told EXCEPT ![id] = NotTold]
  /\ UNCHANGED <<sessionVars, mMode, mListenerId, mMDSCallback, scalingVars,
                 mDisplayId, sink>>

-----------------------------------------------------------------------------
(***************************************************************************)
(* Scaling and overscan.  A setting goes to the callback first and, when   *)
(* that is absent or refuses, straight to SurfaceFlinger; either may       *)
(* refuse.  The cached value changes only when one of them accepted.       *)
(***************************************************************************)

NoScaling == [type |-> "NONE", h |-> 0, v |-> 0]

OverscanStep(arg) == IF arg > OverscanMax THEN 0 ELSE OverscanMax - arg

\* setDisplayScalingLocked, accepted: SurfaceFlinger takes all three values.
SurfaceFlingerTakes(scaling) == display' = scaling /\ mScaling' = scaling

SetHdmiScalingType(type) ==
  /\ \/ /\ mMDSCallback
        /\ display' = [display EXCEPT !.type = type]
        /\ mScaling' = [mScaling EXCEPT !.type = type]
     \/ SurfaceFlingerTakes([mScaling EXCEPT !.type = type])
  /\ UNCHANGED <<sessionVars, mMode, listenerVars, mMDSCallback, mDisplayId,
                 sink, told>>

SetHdmiOverscan(hArg, vArg) ==
  LET h == OverscanStep(hArg)
      v == OverscanStep(vArg)
  IN  /\ \/ /\ mMDSCallback
            /\ display' = [display EXCEPT !.h = h, !.v = v]
            /\ mScaling' = [mScaling EXCEPT !.h = h, !.v = v]
         \/ SurfaceFlingerTakes([mScaling EXCEPT !.h = h, !.v = v])
      /\ UNCHANGED <<sessionVars, mMode, listenerVars, mMDSCallback,
                     mDisplayId, sink, told>>

Scaled == mScaling.type # "NONE"

\* Mutant: only the horizontal step is looked at.
Stepped_horizontal == mScaling.h # 0

Stepped == mScaling.h # 0 \/ mScaling.v # 0

\* The tail of notifyHotplugLocked.  The callback is asked to drop the scaling
\* type, then (only if that was accepted) the overscan; unless the last call
\* was accepted, SurfaceFlinger is asked to drop everything.
ResetScaling ==
  \E typeOk, overscanOk, flingerOk \in BOOLEAN :
    LET typeReset == mMDSCallback /\ Scaled /\ typeOk
        stepsReset == typeReset /\ Stepped /\ overscanOk
        callbackDone == typeReset /\ (Stepped => overscanOk)
        flingerDone == ~callbackDone /\ (Scaled \/ Stepped) /\ flingerOk
    IN  /\ display' =
             IF flingerDone THEN NoScaling
             ELSE [type |-> IF typeReset THEN "NONE" ELSE display.type,
                   h |-> IF stepsReset THEN 0 ELSE display.h,
                   v |-> IF stepsReset THEN 0 ELSE display.v]
        /\ mScaling' =
             IF callbackDone \/ flingerDone THEN NoScaling ELSE mScaling

-----------------------------------------------------------------------------
(***************************************************************************)
(* Hotplug, callback and video operations.                                 *)
(***************************************************************************)

\* Mutant: the listeners are sent the mode saved before the change.
TellIfChanged_old(ignoreVideoDriver) ==
  IF mMode' # mMode
    THEN broadcastMessageLocked(mMode, ignoreVideoDriver)
    ELSE UNCHANGED told

TellIfChanged(ignoreVideoDriver) ==
  IF mMode' # mMode
    THEN broadcastMessageLocked(mMode', ignoreVideoDriver)
    ELSE UNCHANGED told

\* A new callback realigns the HDMI bits, and tells no listener.
RegisterCallback ==
  /\ mMDSCallback' = TRUE
  /\ mMode' = updateHdmiConnectStatusLocked(mMode)
  /\ UNCHANGED <<sessionVars, listenerVars, scalingVars, mDisplayId, sink,
                 told>>

UnregisterCallback ==
  /\ mMDSCallback' = FALSE
  /\ UNCHANGED <<sessionVars, mMode, listenerVars, scalingVars, mDisplayId,
                 sink, told>>

\* updateHdmiConnectionStatus: the connector is read when the event is
\* handled; the event's own "connected" flag only goes to the audio driver.
UpdateHdmiConnectionStatus ==
  /\ mMode' = updateHdmiConnectStatusLocked(WithVideoBit(mMode, mVideos))
  /\ TellIfChanged(FALSE)
  /\ ResetScaling
  /\ UNCHANGED <<sessionVars, listenerVars, mMDSCallback, mDisplayId, sink>>

UpdateWidiConnectionStatus(connected) ==
  /\ mMode' = IF connected THEN mMode \cup {"WIDI"} ELSE mMode \ {"WIDI"}
  /\ broadcastMessageLocked(mMode', FALSE)
  /\ UNCHANGED <<sessionVars, listenerVars, mMDSCallback, scalingVars,
                 mDisplayId, sink>>

\* A session id out of range and a state the session already has are refused.
AcceptsState(s, state) == s \in Sessions /\ mVideos[s].state # state

\* Mutant: the session of a closed player is not reset.
SessionAfter_kept(session, state) == [session EXCEPT !.state = state]

\* A session that becomes unprepared is reset as well.
SessionAfter(session, state) ==
  IF state = "UNPREPARED" THEN InitSession
  ELSE [session EXCEPT !.state = state]

UpdateVideoState(s, state) ==
  /\ AcceptsState(s, state)
  /\ mVideos' = [mVideos EXCEPT ![s] = SessionAfter(@, state)]
  /\ mMode' = WithVideoBit(mMode, mVideos')
  /\ TellIfChanged(state = "UNPREPARED")
  /\ UNCHANGED <<mDrmInit, listenerVars, mMDSCallback, scalingVars,
                 mDisplayId, sink>>

ResetVideoPlayback ==
  /\ liveSessions(mVideos) # {}
  /\ mVideos' = [s \in Sessions |-> InitSession]
  /\ mMode' = mMode \ {"VIDEO_ON"}
  /\ broadcastMessageLocked(mMode', FALSE)
  /\ UNCHANGED <<mDrmInit, listenerVars, mMDSCallback, scalingVars,
                 mDisplayId, sink>>

\* The info is stored whatever the state of the session.
UpdateVideoSourceInfo(s, info) ==
  /\ mDrmInit
  /\ s \in Sessions
  /\ mVideos' = [mVideos EXCEPT ![s].info = info]
  /\ UNCHANGED <<mDrmInit, mMode, listenerVars, mMDSCallback, scalingVars,
                 mDisplayId, sink, told>>

SetDecoderOutputResolution(s) ==
  /\ mVideos[s].state \in VideoStates
  /\ mVideos' = [mVideos EXCEPT ![s].decoder = TRUE]
  /\ UNCHANGED <<mDrmInit, mMode, listenerVars, mMDSCallback, scalingVars,
                 mDisplayId, sink, told>>

\* setVppState with status -1: only the Widi connection is kept.
SetVppDisplay(connected) ==
  /\ mDisplayId' = IF connected THEN "VIRTUAL" ELSE "PRIMARY"
  /\ UNCHANGED <<sessionVars, mMode, listenerVars, mMDSCallback, scalingVars,
                 sink, told>>

\* setVppState with any other status: the VPP_CHANGED bit is raised for the
\* length of the broadcast.
BroadcastVppChange ==
  /\ broadcastMessageLocked(mMode \cup {"VPP_CHANGED"}, FALSE)
  /\ UNCHANGED <<sessionVars, mMode, listenerVars, mMDSCallback, scalingVars,
                 mDisplayId, sink>>

\* Environment: a sink is plugged, unplugged or replaced; the events that
\* announce it reach the service later.
ChangeSink ==
  /\ sink' \in {"NONE", "HDMI", "DVI"} \ {sink}
  /\ UNCHANGED <<sessionVars, mMode, listenerVars, mMDSCallback, scalingVars,
                 mDisplayId, told>>

-----------------------------------------------------------------------------
\* The constructor.  Without a drm device the sessions stay uninitialized.
Init ==
  /\ mDrmInit \in BOOLEAN
  /\ sink \in {"NONE", "HDMI", "DVI"}
  /\ mVideos \in IF mDrmInit THEN [Sessions -> {InitSession}]
                 ELSE [Sessions -> RawSession]
  /\ mMode = updateHdmiConnectStatusLocked({})
  /\ mListeners = [id \in {} |-> {}]
  /\ mListenerId = 0
  /\ mMDSCallback = FALSE
  /\ mScaling = NoScaling
  /\ mDisplayId = "PRIMARY"
  /\ display = NoScaling
  /\ told = [id \in Ids |-> NotTold]

ListenerOps ==
  \/ \E listener \in Listener : RegisterListener(listener)
  \/ \E id \in Ids : UnregisterListener(id)

SessionOps ==
  \/ \E s \in Sessions, state \in VideoStates : UpdateVideoState(s, state)
  \/ \E s \in Sessions, info \in Infos : UpdateVideoSourceInfo(s, info)
  \/ \E s \in Sessions : SetDecoderOutputResolution(s)
  \/ ResetVideoPlayback

DisplayOps ==
  \/ RegisterCallback
  \/ UnregisterCallback
  \/ UpdateHdmiConnectionStatus
  \/ \E connected \in BOOLEAN : UpdateWidiConnectionStatus(connected)
  \/ \E type \in ScalingTypes : SetHdmiScalingType(type)
  \/ \E h, v \in OverscanArgs : SetHdmiOverscan(h, v)
  \/ \E connected \in BOOLEAN : SetVppDisplay(connected)
  \/ BroadcastVppChange
  \/ ChangeSink

Next == ListenerOps \/ SessionOps \/ DisplayOps

Spec == Init /\ [][Next]_vars

-----------------------------------------------------------------------------
(***************************************************************************)
(* What the composer guarantees.                                           *)
(***************************************************************************)

\* The types of the state; in particular the listener ids handed out by
\* registerListener stay inside the table.
TypeOK ==
  /\ mDrmInit \in BOOLEAN
  /\ mMode \in SUBSET (ModeBits \ {"VPP_CHANGED"})
  /\ mVideos \in [Sessions -> RawSession]
  /\ DOMAIN mListeners \subseteq Ids
  /\ mListeners \in [DOMAIN mListeners -> Listener]
  /\ mListenerId \in 0 .. MaxListeners
  /\ mMDSCallback \in BOOLEAN
  /\ mScaling \in [type : ScalingTypes, h : Int, v : Int]
  /\ mDisplayId \in {"PRIMARY", "VIRTUAL"}
  /\ sink \in {"NONE", "HDMI", "DVI"}
  /\ display \in [type : ScalingTypes, h : Int, v : Int]
  /\ told \in [Ids -> (SUBSET ModeBits) \cup {NotTold}]

\* Once the drm device is open, the mode says VIDEO_ON exactly while some
\* session is prepared, whichever operation moved the sessions last:
\* updateVideoState, a reset, or a hotplug that recomputes the bit.
VideoBitTracksSessions ==
  mDrmInit => ("VIDEO_ON" \in mMode <=> hasVideoPlaying_l(mVideos))

Told(id) == id \in DOMAIN mListeners /\ told[id] # NotTold

\* The bits registerCallback may change in silence, and the one that is only
\* raised during a broadcast.
SilentBits == {"HDMI", "DVI", "VPP_CHANGED"}

\* A listener that was told a mode knows the current one, up to the HDMI and
\* DVI bits (registerCallback realigns these and tells nobody).  The video
\* driver is the exception: unprepared sessions are not announced to it.
ListenersKnowTheMode ==
  \A id \in Ids :
    Told(id) /\ ~mListeners[id].isVideoDriver
      => told[id] \ SilentBits = mMode \ SilentBits

\* The video driver is spared the "unprepared" broadcasts only: it may believe
\* that video is still on, never that it is off while a session plays.
VideoDriverNeverMissesStart ==
  mDrmInit =>
    \A id \in Ids :
      Told(id) /\ "VIDEO_ON" \in mMode => "VIDEO_ON" \in told[id]

\* The cached scaling is what the display applies, even when one of the calls
\* that reset it on a hotplug fails half way: the overscan always agrees, and
\* the display may at most have dropped a scaling type the cache still holds
\* (and will drop again), never keep one the cache forgot.
CachedScalingIsApplied ==
  /\ display.h = mScaling.h /\ display.v = mScaling.v
  /\ display.type \in {mScaling.type, "NONE"}

\* However often the ids wrap around, no registration replaces a listener that
\* is still registered.
ListenersKeepTheirIds ==
  [][\A id \in DOMAIN mListeners \cap DOMAIN mListeners' :
       mListeners'[id] = mListeners[id]]_vars

=============================================================================
