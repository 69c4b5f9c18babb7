------------------------------ MODULE MdsProofs ------------------------------
(***************************************************************************)
(* Proofs about MdsComposer, for every number of listeners and sessions,   *)
(* and about the players and the composer together (MdsVideoClients), for  *)
(* every number of players.                                                *)
(***************************************************************************)
EXTENDS MdsVideoClients, WellFoundedInduction, TLAPS

\* A non-empty set of naturals has a least element.
LEMMA LeastNatural ==
  ASSUME NEW S, S \subseteq Nat, S # {}
  PROVE  \E x \in S : \A y \in S : x <= y
<1> DEFINE R == OpToRel(<, Nat)
<1>1. PICK x \in S : \A y \in S : <<y, x>> \notin R
  <2> HIDE DEF R
  <2> QED BY NatLessThanWellFounded, WFMin DEF R
<1>2. ASSUME NEW y \in S PROVE x <= y
  <2>1. ~(y < x)
    BY <1>1 DEF OpToRel
  <2> QED
    BY <2>1
<1> QED
  BY <1>2

\* registerListener's search answers a free id, or MaxListeners.
LEMMA FirstFreeIdType ==
  ASSUME NEW used
  PROVE  FirstFreeId(used) \in 0 .. MaxListeners
<1>1. CASE Ids \subseteq used
  BY <1>1, ComposerAssumption DEF FirstFreeId
<1>2. CASE ~(Ids \subseteq used)
  <2> DEFINE Free == Ids \ used
  <2>1. Free # {}
    BY <1>2
  <2>2. Free \subseteq Nat
    BY ComposerAssumption DEF Ids
  <2>3. \E id \in Free : \A other \in Free : id <= other
    BY <2>1, <2>2, LeastNatural
  <2> QED
    BY <1>2, <2>3, ComposerAssumption DEF FirstFreeId, Ids
<1> QED
  BY <1>1, <1>2

\* The id registerListener prepares for the next listener is in range or the
\* limit itself.
LEMMA NextListenerIdType ==
  ASSUME TypeOK, mListenerId < MaxListeners, NEW used
  PROVE  NextListenerId(used) \in 0 .. MaxListeners
BY FirstFreeIdType, ComposerAssumption DEF NextListenerId, TypeOK

\* A session that was just reset and a scaling that was just dropped are well
\* typed.
LEMMA SessionTypes ==
  /\ InitSession \in RawSession
  /\ NoScaling \in [type : ScalingTypes, h : Int, v : Int]
BY DEF InitSession, RawSession, VideoStates, NoScaling, ScalingTypes

\* What a broadcast leaves in told, given a well-typed mode.
LEMMA BroadcastType ==
  ASSUME TypeOK, NEW mode \in SUBSET ModeBits, NEW ignore \in BOOLEAN,
         broadcastMessageLocked(mode, ignore)
  PROVE  told' \in [Ids -> (SUBSET ModeBits) \cup {NotTold}]
BY DEF TypeOK, broadcastMessageLocked

\* The helpers that compute a new mode keep it within the lasting bits.
LEMMA ModeTypes ==
  ASSUME TypeOK, NEW videos,
         NEW mode \in SUBSET (ModeBits \ {"VPP_CHANGED"})
  PROVE  /\ WithVideoBit(mode, videos) \in SUBSET (ModeBits \ {"VPP_CHANGED"})
         /\ updateHdmiConnectStatusLocked(mode)
              \in SUBSET (ModeBits \ {"VPP_CHANGED"})
BY DEF TypeOK, WithVideoBit, updateHdmiConnectStatusLocked, ModeBits

\* The constructor leaves a well-typed composer.
LEMMA TypeInit == Init => TypeOK
<1> SUFFICES ASSUME Init PROVE TypeOK
  OBVIOUS
<1>1. mVideos \in [Sessions -> RawSession]
  BY SessionTypes DEF Init
<1>2. mMode \in SUBSET (ModeBits \ {"VPP_CHANGED"})
  BY DEF Init, updateHdmiConnectStatusLocked, ModeBits
<1>3. /\ mListeners \in [DOMAIN mListeners -> Listener]
      /\ DOMAIN mListeners \subseteq Ids
  BY DEF Init
<1>4. told \in [Ids -> (SUBSET ModeBits) \cup {NotTold}]
  BY DEF Init
<1>5. mListenerId \in 0 .. MaxListeners
  BY ComposerAssumption DEF Init
<1>6. /\ mScaling \in [type : ScalingTypes, h : Int, v : Int]
      /\ display \in [type : ScalingTypes, h : Int, v : Int]
  BY SessionTypes DEF Init
<1>7. /\ mDrmInit \in BOOLEAN
      /\ mMDSCallback \in BOOLEAN
      /\ mDisplayId \in {"PRIMARY", "VIRTUAL"}
      /\ sink \in {"NONE", "HDMI", "DVI"}
  BY DEF Init
<1> QED
  BY <1>1, <1>2, <1>3, <1>4, <1>5, <1>6, <1>7 DEF TypeOK

\* Registering and unregistering a listener keep the types.
LEMMA TypeListenerOps == TypeOK /\ ListenerOps => TypeOK'
<1> SUFFICES ASSUME TypeOK, ListenerOps PROVE TypeOK'
  OBVIOUS
<1>1. ASSUME NEW listener \in Listener, RegisterListener(listener)
      PROVE  TypeOK'
  <2>1. mListenerId \in Ids /\ mListenerId < MaxListeners
    BY <1>1, ComposerAssumption DEF RegisterListener, CanRegister, TypeOK, Ids
  <2>2. mListenerId' \in 0 .. MaxListeners
    BY <1>1, <2>1, NextListenerIdType DEF RegisterListener
  <2>3. /\ DOMAIN mListeners' \subseteq Ids
        /\ mListeners' \in [DOMAIN mListeners' -> Listener]
    BY <1>1, <2>1 DEF RegisterListener, TypeOK
  <2> QED
    BY <1>1, <2>2, <2>3
    DEF RegisterListener, TypeOK, sessionVars, scalingVars
<1>2. ASSUME NEW id \in Ids, UnregisterListener(id)
      PROVE  TypeOK'
  <2>1. /\ DOMAIN mListeners' \subseteq Ids
        /\ mListeners' \in [DOMAIN mListeners' -> Listener]
    BY <1>2 DEF UnregisterListener, TypeOK
  <2>2. told' \in [Ids -> (SUBSET ModeBits) \cup {NotTold}]
    BY <1>2 DEF UnregisterListener, TypeOK
  <2> QED
    BY <1>2, <2>1, <2>2
    DEF UnregisterListener, TypeOK, sessionVars, scalingVars
<1> QED
  BY <1>1, <1>2 DEF ListenerOps

\* The video session operations keep the types.
LEMMA TypeSessionOps == TypeOK /\ SessionOps => TypeOK'
<1> SUFFICES ASSUME TypeOK, SessionOps PROVE TypeOK'
  OBVIOUS
<1>1. ASSUME NEW s \in Sessions, NEW state \in VideoStates,
             UpdateVideoState(s, state)
      PROVE  TypeOK'
  <2>1. mVideos' \in [Sessions -> RawSession]
    BY <1>1, SessionTypes
    DEF UpdateVideoState, SessionAfter, TypeOK, RawSession
  <2>2. mMode' \in SUBSET (ModeBits \ {"VPP_CHANGED"})
    BY <1>1, ModeTypes DEF UpdateVideoState, TypeOK
  <2>3. told' \in [Ids -> (SUBSET ModeBits) \cup {NotTold}]
    BY <1>1, <2>2, BroadcastType DEF UpdateVideoState, TellIfChanged, TypeOK
  <2> QED
    BY <1>1, <2>1, <2>2, <2>3
    DEF UpdateVideoState, TypeOK, listenerVars, scalingVars
<1>2. ASSUME NEW s \in Sessions, NEW info \in Infos,
             UpdateVideoSourceInfo(s, info)
      PROVE  TypeOK'
  <2>1. mVideos' \in [Sessions -> RawSession]
    BY <1>2 DEF UpdateVideoSourceInfo, TypeOK, RawSession
  <2> QED
    BY <1>2, <2>1 DEF UpdateVideoSourceInfo, TypeOK, listenerVars, scalingVars
<1>3. ASSUME NEW s \in Sessions, SetDecoderOutputResolution(s)
      PROVE  TypeOK'
  <2>1. mVideos' \in [Sessions -> RawSession]
    <3>1. mVideos[s] \in RawSession
      BY DEF TypeOK
    <3>2. [mVideos[s] EXCEPT !.decoder = TRUE] \in RawSession
      BY <3>1, Zenon DEF RawSession
    <3> QED
      BY <1>3, <3>2 DEF SetDecoderOutputResolution, TypeOK
  <2> QED
    BY <1>3, <2>1
    DEF SetDecoderOutputResolution, TypeOK, listenerVars, scalingVars
<1>4. CASE ResetVideoPlayback
  <2>1. mVideos' \in [Sessions -> RawSession]
    BY <1>4, SessionTypes DEF ResetVideoPlayback
  <2>2. mMode' \in SUBSET (ModeBits \ {"VPP_CHANGED"})
    BY <1>4 DEF ResetVideoPlayback, TypeOK
  <2>3. told' \in [Ids -> (SUBSET ModeBits) \cup {NotTold}]
    BY <1>4, <2>2, BroadcastType DEF ResetVideoPlayback
  <2> QED
    BY <1>4, <2>1, <2>2, <2>3
    DEF ResetVideoPlayback, TypeOK, listenerVars, scalingVars
<1> QED
  BY <1>1, <1>2, <1>3, <1>4 DEF SessionOps

\* An overscan argument gives an integer step.
LEMMA OverscanStepType ==
  ASSUME NEW arg \in OverscanArgs
  PROVE  OverscanStep(arg) \in Int
BY ComposerAssumption DEF OverscanStep

\* Dropping the scaling on a hotplug keeps the types.
LEMMA TypeResetScaling ==
  ASSUME TypeOK, ResetScaling
  PROVE  /\ mScaling' \in [type : ScalingTypes, h : Int, v : Int]
         /\ display' \in [type : ScalingTypes, h : Int, v : Int]
BY SessionTypes DEF ResetScaling, TypeOK, ScalingTypes

\* Hotplug, callback and scaling operations keep the types.
LEMMA TypeDisplayOps == TypeOK /\ DisplayOps => TypeOK'
<1> SUFFICES ASSUME TypeOK, DisplayOps PROVE TypeOK'
  OBVIOUS
<1>1. CASE RegisterCallback
  BY <1>1, ModeTypes
  DEF RegisterCallback, TypeOK, sessionVars, listenerVars, scalingVars
<1>2. CASE UnregisterCallback
  BY <1>2
  DEF UnregisterCallback, TypeOK, sessionVars, listenerVars, scalingVars
<1>3. CASE UpdateHdmiConnectionStatus
  <2>1. mMode' \in SUBSET (ModeBits \ {"VPP_CHANGED"})
    BY <1>3, ModeTypes DEF UpdateHdmiConnectionStatus, TypeOK
  <2>2. told' \in [Ids -> (SUBSET ModeBits) \cup {NotTold}]
    BY <1>3, <2>1, BroadcastType
    DEF UpdateHdmiConnectionStatus, TellIfChanged, TypeOK
  <2> QED
    BY <1>3, <2>1, <2>2, TypeResetScaling
    DEF UpdateHdmiConnectionStatus, TypeOK, sessionVars, listenerVars
<1>4. ASSUME NEW connected \in BOOLEAN, UpdateWidiConnectionStatus(connected)
      PROVE  TypeOK'
  <2>1. mMode' \in SUBSET (ModeBits \ {"VPP_CHANGED"})
    BY <1>4 DEF UpdateWidiConnectionStatus, TypeOK, ModeBits
  <2>2. told' \in [Ids -> (SUBSET ModeBits) \cup {NotTold}]
    BY <1>4, <2>1, BroadcastType DEF UpdateWidiConnectionStatus
  <2> QED
    BY <1>4, <2>1, <2>2
    DEF UpdateWidiConnectionStatus, TypeOK, sessionVars, listenerVars,
        scalingVars
<1>5. ASSUME NEW type \in ScalingTypes, SetHdmiScalingType(type)
      PROVE  TypeOK'
  <2>1. /\ mScaling' \in [type : ScalingTypes, h : Int, v : Int]
        /\ display' \in [type : ScalingTypes, h : Int, v : Int]
    BY <1>5 DEF SetHdmiScalingType, SurfaceFlingerTakes, TypeOK
  <2> QED
    BY <1>5, <2>1 DEF SetHdmiScalingType, TypeOK, sessionVars, listenerVars
<1>6. ASSUME NEW h \in OverscanArgs, NEW v \in OverscanArgs,
             SetHdmiOverscan(h, v)
      PROVE  TypeOK'
  <2>1. /\ mScaling' \in [type : ScalingTypes, h : Int, v : Int]
        /\ display' \in [type : ScalingTypes, h : Int, v : Int]
    BY <1>6, OverscanStepType
    DEF SetHdmiOverscan, SurfaceFlingerTakes, TypeOK
  <2> QED
    BY <1>6, <2>1 DEF SetHdmiOverscan, TypeOK, sessionVars, listenerVars
<1>7. ASSUME NEW connected \in BOOLEAN, SetVppDisplay(connected)
      PROVE  TypeOK'
  BY <1>7
  DEF SetVppDisplay, TypeOK, sessionVars, listenerVars, scalingVars
<1>8. CASE BroadcastVppChange
  <2>1. mMode \cup {"VPP_CHANGED"} \in SUBSET ModeBits
    BY DEF TypeOK, ModeBits
  <2>2. told' \in [Ids -> (SUBSET ModeBits) \cup {NotTold}]
    BY <1>8, <2>1, BroadcastType DEF BroadcastVppChange
  <2> QED
    BY <1>8, <2>2
    DEF BroadcastVppChange, TypeOK, sessionVars, listenerVars, scalingVars
<1>9. CASE ChangeSink
  BY <1>9 DEF ChangeSink, TypeOK, sessionVars, listenerVars, scalingVars
<1> QED
  BY <1>1, <1>2, <1>3, <1>4, <1>5, <1>6, <1>7, <1>8, <1>9 DEF DisplayOps

\* Nothing changes its type when nothing changes.
LEMMA TypeStutter == TypeOK /\ UNCHANGED vars => TypeOK'
BY DEF TypeOK, vars

\* Every state of the composer is well typed, whatever the limits on listeners
\* and sessions and whatever the drm device did at start-up.
THEOREM TypeCorrect == Spec => []TypeOK
<1>1. TypeOK /\ [Next]_vars => TypeOK'
  BY TypeListenerOps, TypeSessionOps, TypeDisplayOps, TypeStutter DEF Next
<1> QED
  BY TypeInit, <1>1, PTL DEF Spec

-----------------------------------------------------------------------------
(***************************************************************************)
(* The listener table and the scaling need no invariant but their own.     *)
(***************************************************************************)

\* In one step, an id in use before and after belongs to the same listener.
LEMMA IdsStep == [Next]_vars =>
  \A id \in DOMAIN mListeners \cap DOMAIN mListeners' :
    mListeners'[id] = mListeners[id]
<1> SUFFICES ASSUME [Next]_vars,
                    NEW id \in DOMAIN mListeners \cap DOMAIN mListeners'
             PROVE  mListeners'[id] = mListeners[id]
  OBVIOUS
<1>1. ASSUME NEW listener \in Listener, RegisterListener(listener)
      PROVE  mListeners'[id] = mListeners[id]
  BY <1>1 DEF RegisterListener, CanRegister
<1>2. ASSUME NEW other \in Ids, UnregisterListener(other)
      PROVE  mListeners'[id] = mListeners[id]
  BY <1>2 DEF UnregisterListener
<1>3. CASE SessionOps
  BY <1>3 DEF SessionOps, UpdateVideoState, UpdateVideoSourceInfo,
     SetDecoderOutputResolution, ResetVideoPlayback, listenerVars
<1>4. CASE DisplayOps
  BY <1>4 DEF DisplayOps, RegisterCallback, UnregisterCallback,
     UpdateHdmiConnectionStatus, UpdateWidiConnectionStatus,
     SetHdmiScalingType, SetHdmiOverscan, SetVppDisplay, BroadcastVppChange,
     ChangeSink, listenerVars
<1>5. CASE UNCHANGED vars
  BY <1>5 DEF vars
<1> QED
  BY <1>1, <1>2, <1>3, <1>4, <1>5 DEF Next, ListenerOps

\* No step of the composer gives a live listener's id to another listener,
\* however many registrations went before.
THEOREM IdsAreKept == Spec => ListenersKeepTheirIds
BY IdsStep, PTL DEF Spec, ListenersKeepTheirIds

\* One step keeps the cache and the display in agreement.
LEMMA ScalingStep ==
  TypeOK /\ CachedScalingIsApplied /\ [Next]_vars => CachedScalingIsApplied'
<1> SUFFICES ASSUME TypeOK, CachedScalingIsApplied, [Next]_vars
             PROVE  CachedScalingIsApplied'
  OBVIOUS
<1>1. CASE UpdateHdmiConnectionStatus
  BY <1>1 DEF UpdateHdmiConnectionStatus, ResetScaling, NoScaling, Scaled,
     Stepped, TypeOK, CachedScalingIsApplied
<1>2. ASSUME NEW type \in ScalingTypes, SetHdmiScalingType(type)
      PROVE  CachedScalingIsApplied'
  BY <1>2 DEF SetHdmiScalingType, SurfaceFlingerTakes, TypeOK,
     CachedScalingIsApplied
<1>3. ASSUME NEW h \in OverscanArgs, NEW v \in OverscanArgs,
             SetHdmiOverscan(h, v)
      PROVE  CachedScalingIsApplied'
  BY <1>3 DEF SetHdmiOverscan, SurfaceFlingerTakes, TypeOK,
     CachedScalingIsApplied
<1>4. CASE UNCHANGED scalingVars
  BY <1>4 DEF scalingVars, CachedScalingIsApplied
<1>5. CASE ListenerOps \/ SessionOps
  BY <1>4, <1>5 DEF ListenerOps, SessionOps, RegisterListener,
     UnregisterListener, UpdateVideoState, UpdateVideoSourceInfo,
     SetDecoderOutputResolution, ResetVideoPlayback
<1>6. CASE DisplayOps
  BY <1>1, <1>2, <1>3, <1>4, <1>6 DEF DisplayOps, RegisterCallback,
     UnregisterCallback, UpdateWidiConnectionStatus, SetVppDisplay,
     BroadcastVppChange, ChangeSink
<1> QED
  BY <1>4, <1>5, <1>6 DEF Next, vars, scalingVars

\* The cached scaling never disagrees with the display in the dangerous
\* direction, whichever of the callback and SurfaceFlinger calls fail.
THEOREM ScalingIsApplied == Spec => []CachedScalingIsApplied
<1>1. Init => CachedScalingIsApplied
  BY DEF Init, CachedScalingIsApplied, NoScaling
<1> QED
  BY <1>1, ScalingStep, TypeCorrect, PTL DEF Spec

-----------------------------------------------------------------------------
(***************************************************************************)
(* The mode and the listeners' views of it.  The three properties hold     *)
(* together: that a driver misses no start of a video rests on the video   *)
(* bit, and every view rests on who can have been told at all.             *)
(***************************************************************************)

OnlySubscribersAreTold ==
  \A id \in Ids :
    told[id] # NotTold => id \in DOMAIN mListeners /\ mListeners[id].wantsMode

ModeInv ==
  /\ VideoBitTracksSessions
  /\ ListenersKnowTheMode
  /\ VideoDriverNeverMissesStart
  /\ OnlySubscribersAreTold

Views ==
  ListenersKnowTheMode /\ VideoDriverNeverMissesStart /\ OnlySubscribersAreTold

\* A broadcast of the new mode, with the transient Vpp bit or without, keeps
\* the views; where the video driver is passed over, the video bit must not
\* have been raised.
LEMMA BroadcastKeepsViews ==
  ASSUME TypeOK, Views, mListeners' = mListeners, mDrmInit' = mDrmInit,
         NEW extra \in SUBSET {"VPP_CHANGED"}, NEW ignore \in BOOLEAN,
         broadcastMessageLocked(mMode' \cup extra, ignore),
         ignore /\ mDrmInit /\ "VIDEO_ON" \in mMode' => "VIDEO_ON" \in mMode
  PROVE  Views'
<1>1. ASSUME NEW id \in Ids
      PROVE  told'[id] = IF id \in DOMAIN mListeners
                            /\ Reached(mListeners[id], ignore)
                           THEN mMode' \cup extra ELSE told[id]
  BY DEF broadcastMessageLocked
<1>2. OnlySubscribersAreTold'
  BY <1>1 DEF OnlySubscribersAreTold, Views, Reached
<1>3. ListenersKnowTheMode'
  <2> SUFFICES ASSUME NEW id \in Ids, Told(id)', ~mListeners[id].isVideoDriver
               PROVE  told'[id] \ SilentBits = mMode' \ SilentBits
    BY DEF ListenersKnowTheMode
  <2>1. CASE mListeners[id].wantsMode
    <3>1. told'[id] = mMode' \cup extra
      BY <1>1, <2>1 DEF Told, Reached
    <3> QED
      BY <3>1 DEF SilentBits
  <2>2. CASE ~mListeners[id].wantsMode
    BY <1>2, <2>2 DEF OnlySubscribersAreTold, Told
  <2> QED
    BY <2>1, <2>2
<1>4. VideoDriverNeverMissesStart'
  <2> SUFFICES ASSUME NEW id \in Ids, mDrmInit, Told(id)',
                      "VIDEO_ON" \in mMode'
               PROVE  "VIDEO_ON" \in told'[id]
    BY DEF VideoDriverNeverMissesStart
  <2>1. CASE Reached(mListeners[id], ignore)
    BY <1>1, <2>1 DEF Told
  <2>2. CASE ~Reached(mListeners[id], ignore)
    <3>1. told'[id] = told[id]
      BY <1>1, <2>2
    <3>2. Told(id) /\ ignore
      BY <1>2, <2>2, <3>1 DEF Told, OnlySubscribersAreTold, Reached
    <3> QED
      BY <3>1, <3>2 DEF Views, VideoDriverNeverMissesStart
  <2> QED
    BY <2>1, <2>2
<1> QED
  BY <1>2, <1>3, <1>4 DEF Views

\* A step that leaves the views alone and moves only the silent bits.
LEMMA SilentStepKeepsViews ==
  ASSUME Views, mListeners' = mListeners, mDrmInit' = mDrmInit, told' = told,
         mMode' \ SilentBits = mMode \ SilentBits
  PROVE  Views'
<1>1. "VIDEO_ON" \in mMode' <=> "VIDEO_ON" \in mMode
  BY DEF SilentBits
<1> QED
  BY <1>1 DEF Views, ListenersKnowTheMode, VideoDriverNeverMissesStart,
     OnlySubscribersAreTold, Told

\* The constructor has no session playing and nobody told.
LEMMA ModeInit == Init => ModeInv
<1> SUFFICES ASSUME Init PROVE ModeInv
  OBVIOUS
<1>1. VideoBitTracksSessions
  <2> SUFFICES ASSUME mDrmInit
               PROVE  "VIDEO_ON" \notin mMode /\ ~hasVideoPlaying_l(mVideos)
    BY DEF VideoBitTracksSessions
  <2>1. "VIDEO_ON" \notin mMode
    BY DEF Init, updateHdmiConnectStatusLocked
  <2>2. \A s \in Sessions : mVideos[s] = InitSession
    BY DEF Init
  <2> QED
    BY <2>1, <2>2 DEF hasVideoPlaying_l, InitSession
<1>2. \A id \in Ids : told[id] = NotTold
  BY DEF Init
<1> QED
  BY <1>1, <1>2 DEF ModeInv, ListenersKnowTheMode,
     VideoDriverNeverMissesStart, OnlySubscribersAreTold, Told

\* A listener that comes or goes does not disturb what the others were told.
LEMMA ViewsListenerOps == TypeOK /\ Views /\ ListenerOps => Views'
<1> SUFFICES ASSUME TypeOK, Views, ListenerOps PROVE Views'
  OBVIOUS
<1>1. ASSUME NEW listener \in Listener, RegisterListener(listener)
      PROVE  Views'
  <2>1. mListenerId \in Ids /\ mListenerId \notin DOMAIN mListeners
    BY <1>1, ComposerAssumption DEF RegisterListener, CanRegister, TypeOK, Ids
  <2>2. told[mListenerId] = NotTold
    BY <2>1 DEF Views, OnlySubscribersAreTold
  <2>3. ASSUME NEW id \in Ids, told[id] # NotTold
        PROVE  /\ id \in DOMAIN mListeners /\ id \in DOMAIN mListeners'
               /\ mListeners'[id] = mListeners[id]
    BY <1>1, <2>2, <2>3 DEF RegisterListener, Views, OnlySubscribersAreTold
  <2> QED
    BY <1>1, <2>3 DEF RegisterListener, Views, ListenersKnowTheMode,
       VideoDriverNeverMissesStart, OnlySubscribersAreTold, Told, sessionVars
<1>2. ASSUME NEW gone \in Ids, UnregisterListener(gone)
      PROVE  Views'
  <2>1. ASSUME NEW id \in Ids, told'[id] # NotTold
        PROVE  /\ told'[id] = told[id]
               /\ id \in DOMAIN mListeners /\ id \in DOMAIN mListeners'
               /\ mListeners'[id] = mListeners[id]
    BY <1>2, <2>1
    DEF UnregisterListener, Views, OnlySubscribersAreTold, TypeOK
  <2> QED
    BY <1>2, <2>1 DEF UnregisterListener, Views, ListenersKnowTheMode,
       VideoDriverNeverMissesStart, OnlySubscribersAreTold, Told, sessionVars
<1> QED
  BY <1>1, <1>2 DEF ListenerOps

\* Where a step tells the listeners of a change of the mode, or there is none.
LEMMA TellKeepsViews ==
  ASSUME TypeOK, Views, mListeners' = mListeners, mDrmInit' = mDrmInit,
         NEW ignore \in BOOLEAN, TellIfChanged(ignore),
         ignore /\ mDrmInit /\ "VIDEO_ON" \in mMode' => "VIDEO_ON" \in mMode
  PROVE  Views'
<1>1. CASE mMode' = mMode
  BY <1>1, SilentStepKeepsViews DEF TellIfChanged
<1>2. CASE mMode' # mMode
  <2>1. broadcastMessageLocked(mMode' \cup {}, ignore)
    <3>1. mMode' \cup {} = mMode'
      OBVIOUS
    <3> QED
      BY <1>2, <3>1 DEF TellIfChanged
  <2> QED
    BY <2>1, BroadcastKeepsViews
<1> QED
  BY <1>1, <1>2

\* A broadcast that reaches every subscriber keeps the views.
LEMMA PlainBroadcastKeepsViews ==
  ASSUME TypeOK, Views, mListeners' = mListeners, mDrmInit' = mDrmInit,
         broadcastMessageLocked(mMode', FALSE)
  PROVE  Views'
<1>1. mMode' \cup {} = mMode'
  OBVIOUS
<1> QED
  BY <1>1, BroadcastKeepsViews

\* The video session operations keep the mode, sessions and views in agreement.
LEMMA ModeSessionOps == TypeOK /\ ModeInv /\ SessionOps => ModeInv'
<1> SUFFICES ASSUME TypeOK, ModeInv, SessionOps PROVE ModeInv'
  OBVIOUS
<1>0. Views
  BY DEF ModeInv, Views
<1>1. ASSUME NEW s \in Sessions, NEW state \in VideoStates,
             UpdateVideoState(s, state)
      PROVE  ModeInv'
  <2>1. "VIDEO_ON" \in mMode' <=> hasVideoPlaying_l(mVideos')
    BY <1>1 DEF UpdateVideoState, WithVideoBit
  <2>2. VideoBitTracksSessions'
    BY <2>1 DEF VideoBitTracksSessions, hasVideoPlaying_l
  <2>3. ASSUME state = "UNPREPARED", mDrmInit, "VIDEO_ON" \in mMode'
        PROVE  "VIDEO_ON" \in mMode
    <3>1. PICK t \in Sessions : mVideos'[t].state = "PREPARED"
      BY <2>1, <2>3 DEF hasVideoPlaying_l
    <3>2. mVideos[t].state = "PREPARED"
      BY <1>1, <2>3, <3>1
      DEF UpdateVideoState, SessionAfter, InitSession, TypeOK
    <3> QED
      BY <2>3, <3>2
      DEF ModeInv, VideoBitTracksSessions, hasVideoPlaying_l
  <2>4. Views'
    BY <1>0, <1>1, <2>3, TellKeepsViews DEF UpdateVideoState, listenerVars
  <2> QED
    BY <2>2, <2>4 DEF ModeInv, Views
<1>2. ASSUME NEW s \in Sessions, NEW info \in Infos,
             UpdateVideoSourceInfo(s, info)
      PROVE  ModeInv'
  <2>1. \A t \in Sessions : mVideos'[t].state = mVideos[t].state
    BY <1>2 DEF UpdateVideoSourceInfo, TypeOK, RawSession
  <2>2. Views'
    BY <1>0, <1>2, SilentStepKeepsViews DEF UpdateVideoSourceInfo, listenerVars
  <2> QED
    BY <1>2, <2>1, <2>2 DEF UpdateVideoSourceInfo, ModeInv, Views,
       VideoBitTracksSessions, hasVideoPlaying_l
<1>3. ASSUME NEW s \in Sessions, SetDecoderOutputResolution(s)
      PROVE  ModeInv'
  <2>1. \A t \in Sessions : mVideos'[t].state = mVideos[t].state
    BY <1>3 DEF SetDecoderOutputResolution, TypeOK, RawSession
  <2>2. Views'
    BY <1>0, <1>3, SilentStepKeepsViews
    DEF SetDecoderOutputResolution, listenerVars
  <2> QED
    BY <1>3, <2>1, <2>2 DEF SetDecoderOutputResolution, ModeInv, Views,
       VideoBitTracksSessions, hasVideoPlaying_l
<1>4. CASE ResetVideoPlayback
  <2>1. Views'
    BY <1>0, <1>4, PlainBroadcastKeepsViews
    DEF ResetVideoPlayback, listenerVars
  <2>2. VideoBitTracksSessions'
    BY <1>4 DEF ResetVideoPlayback, VideoBitTracksSessions,
       hasVideoPlaying_l, InitSession
  <2> QED
    BY <2>1, <2>2 DEF ModeInv, Views
<1> QED
  BY <1>1, <1>2, <1>3, <1>4 DEF SessionOps

\* So do the hotplug, callback and scaling operations.
LEMMA ModeDisplayOps == TypeOK /\ ModeInv /\ DisplayOps => ModeInv'
<1> SUFFICES ASSUME TypeOK, ModeInv, DisplayOps PROVE ModeInv'
  OBVIOUS
<1>0. Views /\ VideoBitTracksSessions
  BY DEF ModeInv, Views
<1>1. CASE RegisterCallback
  <2>1. mMode' \ SilentBits = mMode \ SilentBits
    BY <1>1 DEF RegisterCallback, updateHdmiConnectStatusLocked, SilentBits,
       TypeOK
  <2>2. "VIDEO_ON" \in mMode' <=> "VIDEO_ON" \in mMode
    BY <2>1 DEF SilentBits
  <2>3. Views'
    BY <1>0, <1>1, <2>1, SilentStepKeepsViews
    DEF RegisterCallback, sessionVars, listenerVars
  <2> QED
    BY <1>0, <1>1, <2>2, <2>3 DEF RegisterCallback, sessionVars, ModeInv,
       Views, VideoBitTracksSessions, hasVideoPlaying_l
<1>2. CASE UpdateHdmiConnectionStatus
  <2>1. Views'
    BY <1>0, <1>2, TellKeepsViews
    DEF UpdateHdmiConnectionStatus, sessionVars, listenerVars
  <2>2. "VIDEO_ON" \in mMode' <=> hasVideoPlaying_l(mVideos)
    BY <1>2 DEF UpdateHdmiConnectionStatus, updateHdmiConnectStatusLocked,
       WithVideoBit, TypeOK
  <2> QED
    BY <1>2, <2>1, <2>2 DEF UpdateHdmiConnectionStatus, sessionVars, ModeInv,
       Views, VideoBitTracksSessions, hasVideoPlaying_l
<1>3. ASSUME NEW connected \in BOOLEAN, UpdateWidiConnectionStatus(connected)
      PROVE  ModeInv'
  <2>1. Views'
    BY <1>0, <1>3, PlainBroadcastKeepsViews
    DEF UpdateWidiConnectionStatus, sessionVars, listenerVars
  <2>2. "VIDEO_ON" \in mMode' <=> "VIDEO_ON" \in mMode
    BY <1>3 DEF UpdateWidiConnectionStatus
  <2> QED
    BY <1>0, <1>3, <2>1, <2>2 DEF UpdateWidiConnectionStatus, sessionVars,
       ModeInv, Views, VideoBitTracksSessions, hasVideoPlaying_l
<1>4. CASE BroadcastVppChange
  <2>1. Views'
    BY <1>0, <1>4, BroadcastKeepsViews
    DEF BroadcastVppChange, sessionVars, listenerVars
  <2> QED
    BY <1>0, <1>4, <2>1 DEF BroadcastVppChange, sessionVars, ModeInv, Views,
       VideoBitTracksSessions, hasVideoPlaying_l
<1>5. CASE UNCHANGED <<mDrmInit, mVideos, mMode, mListeners, told>>
  <2>1. Views'
    BY <1>0, <1>5, SilentStepKeepsViews
  <2> QED
    BY <1>0, <1>5, <2>1 DEF ModeInv, Views, VideoBitTracksSessions,
       hasVideoPlaying_l
<1> QED
  BY <1>1, <1>2, <1>3, <1>4, <1>5 DEF DisplayOps, UnregisterCallback,
     SetHdmiScalingType, SetHdmiOverscan, SetVppDisplay, ChangeSink,
     sessionVars, listenerVars

\* The mode invariant is inductive.
LEMMA ModeStep == TypeOK /\ ModeInv /\ [Next]_vars => ModeInv'
<1> SUFFICES ASSUME TypeOK, ModeInv, [Next]_vars PROVE ModeInv'
  OBVIOUS
<1>1. CASE ListenerOps
  <2>1. mVideos' = mVideos /\ mMode' = mMode /\ mDrmInit' = mDrmInit
    BY <1>1
    DEF ListenerOps, RegisterListener, UnregisterListener, sessionVars
  <2> QED
    BY <1>1, <2>1, ViewsListenerOps DEF ModeInv, Views,
       VideoBitTracksSessions, hasVideoPlaying_l
<1>2. CASE UNCHANGED vars
  <2>1. Views'
    BY <1>2, SilentStepKeepsViews DEF vars, ModeInv, Views
  <2> QED
    BY <1>2, <2>1 DEF vars, ModeInv, Views, VideoBitTracksSessions,
       hasVideoPlaying_l
<1> QED
  BY <1>1, <1>2, ModeSessionOps, ModeDisplayOps DEF Next

\* The mode invariant holds in every state.
LEMMA ModeInvariant == Spec => []ModeInv
BY ModeInit, ModeStep, TypeCorrect, PTL DEF Spec

\* VIDEO_ON is set exactly while a session plays, for any number of sessions
\* and any order of player calls, resets and hotplugs.
THEOREM VideoBitIsRight == Spec => []VideoBitTracksSessions
BY ModeInvariant, PTL DEF ModeInv

\* Every listener that was told a mode is up to date in the bits that are
\* announced, for any number of listeners that come and go.
THEOREM ListenersAreUpToDate == Spec => []ListenersKnowTheMode
BY ModeInvariant, PTL DEF ModeInv

\* Passing over the video driver on "unprepared" never hides a start from it.
THEOREM DriverSeesEveryStart == Spec => []VideoDriverNeverMissesStart
BY ModeInvariant, PTL DEF ModeInv

(***************************************************************************)
(* The players and the composer together.                                  *)
(***************************************************************************)

\* allocateVideoSessionId answers a session of the table, or -1.
LEMMA AllocatedIdType == allocateVideoSessionId \in Sessions \cup {-1}
<1> DEFINE Free == Sessions \ liveSessions(mVideos)
<1>1. CASE Free = {}
  BY <1>1 DEF allocateVideoSessionId
<1>2. CASE Free # {}
  <2>1. Free \subseteq Nat
    BY ComposerAssumption DEF Sessions
  <2>2. \E s \in Free : \A t \in Free : s <= t
    BY <1>2, <2>1, LeastNatural
  <2>3. allocateVideoSessionId \in Free
    BY <1>2, <2>2 DEF allocateVideoSessionId
  <2> QED
    BY <2>3
<1> QED
  BY <1>1, <1>2

\* While a client is about to send source info, it is opening its session; an
\* info in a session that is not live belongs to a client that sent it and has
\* its PREPARED update still to send.
InfoInv ==
  /\ \A c \in Clients : call[c].pc = "info" => call[c].state = "PREPARED"
  /\ mDrmInit =>
       \A s \in Sessions, c \in Clients :
         mVideos[s].info = c =>
           IF mVideos[s].state = "UNPREPARED"
             THEN /\ mSessionId[c] = s
                  /\ call[c].pc = "update" /\ call[c].state = "PREPARED"
             ELSE s \in orphans \/ mSessionId[c] = s

ClientsInv == TypeOK /\ ClientsTypeOK /\ LiveSessionsAreHeld /\ InfoInv

\* Clients start without a session.
LEMMA ClientsInitInv == ClientsInit => ClientsInv
<1> SUFFICES ASSUME ClientsInit PROVE ClientsInv
  OBVIOUS
<1>1. TypeOK
  BY TypeInit DEF ClientsInit
<1>2. ClientsTypeOK
  BY DEF ClientsInit, ClientsTypeOK, Idle, VideoStates
<1>3. mDrmInit => \A s \in Sessions : mVideos[s] = InitSession
  BY DEF ClientsInit, Init
<1>4. LiveSessionsAreHeld
  BY <1>3 DEF LiveSessionsAreHeld, liveSessions, InitSession
<1>5. InfoInv
  BY <1>3, ClientsAssumption DEF InfoInv, ClientsInit, Idle, InitSession
<1> QED
  BY <1>1, <1>2, <1>4, <1>5 DEF ClientsInv

\* The allocation in prepare keeps the invariant.
LEMMA BeginStep ==
  ASSUME ClientsInv, NEW c \in Clients, NEW state \in VideoStates,
         NEW isProtected \in BOOLEAN, NEW sendsInfo \in BOOLEAN,
         BeginSetVideoState(c, state, isProtected, sendsInfo)
  PROVE  ClientsInv'
<1> USE DEF ClientsInv
<1>1. TypeOK' /\ UNCHANGED <<mVideos, mDrmInit, orphans>>
  BY TypeStutter DEF BeginSetVideoState, vars
<1>2. ClientsTypeOK'
  <2>1. mSessionId' \in [Clients -> Sessions \cup {-1}]
    BY AllocatedIdType DEF BeginSetVideoState, ClientsTypeOK
  <2>2. call' \in [Clients -> [pc : {"idle", "info", "update"},
                              state : VideoStates]]
    BY DEF BeginSetVideoState, ClientsTypeOK
  <2> QED
    BY <2>1, <2>2 DEF BeginSetVideoState, ClientsTypeOK
<1>3. \A d \in Clients : mSessionId[d] \in Sessions
                         => mSessionId'[d] = mSessionId[d]
  BY ComposerAssumption DEF BeginSetVideoState, ClientsTypeOK, Sessions
<1>4. LiveSessionsAreHeld'
  BY <1>1, <1>3 DEF LiveSessionsAreHeld, liveSessions
<1>5. InfoInv'
  <2>1. \A d \in Clients \ {c} : call'[d] = call[d]
    BY DEF BeginSetVideoState, ClientsTypeOK
  <2>2. call[c].pc = "idle" /\ (call'[c].pc = "info" => call'[c].state = "PREPARED")
    BY DEF BeginSetVideoState, ClientsTypeOK
  <2> QED
    BY <1>1, <1>3, <2>1, <2>2 DEF InfoInv
<1> QED
  BY <1>1, <1>2, <1>4, <1>5

\* Sending the source info keeps the invariant.
LEMMA InfoStep ==
  ASSUME ClientsInv, NEW c \in Clients, SendVideoSourceInfo(c)
  PROVE  ClientsInv'
<1> USE DEF ClientsInv
<1>1. TypeOK'
  BY TypeSessionOps, TypeStutter, ClientsAssumption
  DEF SendVideoSourceInfo, SessionOps
<1>2. ClientsTypeOK'
  BY DEF SendVideoSourceInfo, ClientsTypeOK
<1>3. /\ mDrmInit' = mDrmInit
      /\ \A s \in Sessions :
           /\ mVideos'[s].state = mVideos[s].state
           /\ \/ mVideos'[s].info = mVideos[s].info
              \/ mVideos'[s].info = c /\ mSessionId[c] = s
  BY DEF SendVideoSourceInfo, UpdateVideoSourceInfo, TypeOK, RawSession, vars
<1>4. LiveSessionsAreHeld'
  BY <1>3 DEF LiveSessionsAreHeld, liveSessions, SendVideoSourceInfo
<1>5. InfoInv'
  <2>1. \A d \in Clients \ {c} : call'[d] = call[d]
    BY DEF SendVideoSourceInfo, ClientsTypeOK
  <2>2. call[c].pc = "info" /\ call'[c].pc = "update"
        /\ call'[c].state = "PREPARED"
    BY DEF SendVideoSourceInfo, ClientsTypeOK, InfoInv
  <2>3. UNCHANGED <<mSessionId, orphans>>
    BY DEF SendVideoSourceInfo
  <2>4. \A d \in Clients : call'[d].pc = "info" => call'[d].state = "PREPARED"
    BY <2>1, <2>2 DEF InfoInv
  <2>5. ASSUME mDrmInit', NEW s \in Sessions, NEW d \in Clients, mVideos'[s].info = d
        PROVE  IF mVideos'[s].state = "UNPREPARED"
                 THEN /\ mSessionId'[d] = s
                      /\ call'[d].pc = "update" /\ call'[d].state = "PREPARED"
                 ELSE s \in orphans' \/ mSessionId'[d] = s
    <3>1. CASE mVideos[s].info = d
      <4>1. d = c => mVideos[s].state # "UNPREPARED"
        BY <1>3, <2>2, <2>5, <3>1 DEF InfoInv
      <4> QED
        BY <1>3, <2>1, <2>3, <2>5, <3>1, <4>1 DEF InfoInv
    <3>2. CASE mVideos[s].info # d
      BY <1>3, <2>2, <2>3, <2>5, <3>2
    <3> QED
      BY <3>1, <3>2
  <2> QED
    BY <2>4, <2>5 DEF InfoInv
<1> QED
  BY <1>1, <1>2, <1>4, <1>5

\* A reset of every session keeps the invariant.
LEMMA ResetStep ==
  ASSUME ClientsInv, NEW c \in Clients, Reset(c)
  PROVE  ClientsInv'
<1> USE DEF ClientsInv
<1>1. TypeOK'
  BY TypeSessionOps DEF Reset, SessionOps
<1>2. ClientsTypeOK'
  BY DEF Reset, ClientsTypeOK
<1>3. \A s \in Sessions : mVideos'[s] = InitSession
  BY DEF Reset, ResetVideoPlayback
<1>4. LiveSessionsAreHeld'
  <2>1. InitSession.state = "UNPREPARED"
    BY DEF InitSession
  <2>2. liveSessions(mVideos') = {}
    BY <1>3, <2>1 DEF liveSessions
  <2> QED
    BY <2>2 DEF LiveSessionsAreHeld
<1>5. InfoInv'
  <2>1. \A d \in Clients : call'[d].pc = "info" => call'[d].state = "PREPARED"
    BY DEF InfoInv, Reset, ClientsTypeOK, Idle
  <2>2. \A s \in Sessions, d \in Clients : mVideos'[s].info # d
    BY <1>3, ClientsAssumption DEF InitSession
  <2> QED
    BY <2>1, <2>2 DEF InfoInv
<1> QED
  BY <1>1, <1>2, <1>4, <1>5

\* Destroying a client keeps the invariant: its live session is orphaned.
LEMMA DestroyStep ==
  ASSUME ClientsInv, NEW c \in Clients, Destroy(c)
  PROVE  ClientsInv'
<1> USE DEF ClientsInv
<1>1. TypeOK' /\ UNCHANGED <<mVideos, mDrmInit, call>> /\ call[c].pc = "idle"
  BY TypeStutter DEF Destroy, vars
<1>2. ClientsTypeOK'
  BY DEF Destroy, ClientsTypeOK, VideoStates, liveSessions
<1>3. \A d \in Clients \ {c} : mSessionId'[d] = mSessionId[d]
  BY DEF Destroy, ClientsTypeOK
<1>4. /\ orphans \subseteq orphans'
      /\ \A s \in liveSessions(mVideos) : mSessionId[c] = s => s \in orphans'
  BY DEF Destroy
<1>5. LiveSessionsAreHeld'
  BY <1>1, <1>3, <1>4 DEF LiveSessionsAreHeld, liveSessions
<1>6. InfoInv'
  BY <1>1, <1>3, <1>4 DEF InfoInv, liveSessions
<1> QED
  BY <1>1, <1>2, <1>5, <1>6

\* What updateVideoState leaves in a session.
LEMMA SessionAfterFields ==
  ASSUME NEW session \in RawSession, NEW state \in VideoStates
  PROVE  /\ SessionAfter(session, state).state = state
         /\ SessionAfter(session, state).info =
              IF state = "UNPREPARED" THEN NoInfo ELSE session.info
BY DEF SessionAfter, InitSession, RawSession

\* What sending a state does to the sessions: the sender's own session takes
\* the state, or refuses it because it is there already.
LEMMA StateEffect ==
  ASSUME ClientsInv, NEW c \in Clients, SendVideoState(c)
  PROVE  /\ mDrmInit' = mDrmInit
         /\ \A s \in Sessions : mSessionId[c] # s => mVideos'[s] = mVideos[s]
         /\ \A s \in Sessions : mSessionId[c] = s =>
              \/ mVideos'[s] = SessionAfter(mVideos[s], call[c].state)
              \/ mVideos'[s] = mVideos[s] /\ mVideos[s].state = call[c].state
<1> USE DEF ClientsInv
<1>1. CASE AcceptsState(mSessionId[c], call[c].state)
  BY <1>1 DEF SendVideoState, UpdateVideoState, AcceptsState, TypeOK
<1>2. CASE ~AcceptsState(mSessionId[c], call[c].state)
  BY <1>2 DEF SendVideoState, AcceptsState, vars
<1> QED
  BY <1>1, <1>2

\* Sending the state, and letting go of the session after it, keeps the
\* invariant.
LEMMA StateStep ==
  ASSUME ClientsInv, NEW c \in Clients, SendVideoState(c)
  PROVE  ClientsInv'
<1> USE DEF ClientsInv
<1> DEFINE state == call[c].state
<1>0. state \in VideoStates
  BY DEF ClientsTypeOK
<1>1. TypeOK'
  BY <1>0, TypeSessionOps, TypeStutter
  DEF SendVideoState, SessionOps, AcceptsState
<1>2. ClientsTypeOK'
  <2>1. mSessionId' \in [Clients -> Sessions \cup {-1}]
    BY DEF SendVideoState, ClientsTypeOK
  <2>2. mState' \in [Clients -> VideoStates]
    BY <1>0 DEF SendVideoState, ClientsTypeOK
  <2>3. call' \in [Clients -> [pc : {"idle", "info", "update"},
                              state : VideoStates]]
    BY DEF SendVideoState, ClientsTypeOK, Idle, VideoStates
  <2> QED
    BY <2>1, <2>2, <2>3 DEF SendVideoState, ClientsTypeOK
<1>3. /\ \A d \in Clients \ {c} : /\ mSessionId'[d] = mSessionId[d]
                                 /\ call'[d] = call[d]
      /\ mSessionId'[c] = IF state = "UNPREPARED" THEN -1 ELSE mSessionId[c]
      /\ call[c].pc = "update" /\ call'[c].pc = "idle"
      /\ \A s \in orphans : s \in liveSessions(mVideos') => s \in orphans'
  BY DEF SendVideoState, ClientsTypeOK, Idle, Closes
<1>4. \A s \in Sessions : mSessionId[c] = s =>
        /\ mVideos'[s].state = state
        /\ \/ mVideos'[s].info =
                IF state = "UNPREPARED" THEN NoInfo ELSE mVideos[s].info
           \/ mVideos'[s] = mVideos[s]
  <2> SUFFICES ASSUME NEW s \in Sessions, mSessionId[c] = s
               PROVE  /\ mVideos'[s].state = state
                      /\ \/ mVideos'[s].info =
                              IF state = "UNPREPARED" THEN NoInfo
                              ELSE mVideos[s].info
                         \/ mVideos'[s] = mVideos[s]
    OBVIOUS
  <2>1. mVideos[s] \in RawSession
    BY DEF TypeOK
  <2>2. \/ mVideos'[s] = SessionAfter(mVideos[s], state)
        \/ mVideos'[s] = mVideos[s] /\ mVideos[s].state = state
    BY StateEffect
  <2> HIDE DEF state
  <2> QED
    BY <1>0, <2>1, <2>2, SessionAfterFields
<1>5. LiveSessionsAreHeld'
  <2> SUFFICES ASSUME mDrmInit', NEW s \in liveSessions(mVideos')
               PROVE  s \in orphans' \/ \E d \in Clients : mSessionId'[d] = s
    BY DEF LiveSessionsAreHeld, liveSessions
  <2>1. CASE mSessionId[c] = s
    BY <1>3, <1>4, <2>1 DEF liveSessions
  <2>2. CASE mSessionId[c] # s
    <3>1. s \in liveSessions(mVideos) /\ mDrmInit
      BY <2>2, StateEffect DEF liveSessions
    <3> QED
      BY <1>3, <2>2, <3>1 DEF LiveSessionsAreHeld
  <2> QED
    BY <2>1, <2>2
<1>6. InfoInv'
  <2>1. ASSUME mDrmInit', NEW s \in Sessions, NEW d \in Clients,
               mVideos'[s].info = d
        PROVE  IF mVideos'[s].state = "UNPREPARED"
                 THEN /\ mSessionId'[d] = s
                      /\ call'[d].pc = "update" /\ call'[d].state = "PREPARED"
                 ELSE s \in orphans' \/ mSessionId'[d] = s
    <3>1. mDrmInit
      BY <2>1, StateEffect
    <3>2. CASE mSessionId[c] # s
      <4>1. mVideos'[s] = mVideos[s]
        BY <3>2, StateEffect
      <4> QED
        BY <1>3, <2>1, <3>1, <3>2, <4>1 DEF InfoInv, liveSessions
    <3>3. CASE mSessionId[c] = s
      <4>1. mVideos[s].info = d
        BY <1>4, <2>1, <3>3, ClientsAssumption
      <4>2. CASE state = "UNPREPARED"
        <5>1. mVideos'[s] = mVideos[s] /\ mVideos[s].state = "UNPREPARED"
          BY <1>4, <2>1, <3>3, <4>2, ClientsAssumption
        <5>2. d # c
          BY <3>1, <4>1, <4>2, <5>1 DEF InfoInv
        <5> QED
          BY <1>3, <3>1, <4>1, <5>1, <5>2 DEF InfoInv
      <4>3. CASE state # "UNPREPARED"
        BY <1>3, <1>4, <3>1, <3>3, <4>1, <4>3 DEF InfoInv, liveSessions
      <4> QED
        BY <4>2, <4>3
    <3> QED
      BY <3>2, <3>3
  <2>2. \A d \in Clients : call'[d].pc = "info" => call'[d].state = "PREPARED"
    BY <1>3 DEF InfoInv
  <2> QED
    BY <2>1, <2>2 DEF InfoInv
<1> QED
  BY <1>1, <1>2, <1>5, <1>6

\* The other operations of the composer leave the sessions alone.
LEMMA OtherOps ==
  ASSUME ListenerOps \/ DisplayOps
  PROVE  mVideos' = mVideos /\ mDrmInit' = mDrmInit
<1>1. CASE ListenerOps
  BY <1>1 DEF ListenerOps, RegisterListener, UnregisterListener, sessionVars
<1>2. CASE DisplayOps
  BY <1>2 DEF DisplayOps, RegisterCallback, UnregisterCallback, UpdateHdmiConnectionStatus,
     UpdateWidiConnectionStatus, SetHdmiScalingType, SetHdmiOverscan, SetVppDisplay,
     BroadcastVppChange, ChangeSink, sessionVars
<1> QED
  BY <1>1, <1>2

\* The invariant of the clients and the composer holds in every state.
LEMMA ClientsInvariant == SystemSpec => []ClientsInv
<1>1. ClientsInv /\ [SystemNext]_allVars => ClientsInv'
  <2> SUFFICES ASSUME ClientsInv, [SystemNext]_allVars PROVE ClientsInv'
    OBVIOUS
  <2>0. ASSUME TypeOK', UNCHANGED <<mVideos, mDrmInit, clientVars>> PROVE ClientsInv'
    BY <2>0 DEF clientVars, ClientsInv, ClientsTypeOK, LiveSessionsAreHeld, liveSessions, InfoInv
  <2>1. CASE UNCHANGED allVars
    <3>1. UNCHANGED vars /\ UNCHANGED <<mVideos, mDrmInit, clientVars>>
      BY <2>1 DEF allVars, vars
    <3> QED
      BY <2>0, <3>1, TypeStutter DEF ClientsInv
  <2>2. CASE (ListenerOps \/ DisplayOps) /\ UNCHANGED clientVars
    <3>1. TypeOK'
      BY <2>2, TypeListenerOps, TypeDisplayOps DEF ClientsInv
    <3> QED
      BY <2>0, <2>2, <3>1, OtherOps
  <2> QED
    BY <2>1, <2>2, BeginStep, InfoStep, StateStep, ResetStep, DestroyStep
    DEF ClientsNext, SystemNext
<1> QED
  BY ClientsInitInv, <1>1, PTL DEF SystemSpec

\* A player's step is an operation of the composer, or none of its business.
LEMMA PlayerSteps ==
  ASSUME ClientsInv, [SystemNext]_allVars
  PROVE  [Next]_vars
<1> USE DEF Next, SessionOps
<1>1. ASSUME NEW c \in Clients, SendVideoSourceInfo(c) PROVE [Next]_vars
  BY <1>1, ClientsAssumption DEF SendVideoSourceInfo
<1>2. ASSUME NEW c \in Clients, SendVideoState(c) PROVE [Next]_vars
  <2>1. call[c].state \in VideoStates
    BY DEF ClientsInv, ClientsTypeOK
  <2> QED
    BY <1>2, <2>1 DEF SendVideoState, AcceptsState
<1>3. ASSUME NEW c \in Clients, Reset(c) PROVE [Next]_vars
  BY <1>3 DEF Reset
<1>4. ASSUME NEW c \in Clients, Destroy(c) PROVE [Next]_vars
  BY <1>4 DEF Destroy
<1>5. ASSUME NEW c \in Clients, NEW state, NEW isProtected, NEW sendsInfo,
             BeginSetVideoState(c, state, isProtected, sendsInfo)
      PROVE  [Next]_vars
  BY <1>5 DEF BeginSetVideoState
<1>6. CASE UNCHANGED allVars
  BY <1>6 DEF allVars
<1> QED
  BY <1>1, <1>2, <1>3, <1>4, <1>5, <1>6 DEF SystemNext, ClientsNext

\* The players' calls are operations the composer is specified for, so what
\* holds of the composer holds with any number of players.
THEOREM PlayersUseTheComposer == SystemSpec => Spec
<1>1. ClientsInit => Init
  BY DEF ClientsInit
<1>2. ClientsInv /\ [SystemNext]_allVars => [Next]_vars
  BY PlayerSteps
<1> QED
  BY <1>1, <1>2, ClientsInvariant, PTL DEF SystemSpec, Spec

\* No interleaving of any number of players loses a live session, other than
\* by destroying a client that still holds one.
THEOREM SessionsAreHeld == SystemSpec => []LiveSessionsAreHeld
BY ClientsInvariant, PTL DEF ClientsInv

\* A session never serves the source info of a player that let go of it,
\* although ids are handed out without being reserved; the types are kept and
\* the video driver misses no start.
THEOREM SessionsStaySound == SystemSpec => []SessionsAreSound
<1>1. ClientsInv /\ VideoDriverNeverMissesStart => SessionsAreSound
  BY DEF ClientsInv, InfoInv, InfoComesFromAHolder, SessionsAreSound
<1> QED
  BY <1>1, ClientsInvariant, PlayersUseTheComposer, DriverSeesEveryStart, PTL

=============================================================================
