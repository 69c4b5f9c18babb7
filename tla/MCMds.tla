------------------------------- MODULE MCMds -------------------------------
(***************************************************************************)
(* The multi-display service for TLC.  "part" says what a behaviour        *)
(* exercises: the listener table, the sessions with their broadcasts, the  *)
(* scaling, the players, the HDMI timings, the calls through binder, or the *)
(* choice of a timing in the CTP build.                                    *)
(* These share no state but the callback and the sink, so each is explored *)
(* with the others at rest.                                                *)
(***************************************************************************)
EXTENDS MdsVideoClients, MdsHdmi, MdsBinder, LegacyTiming

VARIABLE part
mcVars == <<part, allVars, hdmiVars, bndVars, ltVars>>

\* Arguments below, at and above overscan_max, and a negative one.
MCOverscanArgs == {-1, 0, 1, 2}

\* 1080, 720 and a small mode, 60 Hz or not, marked as preferred or not.
HdmiMode(size, hz60, nice, pref) ==
  [w |-> size, h |-> size, hz60 |-> hz60, nice |-> nice, pref |-> pref]
MCHdmiModes ==
  {HdmiMode(1, TRUE, TRUE, FALSE), HdmiMode(3, TRUE, FALSE, FALSE), HdmiMode(3, TRUE, TRUE, FALSE),
   HdmiMode(2, TRUE, TRUE, FALSE), HdmiMode(2, FALSE, TRUE, TRUE), HdmiMode(3, TRUE, TRUE, TRUE)}

LtMode(size, hz, nice, pref) ==
  [w |-> size, h |-> size, hz |-> hz, nice |-> nice, pref |-> pref]
Small == LtMode(1, 60, TRUE, FALSE)
Film == LtMode(2, 24, TRUE, FALSE)
MCLtFirst == {<<Small>>, <<Film, LtMode(2, 60, FALSE, FALSE)>>, <<Small, LtMode(3, 30, TRUE, TRUE), Film>>,
              <<Small, LtMode(2, 60, FALSE, FALSE), LtMode(3, 60, TRUE, TRUE)>>}
MCLtSecond == <<LtMode(2, 48, TRUE, FALSE), LtMode(2, 24, FALSE, FALSE), LtMode(2, 24, TRUE, FALSE)>>

\* Registrations and unregistrations: the ids wrap around.  The sink moves
\* too, so the service goes on when the table refuses everyone.
TableNext == ListenerOps \/ ChangeSink

\* Everything that moves the mode, with one listener at a time that wants it.
AnInfo == CHOOSE info \in Infos : TRUE
ModeNext ==
  \/ /\ mListeners = << >> /\ mListenerId < 2
     /\ \E listener \in Listener : listener.wantsMode /\ RegisterListener(listener)
  \/ \E id \in Ids : UnregisterListener(id)
  \/ \E s \in Sessions, state \in VideoStates : UpdateVideoState(s, state)
  \/ \E s \in Sessions : UpdateVideoSourceInfo(s, AnInfo) \/ SetDecoderOutputResolution(s)
  \/ ResetVideoPlayback
  \/ RegisterCallback
  \/ UpdateHdmiConnectionStatus
  \/ \E connected \in BOOLEAN : UpdateWidiConnectionStatus(connected)
  \/ BroadcastVppChange
  \/ ChangeSink

\* The sessions the constructor leaves: for the mode whatever the memory held.
MCVideos ==
  CASE part = "mode" -> \A s \in Sessions : mVideos[s].info \in {AnInfo, NoInfo}
    [] part = "scaling" -> \E state \in {"UNPREPARED", "PREPARED"} :
                             mVideos = [s \in Sessions |-> [InitSession EXCEPT !.state = state]]
    [] part = "players" -> mDrmInit /\ sink = "NONE"
    [] OTHER -> mVideos = [s \in Sessions |-> InitSession]

\* Sessions moved by callers that are no modelled players count as left behind.
MCClientsInit ==
  /\ Init
  /\ mSessionId = [c \in Clients |-> -1]
  /\ mState = [c \in Clients |-> "UNPREPARED"]
  /\ call = [c \in Clients |-> Idle]
  /\ orphans = Sessions

MCInit ==
  /\ part \in {"table", "mode", "scaling", "players", "hdmi", "binder", "timing"}
  /\ HdmiInit
  /\ part # "hdmi" => hdmiSink = NoSink /\ ~hdmiLast
  /\ BinderInit
  /\ part # "binder" => bndIface = "HdmiControl"
  /\ LtInit
  /\ part # "timing" => ltBox[1] = <<Small>>
  /\ IF part = "players" THEN ClientsInit ELSE MCClientsInit
  /\ part \in {"hdmi", "binder", "timing"} => ~mDrmInit /\ sink = "NONE"
  /\ MCVideos

MCNext ==
  /\ UNCHANGED part
  /\ \/ part = "table" /\ TableNext /\ UNCHANGED <<clientVars, hdmiVars, bndVars, ltVars>>
     \/ part = "mode" /\ ModeNext /\ UNCHANGED <<clientVars, hdmiVars, bndVars, ltVars>>
     \/ part = "scaling" /\ DisplayOps /\ UNCHANGED <<clientVars, hdmiVars, bndVars, ltVars>>
     \/ part = "players" /\ ClientsNext /\ UNCHANGED <<hdmiVars, bndVars, ltVars>>
     \/ part = "hdmi" /\ HdmiNext /\ UNCHANGED <<allVars, bndVars, ltVars>>
     \/ part = "binder" /\ BinderNext /\ UNCHANGED <<allVars, hdmiVars, ltVars>>
     \/ part = "timing" /\ LtNext /\ UNCHANGED <<allVars, hdmiVars, bndVars>>

MCSpec == MCInit /\ [][MCNext]_mcVars

-----------------------------------------------------------------------------
(* Properties *)

(* The HDMI timings follow the sink: the list the service holds is that of the *)
(* sink it read last, it fits the arrays of its readers, the preferred mode is *)
(* the best one, and the current timing is the selected or the preferred one.  *)
TimingsFollowTheSink ==
  part = "hdmi" =>
    HdmiTypeOK /\ TimingsAreTheSinks /\ TimingArraysFit /\ PreferredIsBest /\ CurrentTimingIsShown

(* A call through binder is the call of the method: its arguments arrive in    *)
(* their places, the answer is that of the service, success means the service  *)
(* did it, and an object of a living service reaches that service.             *)
CallsReachTheService ==
  part = "binder" =>
    BinderTypeOK /\ ArgumentsArrive /\ AnswersAreTheServices /\ SuccessMeansDone /\ LivingObjectsServe

(* The timing the CTP build chooses is used for the sink it was chosen for, is *)
(* one of that sink's modes, and a video is shown at the best one for its      *)
(* rate.                                                                       *)
ChosenTimingIsTheSinks ==
  part = "timing" =>
    /\ LtTypeOK /\ ChoiceBelongsToItsSink /\ PreferredModeExists
    /\ ChosenModeExists /\ VideoTimingIsBest
=============================================================================
