----------------------------- MODULE MCDisplay -----------------------------
(* The display observer of system_server and the display service of the CTP  *)
(* build for TLC.  "part" says what a behaviour exercises: the observer  *)
(* with its messages, the observer with its broadcasts, the legacy composer  *)
(* with its clients, or the legacy composer with the HDCP timers.            *)
EXTENDS MdsObserver, MdsLegacyClients

VARIABLE part
mcVars == <<part, obsVars, legacyVars>>

LegacyDone == onMdsMessage(leg'.told) /\ SeenEarly
ComposerNext ==
  \/ /\ CableMoves \/ LegacyHandler \/ LegacyPlayers \/ LegacyThreads \/ ClientCalls
     /\ LegacyDone
  \/ HandleTurn
LinkNext ==
  \/ /\ CableMoves \/ LegacyHandler \/ LegacyThreads \/ LegacyTimers
     /\ LegacyDone
  \/ HandleTurn

MCInit ==
  /\ part \in {"observer", "calls", "composer", "link"}
  /\ ObserverStart(IF part = "calls" THEN 1 ELSE 0)
  /\ part \notin {"observer", "calls"} => obsSink = "none" /\ obsMode = {}
  /\ LegacyInit
  /\ part \notin {"composer", "link"} => legCable = "none"
  /\ part # "composer" => leg.vstate = "OTHER"

MCNext ==
  /\ UNCHANGED part
  /\ \/ part = "observer" /\ ObserverCore /\ UNCHANGED legacyVars
     \/ part = "calls" /\ ObserverNext /\ UNCHANGED legacyVars
     \/ part = "composer" /\ ComposerNext /\ UNCHANGED obsVars
     \/ part = "link" /\ LinkNext /\ UNCHANGED obsVars

\* The fairness of the modules for the part that moves: the others rest in
\* their initial state, where some of their actions are enabled.
observes == part \in {"observer", "calls"}
runs == part \in {"composer", "link"}
MCObserverFairness ==
  /\ WF_obsVars(observes /\ listenerOnMdsMessage)
  /\ WF_obsVars(observes /\ (ResetFlags \/ UseMode \/ handleObserverMessage))
  /\ WF_obsVars(observes /\ RearmTimeout) /\ WF_obsVars(observes /\ InputTimeout)
  /\ \A t \in Callers : /\ WF_obsVars(observes /\ TakeG(t))
                        /\ WF_obsVars(observes /\ TakeM(t))
MCLegacyFairness ==
  /\ WF_legacyVars(runs /\ ComposerWork /\ UNCHANGED clientVars /\ LegacyDone)
  /\ WF_legacyVars(runs /\ Initialize /\ UNCHANGED clientVars /\ LegacyDone)
  /\ WF_legacyVars(/\ runs /\ legMipi.req # "no"
                   /\ MipiTake /\ UNCHANGED clientVars /\ LegacyDone)
  /\ WF_legacyVars(runs /\ MipiServe /\ UNCHANGED clientVars /\ LegacyDone)
  /\ WF_legacyVars(runs /\ WidiStore /\ UNCHANGED clientVars /\ LegacyDone)
  /\ WF_legacyVars(runs /\ PostHotplug /\ LegacyDone)
  /\ WF_legacyVars(runs /\ PolicySet /\ LegacyDone)
  /\ WF_legacyVars(runs /\ NotifyHotplug /\ LegacyDone)
  /\ WF_legacyVars(runs /\ SetHdmiPolicy /\ LegacyDone)
  /\ WF_legacyVars(runs /\ HandleTurn)

MCSpec == MCInit /\ [][MCNext]_mcVars /\ MCObserverFairness /\ MCLegacyFairness

-----------------------------------------------------------------------------
(* Properties *)

(* Once its messages are handled the observer's picture is the service's: it   *)
(* knows the connection, and a video gates what it does with the display.      *)
ObserverFollowsTheService ==
  observes => ObserverTypeOK /\ ObserverKnowsTheConnection /\ VideoGatesTheDisplay

(* The mode of the CTP composer is what its inputs say: cable, Widi, players   *)
(* and panel.  The listeners know it, the video ends with its players, and the *)
(* panel is dark for a reason only and lit when the composer says so.          *)
ComposerModeIsTrue ==
  runs => /\ LegacyTypeOK /\ LegacyModeFollowsItsInputs /\ ListenersKnowTheMode
          /\ VideoEndsWithItsPlayers /\ PanelIsDarkForAReason /\ MipiOnMeansLit

(* Whatever the order of cable, handler and HDCP threads, audio, HDMI power,   *)
(* the HDCP timer and the IED sessions agree with the plug.                    *)
PlugAndPowerAgree ==
  runs => AudioFollowsThePlug /\ HdmiOnIsPowered /\ TimerNeedsThePlug /\ IedComesBack

(* What is asked of the display ends: calls into the service return, the input *)
(* goes idle, the panel is switched on, the forced landscape is released.      *)
DisplayRequestsEnd ==
  ServiceCallsReturn /\ InputGoesIdle /\ PanelOnIsServed /\ LandscapeIsReleased
=============================================================================
