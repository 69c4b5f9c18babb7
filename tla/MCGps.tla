------------------------------- MODULE MCGps --------------------------------
(* The GPS provider for TLC.  "part" says which of its independent parts a     *)
(* behaviour exercises: the downloads, the SUPL data connection, the engine or *)
(* the SUPL server.                                                            *)
EXTENDS GpsAiding, GpsNavigation

VARIABLE part
mcVars == <<part, gpsAidVars, navVars, suplVars>>
Parts == {"downloads", "connection", "engine", "server"}

MCInit ==
  /\ part \in Parts /\ GpsAidingInit /\ GpsNavInit /\ SuplInit
  /\ part # "downloads" => gpsSupports = FALSE
  /\ part # "engine" => navSched = FALSE
  /\ part # "server" => suplHost = FALSE
MCNext ==
  \/ part = "downloads" /\ GpsDownloadNext /\ UNCHANGED <<part, navVars, suplVars>>
  \/ part = "connection" /\ GpsConnNext /\ UNCHANGED <<part, navVars, suplVars>>
  \/ part = "engine" /\ GpsNavNext /\ UNCHANGED <<part, gpsAidVars, suplVars>>
  \/ part = "server" /\ SuplNext /\ UNCHANGED <<part, gpsAidVars, navVars>>
MCSpec == MCInit /\ [][MCNext]_mcVars /\ GpsAidingFairness /\ GpsNavFairness

-----------------------------------------------------------------------------
(* Properties *)

(* What the engine asks for it gets: aiding data is injected once the network  *)
(* allows, an AGPS data request is answered, and hibernation ends.             *)
GpsRequestsAreServed ==
  AidingGetsInjected /\ AgpsRequestIsAnswered /\ HibernationEnds
=============================================================================
