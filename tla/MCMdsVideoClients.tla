------------------------- MODULE MCMdsVideoClients -------------------------
(***************************************************************************)
(* An instance of MdsVideoClients for TLC: the drm device opened and       *)
(* nothing is plugged in, so the players alone move the composer.          *)
(***************************************************************************)
EXTENDS MdsVideoClients

PlayersInit == ClientsInit /\ mDrmInit = TRUE /\ sink = "NONE"

PlayersSpec == PlayersInit /\ [][ClientsNext]_allVars

=============================================================================
