------------------------------ MODULE Firmware ------------------------------
(***************************************************************************)
(* The three ways libintelprov brings firmware to a board, together.  They *)
(* share no state: each step is a step of one of them.                     *)
(***************************************************************************)
EXTENDS IfwiEmmc, IfwiIpc, Capsule

firmwareVars == <<emmcVars, ipcVars, capsuleVars>>

FirmwareInit == EmmcInit /\ IpcInit /\ CapsuleInit

FirmwareNext ==
  \/ EmmcNext /\ UNCHANGED <<ipcVars, capsuleVars>>
  \/ IpcNext /\ UNCHANGED <<emmcVars, capsuleVars>>
  \/ CapsuleNext /\ UNCHANGED <<emmcVars, ipcVars>>

FirmwareSpec == FirmwareInit /\ [][FirmwareNext]_firmwareVars

-----------------------------------------------------------------------------
(* After any sequence of firmware updates the board still boots its own kind   *)
(* of firmware: every tool's state keeps its types, one fault leaves a boot    *)
(* copy, no backend lets another family or major version in, the update flag   *)
(* names a whole capsule, and a container for other boards flashes nothing.    *)
FirmwareStaysBootable ==
  /\ EmmcTypeOK /\ IpcTypeOK /\ CapsuleTypeOK
  /\ OneFaultLeavesABootCopy /\ FamilyNeverChanges /\ MajorNeverChanges
  /\ FlagMeansAWholeCapsule /\ UnsupportedBootloaderFlashesNothing

(* No step of an update loses what came before: tokens survive new firmware,   *)
(* success means both copies, a fastboot update never takes the running        *)
(* version back, and firmware reaches the SCU only behind its own DnX.         *)
UpdatesKeepTheirPromises ==
  [][/\ FirmwareKeepsTheTokens /\ SuccessReachesBothCopies
     /\ NoDowngradeAcrossBoots /\ FirmwareFollowsItsDnx]_firmwareVars
=============================================================================
