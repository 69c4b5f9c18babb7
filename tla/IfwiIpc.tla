------------------------------ MODULE IfwiIpc ------------------------------
(* Boards whose SCU takes the firmware over IPC: flash_scu_ipc/ifwi.c.         *)
(* fastboot flash dnx leaves the DnX binary in /tmp, fastboot flash ifwi then  *)
(* hands DnX and IFWI to the SCU when the image's version allows it; flashtool *)
(* -f hands over an image without that version rule.                           *)
EXTENDS FwVersion, FiniteSets, Integers

CONSTANTS IpcImages,     \* firmware images: [fips, pti, tag]
          DnxBinaries,
          IpcFactory,    \* the image the board left the factory with
          MaxIpcFaults   \* failed writes and power cuts

VARIABLES ipcTmpDnx,    \* /tmp/__dnx.bin
          ipcWrite,     \* the update_ifwi_file_scu_ipc call in progress
          ipcDnx,       \* the DnX the SCU holds
          ipcIfwi,      \* the firmware the SCU holds and who gave it
          ipcRunning,   \* the version the SCU reports
          ipcRet, ipcFaults
ipcVars == <<ipcTmpDnx, ipcWrite, ipcDnx, ipcIfwi, ipcRunning, ipcRet, ipcFaults>>

NoFile == "nofile"
Partial == "partial"
PartialImage == [fips |-> <<>>, pti |-> "missing", tag |-> "partial"]
IpcIdle == [phase |-> "idle"]
Version(image) == get_image_fw_rev(image.fips)

\* The version fields of a header are one byte wide, and the headers of an image
\* that have one agree on it: the version rule looks at the first of them
\* (crack_update_fw), the SCU reports the one that get_image_fw_rev ends with.
IpcAssumption ==
  /\ IsFiniteSet(IpcImages) /\ IpcFactory \in IpcImages /\ MaxIpcFaults \in Nat
  /\ PartialImage \notin IpcImages
  /\ \A image \in IpcImages :
       /\ Version(image) \in [major : 0..255, minor : 0..255]
       /\ CanCrack(image.fips) => crack_update_fw(image.fips) = Version(image)
ASSUME IpcAssumption

IpcTypeOK ==
  /\ ipcTmpDnx \in DnxBinaries \cup {NoFile, Partial}
  /\ ipcWrite \in {IpcIdle} \cup [phase : {"dnx", "ifwi"}, image : IpcImages]
  /\ ipcDnx \in DnxBinaries \cup {Partial}
  /\ ipcIfwi \in [image : IpcImages \cup {PartialImage}, by : {"file", "tool"}]
  /\ ipcRunning \in [major : 0..255, minor : 0..255]
  /\ ipcRet \in {"none", "ok", "fail"} /\ ipcFaults \in 0..MaxIpcFaults

IpcFault == ipcFaults < MaxIpcFaults /\ ipcFaults' = ipcFaults + 1

\* Writing the temporary file may fail half-way; it is there all the same.
flash_dnx_scu_ipc ==
  /\ ipcWrite = IpcIdle
  /\ \E dnx \in DnxBinaries :
       \/ ipcTmpDnx' = dnx /\ ipcRet' = "ok" /\ UNCHANGED ipcFaults
       \/ ipcTmpDnx' = Partial /\ ipcRet' = "fail" /\ IpcFault
  /\ UNCHANGED <<ipcWrite, ipcDnx, ipcIfwi, ipcRunning>>

ifwi_downgrade_allowed(image) ==
  LET pti == crack_update_fw_pti_field(image)
  IN IF pti.ret # 0 THEN -1 ELSE IF pti.field >= 128 THEN 1 ELSE 0

\* A faulty variant; no step uses it.
IpcVerdict_pti(image) ==
  LET dev == get_current_fw_rev(ScuBytes(ipcRunning))
      img == crack_update_fw(image.fips)
  IN IF ~CanCrack(image.fips) \/ ifwi_downgrade_allowed(image) = -1 THEN "fail"
     ELSE IF img.major # dev.major THEN "skip"
     ELSE IF img.minor = dev.minor THEN "skip" ELSE "write"

\* What update_ifwi_file_scu_ipc decides before it writes: an unreadable image
\* is an error, an unsuitable one is not.
IpcVerdict(image) ==
  LET dev == get_current_fw_rev(ScuBytes(ipcRunning))
      img == crack_update_fw(image.fips)
  IN IF ~CanCrack(image.fips) \/ ifwi_downgrade_allowed(image) = -1 THEN "fail"
     ELSE IF img.major # dev.major THEN "skip"
     ELSE IF img.minor < dev.minor /\ ifwi_downgrade_allowed(image) = 0 THEN "skip"
     ELSE IF img.minor = dev.minor THEN "skip" ELSE "write"

\* The DnX file must be there; the image is copied to /tmp first.
flash_ifwi_scu_ipc ==
  /\ ipcWrite = IpcIdle
  /\ \E image \in IpcImages :
       LET verdict == IF ipcTmpDnx = NoFile \/ ~HasFip(image.fips) THEN "fail"
                      ELSE IpcVerdict(image)
       IN \/ /\ verdict = "write"
             /\ ipcWrite' = [phase |-> "dnx", image |-> image]
             /\ ipcRet' = "none" /\ UNCHANGED ipcFaults
          \/ /\ verdict # "write"
             /\ ipcRet' = IF verdict = "skip" THEN "ok" ELSE "fail"
             /\ UNCHANGED <<ipcWrite, ipcFaults>>
          \/ /\ ipcTmpDnx # NoFile /\ HasFip(image.fips) /\ IpcFault
             /\ ipcRet' = "fail" /\ UNCHANGED ipcWrite
  /\ UNCHANGED <<ipcTmpDnx, ipcDnx, ipcIfwi, ipcRunning>>

\* Each chunk is tried three times (retry_write); when that fails the SCU has
\* part of the file, and a DnX that did go through is not taken back.
IpcWriteDnx ==
  /\ ipcWrite.phase = "dnx"
  /\ \/ /\ ipcDnx' = ipcTmpDnx
        /\ ipcWrite' = [ipcWrite EXCEPT !.phase = "ifwi"] /\ UNCHANGED <<ipcRet, ipcFaults>>
     \/ IpcFault /\ ipcDnx' = Partial /\ ipcWrite' = IpcIdle /\ ipcRet' = "fail"
  /\ UNCHANGED <<ipcTmpDnx, ipcIfwi, ipcRunning>>

IpcWriteIfwi ==
  /\ ipcWrite.phase = "ifwi"
  /\ \/ ipcIfwi' = [image |-> ipcWrite.image, by |-> "file"] /\ ipcRet' = "ok" /\ UNCHANGED ipcFaults
     \/ IpcFault /\ ipcIfwi' = [image |-> PartialImage, by |-> "file"] /\ ipcRet' = "fail"
  /\ ipcWrite' = IpcIdle
  /\ UNCHANGED <<ipcTmpDnx, ipcDnx, ipcRunning>>

\* flashtool -f: only the major number is compared.
MajorMatches(image) ==
  /\ HasFip(image.fips)
  /\ get_image_fw_rev(image.fips).major = get_current_fw_rev(ScuBytes(ipcRunning)).major

update_ifwi_image_scu_ipc ==
  /\ ipcWrite = IpcIdle
  /\ \E image \in IpcImages :
       \/ /\ MajorMatches(image)
          /\ ipcIfwi' = [image |-> image, by |-> "tool"] /\ ipcRet' = "ok" /\ UNCHANGED ipcFaults
       \/ MajorMatches(image) /\ IpcFault /\ ipcRet' = "fail" /\ UNCHANGED ipcIfwi
       \/ ~MajorMatches(image) /\ ipcRet' = "fail" /\ UNCHANGED <<ipcIfwi, ipcFaults>>
  /\ UNCHANGED <<ipcTmpDnx, ipcWrite, ipcDnx, ipcRunning>>

\* External: the board restarts on what the SCU holds; /tmp is lost.
IpcReboot ==
  /\ ipcWrite = IpcIdle /\ ipcIfwi.image # PartialImage
  /\ ipcRunning' = Version(ipcIfwi.image)
  /\ ipcTmpDnx' = NoFile /\ ipcRet' = "none"
  /\ UNCHANGED <<ipcWrite, ipcDnx, ipcIfwi, ipcFaults>>

IpcInit ==
  /\ ipcTmpDnx = NoFile /\ ipcWrite = IpcIdle
  /\ ipcDnx \in DnxBinaries /\ ipcIfwi = [image |-> IpcFactory, by |-> "file"]
  /\ ipcRunning = Version(IpcFactory) /\ ipcRet = "none" /\ ipcFaults = 0

IpcNext == \/ flash_dnx_scu_ipc \/ flash_ifwi_scu_ipc \/ IpcWriteDnx \/ IpcWriteIfwi
           \/ update_ifwi_image_scu_ipc \/ IpcReboot

IpcSpec == IpcInit /\ [][IpcNext]_ipcVars

-----------------------------------------------------------------------------
(* A fastboot update never takes a board back: across a reboot the running     *)
(* minor version falls only when the image is a development image (PTI on) or  *)
(* came from flashtool -f.  The code compares with the version that runs, not  *)
(* with what an earlier flash left for the next boot (ifwi.c:118-139), and     *)
(* that is enough for this, whatever is flashed in between.                    *)
NoDowngradeAcrossBoots ==
  ipcRunning' # ipcRunning => \/ ipcRunning'.minor > ipcRunning.minor
                              \/ ipcIfwi.by = "tool" \/ ipcIfwi.image.pti = "on"

(* The major version number, which encodes the device type (comment            *)
(* ifwi.c:216-220), never changes, by fastboot or by flashtool.                *)
MajorNeverChanges ==
  ipcIfwi.image # PartialImage => Version(ipcIfwi.image).major = Version(IpcFactory).major

(* The SCU only ever receives firmware after a DnX: when firmware arrives from *)
(* a file, the DnX the SCU holds is the file of this very session, and a       *)
(* failed DnX write stops the update (ifwi.c:161-197).                         *)
FirmwareFollowsItsDnx ==
  ipcWrite # IpcIdle /\ ipcIfwi' # ipcIfwi => ipcDnx = ipcTmpDnx
=============================================================================
