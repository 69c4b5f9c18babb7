------------------------------- MODULE Capsule -------------------------------
(* Firmware capsules and the bootloader container: flash_fdk/capsule.c,        *)
(* flash_edk2/esp.c, bootloader.c, ulpmc.c and the OTA functions of updater.c  *)
(* that reach them.                                                            *)
(*                                                                             *)
(* A capsule has up to three regions with $MN2 version tags.  A region is the  *)
(* sequence of the versions its tags carry, each with whether it lies before   *)
(* the place where the scan ends; an absent region has no tags.                *)
EXTENDS Integers, Sequences, FiniteSets

CONSTANTS Capsules,      \* [pdr, iafw, sec, tag]
          Device,        \* versions the properties report: [pdr, iafw, sec]
          Containers,    \* bootloader files: sequences of [magic, flash]
          MaxCapsules,   \* capsules flashed between two boots
          MaxCapFaults

CapsuleAssumption == /\ IsFiniteSet(Capsules)
                     /\ \A file \in Containers :
                          file # <<>> /\ file \in Seq([magic : STRING, flash : BOOLEAN])
                     /\ MaxCapsules \in Nat /\ MaxCapFaults \in Nat
ASSUME CapsuleAssumption

VARIABLES capBoard,    \* the labels found: an ESP (is_edk2), a capsule partition (is_fdk)
          capPart,     \* the capsule partition
          capEsp,      \* the ESP: mounted, BiosUpdate.fv, the extracted update
          capFlag,     \* the fw_update flag the firmware looks at
          capCall,     \* the flash in progress
          capRet, capCount, capFaults,
          blFile, blMagic, blPos, blPresent, blFlashed, blLog, blRet
capVars == <<capBoard, capPart, capEsp, capFlag, capCall, capRet, capCount, capFaults>>
blVars == <<blFile, blMagic, blPos, blPresent, blFlashed, blLog, blRet>>
capsuleVars == <<capVars, blVars>>

NoCapsule == [pdr |-> <<>>, iafw |-> <<>>, sec |-> <<>>, tag |-> "none"]
Garbage == [NoCapsule EXCEPT !.tag = "garbage"]
Unset == -1
Running == 2   \* blRet while flash_bootloader runs
NoCall == [phase |-> "idle"]
magics == <<"fastboot", "ifwi", "splashscreen", "capsule", "esp_update">>

CapsuleTypeOK ==
  /\ capBoard \in {"edk2", "fdk", "none"}
  /\ capPart \in Capsules \cup {NoCapsule, Garbage}
  /\ capEsp \in [mounted : BOOLEAN, bios : Capsules \cup {NoCapsule, Garbage}, update : {"old", "new", "mixed"}]
  /\ capFlag \in BOOLEAN
  /\ capCall \in {NoCall} \cup [phase : {"write", "flag", "bios"}, capsule : Capsules,
                                caller : {"fastboot", "ota"}]
  /\ capRet \in {"none", "ok", "fail", "t", "abort"}
  /\ capCount \in 0..MaxCapsules /\ capFaults \in 0..MaxCapFaults
  /\ blFile \in Containers \cup {<<>>} /\ blMagic \in 1..(Len(magics) + 1)
  /\ blPos \in 0..Len(blFile) /\ blPresent \in BOOLEAN /\ blFlashed \in BOOLEAN
  /\ blLog \in Seq({magics[i] : i \in 1..Len(magics)}) /\ blRet \in -1..Running

-----------------------------------------------------------------------------
(* The version check *)

\* get_fw_version_tag_offset finds the first tag of the PDR and IAFW regions.
NoTag == -1
FirstTag(region) == IF region = <<>> THEN NoTag ELSE Head(region).version

\* The SEC scan goes on from tag to tag but ends at the file's offset sec_size.
SecTags(region) == {region[i].version : i \in {j \in DOMAIN region :
                      \A k \in 1..j : region[k].reached}}

\* The answers check_capsule can give: a SEC version that the property does not
\* spell out in full leaves sec_version uninitialised.
check_capsule(c) ==
  IF FirstTag(c.pdr) \notin {NoTag, Device.pdr} THEN {TRUE}
  ELSE IF FirstTag(c.iafw) \notin {NoTag, Device.iafw} THEN {TRUE}
  ELSE IF SecTags(c.sec) = {} THEN {FirstTag(c.pdr) = NoTag /\ FirstTag(c.iafw) = NoTag}
  ELSE IF Device.sec = Unset THEN BOOLEAN
  ELSE {\E v \in SecTags(c.sec) : v # Device.sec}

-----------------------------------------------------------------------------
(* Flashing a capsule *)

CapFault == capFaults < MaxCapFaults /\ capFaults' = capFaults + 1
Answer(caller, ok) == IF caller = "fastboot" THEN IF ok THEN "ok" ELSE "fail"
                      ELSE IF ok THEN "t" ELSE "abort"
CapEnd(ok) == capCall' = NoCall /\ capRet' = Answer(capCall.caller, ok)

\* capsule_ops prefers the ESP; flash_capsule is a stub that fails without either.
flash_capsule(caller) ==
  /\ capCall = NoCall /\ capCount < MaxCapsules
  /\ \E c \in Capsules :
       \/ /\ capBoard = "edk2"
          /\ \/ /\ capEsp' = [capEsp EXCEPT !.mounted = TRUE]
                /\ capCall' = [phase |-> "bios", capsule |-> c, caller |-> caller]
                /\ capRet' = "none" /\ capCount' = capCount + 1 /\ UNCHANGED capFaults
             \/ /\ ~capEsp.mounted /\ CapFault \* ensure_esp_mounted fails
                /\ capRet' = Answer(caller, FALSE) /\ UNCHANGED <<capEsp, capCall, capCount>>
       \/ /\ capBoard = "fdk"
          /\ \E update \in check_capsule(c) :
               \/ /\ update
                  /\ capCall' = [phase |-> "write", capsule |-> c, caller |-> caller]
                  /\ capRet' = "none" /\ capCount' = capCount + 1
               \/ /\ ~update
                  /\ capRet' = Answer(caller, TRUE) /\ UNCHANGED <<capCall, capCount>>
          /\ UNCHANGED <<capEsp, capFaults>>
       \/ /\ capBoard = "none"
          /\ capRet' = Answer(caller, FALSE) /\ UNCHANGED <<capEsp, capCall, capCount, capFaults>>
  /\ UNCHANGED <<capBoard, capPart, capFlag, blVars>>

flash_capsule_esp ==
  /\ capCall.phase = "bios"
  /\ \/ capEsp' = [capEsp EXCEPT !.bios = capCall.capsule] /\ CapEnd(TRUE) /\ UNCHANGED capFaults
     \/ capEsp' = [capEsp EXCEPT !.bios = Garbage] /\ CapEnd(FALSE) /\ CapFault
  /\ UNCHANGED <<capBoard, capPart, capFlag, capCount, blVars>>

\* The partition is written in place and synced, then the flag is raised.
flash_capsule_fdk ==
  /\ \/ /\ capCall.phase = "write"
        /\ \/ /\ capPart' = capCall.capsule
              /\ capCall' = [capCall EXCEPT !.phase = "flag"] /\ UNCHANGED <<capRet, capFaults>>
           \/ capPart' = Garbage /\ CapEnd(FALSE) /\ CapFault
        /\ UNCHANGED capFlag
     \/ /\ capCall.phase = "flag"
        /\ \/ capFlag' = TRUE /\ CapEnd(TRUE) /\ UNCHANGED capFaults
           \/ CapEnd(FALSE) /\ CapFault /\ UNCHANGED capFlag
        /\ UNCHANGED capPart
  /\ UNCHANGED <<capBoard, capEsp, capCount, blVars>>

\* flash_esp_update unpacks an archive over the ESP, file by file.
flash_esp_update(caller) ==
  /\ capCall = NoCall /\ capBoard = "edk2"
  /\ \/ /\ capEsp' = [capEsp EXCEPT !.mounted = TRUE, !.update = "new"]
        /\ capRet' = Answer(caller, TRUE) /\ UNCHANGED capFaults
     \/ /\ capEsp' = [capEsp EXCEPT !.mounted = TRUE, !.update = "mixed"]
        /\ capRet' = Answer(caller, FALSE) /\ CapFault
     \/ ~capEsp.mounted /\ CapFault /\ capRet' = Answer(caller, FALSE) /\ UNCHANGED capEsp
  /\ UNCHANGED <<capBoard, capPart, capFlag, capCall, capCount, blVars>>

\* The file goes to the microcontroller's driver in one piece.
flash_ulpmc(caller) ==
  /\ capCall = NoCall
  /\ \/ capRet' = Answer(caller, TRUE) /\ UNCHANGED capFaults
     \/ capRet' = Answer(caller, FALSE) /\ CapFault
  /\ UNCHANGED <<capBoard, capPart, capEsp, capFlag, capCall, capCount, blVars>>

FlashCapsuleFn == flash_capsule("ota")
FlashEspUpdateFn == flash_esp_update("ota")
FlashUlpmcFn == flash_ulpmc("ota")

CapCut ==
  /\ capCall # NoCall /\ CapFault
  /\ capPart' \in IF capCall.phase = "write" THEN {capPart, Garbage, capCall.capsule} ELSE {capPart}
  /\ capEsp' \in {[capEsp EXCEPT !.mounted = FALSE, !.bios = b] :
                    b \in IF capCall.phase = "bios" THEN {capEsp.bios, Garbage} ELSE {capEsp.bios}}
  /\ capCall' = NoCall /\ capRet' = "none"
  /\ UNCHANGED <<capBoard, capFlag, capCount, blVars>>

\* External: the firmware takes the capsule when the flag is up, then clears it.
CapReboot ==
  /\ capCall = NoCall
  /\ capFlag' = FALSE /\ capCount' = 0 /\ capRet' = "none"
  /\ capEsp' = [capEsp EXCEPT !.mounted = FALSE]
  /\ UNCHANGED <<capBoard, capPart, capCall, capFaults, blVars>>

-----------------------------------------------------------------------------
(* The bootloader container *)

flash_bootloader ==
  /\ blRet # Running /\ blFile' \in Containers
  /\ blMagic' = 1 /\ blPos' = 0 /\ blPresent' = FALSE /\ blFlashed' = FALSE
  /\ blLog' = <<>> /\ blRet' = Running
  /\ UNCHANGED capVars

\* The components of the wanted kind behind the current one.  An empty file has
\* whatever lies behind its header as first component.
Wanted(pos) == {i \in (pos + 1)..Len(blFile) : blFile[i].flash /\ blFile[i].magic = magics[blMagic]}
next_component_filter(pos) == {i \in Wanted(pos) : \A j \in Wanted(pos) : i <= j}

\* aboot_flash runs the handler registered for the name.  Every handler reports
\* a failure as -1, which is -EPERM, or as a positive number.
BlFlash ==
  /\ blRet = Running /\ blMagic <= Len(magics) /\ Wanted(blPos) # {}
  /\ blPos' \in next_component_filter(blPos) /\ blPresent' = TRUE
  /\ \E ret \in {-1, 0, 1} :
       /\ blFlashed' = (blFlashed \/ ret = 0)
       /\ blLog' = IF ret = 0 THEN Append(blLog, magics[blMagic]) ELSE blLog
       /\ blRet' = IF ret \in {-1, 0} THEN Running ELSE ret
  /\ UNCHANGED <<blFile, blMagic, capVars>>

BlNextMagic ==
  /\ blRet = Running /\ blMagic <= Len(magics) /\ Wanted(blPos) = {}
  /\ \/ /\ blPresent /\ ~blFlashed /\ magics[blMagic] = "fastboot"
        /\ blRet' = -1 /\ UNCHANGED <<blMagic, blPos, blPresent, blFlashed>>
     \/ /\ ~(blPresent /\ ~blFlashed /\ magics[blMagic] = "fastboot")
        /\ blMagic' = blMagic + 1 /\ blPos' = 0 /\ blPresent' = FALSE /\ blFlashed' = FALSE
        /\ UNCHANGED blRet
  /\ UNCHANGED <<blFile, blLog, capVars>>

\* Nothing flashed is only reported.
BlEnd ==
  /\ blRet = Running /\ blMagic = Len(magics) + 1
  /\ blRet' = 0
  /\ UNCHANGED <<blFile, blMagic, blPos, blPresent, blFlashed, blLog, capVars>>

CapsuleInit ==
  /\ capBoard \in {"edk2", "fdk", "none"}
  /\ capPart = NoCapsule /\ capFlag = FALSE /\ capCall = NoCall /\ capRet = "none"
  /\ capEsp = [mounted |-> FALSE, bios |-> NoCapsule, update |-> "old"]
  /\ capCount = 0 /\ capFaults = 0
  /\ blFile = <<>> /\ blMagic = Len(magics) + 1 /\ blPos = 0 /\ blPresent = FALSE
  /\ blFlashed = FALSE /\ blLog = <<>> /\ blRet = 0

CapNext ==
  \/ flash_capsule("fastboot") \/ flash_capsule_esp \/ flash_capsule_fdk
  \/ flash_esp_update("fastboot") \/ flash_ulpmc("fastboot")
  \/ FlashCapsuleFn \/ FlashEspUpdateFn \/ FlashUlpmcFn \/ CapCut \/ CapReboot
BlNext == flash_bootloader \/ BlFlash \/ BlNextMagic \/ BlEnd
CapsuleNext == CapNext \/ BlNext

CapsuleSpec == CapsuleInit /\ [][CapsuleNext]_capsuleVars

-----------------------------------------------------------------------------
(* The firmware is never told to take half a capsule: while at most one        *)
(* capsule has been flashed since the last boot, a raised fw_update flag means *)
(* that the partition holds it completely, whatever failed or was cut          *)
(* (capsule.c:227-235).  A second capsule is written under a raised flag.      *)
FlagMeansAWholeCapsule == capFlag /\ capCount <= 1 => capPart \in Capsules

(* A bootloader file that brings a droidboot for other boards changes nothing: *)
(* unless one of its droidboot components went through, no component was       *)
(* flashed, and the container is not reported as flashed (bootloader.c:85-107).*)
UnsupportedBootloaderFlashesNothing ==
  (\E i \in DOMAIN blFile : blFile[i].flash /\ blFile[i].magic = "fastboot") =>
    (\E i \in DOMAIN blLog : blLog[i] = "fastboot") \/ (blLog = <<>> /\ blRet # 0)

=============================================================================
