------------------------------ MODULE IfwiEmmc ------------------------------
(* Boards whose SCU keeps the integrated firmware (IFWI) in the two eMMC boot  *)
(* partitions: libintelprov/flash_scu_emmc/ifwi.c, reached from fastboot       *)
(* through flash.c and from the OTA script through updater.c.                  *)
(*                                                                             *)
(* A boot partition holds a firmware image, the token area and the UMIP bytes  *)
(* (DnX timeout, custom boot) that lie inside it, and the XOR words over all   *)
(* of them.  write_umip_emmc works on a shared mapping of the partition;       *)
(* closing the only descriptor of the block device makes the kernel write the  *)
(* pages back, so a power cut before that leaves the old content, the new      *)
(* content or a mixture of the two.                                            *)
EXTENDS FwVersion, FiniteSets, Integers

CONSTANTS EmmcImages,   \* firmware images: [fips, umip, tag]
          Tokens,       \* contents of the token area
          UmipBytes,    \* values of the one-byte settings
          Family,       \* the version the board left the factory with
          MaxZip,       \* images in one OTA archive
          MaxEmmcFaults \* power cuts and failed opens

VARIABLES emmcBoot,     \* [0..1 -> the content of mmcblk0boot<i>]
          emmcRunning,  \* the version the SCU reports: that of the last boot
          emmcZip,      \* images FlashIfwiOrBomFn has still to look at
          emmcWrite,    \* the write_umip_emmc call in progress
          emmcRet,      \* what the last call returned
          emmcFaults
emmcVars == <<emmcBoot, emmcRunning, emmcZip, emmcWrite, emmcRet, emmcFaults>>

NoToken == "erased"
Torn == [fips |-> <<>>, umip |-> "torn", tag |-> "torn"]
EmmcAssumption ==
  /\ IsFiniteSet(EmmcImages) /\ MaxZip \in Nat /\ MaxEmmcFaults \in Nat
  /\ Torn \notin EmmcImages
  /\ \A image \in EmmcImages :
       get_image_fw_rev_long(image.fips) \in [major : Nat, minor : Nat]
  /\ \E image \in EmmcImages : get_image_fw_rev_long(image.fips) = Family
ASSUME EmmcAssumption

Content(image, token, umip, xor) == [fw |-> image, token |-> token, umip |-> umip, xor |-> xor]
Contents == [fw : EmmcImages \cup {Torn}, token : Tokens \cup {NoToken, "image"},
             umip : UmipBytes \cup {"image", "torn"}, xor : BOOLEAN]

\* External: what the boot ROM accepts.
Bootable(content) == content.xor /\ content.fw # Torn

Idle == [phase |-> "idle"]
Requests == [area : {"ifwi"}, data : EmmcImages]
              \cup [area : {"token"}, data : Tokens \cup {NoToken}]
              \cup [area : {"umip"}, data : UmipBytes]

EmmcTypeOK ==
  /\ emmcBoot \in [0..1 -> Contents]
  /\ emmcRunning \in [major : Nat, minor : Nat]
  /\ emmcZip \in Seq(EmmcImages)
  /\ emmcWrite \in {Idle} \cup [phase : {"open", "mapped", "filled", "sealed"},
                               request : Requests, index : 0..1, page : Contents]
  /\ emmcRet \in {"none", "ok", "fail", "cut"}
  /\ emmcFaults \in 0..MaxEmmcFaults

\* write_umip_emmc is entered: no partition has been touched yet.
EmmcBegin(request) ==
  /\ emmcWrite' = [phase |-> "open", request |-> request, index |-> 0, page |-> emmcBoot[0]]
  /\ emmcRet' = "none"
  /\ UNCHANGED <<emmcBoot, emmcRunning, emmcFaults>>

\* The upper bits of the minor number: minor >> IFWI_TYPE_LSH.
IfwiType(v) == v.minor \div 4096

\* A file is only for this board when major number and type agree.
check_ifwi_file_scu_emmc(image) ==
  LET img == get_image_fw_rev_long(image.fips)
      dev == get_current_fw_rev_long(ScuBytesLong(emmcRunning))
  IN IF ~HasFip(image.fips) THEN -1
     ELSE IF img.major # dev.major THEN 0
     ELSE IF IfwiType(img) # IfwiType(dev) THEN 0 ELSE 1

\* fastboot flash ifwi: a file for another board is no error and is not written.
flash_ifwi_scu_emmc ==
  /\ emmcWrite = Idle /\ emmcZip = <<>>
  /\ \E image \in EmmcImages :
       \/ /\ check_ifwi_file_scu_emmc(image) = 1
          /\ EmmcBegin([area |-> "ifwi", data |-> image])
       \/ /\ check_ifwi_file_scu_emmc(image) < 1
          /\ emmcRet' = IF check_ifwi_file_scu_emmc(image) = 0 THEN "ok" ELSE "fail"
          /\ UNCHANGED <<emmcBoot, emmcRunning, emmcWrite, emmcFaults>>
  /\ UNCHANGED emmcZip

\* The OTA function flash_ifwi takes the archive's images one after the other;
\* it ignores what update_ifwi_file returns and always answers "t".
FlashIfwiFn ==
  /\ emmcWrite = Idle /\ emmcZip = <<>>
  /\ \E zip \in UNION {[1..n -> EmmcImages] : n \in 1..MaxZip} : emmcZip' = zip
  /\ UNCHANGED <<emmcBoot, emmcRunning, emmcWrite, emmcRet, emmcFaults>>

FlashIfwiEntry ==
  /\ emmcWrite = Idle /\ emmcZip # <<>>
  /\ emmcZip' = Tail(emmcZip)
  /\ \/ /\ check_ifwi_file_scu_emmc(Head(emmcZip)) = 1
        /\ EmmcBegin([area |-> "ifwi", data |-> Head(emmcZip)])
     \/ /\ check_ifwi_file_scu_emmc(Head(emmcZip)) < 1
        /\ UNCHANGED <<emmcBoot, emmcRunning, emmcWrite, emmcRet, emmcFaults>>

flash_token_umip_scu_emmc ==
  /\ emmcWrite = Idle /\ emmcZip = <<>>
  /\ \E token \in Tokens : EmmcBegin([area |-> "token", data |-> token])
  /\ UNCHANGED emmcZip

erase_token_umip_scu_emmc ==
  /\ emmcWrite = Idle /\ emmcZip = <<>>
  /\ EmmcBegin([area |-> "token", data |-> NoToken])
  /\ UNCHANGED emmcZip

\* flash_custom_boot_scu_emmc and flash_dnx_timeout_scu_emmc: one byte each.
flash_umip_byte_scu_emmc ==
  /\ emmcWrite = Idle /\ emmcZip = <<>>
  /\ \E byte \in UmipBytes : EmmcBegin([area |-> "umip", data |-> byte])
  /\ UNCHANGED emmcZip

EmmcReturn(ret) == emmcWrite' = Idle /\ emmcRet' = ret

\* force_rw, open or mmap of the partition may fail: the call gives up, and
\* what it already did to the first partition stays.
EmmcOpen ==
  /\ emmcWrite.phase = "open"
  /\ \/ /\ emmcWrite' = [emmcWrite EXCEPT !.phase = "mapped", !.page = emmcBoot[emmcWrite.index]]
        /\ UNCHANGED <<emmcRet, emmcFaults>>
     \/ /\ emmcFaults < MaxEmmcFaults
        /\ emmcFaults' = emmcFaults + 1 /\ EmmcReturn("fail")
  /\ UNCHANGED <<emmcBoot, emmcRunning, emmcZip>>

\* The new bytes are copied over the mapping; a firmware image covers the UMIP
\* and, until the saved bytes are put back, the token area.
Filled(page, request) ==
  CASE request.area = "ifwi"  -> Content(request.data, "image", "image", FALSE)
    [] request.area = "token" -> [page EXCEPT !.token = request.data, !.xor = FALSE]
    [] request.area = "umip"  -> [page EXCEPT !.umip = request.data, !.xor = FALSE]

EmmcFill ==
  /\ emmcWrite.phase = "mapped"
  /\ emmcWrite' = [emmcWrite EXCEPT !.phase = "filled",
                                    !.page = Filled(emmcWrite.page, emmcWrite.request)]
  /\ UNCHANGED <<emmcBoot, emmcRunning, emmcZip, emmcRet, emmcFaults>>

\* A faulty variant; no step uses it.
EmmcSealed_noxor ==
  [emmcWrite.page EXCEPT
     !.token = IF emmcWrite.request.area = "ifwi" THEN emmcBoot[emmcWrite.index].token ELSE @]

\* token_data was read from this very partition before the copy; then the XOR
\* words of the sectors, of the UMIP and of the whole image are recomputed.
EmmcSealed ==
  [emmcWrite.page EXCEPT
     !.token = IF emmcWrite.request.area = "ifwi" THEN emmcBoot[emmcWrite.index].token ELSE @,
     !.xor = TRUE]

xor_update ==
  /\ emmcWrite.phase = "filled"
  /\ emmcWrite' = [emmcWrite EXCEPT !.phase = "sealed", !.page = EmmcSealed]
  /\ UNCHANGED <<emmcBoot, emmcRunning, emmcZip, emmcRet, emmcFaults>>

\* munmap and close: the partition is on the medium before the next is opened.
EmmcClose ==
  /\ emmcWrite.phase = "sealed"
  /\ emmcBoot' = [emmcBoot EXCEPT ![emmcWrite.index] = emmcWrite.page]
  /\ \/ /\ emmcWrite.index = 0
        /\ emmcWrite' = [emmcWrite EXCEPT !.phase = "open", !.index = 1]
        /\ UNCHANGED emmcRet
     \/ emmcWrite.index = 1 /\ EmmcReturn("ok")
  /\ UNCHANGED <<emmcRunning, emmcZip, emmcFaults>>

write_umip_emmc == EmmcOpen \/ EmmcFill \/ xor_update \/ EmmcClose

\* What a power cut can leave of a partition whose mapping is being changed.
Leftovers(write) ==
  {emmcBoot[write.index], write.page, Content(Torn, write.page.token, "torn", FALSE)}

\* External: the SCU starts the first bootable copy.
Restarted(boot) ==
  IF Bootable(boot[0]) THEN get_image_fw_rev_long(boot[0].fw.fips)
  ELSE IF Bootable(boot[1]) THEN get_image_fw_rev_long(boot[1].fw.fips) ELSE emmcRunning

EmmcReboot ==
  /\ emmcWrite = Idle /\ emmcZip = <<>>
  /\ emmcRunning' = Restarted(emmcBoot)
  /\ UNCHANGED <<emmcBoot, emmcZip, emmcWrite, emmcRet, emmcFaults>>

EmmcCut ==
  /\ emmcWrite # Idle /\ emmcFaults < MaxEmmcFaults
  /\ emmcFaults' = emmcFaults + 1
  /\ \E left \in IF emmcWrite.phase = "open" THEN {emmcBoot[emmcWrite.index]}
                 ELSE Leftovers(emmcWrite) :
       emmcBoot' = [emmcBoot EXCEPT ![emmcWrite.index] = left]
  /\ emmcRunning' = Restarted(emmcBoot')
  /\ emmcZip' = <<>> /\ EmmcReturn("cut")

FactoryImage == CHOOSE image \in EmmcImages : get_image_fw_rev_long(image.fips) = Family

EmmcInit ==
  /\ \E token \in Tokens : LET c == Content(FactoryImage, token, "image", TRUE)
                           IN emmcBoot = [i \in 0..1 |-> c]
  /\ emmcRunning = Family
  /\ emmcZip = <<>> /\ emmcWrite = Idle /\ emmcRet = "none" /\ emmcFaults = 0

EmmcNext == \/ flash_ifwi_scu_emmc \/ FlashIfwiFn \/ FlashIfwiEntry
            \/ flash_token_umip_scu_emmc \/ erase_token_umip_scu_emmc
            \/ flash_umip_byte_scu_emmc
            \/ write_umip_emmc \/ EmmcReboot \/ EmmcCut

EmmcSpec == EmmcInit /\ [][EmmcNext]_emmcVars

-----------------------------------------------------------------------------
(* One fault (a power cut at any point of write_umip_emmc, or a partition that *)
(* cannot be opened) never costs the board its firmware: one of the two boot   *)
(* partitions is still bootable, because the first is complete and on the      *)
(* medium before the second is opened (ifwi.c:175-217).                        *)
OneFaultLeavesABootCopy ==
  emmcFaults <= 1 => \E i \in 0..1 : Bootable(emmcBoot[i])

(* A firmware update keeps the provisioned tokens: short of a power cut, no    *)
(* step of a write_umip_emmc call that flashes an image changes the token area *)
(* of either partition, although the image's own bytes lie over it in the      *)
(* mapping meanwhile and the two partitions need not agree (ifwi.c:195-210).   *)
FirmwareKeepsTheTokens ==
  emmcWrite # Idle /\ emmcFaults' = emmcFaults /\ emmcWrite.request.area = "ifwi"
    => \A i \in 0..1 : emmcBoot'[i].token = emmcBoot[i].token

(* A board never runs firmware of another family: whatever sequence of         *)
(* fastboot and OTA flashes, cuts and reboots, every intact boot partition has *)
(* the factory's major number and type (ifwi.c:92-107).                        *)
FamilyNeverChanges ==
  \A i \in 0..1 : Bootable(emmcBoot[i]) =>
    LET v == get_image_fw_rev_long(emmcBoot[i].fw.fips)
    IN v.major = Family.major /\ IfwiType(v) = IfwiType(Family)

(* write_umip_emmc returns 0 only when both partitions hold the new data       *)
(* (ifwi.c:175-221).                                                           *)
SuccessReachesBothCopies ==
  emmcWrite # Idle /\ emmcWrite' = Idle /\ emmcRet' = "ok" =>
    \A i \in 0..1 : LET c == emmcBoot'[i] r == emmcWrite.request
                    IN CASE r.area = "ifwi" -> c.fw = r.data
                         [] r.area = "token" -> c.token = r.data
                         [] r.area = "umip" -> c.umip = r.data
=============================================================================
