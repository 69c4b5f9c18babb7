--------------------------- MODULE FirmwareProofs ---------------------------
(***************************************************************************)
(* Proofs about the firmware backends, for every set of images, tokens,    *)
(* capsules and containers and any number of faults.                       *)
(***************************************************************************)
EXTENDS Firmware, TLAPS

-----------------------------------------------------------------------------
(* The two boot partitions of the eMMC *)

Rev(image) == get_image_fw_rev_long(image.fips)
InFamily(v) == v.major = Family.major /\ IfwiType(v) = IfwiType(Family)
Carries(c, r) == CASE r.area = "ifwi" -> c.fw = r.data
                   [] r.area = "token" -> c.token = r.data
                   [] r.area = "umip" -> c.umip = r.data

\* What holds of a write_umip_emmc call at each of its steps: the first
\* partition is done before the second is begun, the mapping is only torn when
\* the partition was, and a sealed mapping has the new data, the old tokens and
\* right XOR words.
WriteInv(w) ==
  /\ w.request.area = "ifwi" => InFamily(Rev(w.request.data))
  /\ w.index = 1 => Carries(emmcBoot[0], w.request)
  /\ w.phase # "open" => /\ w.page.fw # Torn => InFamily(Rev(w.page.fw))
                         /\ w.page.fw = Torn => emmcBoot[w.index].fw = Torn
  /\ w.phase \in {"filled", "sealed"} => Carries(w.page, w.request)
  /\ w.phase = "sealed" => /\ w.page.xor
                           /\ w.request.area = "ifwi" => w.page.token = emmcBoot[w.index].token

EmmcInv ==
  /\ EmmcTypeOK
  /\ InFamily(emmcRunning)
  /\ \A i \in 0..1 : emmcBoot[i].fw # Torn => InFamily(Rev(emmcBoot[i].fw))
  /\ emmcFaults = 0 => \A i \in 0..1 : Bootable(emmcBoot[i])
  /\ OneFaultLeavesABootCopy
  /\ emmcWrite # Idle => WriteInv(emmcWrite)

(* The SCU's long report gives the running version back: splitting a version   *)
(* into the bytes of fw_version and putting it together again                  *)
(* (fw_version_check.c, get_current_fw_rev_long) loses nothing.                *)
LEMMA LongReportIsExact ==
  ASSUME NEW v \in [major : Nat, minor : Nat]
  PROVE  get_current_fw_rev_long(ScuBytesLong(v)) = v
<1> DEFINE hi(n) == n \div 256
           lo(n) == n % 256
           b == ScuBytesLong(v)
           r == read_fw_revision(b, 32)
<1>1. /\ b[16] = lo(v.minor) /\ b[17] = hi(v.minor)
      /\ b[18] = lo(v.major) /\ b[19] = hi(v.major)
      /\ DOMAIN b = 0..27
  BY DEF ScuBytesLong
<1> HIDE DEF b
<1>2. r[16] = b[16] /\ r[17] = b[17] /\ r[18] = b[18] /\ r[19] = b[19]
  BY <1>1 DEF read_fw_revision
<1>3. \A n \in Nat : lo(n) = n - 256 * hi(n) /\ hi(n) \in Int /\ lo(n) \in Int
  BY Z3
<1> HIDE DEF r, hi, lo
<1>4. \A n \in Nat : hi(n) * 256 + lo(n) = n
  BY <1>3
<1>5. get_current_fw_rev_long(b) = [major |-> v.major, minor |-> v.minor]
  BY <1>1, <1>2, <1>4 DEF get_current_fw_rev_long, r
<1> QED
  BY <1>5 DEF b

(* An image passes check_ifwi_file_scu_emmc only when it is of the family of   *)
(* the running firmware (ifwi.c:92-107).                                       *)
LEMMA CheckedImageIsFamily ==
  ASSUME EmmcInv, NEW image \in EmmcImages, check_ifwi_file_scu_emmc(image) = 1
  PROVE  InFamily(Rev(image))
<1>1. get_current_fw_rev_long(ScuBytesLong(emmcRunning)) = emmcRunning
  BY LongReportIsExact DEF EmmcInv, EmmcTypeOK
<1>2. Rev(image).major = emmcRunning.major
  BY <1>1 DEF check_ifwi_file_scu_emmc, Rev
<1>3. IfwiType(Rev(image)) = IfwiType(emmcRunning)
  BY <1>1 DEF check_ifwi_file_scu_emmc, Rev
<1> QED
  BY <1>2, <1>3 DEF EmmcInv, InFamily

(* A board from the factory has the invariant.                                 *)
LEMMA EmmcStart == EmmcInit => EmmcInv
<1> SUFFICES ASSUME EmmcInit PROVE EmmcInv
  OBVIOUS
<1> USE EmmcAssumption DEF EmmcAssumption
<1>1. FactoryImage \in EmmcImages /\ Rev(FactoryImage) = Family
  BY DEF FactoryImage, Rev
<1>2. PICK token \in Tokens : emmcBoot = [i \in 0..1 |-> Content(FactoryImage, token, "image", TRUE)]
  BY DEF EmmcInit
<1>3. Content(FactoryImage, token, "image", TRUE) \in Contents
  BY <1>1 DEF Content, Contents
<1>4. FactoryImage # Torn
  BY <1>1
<1>5. EmmcTypeOK
  <2>1. emmcBoot \in [0..1 -> Contents]
    BY <1>2, <1>3
  <2>2. emmcRunning \in [major : Nat, minor : Nat]
    BY <1>1 DEF EmmcInit, Rev
  <2>3. emmcZip \in Seq(EmmcImages)
    BY DEF EmmcInit
  <2>4. emmcFaults \in 0..MaxEmmcFaults
    BY DEF EmmcInit
  <2>5. emmcRet = "none" /\ emmcWrite = Idle
    BY DEF EmmcInit
  <2> QED
    BY <2>1, <2>2, <2>3, <2>4, <2>5 DEF EmmcTypeOK
<1>6. \A i \in 0..1 : Bootable(emmcBoot[i]) /\ emmcBoot[i].fw = FactoryImage
  BY <1>2, <1>4 DEF Content, Bootable
<1>7. InFamily(Family)
  BY DEF InFamily
<1>8. InFamily(emmcRunning) /\ emmcWrite = Idle
  BY <1>7 DEF EmmcInit
<1>9. \A i \in 0..1 : InFamily(Rev(emmcBoot[i].fw))
  BY <1>1, <1>6, <1>7
<1>10. OneFaultLeavesABootCopy
  BY <1>6, 0 \in 0..1 DEF OneFaultLeavesABootCopy
<1> QED
  BY ONLY <1>5, <1>6, <1>8, <1>9, <1>10 DEF EmmcInv

(* Entering write_umip_emmc with an image that was checked, or with tokens or  *)
(* a UMIP byte.                                                                *)
LEMMA BeginKeepsEmmc ==
  ASSUME EmmcInv, NEW r \in Requests, EmmcBegin(r),
         r.area = "ifwi" => InFamily(Rev(r.data)), emmcZip' \in Seq(EmmcImages)
  PROVE  EmmcInv'
<1>1. /\ emmcBoot' = emmcBoot /\ emmcRunning' = emmcRunning /\ emmcFaults' = emmcFaults
      /\ emmcRet' = "none"
      /\ emmcWrite' = [phase |-> "open", request |-> r, index |-> 0, page |-> emmcBoot[0]]
  BY DEF EmmcBegin
<1>2. emmcBoot[0] \in Contents
  BY DEF EmmcInv, EmmcTypeOK
<1>3. EmmcTypeOK'
  BY <1>1, <1>2 DEF EmmcInv, EmmcTypeOK
<1>4. WriteInv(emmcWrite)'
  BY <1>1 DEF WriteInv
<1> QED
  BY <1>1, <1>3, <1>4 DEF EmmcInv, OneFaultLeavesABootCopy

(* What a restart runs is of the family when both partitions are.              *)
LEMMA RestartsInFamily ==
  ASSUME EmmcInv, NEW boot \in [0..1 -> Contents],
         \A i \in 0..1 : boot[i].fw # Torn => InFamily(Rev(boot[i].fw))
  PROVE  /\ InFamily(Restarted(boot))
         /\ Restarted(boot) \in [major : Nat, minor : Nat]
<1>1. \A i \in 0..1 : Bootable(boot[i]) =>
        /\ InFamily(Rev(boot[i].fw)) /\ Rev(boot[i].fw) \in [major : Nat, minor : Nat]
  BY EmmcAssumption DEF EmmcAssumption, Bootable, Contents, Rev
<1> QED
  BY <1>1 DEF Restarted, Rev, EmmcInv, EmmcTypeOK

(* The two mapping operations give a partition's content again.                *)
LEMMA PagesAreContents ==
  ASSUME NEW page \in Contents, NEW r \in Requests
  PROVE  /\ Filled(page, r) \in Contents /\ Carries(Filled(page, r), r)
         /\ Filled(page, r).fw = IF r.area = "ifwi" THEN r.data ELSE page.fw
         /\ r.area = "ifwi" => r.data \in EmmcImages
<1>1. CASE r.area = "ifwi"
  <2>1. r.data \in EmmcImages
    BY <1>1 DEF Requests
  <2>2. Filled(page, r) = Content(r.data, "image", "image", FALSE)
    BY <1>1 DEF Filled
  <2> QED
    BY <1>1, <2>1, <2>2 DEF Content, Contents, Carries
<1>2. CASE r.area = "token"
  <2>1. r.data \in Tokens \cup {NoToken}
    BY <1>2 DEF Requests
  <2>2. Filled(page, r) = [fw |-> page.fw, token |-> r.data, umip |-> page.umip, xor |-> FALSE]
    BY <1>2 DEF Filled, Contents
  <2> QED
    BY <1>2, <2>1, <2>2 DEF Contents, Carries
<1>3. CASE r.area = "umip"
  <2>1. r.data \in UmipBytes
    BY <1>3 DEF Requests
  <2>2. Filled(page, r) = [fw |-> page.fw, token |-> page.token, umip |-> r.data, xor |-> FALSE]
    BY <1>3 DEF Filled, Contents
  <2> QED
    BY <1>3, <2>1, <2>2 DEF Contents, Carries
<1> QED
  BY <1>1, <1>2, <1>3 DEF Requests

\* The records write_umip_emmc's state ranges over.
Writing == [phase : {"open", "mapped", "filled", "sealed"},
            request : Requests, index : 0..1, page : Contents]

(* One step of write_umip_emmc keeps the invariant.                            *)
LEMMA WriteKeepsEmmc ==
  ASSUME EmmcInv, write_umip_emmc
  PROVE  EmmcInv'
<1>1. emmcWrite \in Writing /\ emmcWrite # Idle /\ WriteInv(emmcWrite)
  <2>1. emmcWrite # Idle
    BY DEF write_umip_emmc, EmmcOpen, EmmcFill, xor_update, EmmcClose, Idle
  <2> QED
    BY <2>1 DEF EmmcInv, EmmcTypeOK, Writing
<1> DEFINE w == emmcWrite
<1>2. /\ w.phase \in {"open", "mapped", "filled", "sealed"} /\ w.request \in Requests
      /\ w.index \in 0..1 /\ w.page \in Contents
      /\ w = [phase |-> w.phase, request |-> w.request, index |-> w.index, page |-> w.page]
  BY <1>1 DEF Writing
<1>3. emmcBoot \in [0..1 -> Contents] /\ emmcBoot[w.index] \in Contents
  BY <1>2 DEF EmmcInv, EmmcTypeOK
<1>4. emmcRunning' = emmcRunning /\ emmcZip' = emmcZip
  BY DEF write_umip_emmc, EmmcOpen, EmmcFill, xor_update, EmmcClose
<1>5. ASSUME emmcBoot' = emmcBoot, emmcRet' = emmcRet, emmcFaults' = emmcFaults,
             emmcWrite' \in Writing, WriteInv(emmcWrite)'
      PROVE  EmmcInv'
  <2>1. EmmcTypeOK'
    BY <1>4, <1>5 DEF EmmcInv, EmmcTypeOK, Writing
  <2> QED
    BY <1>4, <1>5, <2>1 DEF EmmcInv, OneFaultLeavesABootCopy
<1>6. CASE EmmcOpen
  <2>1. w.phase = "open" /\ emmcBoot' = emmcBoot
    BY <1>6 DEF EmmcOpen
  <2>2. CASE /\ emmcWrite' = [w EXCEPT !.phase = "mapped", !.page = emmcBoot[w.index]]
             /\ UNCHANGED <<emmcRet, emmcFaults>>
    <3>1. emmcWrite' = [phase |-> "mapped", request |-> w.request, index |-> w.index,
                        page |-> emmcBoot[w.index]]
      BY <1>2, <2>2
    <3>2. emmcWrite' \in Writing
      BY <1>2, <1>3, <3>1 DEF Writing
    <3>3. WriteInv(emmcWrite)'
      BY <1>1, <1>2, <2>1, <3>1 DEF WriteInv, EmmcInv
    <3> QED
      BY <1>5, <2>1, <2>2, <3>2, <3>3
  <2>3. CASE emmcFaults < MaxEmmcFaults /\ emmcFaults' = emmcFaults + 1 /\ EmmcReturn("fail")
    <3>1. emmcWrite' = Idle /\ emmcRet' = "fail"
      BY <2>3 DEF EmmcReturn
    <3>2. emmcFaults \in Nat /\ emmcFaults' \in 0..MaxEmmcFaults
      BY <2>3, EmmcAssumption DEF EmmcInv, EmmcTypeOK, EmmcAssumption
    <3>3. EmmcTypeOK'
      BY <1>4, <2>1, <3>1, <3>2 DEF EmmcInv, EmmcTypeOK
    <3>4. emmcFaults' # 0 /\ (emmcFaults' <= 1 => emmcFaults <= 1)
      BY <2>3, <3>2
    <3> QED
      BY <1>4, <2>1, <3>1, <3>3, <3>4 DEF EmmcInv, OneFaultLeavesABootCopy
  <2> QED
    BY <1>6, <2>2, <2>3 DEF EmmcOpen
<1>7. CASE EmmcFill
  <2> DEFINE new == Filled(w.page, w.request)
  <2>1. /\ w.phase = "mapped" /\ emmcBoot' = emmcBoot /\ emmcRet' = emmcRet
        /\ emmcFaults' = emmcFaults /\ emmcWrite' = [w EXCEPT !.phase = "filled", !.page = new]
    BY <1>7 DEF EmmcFill
  <2>2. /\ new \in Contents /\ Carries(new, w.request)
        /\ new.fw = IF w.request.area = "ifwi" THEN w.request.data ELSE w.page.fw
        /\ w.request.area = "ifwi" => w.request.data \in EmmcImages
    BY <1>2, PagesAreContents
  <2> HIDE DEF new
  <2>3. emmcWrite' = [phase |-> "filled", request |-> w.request, index |-> w.index, page |-> new]
    BY <1>2, <2>1
  <2>4. emmcWrite' \in Writing
    BY <1>2, <2>2, <2>3 DEF Writing
  <2>5. /\ new.fw # Torn => InFamily(Rev(new.fw))
        /\ new.fw = Torn => emmcBoot[w.index].fw = Torn
    BY <1>1, <2>1, <2>2, EmmcAssumption DEF WriteInv, EmmcAssumption
  <2>6. WriteInv(emmcWrite)'
    BY <1>1, <2>1, <2>2, <2>3, <2>5 DEF WriteInv
  <2> QED
    BY <1>5, <2>1, <2>4, <2>6
<1>8. CASE xor_update
  <2> DEFINE new == EmmcSealed
  <2>1. /\ w.phase = "filled" /\ emmcBoot' = emmcBoot /\ emmcRet' = emmcRet
        /\ emmcFaults' = emmcFaults /\ emmcWrite' = [w EXCEPT !.phase = "sealed", !.page = new]
    BY <1>8 DEF xor_update
  <2>2. new = [fw |-> w.page.fw, umip |-> w.page.umip, xor |-> TRUE,
               token |-> IF w.request.area = "ifwi" THEN emmcBoot[w.index].token ELSE w.page.token]
    <3> DEFINE t == IF w.request.area = "ifwi" THEN emmcBoot[w.index].token ELSE w.page.token
    <3>1. new = [w.page EXCEPT !.token = t, !.xor = TRUE]
      BY DEF EmmcSealed
    <3> HIDE DEF t, new
    <3>2. new = [fw |-> w.page.fw, umip |-> w.page.umip, xor |-> TRUE, token |-> t]
      BY <1>2, <3>1 DEF Contents
    <3> QED
      BY <3>2 DEF t
  <2>3. new \in Contents
    BY <1>2, <1>3, <2>2 DEF Contents
  <2>4. Carries(new, w.request)
    BY <1>1, <1>2, <2>1, <2>2 DEF Carries, WriteInv, Requests
  <2> HIDE DEF new
  <2>5. emmcWrite' = [phase |-> "sealed", request |-> w.request, index |-> w.index, page |-> new]
    BY <1>2, <2>1
  <2>6. emmcWrite' \in Writing
    BY <1>2, <2>3, <2>5 DEF Writing
  <2>7. WriteInv(emmcWrite)'
    BY <1>1, <2>1, <2>2, <2>4, <2>5 DEF WriteInv
  <2> QED
    BY <1>5, <2>1, <2>6, <2>7
<1>9. CASE EmmcClose
  <2>1. /\ w.phase = "sealed" /\ emmcFaults' = emmcFaults
        /\ emmcBoot' = [emmcBoot EXCEPT ![w.index] = w.page]
    BY <1>9 DEF EmmcClose
  <2>2. /\ emmcBoot' \in [0..1 -> Contents] /\ emmcBoot'[w.index] = w.page
        /\ \A i \in 0..1 : i # w.index => emmcBoot'[i] = emmcBoot[i]
    BY <1>2, <1>3, <2>1
  <2>3. /\ w.page.fw # Torn => InFamily(Rev(w.page.fw))
        /\ w.page.fw = Torn => emmcBoot[w.index].fw = Torn
        /\ w.page.xor /\ Carries(w.page, w.request)
    BY <1>1, <2>1 DEF WriteInv
  <2>4. \A i \in 0..1 : Bootable(emmcBoot[i]) => Bootable(emmcBoot'[i])
    BY <1>2, <2>2, <2>3 DEF Bootable
  <2>5. \A i \in 0..1 : emmcBoot'[i].fw # Torn => InFamily(Rev(emmcBoot'[i].fw))
    BY <1>2, <2>2, <2>3 DEF EmmcInv
  <2>6. emmcWrite' \in {Idle} \cup Writing /\ (emmcWrite' # Idle => WriteInv(emmcWrite)')
    <3>1. CASE w.index = 0 /\ emmcWrite' = [w EXCEPT !.phase = "open", !.index = 1]
      <4>1. emmcWrite' = [phase |-> "open", request |-> w.request, index |-> 1, page |-> w.page]
        BY <1>2, <3>1
      <4>2. WriteInv(emmcWrite)'
        BY <1>1, <2>2, <2>3, <3>1, <4>1 DEF WriteInv
      <4> QED
        BY <1>2, <4>1, <4>2 DEF Writing
    <3>2. CASE emmcWrite' = Idle
      BY <3>2
    <3> QED
      BY <1>9, <3>1, <3>2 DEF EmmcClose, EmmcReturn
  <2>7. emmcRet' \in {"none", "ok", "fail", "cut"}
    BY <1>9 DEF EmmcClose, EmmcReturn, EmmcInv, EmmcTypeOK
  <2>8. EmmcTypeOK'
    BY <1>4, <2>1, <2>2, <2>6, <2>7 DEF EmmcInv, EmmcTypeOK, Writing
  <2>9. (emmcFaults = 0 => \A i \in 0..1 : Bootable(emmcBoot[i]))' /\ OneFaultLeavesABootCopy'
    BY <2>1, <2>4 DEF EmmcInv, OneFaultLeavesABootCopy
  <2> QED
    BY <1>4, <2>5, <2>6, <2>8, <2>9 DEF EmmcInv
<1> QED
  BY <1>6, <1>7, <1>8, <1>9 DEF write_umip_emmc

(* A power cut at any point of a write leaves a board that can be restarted,   *)
(* if it was the first fault.                                                  *)
LEMMA CutKeepsEmmc ==
  ASSUME EmmcInv, EmmcCut
  PROVE  EmmcInv'
<1> DEFINE w == emmcWrite
           Left == IF w.phase = "open" THEN {emmcBoot[w.index]} ELSE Leftovers(w)
<1>1. w \in Writing /\ WriteInv(w)
  BY DEF EmmcCut, EmmcInv, EmmcTypeOK, Writing
<1>2. w.index \in 0..1 /\ w.page \in Contents /\ w.phase \in {"open", "mapped", "filled", "sealed"}
  BY <1>1 DEF Writing
<1>3. PICK left \in Left : emmcBoot' = [emmcBoot EXCEPT ![w.index] = left]
  BY DEF EmmcCut
<1>4. emmcBoot \in [0..1 -> Contents] /\ emmcBoot[w.index] \in Contents
  BY <1>2 DEF EmmcInv, EmmcTypeOK
<1>5. left \in Contents
  <2>1. Content(Torn, w.page.token, "torn", FALSE) \in Contents
    BY <1>2 DEF Content, Contents
  <2> QED
    BY <1>2, <1>3, <1>4, <2>1 DEF Leftovers
<1>6. left.fw # Torn => InFamily(Rev(left.fw))
  <2>1. Content(Torn, w.page.token, "torn", FALSE).fw = Torn
    BY DEF Content
  <2>2. emmcBoot[w.index].fw # Torn => InFamily(Rev(emmcBoot[w.index].fw))
    BY <1>2 DEF EmmcInv
  <2>3. w.phase # "open" /\ w.page.fw # Torn => InFamily(Rev(w.page.fw))
    BY <1>1 DEF WriteInv
  <2> QED
    BY <1>3, <2>1, <2>2, <2>3 DEF Leftovers
<1>7. /\ emmcBoot' \in [0..1 -> Contents] /\ emmcBoot'[w.index] = left
      /\ \A i \in 0..1 : i # w.index => emmcBoot'[i] = emmcBoot[i]
  BY <1>2, <1>3, <1>4, <1>5
<1>8. \A i \in 0..1 : emmcBoot'[i].fw # Torn => InFamily(Rev(emmcBoot'[i].fw))
  BY <1>6, <1>7 DEF EmmcInv
<1>9. InFamily(emmcRunning)' /\ emmcRunning' \in [major : Nat, minor : Nat]
  BY <1>7, <1>8, RestartsInFamily DEF EmmcCut
<1>10. emmcFaults \in Nat /\ emmcFaults' = emmcFaults + 1 /\ emmcFaults' \in 0..MaxEmmcFaults
  BY EmmcAssumption DEF EmmcCut, EmmcInv, EmmcTypeOK, EmmcAssumption
<1>11. emmcZip' = <<>> /\ emmcWrite' = Idle /\ emmcRet' = "cut"
  BY DEF EmmcCut, EmmcReturn
<1>12. EmmcTypeOK'
  <2>1. emmcZip' \in Seq(EmmcImages)
    BY <1>11
  <2> QED
    BY <1>7, <1>9, <1>10, <1>11, <2>1 DEF EmmcTypeOK
<1>13. OneFaultLeavesABootCopy'
  <2>1. SUFFICES ASSUME emmcFaults' <= 1
                 PROVE  \E i \in 0..1 : Bootable(emmcBoot'[i])
    BY DEF OneFaultLeavesABootCopy, Bootable
  <2>2. \A i \in 0..1 : Bootable(emmcBoot[i])
    BY <1>10, <2>1 DEF EmmcInv
  <2>3. 1 - w.index \in 0..1 /\ 1 - w.index # w.index
    BY <1>2
  <2> QED
    BY <1>7, <2>2, <2>3
<1> QED
  BY <1>8, <1>9, <1>10, <1>11, <1>12, <1>13 DEF EmmcInv

(* Every step of the eMMC backend keeps the invariant.                         *)
LEMMA EmmcKept ==
  ASSUME EmmcInv, [EmmcNext]_emmcVars
  PROVE  EmmcInv'
<1>1. CASE flash_ifwi_scu_emmc
  <2>1. emmcZip' = emmcZip
    BY <1>1 DEF flash_ifwi_scu_emmc
  <2>2. PICK image \in EmmcImages :
          \/ /\ check_ifwi_file_scu_emmc(image) = 1
             /\ EmmcBegin([area |-> "ifwi", data |-> image])
          \/ /\ emmcRet' = IF check_ifwi_file_scu_emmc(image) = 0 THEN "ok" ELSE "fail"
             /\ UNCHANGED <<emmcBoot, emmcRunning, emmcWrite, emmcFaults>>
    BY <1>1 DEF flash_ifwi_scu_emmc
  <2>3. CASE /\ check_ifwi_file_scu_emmc(image) = 1
             /\ EmmcBegin([area |-> "ifwi", data |-> image])
    <3>1. [area |-> "ifwi", data |-> image] \in Requests
      BY DEF Requests
    <3>2. InFamily(Rev(image)) /\ emmcZip' \in Seq(EmmcImages)
      BY <2>1, <2>3, CheckedImageIsFamily DEF EmmcInv, EmmcTypeOK
    <3> QED
      BY <2>3, <3>1, <3>2, BeginKeepsEmmc
  <2>4. CASE /\ emmcRet' = IF check_ifwi_file_scu_emmc(image) = 0 THEN "ok" ELSE "fail"
             /\ UNCHANGED <<emmcBoot, emmcRunning, emmcWrite, emmcFaults>>
    BY <2>1, <2>4 DEF EmmcInv, EmmcTypeOK, OneFaultLeavesABootCopy, WriteInv
  <2> QED
    BY <2>2, <2>3, <2>4
<1>2. CASE FlashIfwiFn
  <2>1. UNCHANGED <<emmcBoot, emmcRunning, emmcWrite, emmcRet, emmcFaults>>
    BY <1>2 DEF FlashIfwiFn
  <2>2. emmcZip' \in Seq(EmmcImages)
    BY <1>2 DEF FlashIfwiFn
  <2> QED
    BY <2>1, <2>2 DEF EmmcInv, EmmcTypeOK, OneFaultLeavesABootCopy, WriteInv
<1>3. CASE FlashIfwiEntry
  <2>1. emmcZip \in Seq(EmmcImages) /\ emmcZip # <<>> /\ emmcZip' = Tail(emmcZip)
    BY <1>3 DEF FlashIfwiEntry, EmmcInv, EmmcTypeOK
  <2>2. Head(emmcZip) \in EmmcImages /\ emmcZip' \in Seq(EmmcImages)
    BY <2>1
  <2>3. CASE /\ check_ifwi_file_scu_emmc(Head(emmcZip)) = 1
             /\ EmmcBegin([area |-> "ifwi", data |-> Head(emmcZip)])
    <3>1. [area |-> "ifwi", data |-> Head(emmcZip)] \in Requests
      BY <2>2 DEF Requests
    <3>2. InFamily(Rev(Head(emmcZip)))
      BY <2>2, <2>3, CheckedImageIsFamily
    <3> QED
      BY <2>2, <2>3, <3>1, <3>2, BeginKeepsEmmc
  <2>4. CASE UNCHANGED <<emmcBoot, emmcRunning, emmcWrite, emmcRet, emmcFaults>>
    BY <2>2, <2>4 DEF EmmcInv, EmmcTypeOK, OneFaultLeavesABootCopy, WriteInv
  <2> QED
    BY <1>3, <2>3, <2>4 DEF FlashIfwiEntry
<1>4. CASE flash_token_umip_scu_emmc \/ erase_token_umip_scu_emmc \/ flash_umip_byte_scu_emmc
  <2>1. PICK r \in Requests : EmmcBegin(r) /\ r.area # "ifwi"
    <3>1. ASSUME NEW t \in Tokens \cup {NoToken}
          PROVE  [area |-> "token", data |-> t] \in Requests
      BY DEF Requests
    <3>2. ASSUME NEW b \in UmipBytes PROVE [area |-> "umip", data |-> b] \in Requests
      BY DEF Requests
    <3>3. CASE flash_token_umip_scu_emmc
      <4>1. PICK t \in Tokens : EmmcBegin([area |-> "token", data |-> t])
        BY <3>3 DEF flash_token_umip_scu_emmc
      <4> QED
        BY <3>1, <4>1
    <3>4. CASE erase_token_umip_scu_emmc
      BY <3>1, <3>4 DEF erase_token_umip_scu_emmc
    <3>5. CASE flash_umip_byte_scu_emmc
      <4>1. PICK b \in UmipBytes : EmmcBegin([area |-> "umip", data |-> b])
        BY <3>5 DEF flash_umip_byte_scu_emmc
      <4> QED
        BY <3>2, <4>1
    <3> QED
      BY <1>4, <3>3, <3>4, <3>5
  <2>2. emmcZip' \in Seq(EmmcImages)
    BY <1>4 DEF flash_token_umip_scu_emmc, erase_token_umip_scu_emmc, flash_umip_byte_scu_emmc,
                EmmcInv, EmmcTypeOK
  <2> QED
    BY <2>1, <2>2, BeginKeepsEmmc
<1>5. CASE EmmcReboot
  <2>1. /\ UNCHANGED <<emmcBoot, emmcZip, emmcWrite, emmcRet, emmcFaults>>
        /\ emmcRunning' = Restarted(emmcBoot)
    BY <1>5 DEF EmmcReboot
  <2>2. InFamily(Restarted(emmcBoot)) /\ Restarted(emmcBoot) \in [major : Nat, minor : Nat]
    BY RestartsInFamily DEF EmmcInv, EmmcTypeOK
  <2> QED
    BY <2>1, <2>2 DEF EmmcInv, EmmcTypeOK, OneFaultLeavesABootCopy, WriteInv
<1>6. CASE UNCHANGED emmcVars
  BY <1>6 DEF emmcVars, EmmcInv, EmmcTypeOK, OneFaultLeavesABootCopy, WriteInv
<1> QED
  BY <1>1, <1>2, <1>3, <1>4, <1>5, <1>6, WriteKeepsEmmc, CutKeepsEmmc DEF EmmcNext

(* Flashing an image keeps the tokens, and success means both partitions.      *)
LEMMA EmmcSteps ==
  ASSUME EmmcInv, [EmmcNext]_emmcVars
  PROVE  FirmwareKeepsTheTokens /\ SuccessReachesBothCopies
<1>1. CASE emmcWrite = Idle
  BY <1>1 DEF FirmwareKeepsTheTokens, SuccessReachesBothCopies
<1>2. CASE emmcWrite # Idle
  <2> DEFINE w == emmcWrite
  <2>1. w \in Writing /\ WriteInv(w) /\ emmcBoot \in [0..1 -> Contents] /\ w.index \in 0..1
    BY <1>2 DEF EmmcInv, EmmcTypeOK, Writing
  <2>2. CASE EmmcClose
    <3>1. /\ w.phase = "sealed" /\ emmcBoot' = [emmcBoot EXCEPT ![w.index] = w.page]
          /\ w.index = 0 => emmcWrite' # Idle
      <4>1. w.index = 0 => emmcWrite' = [w EXCEPT !.phase = "open", !.index = 1]
        BY <2>2 DEF EmmcClose
      <4>2. [w EXCEPT !.phase = "open", !.index = 1].phase = "open"
        BY <2>1 DEF Writing
      <4>3. w.phase = "sealed" /\ emmcBoot' = [emmcBoot EXCEPT ![w.index] = w.page]
        BY <2>2 DEF EmmcClose
      <4>4. Idle.phase # "open"
        BY DEF Idle
      <4> QED
        BY <4>1, <4>2, <4>3, <4>4
    <3>2. /\ emmcBoot'[w.index] = w.page
          /\ \A i \in 0..1 : i # w.index => emmcBoot'[i] = emmcBoot[i]
      BY <2>1, <3>1
    <3>3. FirmwareKeepsTheTokens
      BY <2>1, <3>1, <3>2 DEF FirmwareKeepsTheTokens, WriteInv
    <3>4. ASSUME emmcWrite' = Idle PROVE \A i \in 0..1 : Carries(emmcBoot'[i], w.request)
      BY <2>1, <3>1, <3>2, <3>4 DEF WriteInv
    <3> QED
      BY <3>3, <3>4 DEF SuccessReachesBothCopies, Carries
  <2>3. CASE EmmcCut
    <3>1. emmcFaults' # emmcFaults /\ emmcRet' = "cut"
      BY <2>3 DEF EmmcCut, EmmcReturn, EmmcInv, EmmcTypeOK
    <3> QED
      BY <3>1 DEF FirmwareKeepsTheTokens, SuccessReachesBothCopies
  <2>4. CASE EmmcOpen \/ EmmcFill \/ xor_update \/ UNCHANGED emmcVars
    <3>1. emmcBoot' = emmcBoot
      BY <2>4 DEF EmmcOpen, EmmcFill, xor_update, emmcVars
    <3>2. emmcWrite' # Idle \/ emmcRet' # "ok"
      BY <1>2, <2>1, <2>4 DEF EmmcOpen, EmmcFill, xor_update, emmcVars, EmmcReturn, Writing, Idle
    <3> QED
      BY <3>1, <3>2 DEF FirmwareKeepsTheTokens, SuccessReachesBothCopies
  <2> QED
    BY <1>2, <2>2, <2>3, <2>4 DEF EmmcNext, write_umip_emmc, flash_ifwi_scu_emmc, FlashIfwiFn,
         FlashIfwiEntry, flash_token_umip_scu_emmc, erase_token_umip_scu_emmc,
         flash_umip_byte_scu_emmc, EmmcReboot
<1> QED
  BY <1>1, <1>2

-----------------------------------------------------------------------------
(* Firmware over IPC *)

\* What was found out about an image before it was written, and what stays true
\* of it until the next boot.
Upgrade(image) == image.pti = "on" \/ Version(image).minor > ipcRunning.minor

IpcInv ==
  /\ IpcTypeOK
  /\ ipcRunning.major = Version(IpcFactory).major
  /\ MajorNeverChanges
  /\ ipcWrite # IpcIdle =>
       /\ Version(ipcWrite.image).major = Version(IpcFactory).major
       /\ Upgrade(ipcWrite.image) /\ ipcTmpDnx # NoFile
       /\ ipcWrite.phase = "ifwi" => ipcDnx = ipcTmpDnx
  /\ ipcIfwi.image # PartialImage /\ ipcIfwi.by = "file" /\ ipcIfwi.image.pti # "on"
       => Version(ipcIfwi.image).minor >= ipcRunning.minor

(* The SCU's short report gives the running version back                       *)
(* (fw_version_check.c, get_current_fw_rev).                                   *)
LEMMA ShortReportIsExact ==
  ASSUME NEW v \in [major : 0..255, minor : 0..255]
  PROVE  get_current_fw_rev(ScuBytes(v)) = v
<1> DEFINE b == ScuBytes(v)
           r == read_fw_revision(b, 16)
<1>1. b[14] = v.minor % 256 /\ b[15] = v.major % 256 /\ DOMAIN b = 0..15
  BY DEF ScuBytes
<1> HIDE DEF b
<1>2. r[14] = b[14] /\ r[15] = b[15]
  BY <1>1 DEF read_fw_revision
<1> HIDE DEF r
<1>3. v.minor % 256 = v.minor /\ v.major % 256 = v.major
  <2>1. \A n \in 0..255 : n % 256 = n
    BY SMT
  <2> QED
    BY <2>1
<1>4. get_current_fw_rev(b) = [major |-> v.major, minor |-> v.minor]
  BY <1>1, <1>2, <1>3 DEF get_current_fw_rev, r
<1> QED
  BY <1>4 DEF b

(* update_ifwi_file_scu_ipc writes only an image of the running major version  *)
(* that is newer than what runs or a development image (ifwi.c:118-139).       *)
LEMMA VerdictIsSafe ==
  ASSUME IpcInv, NEW image \in IpcImages, IpcVerdict(image) = "write"
  PROVE  Version(image).major = Version(IpcFactory).major /\ Upgrade(image)
<1>1. get_current_fw_rev(ScuBytes(ipcRunning)) = ipcRunning
  BY ShortReportIsExact DEF IpcInv, IpcTypeOK
<1>2. CanCrack(image.fips) /\ ifwi_downgrade_allowed(image) # -1
  BY DEF IpcVerdict
<1>3. crack_update_fw(image.fips) = Version(image) /\ Version(image) \in [major : 0..255, minor : 0..255]
  BY <1>2, IpcAssumption DEF IpcAssumption
<1>4. /\ Version(image).major = ipcRunning.major /\ Version(image).minor # ipcRunning.minor
      /\ ~(Version(image).minor < ipcRunning.minor /\ ifwi_downgrade_allowed(image) = 0)
  BY <1>1, <1>2, <1>3 DEF IpcVerdict
<1>5. ifwi_downgrade_allowed(image) = 0 \/ image.pti = "on"
  BY <1>2 DEF ifwi_downgrade_allowed, crack_update_fw_pti_field
<1>6. ipcRunning.minor \in 0..255
  BY DEF IpcInv, IpcTypeOK
<1>7. Version(image).minor < ipcRunning.minor \/ Version(image).minor > ipcRunning.minor
  <2>1. \A a, b \in 0..255 : a # b => a < b \/ a > b
    OBVIOUS
  <2>2. Version(image).minor \in 0..255 /\ Version(image).minor # ipcRunning.minor
    BY <1>3, <1>4
  <2> QED
    BY ONLY <2>1, <2>2, <1>6
<1> QED
  BY ONLY IpcInv, <1>4, <1>5, <1>7 DEF IpcInv, Upgrade

(* The factory's image is the one that runs.                                   *)
LEMMA IpcStart == IpcInit => IpcInv
<1> SUFFICES ASSUME IpcInit PROVE IpcInv
  OBVIOUS
<1>1. IpcFactory \in IpcImages /\ Version(IpcFactory) \in [major : 0..255, minor : 0..255]
      /\ MaxIpcFaults \in Nat
  BY IpcAssumption DEF IpcAssumption
<1>2. /\ ipcTmpDnx = NoFile /\ ipcWrite = IpcIdle /\ ipcDnx \in DnxBinaries
      /\ ipcIfwi = [image |-> IpcFactory, by |-> "file"]
      /\ ipcRunning = Version(IpcFactory) /\ ipcRet = "none" /\ ipcFaults = 0
  BY DEF IpcInit
<1>3. ipcIfwi \in [image : IpcImages \cup {PartialImage}, by : {"file", "tool"}]
  BY <1>1, <1>2
<1>4. IpcTypeOK
  BY <1>1, <1>2, <1>3 DEF IpcTypeOK
<1>5. ipcIfwi.image = IpcFactory /\ Version(IpcFactory).minor >= ipcRunning.minor
  BY <1>1, <1>2
<1> QED
  BY <1>2, <1>4, <1>5 DEF IpcInv, MajorNeverChanges

(* A fault is counted within its bound.                                        *)
LEMMA IpcFaultsCount ==
  ASSUME IpcTypeOK, IpcFault \/ UNCHANGED ipcFaults
  PROVE  ipcFaults' \in 0..MaxIpcFaults
BY IpcAssumption DEF IpcTypeOK, IpcFault, IpcAssumption

(* Every step of the IPC backend keeps the invariant.                          *)
LEMMA IpcKept ==
  ASSUME IpcInv, [IpcNext]_ipcVars
  PROVE  IpcInv'
<1>0. IpcTypeOK
  BY DEF IpcInv
<1>1. CASE flash_dnx_scu_ipc
  <2>1. /\ ipcWrite = IpcIdle /\ UNCHANGED <<ipcWrite, ipcDnx, ipcIfwi, ipcRunning>>
        /\ ipcTmpDnx' \in DnxBinaries \cup {Partial} /\ ipcRet' \in {"ok", "fail"}
    BY <1>1 DEF flash_dnx_scu_ipc
  <2>2. ipcFaults' \in 0..MaxIpcFaults
    BY <1>0, <1>1, IpcFaultsCount DEF flash_dnx_scu_ipc
  <2>3. IpcTypeOK'
    BY <1>0, <2>1, <2>2 DEF IpcTypeOK
  <2> QED
    BY <2>1, <2>3 DEF IpcInv, MajorNeverChanges
<1>2. CASE flash_ifwi_scu_ipc
  <2>1. ipcWrite = IpcIdle /\ UNCHANGED <<ipcTmpDnx, ipcDnx, ipcIfwi, ipcRunning>>
    BY <1>2 DEF flash_ifwi_scu_ipc
  <2>2. ipcFaults' \in 0..MaxIpcFaults
    BY <1>0, <1>2, IpcFaultsCount DEF flash_ifwi_scu_ipc
  <2>3. ipcRet' \in {"none", "ok", "fail"}
    BY <1>2 DEF flash_ifwi_scu_ipc
  <2>4. \/ ipcWrite' = ipcWrite
        \/ \E image \in IpcImages : /\ ipcTmpDnx # NoFile /\ IpcVerdict(image) = "write"
                                    /\ ipcWrite' = [phase |-> "dnx", image |-> image]
    BY <1>2 DEF flash_ifwi_scu_ipc
  <2>5. CASE ipcWrite' = ipcWrite
    <3>1. IpcTypeOK'
      BY <1>0, <2>1, <2>2, <2>3, <2>5 DEF IpcTypeOK
    <3> QED
      BY <2>1, <2>5, <3>1 DEF IpcInv, MajorNeverChanges
  <2>6. ASSUME NEW image \in IpcImages, ipcTmpDnx # NoFile, IpcVerdict(image) = "write",
               ipcWrite' = [phase |-> "dnx", image |-> image]
        PROVE  IpcInv'
    <3>1. ipcWrite' \in [phase : {"dnx", "ifwi"}, image : IpcImages]
      BY <2>6
    <3>2. IpcTypeOK'
      BY <1>0, <2>1, <2>2, <2>3, <3>1 DEF IpcTypeOK
    <3>3. Version(image).major = Version(IpcFactory).major /\ Upgrade(image)' /\ ipcTmpDnx' # NoFile
      BY <2>1, <2>6, VerdictIsSafe DEF Upgrade
    <3>4. ipcWrite'.image = image /\ ipcWrite'.phase = "dnx"
      BY <2>6
    <3> QED
      BY <2>1, <3>2, <3>3, <3>4 DEF IpcInv, MajorNeverChanges, Upgrade
  <2> QED
    BY <2>4, <2>5, <2>6
<1>3. CASE IpcWriteDnx
  <2>1. ipcWrite.phase = "dnx" /\ UNCHANGED <<ipcTmpDnx, ipcIfwi, ipcRunning>>
    BY <1>3 DEF IpcWriteDnx
  <2>2. ipcWrite \in [phase : {"dnx", "ifwi"}, image : IpcImages] /\ ipcWrite # IpcIdle
    BY <1>0, <2>1 DEF IpcTypeOK, IpcIdle
  <2>3. ipcFaults' \in 0..MaxIpcFaults
    BY <1>0, <1>3, IpcFaultsCount DEF IpcWriteDnx
  <2>4. CASE ipcDnx' = ipcTmpDnx /\ ipcWrite' = [ipcWrite EXCEPT !.phase = "ifwi"] /\ ipcRet' = ipcRet
    <3>1. /\ ipcWrite' \in [phase : {"dnx", "ifwi"}, image : IpcImages]
          /\ ipcWrite'.image = ipcWrite.image
      BY <2>2, <2>4
    <3>2. ipcDnx' \in DnxBinaries \cup {Partial}
      BY <1>0, <2>2, <2>4 DEF IpcInv, IpcTypeOK
    <3>3. IpcTypeOK'
      BY <1>0, <2>1, <2>3, <2>4, <3>1, <3>2 DEF IpcTypeOK
    <3> QED
      BY <2>1, <2>2, <2>4, <3>1, <3>3 DEF IpcInv, MajorNeverChanges, Upgrade
  <2>5. CASE ipcDnx' = Partial /\ ipcWrite' = IpcIdle /\ ipcRet' = "fail"
    <3>1. IpcTypeOK'
      BY <1>0, <2>1, <2>3, <2>5 DEF IpcTypeOK
    <3> QED
      BY <2>1, <2>5, <3>1 DEF IpcInv, MajorNeverChanges
  <2> QED
    BY <1>3, <2>4, <2>5 DEF IpcWriteDnx
<1>4. CASE IpcWriteIfwi
  <2>1. ipcWrite.phase = "ifwi" /\ ipcWrite' = IpcIdle /\ UNCHANGED <<ipcTmpDnx, ipcDnx, ipcRunning>>
    BY <1>4 DEF IpcWriteIfwi
  <2>2. ipcWrite.image \in IpcImages /\ ipcWrite # IpcIdle
    BY <1>0, <2>1 DEF IpcTypeOK, IpcIdle
  <2>3. ipcFaults' \in 0..MaxIpcFaults
    BY <1>0, <1>4, IpcFaultsCount DEF IpcWriteIfwi
  <2>4. CASE ipcIfwi' = [image |-> ipcWrite.image, by |-> "file"] /\ ipcRet' = "ok"
    <3>1. /\ ipcIfwi' \in [image : IpcImages \cup {PartialImage}, by : {"file", "tool"}]
          /\ ipcIfwi'.image = ipcWrite.image
      BY <2>2, <2>4
    <3>2. IpcTypeOK'
      BY <1>0, <2>1, <2>3, <2>4, <3>1 DEF IpcTypeOK
    <3>3. Version(ipcWrite.image).minor \in 0..255 /\ ipcRunning.minor \in 0..255
      BY <1>0, <2>2, IpcAssumption DEF IpcAssumption, IpcTypeOK
    <3>4. ipcWrite.image.pti = "on" \/ Version(ipcWrite.image).minor >= ipcRunning.minor
      <4>1. \A a, b \in 0..255 : a > b => a >= b
        OBVIOUS
      <4>2. Upgrade(ipcWrite.image)
        BY <2>2 DEF IpcInv
      <4> QED
        BY ONLY <3>3, <4>1, <4>2 DEF Upgrade
    <3> QED
      BY <2>1, <2>2, <3>1, <3>2, <3>4 DEF IpcInv, MajorNeverChanges
  <2>5. CASE ipcIfwi' = [image |-> PartialImage, by |-> "file"] /\ ipcRet' = "fail"
    <3>1. /\ ipcIfwi' \in [image : IpcImages \cup {PartialImage}, by : {"file", "tool"}]
          /\ ipcIfwi'.image = PartialImage
      BY <2>5
    <3>2. IpcTypeOK'
      BY <1>0, <2>1, <2>3, <2>5, <3>1 DEF IpcTypeOK
    <3> QED
      BY <2>1, <3>1, <3>2 DEF IpcInv, MajorNeverChanges
  <2> QED
    BY <1>4, <2>4, <2>5 DEF IpcWriteIfwi
<1>5. CASE update_ifwi_image_scu_ipc
  <2>1. ipcWrite = IpcIdle /\ UNCHANGED <<ipcTmpDnx, ipcWrite, ipcDnx, ipcRunning>>
    BY <1>5 DEF update_ifwi_image_scu_ipc
  <2>2. ipcFaults' \in 0..MaxIpcFaults
    BY <1>0, <1>5, IpcFaultsCount DEF update_ifwi_image_scu_ipc
  <2>3. ipcRet' \in {"none", "ok", "fail"}
    BY <1>5 DEF update_ifwi_image_scu_ipc
  <2>4. \/ ipcIfwi' = ipcIfwi
        \/ \E image \in IpcImages : MajorMatches(image) /\ ipcIfwi' = [image |-> image, by |-> "tool"]
    BY <1>5 DEF update_ifwi_image_scu_ipc
  <2>5. CASE ipcIfwi' = ipcIfwi
    <3>1. IpcTypeOK'
      BY <1>0, <2>1, <2>2, <2>3, <2>5 DEF IpcTypeOK
    <3> QED
      BY <2>1, <2>5, <3>1 DEF IpcInv, MajorNeverChanges
  <2>6. ASSUME NEW image \in IpcImages, MajorMatches(image),
               ipcIfwi' = [image |-> image, by |-> "tool"]
        PROVE  IpcInv'
    <3>1. /\ ipcIfwi' \in [image : IpcImages \cup {PartialImage}, by : {"file", "tool"}]
          /\ ipcIfwi'.image = image /\ ipcIfwi'.by = "tool"
      BY <2>6
    <3>2. IpcTypeOK'
      BY <1>0, <2>1, <2>2, <2>3, <3>1 DEF IpcTypeOK
    <3>3. Version(image).major = ipcRunning.major
      BY <1>0, <2>6, ShortReportIsExact DEF MajorMatches, Version, IpcTypeOK
    <3> QED
      BY <2>1, <3>1, <3>2, <3>3 DEF IpcInv, MajorNeverChanges
  <2> QED
    BY <2>4, <2>5, <2>6
<1>6. CASE IpcReboot
  <2>1. /\ ipcWrite = IpcIdle /\ ipcIfwi.image # PartialImage /\ ipcTmpDnx' = NoFile
        /\ ipcRunning' = Version(ipcIfwi.image) /\ ipcRet' = "none"
        /\ UNCHANGED <<ipcWrite, ipcDnx, ipcIfwi, ipcFaults>>
    BY <1>6 DEF IpcReboot
  <2>2. Version(ipcIfwi.image) \in [major : 0..255, minor : 0..255]
    BY <1>0, <2>1, IpcAssumption DEF IpcTypeOK, IpcAssumption
  <2>3. IpcTypeOK'
    BY <1>0, <2>1, <2>2 DEF IpcTypeOK
  <2>4. Version(ipcIfwi.image).minor >= ipcRunning'.minor
    BY <2>1, <2>2
  <2> QED
    BY <2>1, <2>3, <2>4 DEF IpcInv, MajorNeverChanges
<1>7. CASE UNCHANGED ipcVars
  BY <1>7 DEF ipcVars, IpcInv, IpcTypeOK, MajorNeverChanges, Upgrade
<1> QED
  BY <1>1, <1>2, <1>3, <1>4, <1>5, <1>6, <1>7 DEF IpcNext

(* No step takes the running version back or brings firmware without its DnX.  *)
LEMMA IpcSteps ==
  ASSUME IpcInv, [IpcNext]_ipcVars
  PROVE  NoDowngradeAcrossBoots /\ FirmwareFollowsItsDnx
<1>0. IpcTypeOK
  BY DEF IpcInv
<1>1. NoDowngradeAcrossBoots
  <2>1. SUFFICES ASSUME ipcRunning' # ipcRunning, ipcIfwi.by # "tool", ipcIfwi.image.pti # "on"
                 PROVE  ipcRunning'.minor > ipcRunning.minor
    BY DEF NoDowngradeAcrossBoots
  <2>2. IpcReboot
    BY <2>1 DEF IpcNext, ipcVars, flash_dnx_scu_ipc, flash_ifwi_scu_ipc, IpcWriteDnx,
                IpcWriteIfwi, update_ifwi_image_scu_ipc
  <2>3. ipcIfwi.image # PartialImage /\ ipcRunning' = Version(ipcIfwi.image) /\ ipcIfwi.by = "file"
    BY <1>0, <2>1, <2>2 DEF IpcReboot, IpcTypeOK
  <2>4. ipcRunning' \in [major : 0..255, minor : 0..255] /\ ipcRunning \in [major : 0..255, minor : 0..255]
    BY <1>0, <2>3, IpcAssumption DEF IpcTypeOK, IpcAssumption
  <2>5. ipcRunning'.major = ipcRunning.major /\ ipcRunning'.minor >= ipcRunning.minor
    BY <2>1, <2>3 DEF IpcInv, MajorNeverChanges
  <2>6. ipcRunning'.minor # ipcRunning.minor
    BY <2>1, <2>4, <2>5
  <2>7. \A a, b \in 0..255 : a >= b /\ a # b => a > b
    OBVIOUS
  <2>8. ipcRunning'.minor \in 0..255 /\ ipcRunning.minor \in 0..255
    BY <2>4
  <2> QED
    BY ONLY <2>5, <2>6, <2>7, <2>8
<1>2. FirmwareFollowsItsDnx
  <2>1. SUFFICES ASSUME ipcWrite # IpcIdle, ipcIfwi' # ipcIfwi PROVE ipcDnx = ipcTmpDnx
    BY DEF FirmwareFollowsItsDnx
  <2>2. ipcWrite.phase = "ifwi"
    BY <2>1 DEF IpcNext, ipcVars, flash_dnx_scu_ipc, flash_ifwi_scu_ipc, IpcWriteDnx,
                IpcWriteIfwi, update_ifwi_image_scu_ipc, IpcReboot
  <2> QED
    BY <2>1, <2>2 DEF IpcInv
<1> QED
  BY <1>1, <1>2

-----------------------------------------------------------------------------
(* Capsules *)

CapTypeOK ==
  /\ capBoard \in {"edk2", "fdk", "none"}
  /\ capPart \in Capsules \cup {NoCapsule, Garbage}
  /\ capEsp \in [mounted : BOOLEAN, bios : Capsules \cup {NoCapsule, Garbage},
                 update : {"old", "new", "mixed"}]
  /\ capFlag \in BOOLEAN
  /\ capCall \in {NoCall} \cup [phase : {"write", "flag", "bios"}, capsule : Capsules,
                                caller : {"fastboot", "ota"}]
  /\ capRet \in {"none", "ok", "fail", "t", "abort"}
  /\ capCount \in 0..MaxCapsules /\ capFaults \in 0..MaxCapFaults

\* Since the last boot the flag was raised by a capsule that was counted; a
\* capsule written while the flag is up is at least the second one.
FlagInv ==
  /\ capFlag => capCount >= 1
  /\ capCall # NoCall => capCount >= 1
  /\ capCall.phase = "write" /\ capFlag => capCount >= 2
  /\ capCall.phase = "flag" => capPart \in Capsules

CapInv == CapTypeOK /\ FlagInv /\ FlagMeansAWholeCapsule

(* A fault is counted within its bound.                                        *)
LEMMA CapFaultsCount ==
  ASSUME CapTypeOK, CapFault \/ UNCHANGED capFaults
  PROVE  capFaults' \in 0..MaxCapFaults
BY CapsuleAssumption DEF CapTypeOK, CapFault, CapsuleAssumption

(* Every answer is one of the five.                                            *)
LEMMA AnswersAreTyped ==
  \A caller, ok : Answer(caller, ok) \in {"none", "ok", "fail", "t", "abort"}
BY DEF Answer

(* Every step of a capsule update keeps the invariant.                         *)
LEMMA CapKept ==
  ASSUME CapInv, CapNext \/ UNCHANGED capVars
  PROVE  CapInv'
<1>0. CapTypeOK /\ MaxCapsules \in Nat /\ capCount \in Nat
  BY CapsuleAssumption DEF CapInv, CapTypeOK, CapsuleAssumption
<1>1. ASSUME NEW caller \in {"fastboot", "ota"}, flash_capsule(caller)
      PROVE  CapInv'
  <2>1. capCall = NoCall /\ capCount < MaxCapsules /\ UNCHANGED <<capBoard, capPart, capFlag>>
    BY <1>1 DEF flash_capsule
  <2>2. capFaults' \in 0..MaxCapFaults
    BY <1>0, <1>1, CapFaultsCount DEF flash_capsule
  <2>3. capRet' \in {"none", "ok", "fail", "t", "abort"}
    BY <1>1, AnswersAreTyped DEF flash_capsule
  <2>4. capEsp' = capEsp \/ capEsp' = [capEsp EXCEPT !.mounted = TRUE]
    BY <1>1 DEF flash_capsule
  <2>5. capEsp' \in [mounted : BOOLEAN, bios : Capsules \cup {NoCapsule, Garbage},
                     update : {"old", "new", "mixed"}]
    BY <1>0, <2>4 DEF CapTypeOK
  <2>6. \/ capCall' = NoCall /\ capCount' = capCount
        \/ /\ capCount' = capCount + 1
           /\ capCall' \in [phase : {"write", "flag", "bios"}, capsule : Capsules,
                            caller : {"fastboot", "ota"}]
           /\ capCall'.phase # "flag"
    <3>1. \/ capCall' = capCall /\ capCount' = capCount
          \/ /\ capCount' = capCount + 1
             /\ \E c \in Capsules, phase \in {"write", "bios"} :
                  capCall' = [phase |-> phase, capsule |-> c, caller |-> caller]
      BY <1>1 DEF flash_capsule
    <3>2. ASSUME NEW c \in Capsules, NEW phase \in {"write", "bios"},
                 capCall' = [phase |-> phase, capsule |-> c, caller |-> caller]
          PROVE  /\ capCall' \in [phase : {"write", "flag", "bios"}, capsule : Capsules,
                                  caller : {"fastboot", "ota"}]
                 /\ capCall'.phase # "flag"
      BY <1>1, <3>2
    <3> QED
      BY <2>1, <3>1, <3>2
  <2>7. capCount' \in 0..MaxCapsules /\ (capCount' = capCount \/ capCount' = capCount + 1)
    BY <1>0, <2>1, <2>6 DEF CapTypeOK
  <2>8. CapTypeOK'
    BY <1>0, <2>1, <2>2, <2>3, <2>5, <2>6, <2>7 DEF CapTypeOK
  <2>9. FlagInv'
    <3>1. CASE capCall' = NoCall /\ capCount' = capCount
      BY <2>1, <3>1 DEF CapInv, FlagInv, NoCall
    <3>2. CASE capCount' = capCount + 1 /\ capCall'.phase # "flag"
      BY <1>0, <2>1, <3>2 DEF CapInv, FlagInv
    <3> QED
      BY <2>6, <3>1, <3>2
  <2>10. FlagMeansAWholeCapsule'
    BY <1>0, <2>1, <2>7 DEF CapInv, FlagMeansAWholeCapsule
  <2> QED
    BY <2>8, <2>9, <2>10 DEF CapInv
<1>2. CASE flash_capsule_esp
  <2>1. capCall.phase = "bios" /\ UNCHANGED <<capBoard, capPart, capFlag, capCount>> /\ capCall' = NoCall
    BY <1>2 DEF flash_capsule_esp, CapEnd
  <2>2. capFaults' \in 0..MaxCapFaults
    BY <1>0, <1>2, CapFaultsCount DEF flash_capsule_esp
  <2>3. capRet' \in {"none", "ok", "fail", "t", "abort"}
    BY <1>2, AnswersAreTyped DEF flash_capsule_esp, CapEnd
  <2>4. capCall.capsule \in Capsules
    BY <1>0, <2>1 DEF CapTypeOK, NoCall
  <2>5. \E b \in Capsules \cup {NoCapsule, Garbage} : capEsp' = [capEsp EXCEPT !.bios = b]
    BY <1>2, <2>4 DEF flash_capsule_esp
  <2>6. capEsp' \in [mounted : BOOLEAN, bios : Capsules \cup {NoCapsule, Garbage},
                     update : {"old", "new", "mixed"}]
    BY <1>0, <2>5 DEF CapTypeOK
  <2>7. CapTypeOK'
    BY <1>0, <2>1, <2>2, <2>3, <2>6 DEF CapTypeOK
  <2> QED
    BY <2>1, <2>7 DEF CapInv, FlagInv, FlagMeansAWholeCapsule, NoCall
<1>3. CASE flash_capsule_fdk
  <2>1. UNCHANGED <<capBoard, capEsp, capCount>>
    BY <1>3 DEF flash_capsule_fdk
  <2>2. capFaults' \in 0..MaxCapFaults
    BY <1>0, <1>3, CapFaultsCount DEF flash_capsule_fdk
  <2>3. capRet' \in {"none", "ok", "fail", "t", "abort"}
    BY <1>0, <1>3, AnswersAreTyped DEF flash_capsule_fdk, CapEnd, CapTypeOK
  <2>4. capCall \in [phase : {"write", "flag", "bios"}, capsule : Capsules, caller : {"fastboot", "ota"}]
        /\ capCall # NoCall
    <3>1. capCall.phase \in {"write", "flag"}
      BY <1>3 DEF flash_capsule_fdk
    <3> QED
      BY <1>0, <3>1 DEF CapTypeOK, NoCall
  <2>5. CASE /\ capCall.phase = "write" /\ capPart' = capCall.capsule /\ UNCHANGED capFlag
             /\ capCall' = [capCall EXCEPT !.phase = "flag"]
    <3>1. /\ capCall' \in [phase : {"write", "flag", "bios"}, capsule : Capsules, caller : {"fastboot", "ota"}]
          /\ capCall'.phase = "flag" /\ capPart' \in Capsules
      BY <2>4, <2>5
    <3>2. CapTypeOK'
      BY <1>0, <2>1, <2>2, <2>3, <2>5, <3>1 DEF CapTypeOK
    <3> QED
      BY <2>1, <2>4, <2>5, <3>1, <3>2 DEF CapInv, FlagInv, FlagMeansAWholeCapsule
  <2>6. CASE capCall.phase = "write" /\ capPart' = Garbage /\ capCall' = NoCall /\ UNCHANGED capFlag
    <3>1. CapTypeOK'
      BY <1>0, <2>1, <2>2, <2>3, <2>6 DEF CapTypeOK
    <3>2. capFlag => ~(capCount <= 1)
      BY <1>0, <2>6 DEF CapInv, FlagInv
    <3> QED
      BY <2>1, <2>6, <3>1, <3>2 DEF CapInv, FlagInv, FlagMeansAWholeCapsule, NoCall
  <2>7. CASE /\ capCall.phase = "flag" /\ capCall' = NoCall /\ UNCHANGED capPart
             /\ capFlag' \in {TRUE, capFlag}
    <3>1. CapTypeOK'
      BY <1>0, <2>1, <2>2, <2>3, <2>7 DEF CapTypeOK
    <3>2. capPart \in Capsules /\ capCount >= 1
      BY <2>4, <2>7 DEF CapInv, FlagInv
    <3> QED
      BY <2>1, <2>7, <3>1, <3>2 DEF CapInv, FlagInv, FlagMeansAWholeCapsule, NoCall
  <2> QED
    BY <1>3, <2>5, <2>6, <2>7 DEF flash_capsule_fdk, CapEnd
<1>4. ASSUME NEW caller \in {"fastboot", "ota"}, flash_esp_update(caller) \/ flash_ulpmc(caller)
      PROVE  CapInv'
  <2>1. UNCHANGED <<capBoard, capPart, capFlag, capCall, capCount>>
    BY <1>4 DEF flash_esp_update, flash_ulpmc
  <2>2. capFaults' \in 0..MaxCapFaults
    BY <1>0, <1>4, CapFaultsCount DEF flash_esp_update, flash_ulpmc
  <2>3. capRet' \in {"none", "ok", "fail", "t", "abort"}
    BY <1>4, AnswersAreTyped DEF flash_esp_update, flash_ulpmc
  <2>4. capEsp' = capEsp \/ \E u \in {"new", "mixed"} : capEsp' = [capEsp EXCEPT !.mounted = TRUE, !.update = u]
    BY <1>4 DEF flash_esp_update, flash_ulpmc
  <2>5. capEsp' \in [mounted : BOOLEAN, bios : Capsules \cup {NoCapsule, Garbage},
                     update : {"old", "new", "mixed"}]
    BY <1>0, <2>4 DEF CapTypeOK
  <2>6. CapTypeOK'
    BY <1>0, <2>1, <2>2, <2>3, <2>5 DEF CapTypeOK
  <2> QED
    BY <2>1, <2>6 DEF CapInv, FlagInv, FlagMeansAWholeCapsule
<1>5. CASE CapCut
  <2>1. capCall # NoCall /\ capCall' = NoCall /\ capRet' = "none" /\ UNCHANGED <<capBoard, capFlag, capCount>>
    BY <1>5 DEF CapCut
  <2>2. capFaults' \in 0..MaxCapFaults
    BY <1>0, <1>5, CapFaultsCount DEF CapCut
  <2>3. capCall.capsule \in Capsules
    BY <1>0, <2>1 DEF CapTypeOK
  <2>4. \E b \in Capsules \cup {NoCapsule, Garbage} : capEsp' = [capEsp EXCEPT !.mounted = FALSE, !.bios = b]
    BY <1>0, <1>5 DEF CapCut, CapTypeOK
  <2>5. capEsp' \in [mounted : BOOLEAN, bios : Capsules \cup {NoCapsule, Garbage},
                     update : {"old", "new", "mixed"}]
    BY <1>0, <2>4 DEF CapTypeOK
  <2>6. capPart' = capPart \/ (capCall.phase = "write" /\ capPart' \in Capsules \cup {Garbage})
    BY <1>5, <2>3 DEF CapCut
  <2>7. CapTypeOK'
    BY <1>0, <2>1, <2>2, <2>5, <2>6 DEF CapTypeOK
  <2>8. FlagMeansAWholeCapsule'
    <3>1. CASE capPart' = capPart
      BY <2>1, <3>1 DEF CapInv, FlagMeansAWholeCapsule
    <3>2. CASE capCall.phase = "write"
      <4>1. capFlag => ~(capCount <= 1)
        BY <1>0, <3>2 DEF CapInv, FlagInv
      <4> QED
        BY <2>1, <4>1 DEF FlagMeansAWholeCapsule
    <3> QED
      BY <2>6, <3>1, <3>2
  <2> QED
    BY <2>1, <2>7, <2>8 DEF CapInv, FlagInv, NoCall
<1>6. CASE CapReboot
  <2>1. /\ capCall = NoCall /\ capCall' = NoCall /\ capFlag' = FALSE /\ capCount' = 0
        /\ capRet' = "none" /\ capEsp' = [capEsp EXCEPT !.mounted = FALSE]
        /\ UNCHANGED <<capBoard, capPart, capFaults>>
    BY <1>6 DEF CapReboot
  <2>2. capEsp' \in [mounted : BOOLEAN, bios : Capsules \cup {NoCapsule, Garbage},
                     update : {"old", "new", "mixed"}]
    BY <1>0, <2>1 DEF CapTypeOK
  <2>3. capCount' \in 0..MaxCapsules
    BY <1>0, <2>1
  <2>4. CapTypeOK'
    BY <1>0, <2>1, <2>2, <2>3 DEF CapTypeOK
  <2> QED
    BY <2>1, <2>4 DEF CapInv, FlagInv, FlagMeansAWholeCapsule, NoCall
<1>7. CASE UNCHANGED capVars
  BY <1>7 DEF capVars, CapInv, CapTypeOK, FlagInv, FlagMeansAWholeCapsule
<1> QED
  BY <1>1, <1>2, <1>3, <1>4, <1>5, <1>6, <1>7
     DEF CapNext, FlashCapsuleFn, FlashEspUpdateFn, FlashUlpmcFn

-----------------------------------------------------------------------------
(* The bootloader container *)

HasDroidboot == \E i \in DOMAIN blFile : blFile[i].flash /\ blFile[i].magic = "fastboot"
DroidbootWent == \E i \in DOMAIN blLog : blLog[i] = "fastboot"

BlTypeOK ==
  /\ blFile \in Containers \cup {<<>>} /\ blMagic \in 1..(Len(magics) + 1)
  /\ blPos \in 0..Len(blFile) /\ blPresent \in BOOLEAN /\ blFlashed \in BOOLEAN
  /\ blLog \in Seq({magics[i] : i \in 1..Len(magics)}) /\ blRet \in -1..Running

\* The droidboot components are the first flash_bootloader looks for: nothing
\* is flashed while none of them went through, and it passes on to the other
\* kinds only when one did or there was none.
BlInv ==
  /\ BlTypeOK
  /\ blMagic = 1 /\ ~blPresent => blPos = 0
  /\ blMagic = 1 /\ ~blFlashed => blLog = <<>>
  /\ blMagic = 1 /\ blFlashed => DroidbootWent
  /\ blMagic # 1 /\ HasDroidboot => DroidbootWent
  /\ blMagic = 1 => blRet # 0

(* The kinds of components, droidboot first (bootloader.c).                    *)
LEMMA MagicFacts ==
  /\ Len(magics) = 5 /\ magics[1] = "fastboot"
  /\ \A i \in 1..5 : magics[i] \in {magics[k] : k \in 1..Len(magics)}
BY DEF magics

(* A file is a sequence, so its components are numbered from 1.                *)
LEMMA FilesAreSequences ==
  ASSUME NEW file \in Containers \cup {<<>>}
  PROVE  Len(file) \in Nat /\ DOMAIN file = 1..Len(file)
<1>1. CASE file = <<>>
  BY <1>1
<1>2. CASE file \in Containers
  BY <1>2, CapsuleAssumption DEF CapsuleAssumption
<1> QED
  BY <1>1, <1>2

(* Every step of flash_bootloader keeps the invariant.                         *)
LEMMA BlKept ==
  ASSUME BlInv, BlNext \/ UNCHANGED blVars
  PROVE  BlInv'
<1>0. /\ BlTypeOK /\ Len(blFile) \in Nat /\ DOMAIN blFile = 1..Len(blFile)
      /\ blMagic \in 1..6 /\ blPos \in 0..Len(blFile)
  BY FilesAreSequences, MagicFacts DEF BlInv, BlTypeOK
<1>1. CASE flash_bootloader
  <2>1. /\ blFile' \in Containers /\ blMagic' = 1 /\ blPos' = 0 /\ blPresent' = FALSE
        /\ blFlashed' = FALSE /\ blLog' = <<>> /\ blRet' = Running
    BY <1>1 DEF flash_bootloader
  <2>2. blPos' \in 0..Len(blFile')
    BY <2>1, FilesAreSequences
  <2>3. blMagic' \in 1..(Len(magics) + 1) /\ blRet' \in -1..Running /\ blRet' # 0
    BY <2>1, MagicFacts DEF Running
  <2>4. blLog' \in Seq({magics[i] : i \in 1..Len(magics)})
    BY <2>1
  <2>5. BlTypeOK'
    BY <2>1, <2>2, <2>3, <2>4 DEF BlTypeOK
  <2> QED
    BY <2>1, <2>3, <2>5 DEF BlInv
<1>2. CASE BlFlash
  <2>1. /\ blRet = Running /\ blMagic \in 1..5 /\ UNCHANGED <<blFile, blMagic>>
        /\ blPos' \in Wanted(blPos) /\ blPresent' = TRUE
    BY <1>0, <1>2, MagicFacts DEF BlFlash, next_component_filter
  <2>2. blPos' \in 0..Len(blFile)
    BY <1>0, <2>1 DEF Wanted
  <2>3. PICK ret \in {-1, 0, 1} :
          /\ blFlashed' = (blFlashed \/ ret = 0)
          /\ blLog' = IF ret = 0 THEN Append(blLog, magics[blMagic]) ELSE blLog
          /\ blRet' = IF ret \in {-1, 0} THEN Running ELSE ret
    BY <1>2 DEF BlFlash
  <2>4. blRet' \in -1..Running /\ blRet' # 0
    BY <2>3 DEF Running
  <2> DEFINE M == {magics[i] : i \in 1..Len(magics)}
  <2>5. magics[blMagic] \in M /\ blLog \in Seq(M)
    BY <1>0, <2>1, MagicFacts DEF BlTypeOK
  <2> HIDE DEF M
  <2>6. /\ Append(blLog, magics[blMagic]) \in Seq(M)
        /\ Len(blLog) + 1 \in DOMAIN Append(blLog, magics[blMagic])
        /\ Append(blLog, magics[blMagic])[Len(blLog) + 1] = magics[blMagic]
        /\ \A i \in DOMAIN blLog : /\ i \in DOMAIN Append(blLog, magics[blMagic])
                                   /\ Append(blLog, magics[blMagic])[i] = blLog[i]
    BY <2>5
  <2>7. blLog' \in Seq(M)
    BY <2>3, <2>5, <2>6
  <2>8. DroidbootWent => DroidbootWent'
    BY <2>3, <2>6 DEF DroidbootWent
  <2>9. BlTypeOK'
    <3>1. blFlashed' \in BOOLEAN /\ blPresent' \in BOOLEAN
      BY <2>1, <2>3
    <3> QED
      BY <1>0, <2>1, <2>2, <2>4, <2>7, <3>1 DEF BlTypeOK, M
  <2>10. blMagic = 1 /\ blFlashed' => DroidbootWent'
    <3>1. CASE ret = 0
      BY <2>3, <2>6, <3>1, MagicFacts DEF DroidbootWent
    <3>2. CASE ret # 0
      BY <2>3, <2>8, <3>2 DEF BlInv
    <3> QED
      BY <3>1, <3>2
  <2>11. blMagic = 1 /\ ~blFlashed' => blLog' = <<>>
    BY <2>3 DEF BlInv
  <2>12. blMagic # 1 /\ HasDroidboot' => DroidbootWent'
    BY <2>1, <2>8 DEF BlInv, HasDroidboot
  <2> QED
    BY <2>1, <2>4, <2>9, <2>10, <2>11, <2>12 DEF BlInv
<1>3. CASE BlNextMagic
  <2>1. blRet = Running /\ blMagic \in 1..5 /\ Wanted(blPos) = {} /\ UNCHANGED <<blFile, blLog>>
    BY <1>0, <1>3, MagicFacts DEF BlNextMagic
  <2>2. CASE blRet' = -1 /\ UNCHANGED <<blMagic, blPos, blPresent, blFlashed>>
    <3>1. BlTypeOK' /\ blRet' # 0
      BY <2>1, <2>2 DEF BlInv, BlTypeOK, Running
    <3> QED
      BY <2>1, <2>2, <3>1 DEF BlInv, HasDroidboot, DroidbootWent
  <2>3. CASE /\ ~(blPresent /\ ~blFlashed /\ magics[blMagic] = "fastboot")
             /\ blMagic' = blMagic + 1 /\ blPos' = 0 /\ blPresent' = FALSE /\ blFlashed' = FALSE
             /\ UNCHANGED blRet
    <3>1. blMagic' \in 1..(Len(magics) + 1) /\ blMagic' # 1 /\ blPos' \in 0..Len(blFile)
      <4>1. blPos' \in 0..Len(blFile)
        BY <1>0, <2>3
      <4>2. blMagic + 1 \in 1..6 /\ blMagic + 1 # 1
        BY <2>1
      <4>3. Len(magics) + 1 = 6
        BY MagicFacts
      <4> QED
        BY <2>3, <4>1, <4>2, <4>3
    <3>2. BlTypeOK'
      BY <2>1, <2>3, <3>1 DEF BlInv, BlTypeOK
    <3>3. HasDroidboot => DroidbootWent
      <4>1. CASE blMagic # 1
        BY <4>1 DEF BlInv
      <4>2. CASE blMagic = 1 /\ blFlashed
        BY <4>2 DEF BlInv
      <4>3. CASE blMagic = 1 /\ ~blFlashed
        <5>1. blPos = 0
          BY <2>3, <4>3, MagicFacts DEF BlInv
        <5>2. ~HasDroidboot
          BY <1>0, <2>1, <4>3, <5>1, MagicFacts DEF Wanted, HasDroidboot
        <5> QED
          BY <5>2
      <4> QED
        BY <4>1, <4>2, <4>3
    <3> QED
      BY <2>1, <3>1, <3>2, <3>3 DEF BlInv, HasDroidboot, DroidbootWent
  <2> QED
    BY <1>3, <2>2, <2>3 DEF BlNextMagic
<1>4. CASE BlEnd
  <2>1. /\ blMagic = 6 /\ blRet' = 0
        /\ UNCHANGED <<blFile, blMagic, blPos, blPresent, blFlashed, blLog>>
    BY <1>4, MagicFacts DEF BlEnd
  <2>2. BlTypeOK'
    BY <2>1 DEF BlInv, BlTypeOK, Running
  <2> QED
    BY <2>1, <2>2 DEF BlInv, HasDroidboot, DroidbootWent
<1>5. CASE UNCHANGED blVars
  BY <1>5 DEF blVars, BlInv, BlTypeOK, HasDroidboot, DroidbootWent
<1> QED
  BY <1>1, <1>2, <1>3, <1>4, <1>5 DEF BlNext

-----------------------------------------------------------------------------
(* The backends together *)

FirmwareInv == EmmcInv /\ IpcInv /\ CapInv /\ BlInv

(* No capsule and no container to begin with.                                  *)
LEMMA CapsuleStart == CapsuleInit => CapInv /\ BlInv
<1> SUFFICES ASSUME CapsuleInit PROVE CapInv /\ BlInv
  OBVIOUS
<1>1. capEsp \in [mounted : BOOLEAN, bios : Capsules \cup {NoCapsule, Garbage},
                  update : {"old", "new", "mixed"}]
  BY DEF CapsuleInit
<1>2. capCount \in 0..MaxCapsules /\ capFaults \in 0..MaxCapFaults
  BY CapsuleAssumption DEF CapsuleInit, CapsuleAssumption
<1>3. CapTypeOK
  BY <1>1, <1>2 DEF CapsuleInit, CapTypeOK
<1>4. CapInv
  BY <1>3 DEF CapsuleInit, CapInv, FlagInv, FlagMeansAWholeCapsule, NoCall
<1>5. blMagic = 6 /\ blMagic \in 1..(Len(magics) + 1)
  BY MagicFacts DEF CapsuleInit
<1>6. /\ blFile = <<>> /\ blPos = 0 /\ blPresent = FALSE /\ blFlashed = FALSE
      /\ blLog = <<>> /\ blRet = 0
  BY DEF CapsuleInit
<1>7. blPos \in 0..Len(blFile) /\ blRet \in -1..Running
  BY <1>6 DEF Running
<1>8. BlTypeOK
  <2>1. blLog \in Seq({magics[i] : i \in 1..Len(magics)})
    BY <1>6
  <2>2. blPresent \in BOOLEAN /\ blFlashed \in BOOLEAN
    BY <1>6
  <2> QED
    BY <1>5, <1>6, <1>7, <2>1, <2>2 DEF BlTypeOK
<1>9. ~HasDroidboot
  BY <1>6 DEF HasDroidboot
<1> QED
  BY <1>4, <1>5, <1>8, <1>9 DEF BlInv

(* Capsules and containers do not touch each other's state.                    *)
LEMMA CapsuleKept ==
  ASSUME CapInv, BlInv, [CapsuleNext]_capsuleVars
  PROVE  CapInv' /\ BlInv'
<1>1. CASE CapNext
  <2>1. UNCHANGED blVars
    BY <1>1 DEF CapNext, flash_capsule, flash_capsule_esp, flash_capsule_fdk, flash_esp_update,
         flash_ulpmc, FlashCapsuleFn, FlashEspUpdateFn, FlashUlpmcFn, CapCut, CapReboot
  <2> QED
    BY <1>1, <2>1, CapKept, BlKept
<1>2. CASE BlNext
  <2>1. UNCHANGED capVars
    BY <1>2 DEF BlNext, flash_bootloader, BlFlash, BlNextMagic, BlEnd
  <2> QED
    BY <1>2, <2>1, CapKept, BlKept
<1>3. CASE UNCHANGED capsuleVars
  BY <1>3, CapKept, BlKept DEF capsuleVars
<1> QED
  BY <1>1, <1>2, <1>3 DEF CapsuleNext

(* The invariant of all backends holds at first ...                            *)
LEMMA FirmwareStart == FirmwareInit => FirmwareInv
BY EmmcStart, IpcStart, CapsuleStart DEF FirmwareInit, FirmwareInv

(* A step of one backend is a step or a stutter of each.                       *)
LEMMA FirmwareSteps ==
  [FirmwareNext]_firmwareVars => [EmmcNext]_emmcVars /\ [IpcNext]_ipcVars /\ [CapsuleNext]_capsuleVars
BY DEF FirmwareNext, firmwareVars

(* ... and every step keeps it.                                                *)
LEMMA FirmwareKept ==
  ASSUME FirmwareInv, [FirmwareNext]_firmwareVars
  PROVE  FirmwareInv'
BY FirmwareSteps, EmmcKept, IpcKept, CapsuleKept DEF FirmwareInv

(* The board keeps a bootable firmware of its own kind through any sequence of *)
(* fastboot and OTA updates, faults and reboots, for every set of images,      *)
(* capsules and containers (flash_scu_emmc/ifwi.c, flash_scu_ipc/ifwi.c,       *)
(* flash_fdk/capsule.c, bootloader.c).                                         *)
THEOREM BoardStaysBootable == FirmwareSpec => []FirmwareStaysBootable
<1>1. FirmwareInv => FirmwareStaysBootable
  <2> SUFFICES ASSUME FirmwareInv PROVE FirmwareStaysBootable
    OBVIOUS
  <2>1. EmmcTypeOK /\ IpcTypeOK /\ OneFaultLeavesABootCopy /\ MajorNeverChanges /\ FlagMeansAWholeCapsule
    BY DEF FirmwareInv, EmmcInv, IpcInv, CapInv
  <2>2. CapsuleTypeOK
    BY DEF FirmwareInv, CapInv, CapTypeOK, BlInv, BlTypeOK, CapsuleTypeOK
  <2>3. FamilyNeverChanges
    BY DEF FirmwareInv, EmmcInv, FamilyNeverChanges, Bootable, InFamily, Rev
  <2>4. UnsupportedBootloaderFlashesNothing
    BY DEF FirmwareInv, BlInv, UnsupportedBootloaderFlashesNothing, HasDroidboot, DroidbootWent
  <2> QED
    BY <2>1, <2>2, <2>3, <2>4 DEF FirmwareStaysBootable
<1> QED
  BY <1>1, FirmwareStart, FirmwareKept, PTL DEF FirmwareSpec

(* Every step of an update keeps its promise: the tokens survive, success      *)
(* means both partitions, the running version does not fall, and no firmware   *)
(* goes to the SCU without its DnX (ifwi.c of both backends).                  *)
THEOREM UpdatesAreSafe == FirmwareSpec => UpdatesKeepTheirPromises
<1>1. FirmwareInv /\ [FirmwareNext]_firmwareVars =>
        [/\ FirmwareKeepsTheTokens /\ SuccessReachesBothCopies
         /\ NoDowngradeAcrossBoots /\ FirmwareFollowsItsDnx]_firmwareVars
  BY FirmwareSteps, EmmcSteps, IpcSteps DEF FirmwareInv
<1> QED
  BY <1>1, FirmwareStart, FirmwareKept, PTL DEF FirmwareSpec, UpdatesKeepTheirPromises
=============================================================================
