---------------------------- MODULE RecoveryPatch ----------------------------
(* update_recovery.c: on every boot of Android the recovery image is compared  *)
(* with the one this build expects and, when it differs, made anew from the    *)
(* boot image and a patch.  The image readers of flash_gpt and flash_osip and  *)
(* extract_image of updater.c are here with it.                                *)
EXTENDS Integers, FiniteSets

CONSTANT MaxRecFaults
RecoveryAssumption == MaxRecFaults \in Nat
ASSUME RecoveryAssumption

VARIABLES recBoard,   \* [media, signed, quick]: boot media, ATTR_UNSIGNED_KERNEL clear, -c given
          recBoot,    \* the boot image
          recImg,     \* the recovery image
          recPatch,   \* what the patch makes of the boot image it was built for
          recStep,    \* where update_recovery is
          recRet, recFile, recFaults
recVars == <<recBoard, recBoot, recImg, recPatch, recStep, recRet, recFile, recFaults>>

\* Contents are told apart by their digests; "torn" is a write that was cut.
Source == "source"
Target == "target"
Readable == {Source, Target, "old", "wrong"}

RecoveryTypeOK ==
  /\ recBoard \in [media : {"gpt", "osip"}, signed : BOOLEAN, quick : BOOLEAN]
  /\ recBoot \in {Source, "old", "torn"} /\ recImg \in {Target, "old", "wrong", "torn"}
  /\ recPatch \in {Target, "wrong", "none"} /\ recStep \in {"done", "start", "check", "patch", "flash"}
  /\ recRet \in {"none", "ok", "fail"} /\ recFile \in {"none", "torn"} \cup Readable
  /\ recFaults \in 0..MaxRecFaults

RecoveryInit ==
  /\ recBoard \in [media : {"gpt", "osip"}, signed : BOOLEAN, quick : BOOLEAN]
  /\ recBoot \in {Source, "old"} /\ recImg \in {Target, "old"} /\ recPatch \in {Target, "wrong", "none"}
  /\ recStep = "start" /\ recRet = "none" /\ recFile = "none" /\ recFaults = 0

RecFault == recFaults < MaxRecFaults /\ recFaults' = recFaults + 1
RecExit(ret) == recStep' = "done" /\ recRet' = ret

\* read_image: the digest of what the header says is the image; a torn image may
\* have lost its magic, and without a header there is nothing to read.
read_image(img) == IF img \in Readable THEN {img} ELSE {"torn", "failed"}

\* is_image_signed: never on GPT; on OSIP the attribute of the recovery entry.
is_image_signed == recBoard.media = "osip" /\ recBoard.signed

QuickCheck == is_image_signed /\ recBoard.quick
MainCheck ==
  /\ recStep = "start"
  /\ \/ recStep' = "check" /\ UNCHANGED <<recRet, recFaults>>
     \/ recBoard.media = "osip" /\ RecFault /\ RecExit("fail")
  /\ UNCHANGED <<recBoard, recBoot, recImg, recPatch, recFile>>

Decide(needs) == IF needs THEN recStep' = "patch" /\ UNCHANGED recRet ELSE RecExit("ok")

\* A faulty variant; no step uses it.
Differs_readable(got) == got \notin {Target, "failed"}
Differs(got) == got # Target

\* Failing to read the recovery image counts as a difference.
check_recovery_image ==
  /\ recStep = "check" /\ ~QuickCheck
  /\ \/ \E got \in read_image(recImg) : Decide(Differs(got)) /\ UNCHANGED recFaults
     \/ RecFault /\ Decide(Differs("failed"))
  /\ UNCHANGED <<recBoard, recBoot, recImg, recPatch, recFile>>

\* read_image_signature_osip seeks to the block of a header it never read: the
\* signature comes from anywhere, or the seek or the read fails.
check_recovery_header ==
  /\ recStep = "check" /\ QuickCheck /\ UNCHANGED recFaults
  /\ \/ Decide(TRUE)
     \/ Decide(FALSE)
     \/ RecExit("fail")
  /\ UNCHANGED <<recBoard, recBoot, recImg, recPatch, recFile>>

\* patch_recovery up to the write.  A boot image with another digest, a patch that
\* cannot be read or applied, or a result with another digest: the recovery image
\* stays as it is and the answer is 0 all the same.
DigestIs(got, expected) == got = expected
patch_recovery ==
  /\ recStep = "patch" /\ UNCHANGED <<recBoard, recBoot, recImg, recPatch, recFile>>
  /\ \/ \E src \in read_image(recBoot) :
          /\ UNCHANGED recFaults
          /\ \/ src = "failed" /\ RecExit("fail")
             \/ /\ src # "failed"
                /\ IF DigestIs(src, Source) /\ recPatch # "none" /\ DigestIs(recPatch, Target)
                   THEN recStep' = "flash" /\ UNCHANGED recRet ELSE RecExit("ok")
     \/ RecFault /\ recRet' \in {"ok", "fail"} /\ recStep' = "done"   \* no memory, no patch file

flash_recovery_kernel ==
  /\ recStep = "flash" /\ RecExit("ok") /\ UNCHANGED <<recBoard, recBoot, recPatch, recFile>>
  /\ \/ recImg' = recPatch /\ UNCHANGED recFaults
     \/ RecFault /\ recImg' \in {recImg, "torn"}

\* The next boot, after the end of update_recovery or a loss of power.
RecoveryBoot ==
  /\ \/ recStep = "done" /\ UNCHANGED <<recImg, recFaults>>
     \/ recStep \notin {"done", "start"} /\ RecFault
        /\ recImg' \in {recImg} \cup (IF recStep = "flash" THEN {"torn"} ELSE {})
  /\ recStep' = "start" /\ recRet' = "none"
  /\ UNCHANGED <<recBoard, recBoot, recPatch, recFile>>

\* Another boot image is flashed, by hand or by an update.
ReplaceBoot ==
  /\ recStep = "done" /\ RecFault /\ recBoot' \in {Source, "old", "torn"}
  /\ UNCHANGED <<recBoard, recImg, recPatch, recStep, recRet, recFile>>

\* extract_image copies an image to a file.
ExtractImageFn ==
  /\ recStep = "done"
  /\ \E img \in {recBoot, recImg}, got \in Readable \cup {"torn", "failed"} :
       /\ got \in read_image(img)
       /\ \/ got # "failed" /\ recFile' = got /\ recRet' = "ok" /\ UNCHANGED recFaults
          \/ got = "failed" /\ recRet' = "fail" /\ UNCHANGED <<recFile, recFaults>>
          \/ got # "failed" /\ RecFault /\ recFile' \in {recFile, "torn"} /\ recRet' = "fail"
  /\ UNCHANGED <<recBoard, recBoot, recImg, recPatch, recStep>>

RecoverySteps ==
  \/ MainCheck \/ check_recovery_image \/ check_recovery_header \/ patch_recovery
  \/ flash_recovery_kernel \/ RecoveryBoot
RecoveryNext == RecoverySteps \/ ReplaceBoot \/ ExtractImageFn

\* init runs update_recovery on every boot, and the device is booted again.
RecoveryFairness == WF_recVars(RecoverySteps)
RecoverySpec == RecoveryInit /\ [][RecoveryNext]_recVars /\ RecoveryFairness
-----------------------------------------------------------------------------
(* Properties *)

(* Nothing but the target image is ever installed as recovery, unless a write  *)
(* is cut short: both digests are compared before flash_recovery_kernel.       *)
OnlyTheTargetIsInstalled == recImg' # recImg => recImg' \in {Target, "torn"}

(* With the boot image and the patch of this build in place the recovery image *)
(* becomes the target and stays so, whatever writes failed or were cut before: *)
(* the next boot sees a torn or unreadable image as different.  Where the      *)
(* signature is checked instead, update_recovery may give up on every boot.    *)
RecoveryGetsInstalled ==
  <>[](recBoot = Source /\ recPatch = Target /\ ~QuickCheck) => <>[](recImg = Target)

=============================================================================
