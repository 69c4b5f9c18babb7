---------------------------- MODULE OemPartition ----------------------------
(* Partition scripts and volume erasure: oem_partition.c, the gfdisk tool's    *)
(* cgpt.c, and the functions of updater.c that repartition or write images     *)
(* at places a partition script names.                                         *)
(*                                                                             *)
(* A partition table gives each label the LBA where it starts.  The kernel's   *)
(* block nodes follow the table only when it is reloaded.  The module is run   *)
(* either under droidboot (fastboot commands) or under recovery (an OTA).      *)
EXTENDS Integers, Sequences, FiniteSets, SequencesExt, Folds

CONSTANTS Labels, Lbas,
          Abbrev,        \* <<a, b>>: label a is a proper prefix of label b
          Scripts,       \* partition files: [type, lines]
          OsipLba,       \* LBA of the OS images the OSIP lists
          Images,
          Volumes,       \* volumes to erase: sequences of blocks
          BufferBlocks,  \* bufferSize, in blocks
          MaxOemFaults

NoLba == -1
Bare == [l \in Labels |-> NoLba]
Adds(lines) == {i \in DOMAIN lines : lines[i].cmd = "add"}

OemAssumption ==
  /\ IsFiniteSet(Labels) /\ Lbas \subseteq Nat /\ Abbrev \subseteq Labels \X Labels
  /\ DOMAIN OsipLba \subseteq Labels /\ \A l \in DOMAIN OsipLba : OsipLba[l] \in Lbas
  /\ \A s \in Scripts : \A i, j \in Adds(s.lines) :
       s.lines[i].label = s.lines[j].label => i = j
  /\ BufferBlocks \in Nat \ {0} /\ MaxOemFaults \in Nat
  /\ \A v \in Volumes : v \in Seq({"data", "ff"}) /\ v # <<>>
ASSUME OemAssumption

VARIABLES oemMode,         \* "fastboot" or "recovery"
          oemPartitioning, \* the property sys.partitioning
          oemTable,        \* the GPT on the disk
          oemKernel,       \* the GPT the kernel last loaded
          oemReload,       \* FALSE once oem_partition_disable_cmd_reload ran
          oemCall,         \* the partition script in progress
          oemRet,          \* what the last call returned, with what it was given
          oemFile,         \* /tmp/partition_update.tbl
          oemMigrated,     \* the table on the disk came whole from oemFile
          oemDisk,         \* what starts at each LBA
          oemFaults,
          nukeVol, nukePhase, nukePos, nukeCount, nukeWrites, nukeBuf, nukeErase, nukeRet
oemScriptVars == <<oemPartitioning, oemTable, oemKernel, oemReload, oemCall, oemRet, oemFile, oemMigrated, oemDisk>>
nukeVars == <<nukeVol, nukePhase, nukePos, nukeCount, nukeWrites, nukeBuf, nukeErase, nukeRet>>
oemVars == <<oemMode, oemScriptVars, oemFaults, nukeVars>>

Torn == "torn"   \* an image whose write was cut short
Idle == [caller |-> "none"]
NoRet == [op |-> "none"]

OemTypeOK ==
  /\ oemMode \in {"fastboot", "recovery"} /\ oemPartitioning \in {"", "0", "1"}
  /\ oemTable \in [Labels -> Lbas \cup {NoLba}] /\ oemKernel \in [Labels -> Lbas \cup {NoLba}]
  /\ oemReload \in BOOLEAN /\ oemMigrated \in BOOLEAN
  /\ oemCall = Idle \/ oemCall.caller \in {"fastboot", "ota", "migrate", "gfdisk"}
  /\ oemDisk \in [Lbas -> Images \cup {Torn, "old"}]
  /\ oemFaults \in 0..MaxOemFaults
  /\ nukePhase \in {"idle", "write", "read", "format"}
  /\ nukePos \in 0..Len(nukeVol) /\ nukeRet \in {"none", "ok", "fail"}
  /\ nukeVol \in Seq({"data", "ff", "fs"}) /\ nukeBuf \in {"unset", "ff"}

OemInit ==
  /\ oemMode \in {"fastboot", "recovery"} /\ oemPartitioning = ""
  /\ oemTable \in {Bare, [l \in Labels |-> IF l \in DOMAIN OsipLba THEN OsipLba[l] ELSE NoLba]}
  /\ oemKernel = oemTable /\ oemReload = TRUE /\ oemCall = Idle /\ oemRet = NoRet
  /\ oemFile = <<>> /\ oemMigrated = FALSE /\ oemDisk = [b \in Lbas |-> "old"] /\ oemFaults = 0
  /\ nukeVol \in Volumes /\ nukePhase = "idle" /\ nukePos = 0 /\ nukeCount = 0
  /\ nukeWrites = 0 /\ nukeBuf = "unset" /\ nukeErase = FALSE /\ nukeRet = "none"

OemIdle == oemCall = Idle /\ nukePhase = "idle"
OemFault == oemFaults < MaxOemFaults /\ oemFaults' = oemFaults + 1
-----------------------------------------------------------------------------
(* Partition scripts *)

\* What a GPT command does to the table; create leaves an empty one.
TableAfter(line, table) ==
  CASE line.cmd = "create" -> Bare
    [] line.cmd = "add" -> [table EXCEPT ![line.label] = line.lba]
    [] OTHER -> table

\* reload tells the kernel, through the pointer the OTA replaces by cmd_noop.
KernelAfter(line, table, honest) ==
  IF line.cmd = "reload" /\ honest THEN table ELSE oemKernel

\* Lines whose command no table entry matches, or that str_to_array refuses.
Runnable(line) == line.cmd \notin {"unknown", "malformed"}

\* Both handlers return the script's outcome to the caller.
Verdict(caller, ok) ==
  CASE caller = "fastboot" -> IF ok THEN "okay" ELSE "fail"
    [] caller = "ota" -> IF ok THEN "t" ELSE "abort"
    [] caller = "migrate" -> IF ok THEN "t" ELSE ""
    [] caller = "gfdisk" -> IF ok THEN "0" ELSE "nonzero"

\* FlashPartition and FlashOsipToGPTPartition clear sys.partitioning on return.
PartitioningAfter(caller) == IF caller \in {"ota", "migrate"} THEN "0" ELSE oemPartitioning

EndScript(call, ok) ==
  /\ oemCall' = Idle
  /\ oemRet' = [op |-> "partition", value |-> Verdict(call.caller, ok), lines |-> call.all, start |-> call.start]
  /\ oemPartitioning' = PartitioningAfter(call.caller)
  /\ oemMigrated' = IF call.all = <<>> THEN oemMigrated ELSE ok /\ call.caller = "migrate"

\* oem_partition_cmd_handler reads the type from the first line and starts the
\* handler of that type; ufdisk.create_partition stands behind "mbr".
Started(caller, script, flag) ==
  LET call == [caller |-> caller, left |-> script.lines, all |-> script.lines, start |-> oemTable, ok |-> TRUE]
  IN IF script.type = "gpt" /\ (caller = "gfdisk" \/ flag = "1")
     THEN oemCall' = call /\ oemRet' = NoRet /\ oemPartitioning' = flag /\ UNCHANGED oemMigrated
     ELSE EndScript([call EXCEPT !.all = <<>>], script.type = "mbr")

oem_partition_cmd_handler ==
  \E script \in Scripts :
    /\ OemIdle /\ oemMode = "fastboot" /\ Started("fastboot", script, oemPartitioning)
    /\ UNCHANGED <<oemMode, oemTable, oemKernel, oemReload, oemFile, oemDisk, oemFaults, nukeVars>>

\* gfdisk is a process of its own: no property check, reload always works.
gfdisk ==
  \E script \in Scripts :
    /\ OemIdle /\ oemMode = "fastboot" /\ Started("gfdisk", script, oemPartitioning)
    /\ UNCHANGED <<oemMode, oemTable, oemKernel, oemReload, oemFile, oemDisk, oemFaults, nukeVars>>

FlashPartition ==
  \E script \in Scripts :
    /\ OemIdle /\ oemMode = "recovery" /\ oemReload' = FALSE /\ Started("ota", script, "1")
    /\ UNCHANGED <<oemMode, oemTable, oemKernel, oemFile, oemDisk, oemFaults, nukeVars>>

\* One line of the script.  oem_partition_gpt_handler stops at the first command
\* that fails, gfdisk goes on and remembers the failure; there a malformed line
\* ends the process, its argument vector being NULL.
LineOk(line) ==
  /\ Runnable(line) /\ oemTable' = TableAfter(line, oemTable)
  /\ oemKernel' = KernelAfter(line, oemTable, oemReload \/ oemCall.caller = "gfdisk")
  /\ oemCall' = [oemCall EXCEPT !.left = Tail(@)]
  /\ UNCHANGED <<oemPartitioning, oemRet, oemMigrated, oemFaults>>
\* A faulty variant; no step uses it.
LineFails_goeson(line) ==
  /\ Runnable(line) => OemFault
  /\ ~Runnable(line) => UNCHANGED oemFaults
  /\ oemCall' = [oemCall EXCEPT !.left = Tail(@)]
  /\ UNCHANGED <<oemTable, oemKernel, oemPartitioning, oemRet, oemMigrated>>

LineFails(line) ==
  /\ Runnable(line) => OemFault
  /\ ~Runnable(line) => UNCHANGED oemFaults
  /\ IF oemCall.caller = "gfdisk" /\ line.cmd # "malformed"
     THEN oemCall' = [oemCall EXCEPT !.left = Tail(@), !.ok = FALSE] /\ UNCHANGED <<oemPartitioning, oemRet, oemMigrated>>
     ELSE EndScript(oemCall, FALSE)
  /\ UNCHANGED <<oemTable, oemKernel>>

oem_partition_gpt_handler ==
  /\ oemCall # Idle
  /\ \/ oemCall.left # <<>> /\ (LineOk(Head(oemCall.left)) \/ LineFails(Head(oemCall.left)))
     \/ /\ oemCall.left = <<>> /\ EndScript(oemCall, oemCall.ok)
        /\ UNCHANGED <<oemTable, oemKernel, oemFaults>>
  /\ UNCHANGED <<oemMode, oemReload, oemFile, oemDisk, nukeVars>>

oem_partition_start_handler ==
  /\ OemIdle /\ oemMode = "fastboot" /\ oemPartitioning' = "1"
  /\ oemRet' = [op |-> "start", value |-> "okay"]
  /\ UNCHANGED <<oemMode, oemTable, oemKernel, oemReload, oemCall, oemFile, oemMigrated, oemDisk, oemFaults, nukeVars>>

oem_partition_stop_handler ==
  /\ OemIdle /\ oemMode = "fastboot" /\ oemPartitioning' = "0"
  /\ oemRet' = [op |-> "stop", value |-> "okay"]
  /\ UNCHANGED <<oemMode, oemTable, oemKernel, oemReload, oemCall, oemFile, oemMigrated, oemDisk, oemFaults, nukeVars>>

\* "boot -p" finds the table of the drive, then cmd_reload is called directly.
oem_retrieve_partitions ==
  /\ OemIdle /\ oemMode = "fastboot"
  /\ \/ /\ oemPartitioning = "1" /\ oemKernel' = oemTable
        /\ oemRet' = [op |-> "retrieve", value |-> "okay"] /\ UNCHANGED oemFaults
     \/ /\ IF oemPartitioning = "1" THEN OemFault ELSE UNCHANGED oemFaults
        /\ oemRet' = [op |-> "retrieve", value |-> "fail"] /\ UNCHANGED oemKernel
  /\ UNCHANGED <<oemMode, oemPartitioning, oemTable, oemReload, oemCall, oemFile, oemMigrated, oemDisk, nukeVars>>
-----------------------------------------------------------------------------
(* The move from OSIP to GPT, and images written where a script says *)

\* strncmp(name, arg, strlen(arg)): arg may be a prefix of name.
Matches(name, arg) == name = arg \/ <<arg, name>> \in Abbrev

update_partitions == {"boot", "recovery", "fastboot"}
Reserved(line) == line.cmd = "add" /\ Matches("reserved", line.label)
NeedsUpdate(line) == line.cmd = "add" /\ \E n \in update_partitions : Matches(n, line.label)
LbaKnown(line) == NeedsUpdate(line) => line.label \in DOMAIN OsipLba
UpdatedLine(line) == IF NeedsUpdate(line) THEN [line EXCEPT !.lba = OsipLba[line.label]] ELSE line

\* The lines copied to PARTITION_UPDATE: reserved ones dropped, malformed ones
\* skipped, the OS partitions moved to where the OSIP has their images.
UpdatedLines(lines) ==
  LET kept == SelectSeq(lines, LAMBDA l : l.cmd # "malformed" /\ ~Reserved(l))
  IN [i \in DOMAIN kept |-> UpdatedLine(kept[i])]

\* Every failure answers "", with which the edify script goes on.
FlashOsipToGPTPartition ==
  /\ OemIdle /\ oemMode = "recovery" /\ oemReload' = FALSE
  /\ \E script \in Scripts :
       \/ /\ \A i \in DOMAIN script.lines : LbaKnown(script.lines[i])
          /\ oemFile' = UpdatedLines(script.lines)
          /\ Started("migrate", [script EXCEPT !.lines = UpdatedLines(script.lines)], "1")
          /\ UNCHANGED oemFaults
       \/ /\ \E i \in DOMAIN script.lines :
               /\ ~LbaKnown(script.lines[i])
               /\ \A j \in 1..(i - 1) : LbaKnown(script.lines[j])
               /\ oemFile' = UpdatedLines(SubSeq(script.lines, 1, i - 1))
          /\ oemRet' = [op |-> "migrate", value |-> ""] /\ oemMigrated' = FALSE
          /\ UNCHANGED <<oemFaults, oemCall, oemPartitioning>>
       \/ /\ OemFault /\ oemRet' = [op |-> "migrate", value |-> ""]   \* a file cannot be opened
          /\ UNCHANGED <<oemCall, oemPartitioning, oemFile, oemMigrated>>
  /\ UNCHANGED <<oemMode, oemTable, oemKernel, oemDisk, nukeVars>>

\* The first add line that matches osname gives the offset.
LineOf(osname, lines) == {i \in Adds(lines) : Matches(osname, lines[i].label)}
OffsetIn(osname, lines) == lines[CHOOSE i \in LineOf(osname, lines) : \A j \in LineOf(osname, lines) : i <= j].lba

\* Writing to the raw device until the whole file is there: done, or cut short.
WriteAt(lba, image, op, failure) ==
  \/ /\ oemDisk' = [oemDisk EXCEPT ![lba] = image] /\ UNCHANGED oemFaults /\ oemRet' = [op EXCEPT !.value = "t"]
  \/ /\ OemFault /\ oemDisk' \in {oemDisk, [oemDisk EXCEPT ![lba] = Torn]}
     /\ oemRet' = [op EXCEPT !.value = failure]

FlashImageAtPartition ==
  /\ OemIdle /\ oemMode = "recovery"
  /\ \E osname \in Labels, image \in Images :
       LET ret == [op |-> "image", value |-> "", label |-> osname, image |-> image]
       IN IF LineOf(osname, oemFile) = {}
          THEN oemRet' = ret /\ UNCHANGED <<oemDisk, oemFaults>>
          ELSE LET lba == OffsetIn(osname, oemFile)
               IN IF lba \in Lbas
                  THEN \/ WriteAt(lba, image, ret, "")
                       \/ OemFault /\ oemRet' = [ret EXCEPT !.value = "abort"] /\ UNCHANGED oemDisk  \* no image file
                  ELSE oemRet' = ret /\ UNCHANGED <<oemDisk, oemFaults>>
  /\ UNCHANGED <<oemMode, oemPartitioning, oemTable, oemKernel, oemReload, oemCall, oemFile, oemMigrated, nukeVars>>

FlashImageAtOffset ==
  /\ OemIdle /\ oemMode = "recovery"
  /\ \E lba \in Lbas, image \in Images : WriteAt(lba, image, [op |-> "offset", value |-> ""], "abort")
  /\ UNCHANGED <<oemMode, oemPartitioning, oemTable, oemKernel, oemReload, oemCall, oemFile, oemMigrated, nukeVars>>

\* flash_image writes to the block node the kernel has for the label; afterwards
\* a pointer malloc never returned is freed, which may end the process.
FlashOSImage ==
  /\ OemIdle /\ oemMode = "recovery"
  /\ \E label \in Labels, image \in Images :
       LET ret == [op |-> "os", value |-> "", label |-> label, image |-> image]
       IN \/ /\ oemKernel[label] = NoLba /\ oemRet' = [ret EXCEPT !.value = "abort"]
             /\ UNCHANGED <<oemDisk, oemFaults>>
          \/ /\ oemKernel[label] # NoLba /\ WriteAt(oemKernel[label], image, ret, "abort")
          \/ /\ oemKernel[label] # NoLba /\ oemDisk' = [oemDisk EXCEPT ![oemKernel[label]] = image]
             /\ oemRet' = [ret EXCEPT !.value = "crash"] /\ UNCHANGED oemFaults
  /\ UNCHANGED <<oemMode, oemPartitioning, oemTable, oemKernel, oemReload, oemCall, oemFile, oemMigrated, nukeVars>>

\* A reboot loads the table and forgets properties, functions and /tmp.
OemReboot ==
  /\ OemIdle /\ oemMode' \in {"fastboot", "recovery"} /\ oemPartitioning' = "" /\ oemKernel' = oemTable
  /\ oemReload' = TRUE /\ oemRet' = NoRet /\ oemFile' = <<>> /\ oemMigrated' = FALSE
  /\ nukeRet' = "none"
  /\ UNCHANGED <<oemTable, oemCall, oemDisk, oemFaults, nukeVol, nukePhase, nukePos, nukeCount, nukeWrites, nukeBuf, nukeErase>>
-----------------------------------------------------------------------------
(* nuke_volume: 0xFF over the whole volume, then a read-back *)

NukeEnd(ok) ==
  /\ nukePhase' = IF ok /\ nukeErase THEN "format" ELSE "idle"
  /\ nukeRet' = IF ok THEN "ok" ELSE "fail"
  /\ nukePos' = 0 /\ nukeCount' = 0 /\ nukeWrites' = 0 /\ nukeBuf' = "unset"

Smaller(a, b) == IF a <= b THEN a ELSE b
Left == Smaller(BufferBlocks, Len(nukeVol) - nukePos)   \* blocks up to the end of the device

\* oem wipe and oem erase; the volume may be unknown, a ramdisk or in use.
NukeStart ==
  /\ OemIdle /\ oemMode = "fastboot" /\ nukeErase' \in BOOLEAN
  /\ \/ nukePhase' = "write" /\ nukeRet' = "none" /\ UNCHANGED <<nukePos, nukeCount, nukeWrites, nukeBuf, oemFaults>>
     \/ OemFault /\ nukePhase' = "idle" /\ nukeRet' = "fail" /\ UNCHANGED <<nukePos, nukeCount, nukeWrites, nukeBuf>>
  /\ UNCHANGED <<oemMode, oemScriptVars, nukeVol>>

\* A write takes what is left of the device; at its end, and on an I/O error, it
\* returns -1.  A fault can also make it short.
NukeWrite ==
  /\ nukePhase = "write"
  /\ \/ \E n \in 1..Left :
          /\ IF n = Left THEN UNCHANGED oemFaults ELSE OemFault
          /\ nukeVol' = [i \in DOMAIN nukeVol |-> IF i \in (nukePos + 1)..(nukePos + n) THEN "ff" ELSE nukeVol[i]]
          /\ IF n = BufferBlocks
             THEN nukePos' = nukePos + n /\ nukeCount' = nukeCount + 1 /\ UNCHANGED <<nukePhase, nukeWrites>>
             ELSE nukePhase' = "read" /\ nukePos' = 0 /\ nukeCount' = 0 /\ nukeWrites' = nukeCount + 1
          /\ UNCHANGED <<nukeBuf, nukeRet>>
     \/ /\ IF Left = 0 THEN UNCHANGED oemFaults ELSE OemFault
        /\ NukeEnd(FALSE) /\ UNCHANGED nukeVol
  /\ UNCHANGED <<oemMode, oemScriptVars, nukeErase>>

\* One read of the read-back.  memcmp looks at the whole buffer: beyond a short
\* read that is what the previous read left there, or what malloc returned.
ReadBack(n) ==
  IF \E i \in (nukePos + 1)..(nukePos + n) : nukeVol[i] # "ff" THEN {FALSE}
  ELSE IF n = BufferBlocks \/ nukeBuf = "ff" THEN {TRUE} ELSE BOOLEAN

NukeRead ==
  /\ nukePhase = "read"
  /\ \/ /\ Left = 0 /\ NukeEnd(TRUE) /\ UNCHANGED oemFaults   \* read's 0 is returned as it is
     \/ \E n \in 1..Left :
          /\ IF n = Left THEN UNCHANGED oemFaults ELSE OemFault
          /\ \E same \in ReadBack(n) :
               IF same /\ n = BufferBlocks
               THEN /\ nukePos' = nukePos + n /\ nukeCount' = nukeCount + 1 /\ nukeBuf' = "ff"
                    /\ UNCHANGED <<nukePhase, nukeWrites, nukeRet>>
               ELSE NukeEnd(same /\ nukeCount + 1 = nukeWrites)
     \/ OemFault /\ NukeEnd(FALSE)
  /\ UNCHANGED <<oemMode, oemScriptVars, nukeErase, nukeVol>>

\* The second half of oem erase.
format_volume ==
  /\ nukePhase = "format" /\ nukePhase' = "idle"
  /\ \/ nukeVol' = [i \in DOMAIN nukeVol |-> IF i = 1 THEN "fs" ELSE nukeVol[i]] /\ nukeRet' = "ok" /\ UNCHANGED oemFaults
     \/ OemFault /\ nukeRet' = "fail" /\ UNCHANGED nukeVol
  /\ UNCHANGED <<oemMode, oemScriptVars, nukePos, nukeCount, nukeWrites, nukeBuf, nukeErase>>
OemScriptNext ==
  \/ oem_partition_cmd_handler \/ gfdisk \/ oem_partition_gpt_handler
  \/ oem_partition_start_handler \/ oem_partition_stop_handler \/ oem_retrieve_partitions
  \/ FlashPartition \/ FlashOsipToGPTPartition
  \/ FlashImageAtPartition \/ FlashImageAtOffset \/ FlashOSImage
  \/ OemReboot
NukeNext == NukeStart \/ NukeWrite \/ NukeRead \/ format_volume
OemNext == OemScriptNext \/ NukeNext

\* The one thread of droidboot, or of the updater, goes on with the command it
\* is running: every step of it is a call that returns.
OemFairness == WF_oemVars(oem_partition_gpt_handler \/ NukeWrite \/ NukeRead \/ format_volume)
OemSpec == OemInit /\ [][OemNext]_oemVars /\ OemFairness
-----------------------------------------------------------------------------
(* Properties *)

(* A partition script that is reported as done was applied to its last line:   *)
(* the table is the one its commands build, in order, from the one before.     *)
(* oem_partition_gpt_handler stops at the first failure and gfdisk ors the     *)
(* results, so no failure of an earlier line is forgotten.                     *)
SuccessAppliesTheWholeScript ==
  oemRet.op = "partition" /\ oemRet.value \in {"okay", "t", "0"} /\ oemRet.lines # <<>>
    => oemTable = FoldLeft(LAMBDA table, line : TableAfter(line, table), oemRet.start, oemRet.lines)

(* Except by gfdisk, the GPT changes only while sys.partitioning is "1":       *)
(* oem_partition_gpt_handler checks it once, before the first line of the      *)
(* script, and no command can run between two lines.                           *)
TableChangesOnlyWhilePartitioning ==
  oemTable' # oemTable => oemCall.caller = "gfdisk" \/ oemPartitioning = "1"

(* Under recovery sys.partitioning is "1" only inside a repartitioning call,   *)
(* whether or not the script failed.                                           *)
RecoveryLeavesPartitioningOff ==
  oemMode = "recovery" /\ oemCall = Idle => oemPartitioning # "1"

(* After a migration from OSIP to GPT that answered "t", an image flashed by   *)
(* name from the rewritten script lies where the GPT on the disk has that      *)
(* partition, although the kernel still has the old nodes.                     *)
MigratedImageIsInItsPartition ==
  oemMigrated /\ oemRet.op = "image" /\ oemRet.value = "t"
    => oemDisk[oemTable[oemRet.label]] = oemRet.image

(* When nuke_volume reports success after at most one short or failing         *)
(* transfer, the whole volume reads 0xFF.                                      *)
OneFaultWipeIsComplete ==
  oemFaults <= 1 /\ nukeRet = "ok" /\ (nukePhase = "format" \/ ~nukeErase)
    => \A i \in DOMAIN nukeVol : nukeVol[i] = "ff"

(* Every partition script and every erasure ends: the loops of                 *)
(* oem_partition_gpt_handler and nuke_volume each move on or stop.             *)
OemCommandsReturn == ~OemIdle ~> OemIdle
=============================================================================
