------------------------------ MODULE Droidboot ------------------------------
(* The fastboot commands of droidboot.c, the operation tables of flash.c and   *)
(* flash_ops.c they go through, and the boot image writer of flash_gpt.        *)
(* Droidboot runs one command at a time; an init service, driven by the        *)
(* property sys.backup_factory, saves and restores the factory partition.      *)
EXTENDS Integers, Sequences, FiniteSets

CONSTANTS Polls,       \* seconds wait_property waits
          BootImages,  \* images flashed to boot partitions
          MaxDbFaults

DroidbootAssumption == Polls \in Nat \ {0} /\ IsFiniteSet(BootImages) /\ MaxDbFaults \in Nat
ASSUME DroidbootAssumption

VARIABLES dbBoard,     \* [user, boot, ifwi]: build type, boot media, firmware family
          dbCall,      \* the command that waits, with the polls made
          dbReply,     \* [cmd, ok]: how the last command ended
          dbProp,      \* sys.backup_factory
          dbJob,       \* what the service is doing
          dbFactory,   \* content of the factory partition
          dbBackup,    \* content of the copy
          dbTouched,   \* the partition was erased under the service's job
          dbTimedOut,  \* a command gave up waiting for the service
          dbTimeout,   \* the DnX timeout byte of the UMIP
          dbShown,     \* what dnx_timeout get last printed
          dbNodes,     \* content of the boot partitions, by name
          dbState,     \* "up", or what the next boot is to start
          dbFaults
dbVars == <<dbBoard, dbCall, dbReply, dbProp, dbJob, dbFactory, dbBackup, dbTouched, dbTimedOut,
            dbTimeout, dbShown, dbNodes, dbState, dbFaults>>
dbFactoryVars == <<dbProp, dbJob, dbFactory, dbBackup, dbTouched, dbTimedOut>>
dbFlashVars == <<dbTimeout, dbShown, dbNodes>>

NoWait == [cmd |-> "none", polls |-> 0]
Blank == "blank"
Mixed == "mixed"       \* part of one content and part of another
TimeoutNames == {"infinite", "tenseconds", "threeseconds", "zeroseconds"}
TimeoutByte == [infinite |-> 63, tenseconds |-> 45, threeseconds |-> 27, zeroseconds |-> 0]
Nodes == {"boot", "recovery", "fastboot"}

DroidbootTypeOK ==
  /\ dbBoard \in [user : BOOLEAN, boot : {"gpt", "osip", "none"}, ifwi : {"ipc", "emmc"}]
  /\ dbCall \in [cmd : {"none", "backup_factory", "restore_factory"}, polls : 0..Polls]
  /\ dbReply.ok \in BOOLEAN
  /\ dbProp \in {"", "backup", "restore", "done"} /\ dbJob \in {"idle", "backup", "restore"}
  /\ dbFactory \in {"factory", Blank, Mixed} /\ dbBackup \in {"none", "factory", Blank, Mixed}
  /\ dbTouched \in BOOLEAN /\ dbTimedOut \in BOOLEAN
  /\ dbTimeout \in 0..255 /\ dbShown \in TimeoutNames \cup {"nothing"}
  /\ dbNodes \in [Nodes -> BootImages \cup {"old", Mixed}]
  /\ dbState \in {"up", "android", "bootloader", "dead"} /\ dbFaults \in 0..MaxDbFaults

DroidbootInit ==
  /\ dbBoard \in [user : BOOLEAN, boot : {"gpt", "osip", "none"}, ifwi : {"ipc", "emmc"}]
  /\ dbCall = NoWait /\ dbReply = [cmd |-> "none", ok |-> TRUE]
  /\ dbProp = "" /\ dbJob = "idle" /\ dbFactory = "factory" /\ dbBackup = "none"
  /\ dbTouched = FALSE /\ dbTimedOut = FALSE
  /\ dbTimeout = TimeoutByte["infinite"] /\ dbShown = "nothing"
  /\ dbNodes = [n \in Nodes |-> "old"] /\ dbState = "up" /\ dbFaults = 0

DbIdle == dbState = "up" /\ dbCall = NoWait
DbFault == dbFaults < MaxDbFaults /\ dbFaults' = dbFaults + 1
Reply(cmd, ok) == dbReply' = [cmd |-> cmd, ok |-> ok]

\* libintel_droidboot_init registers these only when ro.build.type is not "user".
Registered(cmd) == cmd \in {"dnx_timeout", "custom_boot", "erase_token"} => ~dbBoard.user

\* ops_call: the operation of the board's family, or stub_operation, which fails.
\* The SCU IPC family has no UMIP operations.
UmipOps == dbBoard.ifwi = "emmc"
-----------------------------------------------------------------------------
(* Factory backup and restore *)

oem_backup_factory ==
  /\ DbIdle
  /\ IF dbProp \in {"", "done"}
     THEN /\ dbProp' = "backup" /\ dbCall' = [cmd |-> "backup_factory", polls |-> 0]
          /\ UNCHANGED dbReply
     ELSE Reply("backup_factory", FALSE) /\ UNCHANGED <<dbProp, dbCall>>
  /\ UNCHANGED <<dbBoard, dbJob, dbFactory, dbBackup, dbTouched, dbTimedOut, dbFlashVars, dbState, dbFaults>>

\* A faulty variant; no step uses it.
MayRestore_unfinished == dbProp # ""

MayRestore == dbProp = "done"
oem_restore_factory ==
  /\ DbIdle
  /\ IF MayRestore
     THEN /\ dbProp' = "restore" /\ dbCall' = [cmd |-> "restore_factory", polls |-> 0]
          /\ UNCHANGED dbReply
     ELSE Reply("restore_factory", FALSE) /\ UNCHANGED <<dbProp, dbCall>>
  /\ UNCHANGED <<dbBoard, dbJob, dbFactory, dbBackup, dbTouched, dbTimedOut, dbFlashVars, dbState, dbFaults>>

\* One turn of wait_property's loop; the command fails when the polls are spent.
wait_property ==
  /\ dbCall # NoWait
  /\ \/ dbProp = "done" /\ dbCall' = NoWait /\ Reply(dbCall.cmd, TRUE) /\ UNCHANGED dbTimedOut
     \/ /\ dbProp # "done" /\ dbCall.polls < Polls - 1
        /\ dbCall' = [dbCall EXCEPT !.polls = @ + 1] /\ UNCHANGED <<dbReply, dbTimedOut>>
     \/ /\ dbProp # "done" /\ dbCall.polls = Polls - 1
        /\ dbCall' = NoWait /\ Reply(dbCall.cmd, FALSE)
        /\ dbTimedOut' = TRUE
  /\ UNCHANGED <<dbBoard, dbProp, dbJob, dbFactory, dbBackup, dbTouched, dbFlashVars, dbState, dbFaults>>

\* External: init starts the job the property names, once per change of it.  A
\* job that fails never sets "done".
ServiceStart ==
  /\ dbState = "up" /\ dbJob = "idle" /\ dbProp \in {"backup", "restore"} /\ dbJob' = dbProp
  /\ dbTouched' = FALSE
  /\ IF dbProp = "backup" THEN dbBackup' = Mixed /\ UNCHANGED dbFactory
                          ELSE dbFactory' = Mixed /\ UNCHANGED dbBackup
  /\ UNCHANGED <<dbBoard, dbCall, dbReply, dbProp, dbTimedOut, dbFlashVars, dbState, dbFaults>>
ServiceDone ==
  /\ dbState = "up" /\ dbJob # "idle" /\ dbJob' = "idle" /\ dbProp' = "done"
  /\ IF dbJob = "backup"
     THEN dbBackup' = (IF dbTouched THEN Mixed ELSE dbFactory) /\ UNCHANGED dbFactory
     ELSE dbFactory' = (IF dbTouched THEN Mixed ELSE dbBackup) /\ UNCHANGED dbBackup
  /\ UNCHANGED <<dbBoard, dbCall, dbReply, dbTouched, dbTimedOut, dbFlashVars, dbState, dbFaults>>

\* oem erase factory, or a partition script that moves it.
EraseFactory ==
  /\ DbIdle /\ dbFactory' = Blank /\ dbTouched' = TRUE /\ Reply("erase", TRUE)
  /\ UNCHANGED <<dbBoard, dbCall, dbProp, dbJob, dbBackup, dbTimedOut, dbFlashVars, dbState, dbFaults>>
-----------------------------------------------------------------------------
(* The DnX timeout and the other UMIP bytes *)

TimeoutName(byte) == {n \in TimeoutNames : TimeoutByte[n] = byte}

\* "get": one of the four names, or "invalid timeout value"; a stub or a failed
\* read gives -1.
dnx_timeout_get ==
  /\ DbIdle /\ Registered("dnx_timeout")
  /\ \/ /\ UmipOps /\ TimeoutName(dbTimeout) # {}
        /\ dbShown' \in TimeoutName(dbTimeout) /\ Reply("dnx_timeout get", TRUE) /\ UNCHANGED dbFaults
     \/ /\ UmipOps /\ TimeoutName(dbTimeout) # {} => DbFault
        /\ ~(UmipOps /\ TimeoutName(dbTimeout) # {}) => UNCHANGED dbFaults
        /\ Reply("dnx_timeout get", FALSE) /\ UNCHANGED dbShown
  /\ UNCHANGED <<dbBoard, dbCall, dbFactoryVars, dbTimeout, dbNodes, dbState>>

\* "set": write_umip fails with the byte written or not.
dnx_timeout_set ==
  /\ DbIdle /\ Registered("dnx_timeout")
  /\ \E name \in TimeoutNames :
       \/ /\ UmipOps /\ dbTimeout' = TimeoutByte[name] /\ UNCHANGED dbFaults
          /\ dbReply' = [cmd |-> "dnx_timeout set", ok |-> TRUE, name |-> name]
       \/ /\ IF UmipOps THEN DbFault /\ dbTimeout' \in {dbTimeout, TimeoutByte[name]}
                        ELSE UNCHANGED <<dbFaults, dbTimeout>>
          /\ Reply("dnx_timeout set", FALSE)
  /\ UNCHANGED <<dbBoard, dbCall, dbFactoryVars, dbShown, dbNodes, dbState>>

\* custom_boot refuses the values EINVAL and ERANGE have; erase_token takes none.
UmipCommand ==
  /\ DbIdle
  /\ \E cmd \in {"custom_boot", "erase_token"}, bad \in BOOLEAN :
       /\ Registered(cmd)
       /\ \/ ~bad /\ UmipOps /\ Reply(cmd, TRUE) /\ UNCHANGED dbFaults
          \/ /\ IF ~bad /\ UmipOps THEN DbFault ELSE UNCHANGED dbFaults
             /\ Reply(cmd, FALSE)
  /\ UNCHANGED <<dbBoard, dbCall, dbFactoryVars, dbFlashVars, dbState>>
-----------------------------------------------------------------------------
(* Boot images, and the commands that only answer *)

\* testos goes where the Android image goes.
NodeFor(name) == IF name = "testos" THEN "boot" ELSE name

\* flash_image on a GPT board writes the node; a failed file_write has
\* overwritten part of it.  OSIP boards are the subject of OsipUpdate.
flash_image_gpt ==
  /\ DbIdle /\ dbBoard.boot = "gpt"
  /\ \E name \in Nodes \cup {"testos"}, image \in BootImages :
       \/ /\ dbNodes' = [dbNodes EXCEPT ![NodeFor(name)] = image] /\ UNCHANGED dbFaults
          /\ dbReply' = [cmd |-> "flash", ok |-> TRUE, name |-> name, image |-> image]
       \/ /\ DbFault /\ dbNodes' \in {dbNodes, [dbNodes EXCEPT ![NodeFor(name)] = Mixed]}
          /\ Reply("flash", FALSE)
  /\ UNCHANGED <<dbBoard, dbCall, dbFactoryVars, dbTimeout, dbShown, dbState>>
flash_image_stub ==
  /\ DbIdle /\ dbBoard.boot = "none" /\ Reply("flash", FALSE)
  /\ UNCHANGED <<dbBoard, dbCall, dbFactoryVars, dbFlashVars, dbState, dbFaults>>

oem_config ==
  /\ DbIdle
  /\ \/ Reply("config", TRUE) /\ UNCHANGED dbFaults
     \/ DbFault /\ Reply("config", FALSE)
  /\ UNCHANGED <<dbBoard, dbCall, dbFactoryVars, dbFlashVars, dbState>>

oem_mount ==
  /\ DbIdle
  /\ \/ dbBoard.boot = "gpt" /\ Reply("mount", TRUE) /\ UNCHANGED dbFaults
     \/ (IF dbBoard.boot = "gpt" THEN DbFault ELSE UNCHANGED dbFaults) /\ Reply("mount", FALSE)
  /\ UNCHANGED <<dbBoard, dbCall, dbFactoryVars, dbFlashVars, dbState>>

oem_get_batt_info_handler ==
  /\ DbIdle
  /\ \/ Reply("get_batt_info", TRUE) /\ UNCHANGED dbFaults
     \/ DbFault /\ Reply("get_batt_info", FALSE)
  /\ UNCHANGED <<dbBoard, dbCall, dbFactoryVars, dbFlashVars, dbState>>

\* OKAY is sent before the reboot is tried.
oem_reboot ==
  /\ DbIdle /\ dbState' \in {"android", "bootloader"} /\ Reply("reboot", TRUE)
  /\ UNCHANGED <<dbBoard, dbCall, dbFactoryVars, dbFlashVars, dbFaults>>

\* libintel_droidboot_init: a refused registration ends droidboot; a property
\* does not survive the boot.
libintel_droidboot_init ==
  /\ dbState # "up"
  /\ \/ dbState # "dead" /\ dbState' = "up" /\ UNCHANGED dbFaults
     \/ DbFault /\ dbState' = "dead"
     \/ dbState = "dead" /\ dbState' = "android" /\ UNCHANGED dbFaults   \* the user restarts it
  /\ dbProp' = "" /\ dbJob' = "idle" /\ dbTouched' = FALSE
  /\ dbBackup' = "none" /\ UNCHANGED <<dbFactory, dbTimedOut>>
  /\ Reply("none", TRUE) /\ UNCHANGED <<dbBoard, dbCall, dbFlashVars>>

FactoryNext ==
  \/ oem_backup_factory \/ oem_restore_factory \/ wait_property
  \/ ServiceStart \/ ServiceDone \/ EraseFactory \/ oem_reboot \/ libintel_droidboot_init
CommandNext ==
  \/ dnx_timeout_get \/ dnx_timeout_set \/ UmipCommand
  \/ flash_image_gpt \/ flash_image_stub \/ oem_config \/ oem_mount \/ oem_get_batt_info_handler
DroidbootNext == FactoryNext \/ CommandNext

\* droidboot's thread sleeps for a second and goes on.
DroidbootFairness == WF_dbVars(wait_property)
DroidbootSpec == DroidbootInit /\ [][DroidbootNext]_dbVars /\ DroidbootFairness
-----------------------------------------------------------------------------
(* Properties *)

(* As long as no command gave up waiting for the service, a restored factory   *)
(* partition is a whole earlier content of it: restore_factory insists on      *)
(* "done", and no command runs while backup_factory waits, so nothing erases   *)
(* the partition under a backup.                                               *)
RestoredFactoryIsWhole ==
  ~dbTimedOut /\ dbReply = [cmd |-> "restore_factory", ok |-> TRUE] /\ dbJob = "idle" => dbFactory # Mixed

(* The service never has a backup and a restore to do at once: a command that  *)
(* was given up leaves the property at its own name, which refuses the next.   *)
OneFactoryJob == dbJob # "idle" => dbProp = dbJob

(* backup_factory and restore_factory answer, whatever the service does:       *)
(* wait_property counts its polls.                                             *)
FactoryCommandsAnswer == dbCall # NoWait ~> dbCall = NoWait

(* dnx_timeout get, right after a set that was acknowledged, prints the name   *)
(* that was set: the byte code is decoded as it was encoded.                   *)
TimeoutReadsBack ==
  dbReply.cmd = "dnx_timeout set" /\ dbReply.ok /\ dbReply'.cmd = "dnx_timeout get" /\ dbReply'.ok
    => dbShown' = dbReply.name
=============================================================================
