---------------------------- MODULE MCProvision ----------------------------
(* The provisioning tools for TLC.  They do not share state, so one run takes  *)
(* one of them at a time: part says which, and the others stay as they began.  *)
EXTENDS OemPartition, Droidboot, TeeProvision, RecoveryPatch, HealthdBoard

Line(cmd) == [cmd |-> cmd, label |-> "none", lba |-> NoLba]
Add(label, lba) == [cmd |-> "add", label |-> label, lba |-> lba]
Script(type, lines) == [type |-> type, lines |-> lines]
MCScripts == {Script("gpt", <<Line("create"), Add("reserved", 1), Add("boot", 2), Add("data", 2), Line("reload")>>),
              Script("gpt", <<Line("malformed"), Add("recovery", 1), Line("repair")>>),
              Script("gpt", <<Add("data", 1), Line("unknown"), Line("reload")>>),
              Script("mbr", <<>>), Script("none", <<>>)}
MCOsipLba == ("boot" :> 1)
MCVolumes == {<<"data", "ff", "data">>, <<"data">>, <<"data", "data", "data", "data">>,
              <<"data", "data", "data", "data", "data">>}

MCGroups == [short |-> << << <<<<1, 2>>>>, <<<<3, 4>>, <<5, 6>>>> >>, << <<<<7, 8>>>> >> >>,
             long |-> << << <<<<1, 2>>, <<1, 3>>>> >>, << <<<<2, 2>>, <<2, 3>>>>, <<<<3, 1>>>> >> >>,
             wide |-> << << <<<<1, 1>>, <<1, 2>>, <<1, 3>>>> >> >>,
             none |-> <<>>]
Entry(kind, fits, token) == [kind |-> kind, fits |-> fits, token |-> token]
MCBomZips == {<<Entry("other", TRUE, "good"), Entry("ifwi", TRUE, "good"), Entry("ifwi", TRUE, "good")>>,
              <<Entry("ifwi", FALSE, "broken"), Entry("ifwi", TRUE, "none"), Entry("ifwi", TRUE, "broken")>>}

VARIABLE part
mcVars == <<part, oemVars, dbVars, teeVars, recVars, hbVars>>

\* The boards healthd finds, and the rest when it is not the part that runs.
MCBoards == {[mos |-> TRUE, present |-> TRUE, semValid |-> TRUE],
             [mos |-> FALSE, present |-> TRUE, semValid |-> FALSE],
             [mos |-> FALSE, present |-> FALSE, semValid |-> TRUE]}

MCInit ==
  /\ part \in {"scripts", "erase", "factory", "command", "tee_read", "tee_update", "recovery", "healthd"}
  /\ HealthdInit
  /\ IF part = "healthd" THEN hbBoard \in MCBoards
     ELSE hbBoard = [mos |-> TRUE, present |-> TRUE, semValid |-> TRUE] /\ hbThread = "poll"
  /\ OemInit
  /\ part # "erase" => nukeVol = CHOOSE v \in Volumes : TRUE
  /\ part # "scripts" => oemMode = "fastboot" /\ oemTable = Bare
  /\ DroidbootInit
  /\ part # "command" => dbBoard = [user |-> TRUE, boot |-> "gpt", ifwi |-> "ipc"]
  /\ TeeInit
  /\ part \notin {"tee_read", "tee_update"} => teeBuild
  /\ RecoveryInit
  /\ part # "recovery" => /\ recBoard = [media |-> "gpt", signed |-> FALSE, quick |-> FALSE]
                          /\ recBoot = Source /\ recImg = Target /\ recPatch = Target

MCNext ==
  \/ /\ \/ part = "scripts" /\ OemScriptNext
        \/ part = "erase" /\ NukeNext
     /\ UNCHANGED <<part, dbVars, teeVars, recVars, hbVars>>
  \/ /\ \/ part = "factory" /\ FactoryNext
        \/ part = "command" /\ CommandNext
     /\ UNCHANGED <<part, oemVars, teeVars, recVars, hbVars>>
  \/ /\ \/ part = "tee_read" /\ TeeReadNext
        \/ part = "tee_update" /\ TeeUpdateNext
     /\ UNCHANGED <<part, oemVars, dbVars, recVars, hbVars>>
  \/ part = "recovery" /\ RecoveryNext /\ UNCHANGED <<part, oemVars, dbVars, teeVars, hbVars>>
  \/ part = "healthd" /\ HealthdNext /\ UNCHANGED <<part, oemVars, dbVars, teeVars, recVars>>

MCSpec == /\ MCInit /\ [][MCNext]_mcVars
          /\ OemFairness /\ DroidbootFairness /\ WF_recVars(part = "recovery" /\ RecoverySteps)
          /\ HealthdFairness

-----------------------------------------------------------------------------
(* Properties *)

(* Partitioning is all or nothing for who reads its answer: success means the  *)
(* whole script, sys.partitioning goes off again, a migrated image lies in its *)
(* partition, and a wipe with at most one fault reaches every block.           *)
PartitioningIsSafe ==
  /\ part \in {"scripts", "erase"} => OemTypeOK
  /\ SuccessAppliesTheWholeScript /\ RecoveryLeavesPartitioningOff
  /\ MigratedImageIsInItsPartition /\ OneFaultWipeIsComplete

(* What a board gets in the factory stays whole: a restored /factory is a      *)
(* complete backup, backup and restore exclude each other, the FRU record sums *)
(* to zero, and a refused BOM token leaves no session of the TEE open.         *)
FactoryDataIsWhole ==
  /\ part \in {"factory", "command"} => DroidbootTypeOK
  /\ part \in {"tee_read", "tee_update"} => TeeTypeOK
  /\ part = "recovery" => RecoveryTypeOK
  /\ RestoredFactoryIsWhole /\ OneFactoryJob
  /\ FruChecksumHolds /\ RefusedBomLeavesNoSession

(* No step of a tool does what its caller did not ask: the table moves only    *)
(* while partitioning, what was set is read back, a printed token is a prefix  *)
(* of the TEE's, and recovery becomes the target or torn, nothing else.        *)
ToolStepsAreRight ==
  [][/\ TableChangesOnlyWhilePartitioning /\ TimeoutReadsBack /\ FruReadsBack
     /\ PayloadIsAPrefixOfTheToken /\ OnlyTheTargetIsInstalled]_mcVars

(* Every tool comes to its end: commands answer, the recovery image is         *)
(* installed at last, a battery update returns, and a shutdown of the board    *)
(* saves the gauge.                                                            *)
ToolsFinish ==
  /\ OemCommandsReturn /\ FactoryCommandsAnswer /\ RecoveryGetsInstalled
  /\ BatteryUpdateReturns /\ ShutdownSavesTheGauge
=============================================================================
