------------------------------ MODULE MCFlash ------------------------------
(***************************************************************************)
(* The writers of the partition table and of the firmware for TLC.  They   *)
(* share no state: "part" says which one a behaviour runs, so their state  *)
(* spaces add up.                                                          *)
(***************************************************************************)
EXTENDS GptDisk, Firmware, TLC

\* cgpt: a drive of three usable sectors.
Add(i, type, first, size) ==
  [partition |-> i, type |-> type, first |-> first, size |-> size,
   guid |-> NoGuid, priority |-> -1, label |-> TRUE]

\* New partitions that fit, overlap and lie outside; one that is moved, one
\* that is deleted; one whose label cannot be converted.
MCAddParams ==
  {Add(0, "kernel", 1, 2), Add(0, "kernel", 2, 2),
   Add(0, "data", LastUsable, 2),
   Add(1, "keep", LastUsable, 0), Add(1, "unused", 0, 0),
   [Add(2, "keep", 0, 1) EXCEPT !.label = FALSE]}

GuidSymmetry == Permutations(Guids)
-----------------------------------------------------------------------------
V(major, minor) == [major |-> major, minor |-> minor]

Img(tag, fips) == [fips |-> fips, umip |-> "image", tag |-> tag]
MCFamily == V(1, 4097)
MCEmmcImages == {Img("factory", <<V(0, 0), MCFamily>>), Img("newer", <<V(1, 4098)>>),
                 Img("othertype", <<V(1, 8193)>>), Img("othermajor", <<V(2, 4097)>>),
                 Img("nofip", <<>>)}

Ipc(tag, fips, pti) == [fips |-> fips, pti |-> pti, tag |-> tag]
MCIpcFactory == Ipc("factory", <<V(1, 2)>>, "off")
MCIpcImages == {MCIpcFactory, Ipc("old", <<V(0, 0), V(1, 1)>>, "off"),
                Ipc("olddev", <<V(1, 1)>>, "on"), Ipc("newer", <<V(1, 3)>>, "off"),
                Ipc("newest", <<V(1, 4)>>, "off"), Ipc("other", <<V(2, 3)>>, "off"),
                Ipc("nosmip", <<V(1, 3)>>, "missing"), Ipc("nofip", <<>>, "off")}

Tag(version) == [version |-> version, reached |-> TRUE]
MCDevice == [pdr |-> 1, iafw |-> 1, sec |-> 1]
Cap(tag, pdr, iafw, sec) == [pdr |-> pdr, iafw |-> iafw, sec |-> sec, tag |-> tag]
MCCapsules == {Cap("same", <<Tag(1)>>, <<Tag(1)>>, <<Tag(1), Tag(1)>>),
               Cap("newpdr", <<Tag(2)>>, <<>>, <<>>), Cap("newsec", <<>>, <<Tag(1)>>, <<Tag(1), Tag(2)>>),
               Cap("untagged", <<>>, <<>>, <<>>)}
Component(magic, flash) == [magic |-> magic, flash |-> flash]
MCContainers == UNION {[1..n -> {Component("fastboot", TRUE), Component("ifwi", TRUE),
                                 Component("fastboot", FALSE), Component("capsule", TRUE)}]
                       : n \in 1..3}

VARIABLE part
mcVars == <<part, gptVars, firmwareVars>>

MCInit ==
  /\ part \in {"gpt", "emmc", "ipc", "capsule", "bootloader"}
  /\ GptInit
  /\ EmmcInit /\ (part # "emmc" => emmcBoot[0].token = CHOOSE t \in Tokens : TRUE)
  /\ IpcInit /\ (part # "ipc" => ipcDnx = CHOOSE d \in DnxBinaries : TRUE)
  /\ CapsuleInit /\ (part # "capsule" => capBoard = "none")

MCNext ==
  /\ UNCHANGED part
  /\ \/ part = "gpt" /\ GptNext /\ UNCHANGED <<emmcVars, ipcVars, capsuleVars>>
     \/ part = "emmc" /\ EmmcNext /\ UNCHANGED <<gptVars, ipcVars, capsuleVars>>
     \/ part = "ipc" /\ IpcNext /\ UNCHANGED <<gptVars, emmcVars, capsuleVars>>
     \/ part = "capsule" /\ CapNext /\ UNCHANGED <<gptVars, emmcVars, ipcVars>>
     \/ part = "bootloader" /\ BlNext /\ UNCHANGED <<gptVars, emmcVars, ipcVars>>

MCSpec == MCInit /\ [][MCNext]_mcVars
=============================================================================
