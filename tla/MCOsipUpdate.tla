---------------------------- MODULE MCOsipUpdate ----------------------------
(***************************************************************************)
(* An instance of OsipUpdate for TLC.                                      *)
(***************************************************************************)
EXTENDS OsipUpdate

CONSTANT TestSize  \* sectors of the testos image, more than a slot

MCImages == {"full", "small", "test"}
MCImageSize == [full |-> 3, small |-> 1, test |-> TestSize]
MCImageAttr == [full |-> "KERNEL", small |-> "FW", test |-> "KERNEL"]

FactoryEntry(img, attr, lba) ==
  [attr |-> attr, lba |-> lba, size |-> ImageSize[img], img |-> img,
   live |-> TRUE]

\* A table on the slots, and one from before there were slots.
MCFactoryTables ==
  {<<FactoryEntry("full", "KERNEL", OS_START_OFFSET)>>,
   <<FactoryEntry("small", "SPLASHSCREEN", OS_START_OFFSET + 1)>>}

\* Sectors that hold what is left of an image nothing names any more.
Leftovers ==
  {b \in Sectors : /\ disk[b] # NoData
                   /\ \A i \in DOMAIN desc : b \notin Extent(desc[i])
                   /\ \A i \in DOMAIN op.osip : b \notin Extent(op.osip[i])}

\* Bounds.  Old data is never read, so a few sectors of it stand for many.  An
\* operation with an unnoticed failure is followed to its end.
MaxLeftovers == 3
Explored ==
  /\ Cardinality(Leftovers) <= MaxLeftovers
  /\ unnoticed => op.pc # "idle"

\* Nothing reads the backup, so states that differ in it alone are one.
BackupAside == <<sig, desc, disk, op, unnoticed>>

=============================================================================
