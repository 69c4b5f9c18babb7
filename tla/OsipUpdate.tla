----------------------------- MODULE OsipUpdate -----------------------------
(***************************************************************************)
(* The OS image profile (OSIP) and the tools that flash images through it  *)
(* (libintelprov/update_osip.c, flash_osip/bootimage.c, flashtool.c).      *)
(* Sector 0 of the eMMC holds a table of images.  An image is written to a *)
(* slot that no entry uses, and only then is the table replaced.  Power    *)
(* may be cut, or a call may fail, at every step.  One tool runs at a      *)
(* time.                                                                   *)
(***************************************************************************)
EXTENDS Integers, Sequences, FiniteSets

CONSTANTS
  MAX_OSIP_DESC,    \* entries of the table
  FW_START_OFFSET,  \* first sector of the firmware slots
  FW_MAX_LBA,       \* sectors of a firmware slot
  OS_MAX_LBA,       \* sectors of an OS slot
  DiskSize,         \* sectors of the eMMC
  Destinations,     \* the names a tool is called with
  Images,           \* the stitched images a tool is given
  ImageSize,        \* size_of_os_image of each
  ImageAttr,        \* attribute of each, without the signed bit
  NoImage,          \* no image
  FactoryTables     \* the tables a device may leave the factory with

OsAttrs == {"KERNEL", "POS", "COS", "ROS", "COMB", "RAMDUMPOS"}
Attrs == OsAttrs \cup {"SPLASHSCREEN", "FW", "FILESYSTEM", "NOTUSED"}

\* get_named_osii_attr: the attribute a destination stands for ...
get_named_osii_attr ==
  [boot |-> "KERNEL", recovery |-> "ROS", fastboot |-> "POS",
   droidboot |-> "POS", splashscreen |-> "SPLASHSCREEN",
   splashscreen2 |-> "SPLASHSCREEN", splashscreen3 |-> "SPLASHSCREEN",
   splashscreen4 |-> "SPLASHSCREEN", silentlake |-> "FW",
   ramdump |-> "RAMDUMPOS"]

\* ... and which of the entries with that attribute.
InstanceOf(name) ==
  CASE name = "splashscreen2" -> 2
    [] name = "splashscreen3" -> 3
    [] name = "splashscreen4" -> 4
    [] OTHER -> 1

FW_SLOTS == 2

\* Mutant: no slot to spare.
OS_SLOTS_tight == MAX_OSIP_DESC

OS_SLOTS == MAX_OSIP_DESC + 1
OS_START_OFFSET == FW_START_OFFSET + FW_MAX_LBA * FW_SLOTS
fw_lba_slots == [j \in 0 .. FW_SLOTS - 1 |-> FW_START_OFFSET + FW_MAX_LBA * j]
os_lba_slots == [j \in 0 .. OS_SLOTS - 1 |-> OS_START_OFFSET + OS_MAX_LBA * j]

Sectors == 0 .. DiskSize - 1
NoData == <<NoImage, 0>>

\* An entry.  live: its load address and entry point are set.  img is
\* history: the image whose header the entry was copied from.
Entry == [attr : Attrs, lba : Nat, size : Nat, img : Images \cup {NoImage},
          live : BOOLEAN]

\* What a zeroed entry says.
DefaultEntry ==
  [attr |-> "KERNEL", lba |-> 0, size |-> 0, img |-> NoImage, live |-> FALSE]

Extent(e) == e.lba .. e.lba + e.size - 1
Overlap(d, e) == Extent(d) \cap Extent(e) # {}

ASSUME GeometryAssumption ==
  /\ MAX_OSIP_DESC \in Nat \ {0}
  /\ FW_START_OFFSET \in Nat \ {0}
  /\ FW_MAX_LBA \in Nat \ {0}
  /\ OS_MAX_LBA \in Nat /\ OS_MAX_LBA >= FW_MAX_LBA
  /\ DiskSize \in Nat /\ DiskSize >= OS_START_OFFSET + OS_MAX_LBA * OS_SLOTS

ASSUME ImagesAssumption ==
  /\ NoImage \notin Images
  /\ ImageSize \in [Images -> Nat \ {0}]
  /\ ImageAttr \in [Images -> Attrs]
  /\ Destinations \subseteq DOMAIN get_named_osii_attr

\* A factory table names images that lie on the disk and apart.
ASSUME FactoryAssumption ==
  \A t \in FactoryTables :
    /\ t \in Seq(Entry) /\ Len(t) <= MAX_OSIP_DESC
    /\ \A i \in DOMAIN t : /\ t[i].img \in Images
                           /\ t[i].size = ImageSize[t[i].img]
                           /\ t[i].lba + t[i].size <= DiskSize
    /\ \A i, j \in DOMAIN t : i # j => ~Overlap(t[i], t[j])

VARIABLES
  sig,       \* the table carries the OSIP signature
  desc,      \* the table on the disk: the first num_pointers entries
  backup,    \* the factory's backup of the table carries its signature
  disk,      \* the image and the sector of it that each sector holds
  op,        \* what the running tool is at
  unnoticed  \* history: a call failed and the code did not look

vars == <<sig, desc, backup, disk, op, unnoticed>>

Idle == [pc |-> "idle", tool |-> "none", img |-> NoImage, lba |-> 0,
         osip |-> <<>>, left |-> <<>>]

-----------------------------------------------------------------------------
(* Finding an entry and a slot.                                            *)

\* get_attribute_osii_index, counted from 1; 0 is its -1.
get_named_osii_index(name, writing) ==
  LET matches == {i \in DOMAIN desc : desc[i].attr = get_named_osii_attr[name]}
      hits == {i \in matches :
                 Cardinality({j \in matches : j <= i}) = InstanceOf(name)}
  IN  IF hits # {} THEN CHOOSE i \in hits : TRUE
      ELSE IF writing /\ Cardinality(matches) + 1 = InstanceOf(name)
        THEN Len(desc) + 1
        ELSE 0

\* Mutant: only the first sector of an image marks its slot as used.
Uses_start(e, slot, slot_size) == e.lba = slot

\* An image uses a slot when it starts or ends in it.
Uses(e, slot, slot_size) ==
  LET endlba == e.lba + 1 + e.size
  IN  \/ e.lba >= slot /\ e.lba < slot + slot_size
      \/ endlba >= slot /\ endlba < slot + slot_size

\* get_free_lba: the first slot that no entry uses, or 0.
get_free_lba(slots, slot_size, osip) ==
  LET free == {j \in DOMAIN slots : \A i \in DOMAIN osip :
                                      ~Uses(osip[i], slots[j], slot_size)}
  IN  IF free = {} THEN 0
      ELSE slots[CHOOSE j \in free : \A k \in free : j <= k]

get_free_fw_lba(osip) == get_free_lba(fw_lba_slots, FW_MAX_LBA, osip)
get_free_os_lba(osip) == get_free_lba(os_lba_slots, OS_MAX_LBA, osip)

-----------------------------------------------------------------------------
(* write_stitch_image_ex.                                                  *)

StartBlock(attr, large) ==
  CASE attr = "FW" -> get_free_fw_lba(desc)
    [] attr \in OsAttrs \cup {"SPLASHSCREEN"} ->
         IF large THEN OS_START_OFFSET ELSE get_free_os_lba(desc)
    [] OTHER -> 0

MaxSize(attr, large) ==
  IF attr = "FW" THEN FW_MAX_LBA
  ELSE IF large THEN OS_MAX_LBA * OS_SLOTS ELSE OS_MAX_LBA

\* Mutant: a flashed image is always live.
NewEntry_live(img, attr, index, lba) ==
  [attr |-> attr, lba |-> lba, size |-> ImageSize[img], img |-> img,
   live |-> TRUE]

\* The new entry keeps the invalidation of the one it replaces.
NewEntry(img, attr, index, lba) ==
  [attr |-> attr, lba |-> lba, size |-> ImageSize[img], img |-> img,
   live |-> index \in DOMAIN desc => desc[index].live]

\* An entry of a kind of its own is moved to the end, not replaced.
Moves(index, attr) ==
  /\ index \in DOMAIN desc
  /\ desc[index].attr \notin OsAttrs \cup {"NOTUSED", attr}

\* Mutant: the entry is overwritten before it is moved.
NewTable_late(index, e) ==
  IF index > Len(desc) THEN Append(desc, e)
  ELSE IF Moves(index, e.attr)
    THEN Append([desc EXCEPT ![index] = e], e)
    ELSE [desc EXCEPT ![index] = e]

NewTable(index, e) ==
  IF index > Len(desc) THEN Append(desc, e)
  ELSE IF Moves(index, e.attr)
    THEN Append([desc EXCEPT ![index] = e], desc[index])
    ELSE [desc EXCEPT ![index] = e]

\* Mutant: one entry too many.
InBounds_off(index) == index \in 1 .. MAX_OSIP_DESC + 1

\* check_index_outofbound.
InBounds(index) == index \in 1 .. MAX_OSIP_DESC

\* The call up to the first write.  destroy_the_osip_backup may fail and is
\* not asked.  Moving an entry past the end of a full table writes outside it:
\* what the process does then is not defined, and the model follows it no
\* further.
BeginStitch(tool, img, attr, index, large) ==
  LET lba == StartBlock(attr, large)
      e == NewEntry(img, attr, index, lba)
  IN  /\ InBounds(index)
      /\ backup' \in {backup, FALSE}
      /\ op' = IF lba = 0 \/ ImageSize[img] > MaxSize(attr, large) THEN Idle
               ELSE IF Moves(index, attr) /\ Len(desc) = MAX_OSIP_DESC
                 THEN [Idle EXCEPT !.pc = "overrun", !.tool = tool]
                 ELSE [pc |-> "data", tool |-> tool, img |-> img, lba |-> lba,
                       osip |-> NewTable(index, e), left |-> <<>>]
      /\ UNCHANGED <<sig, desc, disk, unnoticed>>

\* Mutant: the attribute is left as the image has it.
FlashImage_asis(name, img) ==
  /\ op.pc = "idle"
  /\ sig
  /\ BeginStitch("updater", img, ImageAttr[img],
                 get_named_osii_index(name, TRUE), FALSE)

\* flash_image_osip, for a device that is_osip: the image is given the
\* attribute of its destination.
FlashImage(name, img) ==
  /\ op.pc = "idle"
  /\ sig
  /\ BeginStitch("updater", img, get_named_osii_attr[name],
                 get_named_osii_index(name, TRUE), FALSE)

\* cmd_write_osip: the image keeps the attribute it was stitched with.
FlashtoolWrite(name, img) ==
  /\ op.pc = "idle"
  /\ BeginStitch("flashtool", img, ImageAttr[img],
                 get_named_osii_index(name, TRUE), FALSE)

Pending == {k \in 0 .. ImageSize[op.img] - 1 : disk[op.lba + k] # <<op.img, k>>}

\* The image reaches the disk sector by sector, in the order the kernel likes.
WriteSector(k) ==
  /\ op.pc = "data"
  /\ k \in Pending
  /\ disk' = [disk EXCEPT ![op.lba + k] = <<op.img, k>>]
  /\ UNCHANGED <<sig, desc, backup, op, unnoticed>>

\* fsync, then write_OSIP.  The table is within one sector, so it is replaced
\* whole or not at all.  fsync's result is not looked at: if it failed, part of
\* the image is still pending.
WriteOsip ==
  /\ op.pc = "data"
  /\ unnoticed' = (unnoticed \/ Pending # {})
  /\ desc' = op.osip
  /\ op' = Idle
  /\ UNCHANGED <<sig, backup, disk>>

-----------------------------------------------------------------------------
(* Operations on the table alone.                                          *)

\* update_osii, for a destination that has an entry.
Validated(name, live) ==
  LET index == get_named_osii_index(name, FALSE)
  IN  IF index = 0 THEN desc ELSE [desc EXCEPT ![index].live = live]

\* invalidate_osii and restore_osii.
UpdateOsii(name, live) ==
  /\ op.pc = "idle"
  /\ desc' = Validated(name, live)
  /\ UNCHANGED <<sig, backup, disk, op, unnoticed>>

\* oem_write_osip_header: a table of one zeroed entry, then three restores.
\* It is also how flash_image_osip begins for testos; img is then the image
\* that follows.  A failed write is not looked at.
OemWriteOsipHeader(img) ==
  /\ op.pc = "idle"
  /\ img # NoImage => sig
  /\ \E written \in BOOLEAN :
       /\ sig' = (sig \/ written)
       /\ desc' = IF written THEN <<DefaultEntry>> ELSE desc
       /\ unnoticed' = (unnoticed \/ ~written)
  /\ op' = [Idle EXCEPT !.pc = "restore", !.img = img,
                        !.left = <<"boot", "recovery", "fastboot">>]
  /\ UNCHANGED <<backup, disk>>

RestoreNext ==
  /\ op.pc = "restore"
  /\ op.left # <<>>
  /\ \E written \in BOOLEAN :
       /\ desc' = IF written THEN Validated(Head(op.left), TRUE) ELSE desc
       /\ unnoticed' = (unnoticed \/ ~written)
  /\ op' = [op EXCEPT !.left = Tail(@)]
  /\ UNCHANGED <<sig, backup, disk>>

\* After the restores: the oem command is done, testos is written.
RestoreDone ==
  /\ op.pc = "restore"
  /\ op.left = <<>>
  /\ \/ /\ op.img = NoImage
        /\ op' = Idle
        /\ UNCHANGED <<sig, desc, backup, disk, unnoticed>>
     \/ /\ op.img # NoImage
        /\ BeginStitch("updater", op.img, ImageAttr[op.img], 1, TRUE)

\* oem_erase_osip_header: a zeroed table, whose checksum is right.
OemEraseOsipHeader ==
  /\ op.pc = "idle"
  /\ sig' = FALSE
  /\ desc' = <<>>
  /\ UNCHANGED <<backup, disk, op, unnoticed>>

\* Power is cut, or a call fails and the tool returns: what it had in memory is
\* gone.
Stop ==
  /\ op.pc # "idle"
  /\ op' = Idle
  /\ UNCHANGED <<sig, desc, backup, disk, unnoticed>>

-----------------------------------------------------------------------------
FactoryDisk(t) ==
  [b \in Sectors |->
     IF \E i \in DOMAIN t : b \in Extent(t[i])
       THEN LET i == CHOOSE i \in DOMAIN t : b \in Extent(t[i])
            IN  <<t[i].img, b - t[i].lba>>
       ELSE NoData]

Init ==
  /\ sig = TRUE
  /\ desc \in FactoryTables
  /\ backup \in BOOLEAN
  /\ disk = FactoryDisk(desc)
  /\ op = Idle
  /\ unnoticed = FALSE

Next ==
  \/ \E name \in Destinations, img \in Images : FlashImage(name, img)
  \/ \E name \in Destinations, img \in Images : FlashtoolWrite(name, img)
  \/ \E k \in Sectors : WriteSector(k)
  \/ WriteOsip
  \/ \E name \in Destinations, live \in BOOLEAN : UpdateOsii(name, live)
  \/ \E img \in Images \cup {NoImage} : OemWriteOsipHeader(img)
  \/ RestoreNext
  \/ RestoreDone
  \/ OemEraseOsipHeader
  \/ Stop

Spec == Init /\ [][Next]_vars

-----------------------------------------------------------------------------
(* Correctness.                                                            *)

Ops == [pc : {"idle", "data", "restore", "overrun"},
        tool : {"none", "updater", "flashtool"},
        img : Images \cup {NoImage}, lba : Nat, osip : Seq(Entry),
        left : {<<>>, <<"fastboot">>, <<"recovery", "fastboot">>,
                <<"boot", "recovery", "fastboot">>}]

\* Types, and the table within its MAX_OSIP_DESC entries whatever was moved.
TypeOK ==
  /\ sig \in BOOLEAN
  /\ desc \in Seq(Entry) /\ Len(desc) <= MAX_OSIP_DESC
  /\ backup \in BOOLEAN
  /\ disk \in [Sectors -> (Images \cup {NoImage}) \X Nat]
  /\ op \in Ops /\ Len(op.osip) <= MAX_OSIP_DESC
  /\ unnoticed \in BOOLEAN

\* The entries whose use of a slot get_free_lba can see wherever they lie: an
\* image shorter than a slot, or one that fills the slot it starts.  The image
\* of testos may be longer.
Fits(e) ==
  \/ e.size < FW_MAX_LBA
  \/ e.lba >= OS_START_OFFSET /\ e.size < OS_MAX_LBA
  \/ \E j \in DOMAIN os_lba_slots :
       e.lba = os_lba_slots[j] /\ e.size <= OS_MAX_LBA
  \/ \E j \in DOMAIN fw_lba_slots :
       e.lba = fw_lba_slots[j] /\ e.size <= FW_MAX_LBA

\* read_osimage_data gets back what was flashed.
Whole(e) == \A k \in 0 .. e.size - 1 : disk[e.lba + k] = <<e.img, k>>

\* write_stitch_image never breaks an image the table names: wherever the power
\* was cut, every entry that fits reads back whole, unless an error went
\* unnoticed before.
NamedImagesAreWhole ==
  ~unnoticed => \A i \in DOMAIN desc : Fits(desc[i]) => Whole(desc[i])

\* The image is on a slot of its own and ends two sectors before the next.
Roomy(e) ==
  \/ e = [DefaultEntry EXCEPT !.live = e.live]
  \/ \E j \in DOMAIN os_lba_slots :
       e.lba = os_lba_slots[j] /\ e.size <= OS_MAX_LBA - 2
  \/ \E j \in DOMAIN fw_lba_slots :
       e.lba = fw_lba_slots[j] /\ e.size <= FW_MAX_LBA - 2

\* os_lba_slots has one slot more than the table has entries, so an update of
\* any entry finds a slot while the images leave the last two sectors of theirs:
\* get_free_lba counts the end of an image two sectors long.
SlotStaysAvailable ==
  (\A i \in DOMAIN desc : Roomy(desc[i])) => get_free_os_lba(desc) # 0

\* The updater never moves an entry past the end of a full table: the attribute
\* flash_image_osip sets is that of the entry it found, and testos goes to a
\* table just reset, unless the reset failed unnoticed.
UpdaterNeverOverruns ==
  op.pc = "overrun" => op.tool = "flashtool" \/ unnoticed

\* Flashing never revives an invalidated OS: the table write_stitch_image_ex
\* prepared before the long write keeps the invalidation.
InvalidationSurvives ==
  [][op.pc = "data" =>
       \A i \in DOMAIN desc \cap DOMAIN desc' : desc'[i].live => desc[i].live]_vars

\* update_osip.c, at get_free_lba: "We try to find a slot that is not already at
\* least partly used by already flashed image."
FreeSlotIsUnused ==
  LET slot == get_free_os_lba(desc)
  IN  ~unnoticed /\ slot # 0 =>
        \A i \in DOMAIN desc :
          Extent(desc[i]) \cap (slot .. slot + OS_MAX_LBA - 1) = {}

-----------------------------------------------------------------------------
(* The table as OsipContract sees it: each entry with what the disk holds.  *)

CONSTANTS Unprotected, Torn

ASSUME ContractAssumption == Unprotected # NoImage

Content(e) ==
  IF unnoticed \/ ~Fits(e) THEN Unprotected
  ELSE IF e.size = 0 THEN NoImage
  ELSE LET found == {img \in Images :
                       /\ ImageSize[img] = e.size
                       /\ \A k \in 0 .. e.size - 1 : disk[e.lba + k] = <<img, k>>}
       IN  IF found = {} THEN Torn ELSE CHOOSE img \in found : TRUE

Table ==
  [i \in 1 .. Len(desc) |->
     [attr |-> desc[i].attr, live |-> desc[i].live, content |-> Content(desc[i])]]

Contract == INSTANCE OsipContract WITH MaxEntries <- MAX_OSIP_DESC,
                                       table <- Table

\* Whatever is flashed and whenever the power is cut, write_stitch_image_ex and
\* the operations on the table act as the atomic updates of OsipContract.
ContractHolds == Contract!Spec

=============================================================================
