-------------------------- MODULE OsipUpdateProofs --------------------------
(***************************************************************************)
(* Proofs about OsipUpdate: no flash breaks an image the table names, and  *)
(* the table behaves as OsipContract.                                      *)
(***************************************************************************)
EXTENDS OsipUpdate, SequenceTheorems, FiniteSetTheorems,
        WellFoundedInduction, NaturalsInduction, TLAPS

-----------------------------------------------------------------------------
(* Slots.                                                                  *)

\* Multiplication distributes over addition.
LEMMA Distributes ==
  ASSUME NEW a \in Nat, NEW b \in Nat, NEW c \in Nat
  PROVE  /\ a * (b + c) = a * b + a * c
         /\ a * b \in Nat /\ a * c \in Nat
OBVIOUS

\* The firmware slots lie below the OS slots, and the OS slots on the disk.
LEMMA SlotBounds ==
  /\ OS_START_OFFSET \in Nat \ {0}
  /\ \A j \in DOMAIN fw_lba_slots :
       /\ fw_lba_slots[j] \in Nat \ {0}
       /\ fw_lba_slots[j] + FW_MAX_LBA <= OS_START_OFFSET
  /\ \A j \in DOMAIN os_lba_slots :
       /\ os_lba_slots[j] \in Nat
       /\ os_lba_slots[j] >= OS_START_OFFSET
       /\ os_lba_slots[j] + OS_MAX_LBA <= OS_START_OFFSET + OS_MAX_LBA * OS_SLOTS
<1>1. OS_START_OFFSET = FW_START_OFFSET + FW_MAX_LBA * 2
  BY DEF OS_START_OFFSET, FW_SLOTS
<1>2. ASSUME NEW j \in DOMAIN fw_lba_slots
      PROVE  /\ fw_lba_slots[j] \in Nat \ {0}
             /\ fw_lba_slots[j] + FW_MAX_LBA <= OS_START_OFFSET
  <2>1. j = 0 \/ j = 1
    BY DEF fw_lba_slots, FW_SLOTS
  <2>2. fw_lba_slots[0] = FW_START_OFFSET
    BY GeometryAssumption DEF fw_lba_slots, FW_SLOTS
  <2>3. fw_lba_slots[1] = FW_START_OFFSET + FW_MAX_LBA
    BY GeometryAssumption DEF fw_lba_slots, FW_SLOTS
  <2> QED
    BY <1>1, <2>1, <2>2, <2>3, GeometryAssumption
<1>3. ASSUME NEW j \in DOMAIN os_lba_slots
      PROVE  /\ os_lba_slots[j] \in Nat
             /\ os_lba_slots[j] >= OS_START_OFFSET
             /\ os_lba_slots[j] + OS_MAX_LBA
                  <= OS_START_OFFSET + OS_MAX_LBA * OS_SLOTS
  <2>1. /\ j \in 0 .. OS_SLOTS - 1 /\ OS_SLOTS \in Nat
        /\ os_lba_slots[j] = OS_START_OFFSET + OS_MAX_LBA * j
    BY GeometryAssumption DEF os_lba_slots, OS_SLOTS
  <2>2. OS_MAX_LBA * j + OS_MAX_LBA <= OS_MAX_LBA * OS_SLOTS
    <3> DEFINE d == OS_SLOTS - (j + 1)
    <3>1. d \in Nat /\ OS_SLOTS = (j + 1) + d
      BY <2>1
    <3> HIDE DEF d
    <3>2. j \in Nat /\ j + 1 \in Nat /\ OS_MAX_LBA \in Nat
      BY <2>1, GeometryAssumption
    <3>3. OS_MAX_LBA * OS_SLOTS = OS_MAX_LBA * (j + 1) + OS_MAX_LBA * d
      BY ONLY <3>1, <3>2, Distributes
    <3>4. OS_MAX_LBA * (j + 1) = OS_MAX_LBA * j + OS_MAX_LBA
      BY ONLY <3>2
    <3>5. /\ OS_MAX_LBA * d \in Nat /\ OS_MAX_LBA * j \in Nat
          /\ OS_MAX_LBA * (j + 1) \in Nat
      BY ONLY <3>2, <3>1, Distributes
    <3> QED
      BY ONLY <3>2, <3>3, <3>4, <3>5
  <2>3. OS_MAX_LBA * j \in Nat /\ OS_MAX_LBA * OS_SLOTS \in Nat
    BY <2>1, GeometryAssumption
  <2> QED
    BY <1>1, <2>1, <2>2, <2>3, GeometryAssumption
<1> QED
  BY <1>1, <1>2, <1>3, GeometryAssumption

\* Two slots of one kind lie apart.
LEMMA SlotsApart ==
  /\ \A j, k \in DOMAIN fw_lba_slots :
       j < k => fw_lba_slots[j] + FW_MAX_LBA <= fw_lba_slots[k]
  /\ \A j, k \in DOMAIN os_lba_slots :
       j < k => os_lba_slots[j] + OS_MAX_LBA <= os_lba_slots[k]
<1>1. ASSUME NEW j \in DOMAIN fw_lba_slots, NEW k \in DOMAIN fw_lba_slots, j < k
      PROVE  fw_lba_slots[j] + FW_MAX_LBA <= fw_lba_slots[k]
  <2>1. j = 0 /\ k = 1
    BY <1>1 DEF fw_lba_slots, FW_SLOTS
  <2> QED
    BY <2>1, GeometryAssumption DEF fw_lba_slots, FW_SLOTS
<1>2. ASSUME NEW j \in DOMAIN os_lba_slots, NEW k \in DOMAIN os_lba_slots, j < k
      PROVE  os_lba_slots[j] + OS_MAX_LBA <= os_lba_slots[k]
  <2>1. /\ j \in Nat /\ k \in Nat
        /\ os_lba_slots[j] = OS_START_OFFSET + OS_MAX_LBA * j
        /\ os_lba_slots[k] = OS_START_OFFSET + OS_MAX_LBA * k
    BY GeometryAssumption DEF os_lba_slots, OS_SLOTS
  <2> DEFINE d == k - (j + 1)
  <2>2. d \in Nat /\ k = (j + 1) + d
    BY <1>2, <2>1
  <2> HIDE DEF d
  <2>3. j + 1 \in Nat /\ OS_MAX_LBA \in Nat
    BY <2>1, GeometryAssumption
  <2>4. OS_MAX_LBA * k = OS_MAX_LBA * (j + 1) + OS_MAX_LBA * d
    BY ONLY <2>2, <2>3, Distributes
  <2>5. OS_MAX_LBA * (j + 1) = OS_MAX_LBA * j + OS_MAX_LBA
    BY ONLY <2>1, <2>3
  <2>6. OS_MAX_LBA * d \in Nat /\ OS_MAX_LBA * j \in Nat /\ OS_MAX_LBA * (j + 1) \in Nat
    BY ONLY <2>1, <2>2, <2>3, Distributes
  <2>7. OS_START_OFFSET \in Nat
    BY SlotBounds
  <2> QED
    BY ONLY <2>1, <2>3, <2>4, <2>5, <2>6, <2>7
<1> QED
  BY <1>1, <1>2

\* A set of naturals that is not empty has a least element.
LEMMA LeastElement ==
  ASSUME NEW S \in SUBSET Nat, S # {}
  PROVE  \E j \in S : \A k \in S : j <= k
<1>1. IsWellFoundedOn(OpToRel(<, Nat), Nat)
  BY NatLessThanWellFounded
<1>2. PICK j \in S : \A k \in S : ~(<<k, j>> \in OpToRel(<, Nat))
  BY <1>1, WFMin
<1>3. \A k \in S : ~(k < j)
  BY <1>2 DEF OpToRel
<1> QED
  BY <1>3

-----------------------------------------------------------------------------
(* The slot get_free_lba chooses.                                          *)

\* get_free_lba answers 0 or a slot that no entry uses.
LEMMA FreeLba ==
  ASSUME NEW slots, DOMAIN slots \in SUBSET Nat, NEW n, NEW osip,
         get_free_lba(slots, n, osip) # 0
  PROVE  \E j \in DOMAIN slots :
           /\ get_free_lba(slots, n, osip) = slots[j]
           /\ \A i \in DOMAIN osip : ~Uses(osip[i], slots[j], n)
<1> DEFINE free == {j \in DOMAIN slots : \A i \in DOMAIN osip :
                                          ~Uses(osip[i], slots[j], n)}
           least == CHOOSE j \in free : \A k \in free : j <= k
<1>1. free # {} /\ get_free_lba(slots, n, osip) = slots[least]
  BY DEF get_free_lba
<1>2. free \in SUBSET Nat
  OBVIOUS
<1> HIDE DEF free
<1>3. \E j \in free : \A k \in free : j <= k
  BY <1>1, <1>2, LeastElement
<1>4. least \in free
  BY <1>3
<1> QED
  BY <1>1, <1>4 DEF free

\* The sectors of e lie outside those from lba on.
Clear(e, lba, size) ==
  \A k \in 0 .. e.size - 1 : e.lba + k < lba \/ e.lba + k >= lba + size

\* An entry that fits and does not use an OS slot has no sector in it.
LEMMA OsSlotIsClear ==
  ASSUME NEW e \in Entry, Fits(e), NEW j \in DOMAIN os_lba_slots,
         ~Uses(e, os_lba_slots[j], OS_MAX_LBA)
  PROVE  Clear(e, os_lba_slots[j], OS_MAX_LBA)
<1> DEFINE s == os_lba_slots[j]
<1>1. /\ s \in Nat /\ s >= OS_START_OFFSET
      /\ OS_START_OFFSET \in Nat /\ OS_MAX_LBA \in Nat
      /\ FW_MAX_LBA \in Nat /\ FW_MAX_LBA <= OS_MAX_LBA
      /\ e.lba \in Nat /\ e.size \in Nat
  BY SlotBounds, GeometryAssumption DEF Entry
<1>2. /\ ~(e.lba >= s /\ e.lba < s + OS_MAX_LBA)
      /\ ~(e.lba + 1 + e.size >= s /\ e.lba + 1 + e.size < s + OS_MAX_LBA)
  BY DEF Uses
<1>3. CASE e.size < OS_MAX_LBA
  <2> HIDE DEF s
  <2> QED
    BY <1>1, <1>2, <1>3 DEF Clear, s
<1>4. CASE \E i \in DOMAIN os_lba_slots :
             e.lba = os_lba_slots[i] /\ e.size <= OS_MAX_LBA
  <2>1. PICK i \in DOMAIN os_lba_slots :
               e.lba = os_lba_slots[i] /\ e.size <= OS_MAX_LBA
    BY <1>4
  <2>2. i \in Nat /\ j \in Nat
    BY GeometryAssumption DEF os_lba_slots, OS_SLOTS
  <2>3. i < j => e.lba + OS_MAX_LBA <= s
    BY <2>1, SlotsApart
  <2>4. j < i => s + OS_MAX_LBA <= e.lba
    BY <2>1, SlotsApart
  <2>5. i = j => e.lba = s
    BY <2>1
  <2>6. e.lba + e.size <= s \/ s + OS_MAX_LBA <= e.lba \/ e.lba = s
    BY <1>1, <2>1, <2>2, <2>3, <2>4, <2>5
  <2> HIDE DEF s
  <2> QED
    BY <1>1, <1>2, <2>1, <2>6 DEF Clear, s
<1>5. CASE \E i \in DOMAIN fw_lba_slots :
             e.lba = fw_lba_slots[i] /\ e.size <= FW_MAX_LBA
  <2>1. e.lba + e.size <= s
    BY <1>1, <1>5, SlotBounds
  <2> HIDE DEF s
  <2> QED
    BY <1>1, <2>1 DEF Clear, s
<1> QED
  BY <1>1, <1>3, <1>4, <1>5 DEF Fits

\* The same of a firmware slot.
LEMMA FwSlotIsClear ==
  ASSUME NEW e \in Entry, Fits(e), NEW j \in DOMAIN fw_lba_slots,
         ~Uses(e, fw_lba_slots[j], FW_MAX_LBA)
  PROVE  Clear(e, fw_lba_slots[j], FW_MAX_LBA)
<1> DEFINE s == fw_lba_slots[j]
<1>1. /\ s \in Nat /\ s + FW_MAX_LBA <= OS_START_OFFSET
      /\ OS_START_OFFSET \in Nat /\ FW_MAX_LBA \in Nat
      /\ e.lba \in Nat /\ e.size \in Nat
  BY SlotBounds, GeometryAssumption DEF Entry
<1>2. /\ ~(e.lba >= s /\ e.lba < s + FW_MAX_LBA)
      /\ ~(e.lba + 1 + e.size >= s /\ e.lba + 1 + e.size < s + FW_MAX_LBA)
  BY DEF Uses
<1>3. CASE e.size < FW_MAX_LBA
  <2> HIDE DEF s
  <2> QED
    BY <1>1, <1>2, <1>3 DEF Clear, s
<1>4. CASE e.lba >= OS_START_OFFSET
  <2> HIDE DEF s
  <2> QED
    BY <1>1, <1>4 DEF Clear, s
<1>5. CASE \E i \in DOMAIN fw_lba_slots :
             e.lba = fw_lba_slots[i] /\ e.size <= FW_MAX_LBA
  <2>1. PICK i \in DOMAIN fw_lba_slots :
               e.lba = fw_lba_slots[i] /\ e.size <= FW_MAX_LBA
    BY <1>5
  <2>2. i \in Nat /\ j \in Nat
    BY DEF fw_lba_slots, FW_SLOTS
  <2>3. i < j => e.lba + FW_MAX_LBA <= s
    BY <2>1, SlotsApart
  <2>4. j < i => s + FW_MAX_LBA <= e.lba
    BY <2>1, SlotsApart
  <2>5. i = j => e.lba = s
    BY <2>1
  <2>6. e.lba + e.size <= s \/ s + FW_MAX_LBA <= e.lba \/ e.lba = s
    BY <1>1, <2>1, <2>2, <2>3, <2>4, <2>5
  <2> HIDE DEF s
  <2> QED
    BY <1>1, <1>2, <2>1, <2>6 DEF Clear, s
<1>6. CASE \E i \in DOMAIN os_lba_slots : e.lba = os_lba_slots[i]
  BY <1>1, <1>4, <1>6, SlotBounds
<1> QED
  BY <1>1, <1>3, <1>4, <1>5, <1>6 DEF Fits

-----------------------------------------------------------------------------
(* The index and the table an update prepares.                             *)

\* get_named_osii_index answers 0, an entry with the attribute of the name or,
\* for a write, the entry past the last.
LEMMA NamedIndex ==
  ASSUME NEW name, NEW writing \in BOOLEAN, desc \in Seq(Entry)
  PROVE  /\ get_named_osii_index(name, writing) \in 0 .. Len(desc) + 1
         /\ ~writing => get_named_osii_index(name, writing) <= Len(desc)
         /\ get_named_osii_index(name, writing) \in DOMAIN desc =>
              desc[get_named_osii_index(name, writing)].attr
                = get_named_osii_attr[name]
<1> DEFINE matches == {i \in DOMAIN desc :
                         desc[i].attr = get_named_osii_attr[name]}
           hits == {i \in matches :
                      Cardinality({j \in matches : j <= i}) = InstanceOf(name)}
           index == get_named_osii_index(name, writing)
<1>1. CASE hits # {}
  <2>1. index \in hits
    BY <1>1 DEF get_named_osii_index
  <2> QED
    BY <2>1
<1>2. CASE hits = {}
  <2>1. index = 0 \/ (writing /\ index = Len(desc) + 1)
    BY <1>2 DEF get_named_osii_index
  <2> QED
    BY <2>1
<1> QED
  BY <1>1, <1>2

\* The name of a destination stands for an attribute.
LEMMA NamedAttr ==
  ASSUME NEW name \in Destinations
  PROVE  get_named_osii_attr[name] \in Attrs
BY ImagesAssumption DEF get_named_osii_attr, Attrs, OsAttrs

\* The table an update prepares holds the new entry where it was asked for, and
\* otherwise entries of the old table.
LEMMA NewTableFacts ==
  ASSUME desc \in Seq(Entry), NEW e \in Entry,
         NEW index \in 1 .. Len(desc) + 1
  PROVE  /\ NewTable(index, e) \in Seq(Entry)
         /\ NewTable(index, e)[index] = e
         /\ index \in DOMAIN NewTable(index, e)
         /\ \A i \in DOMAIN NewTable(index, e) :
              \/ i = index
              \/ i \in DOMAIN desc /\ NewTable(index, e)[i] = desc[i]
              \/ /\ Moves(index, e.attr) /\ i = Len(desc) + 1
                 /\ NewTable(index, e)[i] = desc[index]
         /\ Len(NewTable(index, e)) =
              IF index > Len(desc) \/ Moves(index, e.attr) THEN Len(desc) + 1
              ELSE Len(desc)
<1>1. CASE index > Len(desc)
  <2>1. index = Len(desc) + 1 /\ NewTable(index, e) = Append(desc, e)
    BY <1>1 DEF NewTable
  <2> QED
    BY <1>1, <2>1
<1>2. CASE index <= Len(desc) /\ Moves(index, e.attr)
  <2> DEFINE put == [desc EXCEPT ![index] = e]
  <2>1. NewTable(index, e) = Append(put, desc[index])
    BY <1>2 DEF NewTable
  <2>2. /\ put \in Seq(Entry) /\ Len(put) = Len(desc) /\ put[index] = e
        /\ \A i \in DOMAIN put : i # index => put[i] = desc[i]
        /\ desc[index] \in Entry
    BY <1>2
  <2> HIDE DEF put
  <2> QED
    BY <1>2, <2>1, <2>2
<1>3. CASE index <= Len(desc) /\ ~Moves(index, e.attr)
  <2> DEFINE put == [desc EXCEPT ![index] = e]
  <2>1. NewTable(index, e) = put
    BY <1>3 DEF NewTable
  <2>2. /\ put \in Seq(Entry) /\ Len(put) = Len(desc) /\ put[index] = e
        /\ \A i \in DOMAIN put : i # index => put[i] = desc[i]
    BY <1>3
  <2> HIDE DEF put
  <2> QED
    BY <1>3, <2>1, <2>2
<1> QED
  BY <1>1, <1>2, <1>3

-----------------------------------------------------------------------------
(* The invariant.                                                          *)

\* An entry is empty or names an image that lies on the disk.
Sound(e) ==
  \/ e.size = 0
  \/ /\ e.img \in Images
     /\ e.size = ImageSize[e.img]
     /\ e.lba + e.size <= DiskSize

SoundInv == \A i \in DOMAIN desc : Sound(desc[i])

\* The table in memory is the one on the disk with one image put in.
Prepared(index, attr) ==
  /\ InBounds(index)
  /\ index <= Len(desc) + 1
  /\ Moves(index, attr) => Len(desc) < MAX_OSIP_DESC
  /\ op.osip = NewTable(index, NewEntry(op.img, attr, index, op.lba))

\* While an image is written, no entry that fits lies where it goes.
DataInv ==
  op.pc = "data" =>
    /\ op.img \in Images
    /\ op.lba + ImageSize[op.img] <= DiskSize
    /\ \E index \in Nat, attr \in Attrs : Prepared(index, attr)
    /\ ~unnoticed =>
         \A i \in DOMAIN desc :
           Fits(desc[i]) => Clear(desc[i], op.lba, ImageSize[op.img])

\* testos begins with a table that names nothing.
RestoreInv ==
  op.pc = "restore" /\ ~unnoticed =>
    Len(desc) = 1 /\ desc[1].size = 0 /\ desc[1].attr = "KERNEL"

OsipInv ==
  /\ TypeOK
  /\ NamedImagesAreWhole
  /\ UpdaterNeverOverruns
  /\ SoundInv
  /\ DataInv
  /\ RestoreInv

\* A factory disk holds the images its table names.
LEMMA FactoryDiskFacts ==
  ASSUME NEW t \in FactoryTables
  PROVE  /\ FactoryDisk(t) \in [Sectors -> (Images \cup {NoImage}) \X Nat]
         /\ \A i \in DOMAIN t : \A k \in 0 .. t[i].size - 1 :
              FactoryDisk(t)[t[i].lba + k] = <<t[i].img, k>>
<1>1. /\ t \in Seq(Entry)
      /\ \A i \in DOMAIN t : /\ t[i] \in Entry
                             /\ t[i].img \in Images
                             /\ t[i].lba \in Nat /\ t[i].size \in Nat
                             /\ t[i].lba + t[i].size <= DiskSize
      /\ \A i, j \in DOMAIN t : i # j => ~Overlap(t[i], t[j])
  <2>1. t \in Seq(Entry)
    BY FactoryAssumption
  <2>2. \A i \in DOMAIN t : t[i] \in Entry
    BY <2>1
  <2>3. \A i \in DOMAIN t : t[i].lba \in Nat /\ t[i].size \in Nat
    BY <2>2 DEF Entry
  <2> QED
    BY <2>1, <2>2, <2>3, FactoryAssumption
<1>2. ASSUME NEW b \in Sectors,
             NEW i \in DOMAIN t, b \in Extent(t[i])
      PROVE  FactoryDisk(t)[b] = <<t[i].img, b - t[i].lba>>
  <2> DEFINE c == CHOOSE j \in DOMAIN t : b \in Extent(t[j])
  <2>1. c \in DOMAIN t /\ b \in Extent(t[c])
    BY <1>2
  <2>2. c = i
    BY <1>1, <1>2, <2>1 DEF Overlap
  <2>3. FactoryDisk(t)[b] = <<t[c].img, b - t[c].lba>>
    BY <1>2 DEF FactoryDisk
  <2> QED
    BY <2>2, <2>3
<1>3. ASSUME NEW b \in Sectors
      PROVE  FactoryDisk(t)[b] \in (Images \cup {NoImage}) \X Nat
  <2>1. CASE \E i \in DOMAIN t : b \in Extent(t[i])
    <3>1. PICK i \in DOMAIN t : b \in Extent(t[i])
      BY <2>1
    <3>2. b - t[i].lba \in Nat
      BY <1>1, <3>1 DEF Extent, Sectors
    <3>3. FactoryDisk(t)[b] = <<t[i].img, b - t[i].lba>>
      BY <1>2, <3>1
    <3>4. t[i].img \in Images
      BY <1>1
    <3> QED
      BY <3>2, <3>3, <3>4
  <2>2. CASE ~\E i \in DOMAIN t : b \in Extent(t[i])
    BY <2>2 DEF FactoryDisk, NoData
  <2> QED
    BY <2>1, <2>2
<1>4. FactoryDisk(t) \in [Sectors -> (Images \cup {NoImage}) \X Nat]
  <2>1. DOMAIN FactoryDisk(t) = Sectors
    BY DEF FactoryDisk
  <2>2. FactoryDisk(t) = [b \in Sectors |-> FactoryDisk(t)[b]]
    BY <2>1 DEF FactoryDisk
  <2> QED
    BY <1>3, <2>2
<1>5. ASSUME NEW i \in DOMAIN t, NEW k \in 0 .. t[i].size - 1
      PROVE  FactoryDisk(t)[t[i].lba + k] = <<t[i].img, k>>
  <2>1. t[i].lba + k \in Sectors /\ t[i].lba + k \in Extent(t[i])
    BY <1>1, GeometryAssumption DEF Sectors, Extent
  <2>2. (t[i].lba + k) - t[i].lba = k
    BY <1>1
  <2> QED
    BY <1>2, <2>1, <2>2
<1> QED
  BY <1>4, <1>5

\* A device leaves the factory with its images whole.
LEMMA InitInv == Init => OsipInv
<1> SUFFICES ASSUME Init PROVE OsipInv
  OBVIOUS
<1>1. /\ desc \in FactoryTables /\ disk = FactoryDisk(desc)
      /\ op = Idle /\ sig = TRUE /\ backup \in BOOLEAN /\ unnoticed = FALSE
  BY DEF Init
<1>2. desc \in Seq(Entry) /\ Len(desc) <= MAX_OSIP_DESC
  BY <1>1, FactoryAssumption
<1>3. op \in Ops /\ Len(op.osip) <= MAX_OSIP_DESC /\ op.pc = "idle"
  BY <1>1, GeometryAssumption DEF Ops, Idle
<1>4. TypeOK
  BY <1>1, <1>2, <1>3, FactoryDiskFacts DEF TypeOK
<1>5. NamedImagesAreWhole
  BY <1>1, FactoryDiskFacts DEF NamedImagesAreWhole, Whole
<1>6. SoundInv
  BY <1>1, FactoryAssumption DEF SoundInv, Sound
<1> QED
  BY <1>3, <1>4, <1>5, <1>6
     DEF OsipInv, UpdaterNeverOverruns, DataInv, RestoreInv

\* The start block and the size that write_stitch_image_ex accepts lie on the
\* disk and clear of every entry that fits, or of an empty table for testos.
LEMMA StitchTarget ==
  ASSUME desc \in Seq(Entry), NEW img \in Images, NEW attr \in Attrs,
         NEW large \in BOOLEAN, StartBlock(attr, large) # 0,
         ImageSize[img] <= MaxSize(attr, large)
  PROVE  /\ StartBlock(attr, large) \in Nat
         /\ StartBlock(attr, large) + ImageSize[img] <= DiskSize
         /\ ~large => \A i \in DOMAIN desc : Fits(desc[i]) =>
              Clear(desc[i], StartBlock(attr, large), ImageSize[img])
<1> DEFINE lba == StartBlock(attr, large)
<1>0. /\ ImageSize[img] \in Nat /\ FW_MAX_LBA \in Nat /\ OS_MAX_LBA \in Nat
      /\ DiskSize \in Nat /\ OS_START_OFFSET \in Nat
      /\ OS_SLOTS \in Nat /\ OS_MAX_LBA * OS_SLOTS \in Nat
      /\ OS_START_OFFSET + OS_MAX_LBA * OS_SLOTS <= DiskSize
      /\ OS_START_OFFSET <= DiskSize
  <2>1. OS_SLOTS \in Nat /\ OS_MAX_LBA \in Nat /\ OS_START_OFFSET \in Nat
    BY GeometryAssumption, SlotBounds DEF OS_SLOTS
  <2>2. OS_MAX_LBA * OS_SLOTS \in Nat
    BY ONLY <2>1, Distributes
  <2> QED
    BY <2>1, <2>2, GeometryAssumption, ImagesAssumption
<1>1. CASE attr = "FW"
  <2>1. lba = get_free_lba(fw_lba_slots, FW_MAX_LBA, desc)
    BY <1>1 DEF StartBlock, get_free_fw_lba, OsAttrs
  <2>2. DOMAIN fw_lba_slots \in SUBSET Nat
    BY DEF fw_lba_slots, FW_SLOTS
  <2>3. PICK j \in DOMAIN fw_lba_slots :
          /\ lba = fw_lba_slots[j]
          /\ \A i \in DOMAIN desc : ~Uses(desc[i], fw_lba_slots[j], FW_MAX_LBA)
    BY <2>1, <2>2, FreeLba
  <2>4. ImageSize[img] <= FW_MAX_LBA
    BY <1>1 DEF MaxSize
  <2>5. lba \in Nat /\ lba + FW_MAX_LBA <= OS_START_OFFSET
    BY <2>3, SlotBounds
  <2>6. ASSUME NEW i \in DOMAIN desc, Fits(desc[i])
        PROVE  Clear(desc[i], lba, ImageSize[img])
    <3>1. desc[i] \in Entry
      OBVIOUS
    <3>2. Clear(desc[i], lba, FW_MAX_LBA)
      BY <2>3, <2>6, <3>1, FwSlotIsClear
    <3>3. desc[i].lba \in Nat /\ desc[i].size \in Nat
      BY <3>1 DEF Entry
    <3> HIDE DEF lba
    <3> QED
      BY <1>0, <2>4, <2>5, <3>2, <3>3 DEF Clear
  <2> QED
    BY <1>0, <2>4, <2>5, <2>6
<1>2. CASE attr # "FW" /\ ~large
  <2>1. lba = get_free_lba(os_lba_slots, OS_MAX_LBA, desc)
    BY <1>2 DEF StartBlock, get_free_os_lba
  <2>2. DOMAIN os_lba_slots \in SUBSET Nat
    BY <1>0 DEF os_lba_slots
  <2>3. PICK j \in DOMAIN os_lba_slots :
          /\ lba = os_lba_slots[j]
          /\ \A i \in DOMAIN desc : ~Uses(desc[i], os_lba_slots[j], OS_MAX_LBA)
    BY <2>1, <2>2, FreeLba
  <2>4. ImageSize[img] <= OS_MAX_LBA
    BY <1>2 DEF MaxSize
  <2>5. lba \in Nat /\ lba + OS_MAX_LBA <= DiskSize
    BY <1>0, <2>3, SlotBounds
  <2>6. ASSUME NEW i \in DOMAIN desc, Fits(desc[i])
        PROVE  Clear(desc[i], lba, ImageSize[img])
    <3>1. desc[i] \in Entry
      OBVIOUS
    <3>2. Clear(desc[i], lba, OS_MAX_LBA)
      BY <2>3, <2>6, <3>1, OsSlotIsClear
    <3>3. desc[i].lba \in Nat /\ desc[i].size \in Nat
      BY <3>1 DEF Entry
    <3> HIDE DEF lba
    <3> QED
      BY <1>0, <2>4, <2>5, <3>2, <3>3 DEF Clear
  <2> QED
    BY <1>0, <2>4, <2>5, <2>6
<1>3. CASE attr # "FW" /\ large
  <2>1. lba = OS_START_OFFSET /\ ImageSize[img] <= OS_MAX_LBA * OS_SLOTS
    BY <1>3 DEF StartBlock, MaxSize
  <2>2. lba \in Nat /\ lba + ImageSize[img] <= DiskSize
    <3> HIDE DEF lba
    <3> QED
      BY <1>0, <2>1
  <2> QED
    BY <1>3, <2>2
<1> QED
  BY <1>1, <1>2, <1>3

\* The entry of a new image is an entry.
LEMMA NewEntryType ==
  ASSUME desc \in Seq(Entry), NEW img \in Images, NEW attr \in Attrs,
         NEW index \in Nat, NEW lba \in Nat
  PROVE  /\ NewEntry(img, attr, index, lba) \in Entry
         /\ NewEntry(img, attr, index, lba).attr = attr
         /\ NewEntry(img, attr, index, lba).lba = lba
         /\ NewEntry(img, attr, index, lba).img = img
         /\ NewEntry(img, attr, index, lba).size = ImageSize[img]
<1> DEFINE live == index \in DOMAIN desc => desc[index].live
<1>1. live \in BOOLEAN
  OBVIOUS
<1>2. ImageSize[img] \in Nat
  BY ImagesAssumption
<1>3. NewEntry(img, attr, index, lba) =
        [attr |-> attr, lba |-> lba, size |-> ImageSize[img], img |-> img,
         live |-> live]
  BY DEF NewEntry
<1> HIDE DEF live
<1>4. [attr |-> attr, lba |-> lba, size |-> ImageSize[img], img |-> img,
       live |-> live] \in Entry
  BY <1>1, <1>2 DEF Entry
<1> QED
  BY <1>3, <1>4

\* A step that leaves the table and the disk alone keeps the images.
LEMMA TableAside ==
  ASSUME OsipInv, UNCHANGED <<desc, disk, unnoticed>>
  PROVE  NamedImagesAreWhole' /\ SoundInv'
<1>1. NamedImagesAreWhole /\ SoundInv
  BY DEF OsipInv
<1>2. SoundInv'
  BY <1>1 DEF SoundInv, Sound
<1>3. NamedImagesAreWhole'
  BY <1>1 DEF NamedImagesAreWhole, Whole, Fits
<1> QED
  BY <1>2, <1>3

\* A tool that is idle owes nothing.
LEMMA IdleFacts ==
  /\ Idle \in Ops /\ Len(Idle.osip) <= MAX_OSIP_DESC
  /\ Idle.pc = "idle"
BY GeometryAssumption DEF Idle, Ops

\* The checks of write_stitch_image_ex establish what the write relies on.
LEMMA BeginStitchInv ==
  ASSUME OsipInv, NEW tool \in {"updater", "flashtool"}, NEW img \in Images,
         NEW attr \in Attrs, NEW index \in Nat, index <= Len(desc) + 1,
         NEW large \in BOOLEAN, BeginStitch(tool, img, attr, index, large),
         large /\ ~unnoticed => \A i \in DOMAIN desc : desc[i].size = 0,
         tool = "updater" /\ ~unnoticed => ~Moves(index, attr)
  PROVE  OsipInv'
<1> DEFINE lba == StartBlock(attr, large)
           e == NewEntry(img, attr, index, lba)
<1>1. /\ TypeOK /\ UNCHANGED <<sig, desc, disk, unnoticed>>
      /\ backup' \in {backup, FALSE} /\ InBounds(index)
  BY DEF OsipInv, BeginStitch
<1>2. NamedImagesAreWhole' /\ SoundInv'
  BY <1>1, TableAside
<1>3. ASSUME op' \in Ops, Len(op'.osip) <= MAX_OSIP_DESC
      PROVE  TypeOK'
  BY <1>1, <1>3 DEF TypeOK
<1>4. CASE lba = 0 \/ ImageSize[img] > MaxSize(attr, large)
  <2>1. op' = Idle
    BY <1>4 DEF BeginStitch
  <2> QED
    BY <1>2, <1>3, <2>1, IdleFacts
       DEF OsipInv, UpdaterNeverOverruns, DataInv, RestoreInv
<1>5. CASE /\ ~(lba = 0 \/ ImageSize[img] > MaxSize(attr, large))
           /\ Moves(index, attr) /\ Len(desc) = MAX_OSIP_DESC
  <2>1. op' = [Idle EXCEPT !.pc = "overrun", !.tool = tool]
    BY <1>5 DEF BeginStitch
  <2>2. /\ op' \in Ops /\ Len(op'.osip) <= MAX_OSIP_DESC
        /\ op'.pc = "overrun" /\ op'.tool = tool
    <3>1. op' = [pc |-> "overrun", tool |-> tool, img |-> NoImage, lba |-> 0,
                 osip |-> <<>>, left |-> <<>>]
      BY <2>1 DEF Idle
    <3>2. <<>> \in Seq(Entry) /\ Len(<<>>) <= MAX_OSIP_DESC
      BY GeometryAssumption
    <3> QED
      BY <3>1, <3>2 DEF Ops
  <2>3. tool = "flashtool" \/ unnoticed
    BY <1>5
  <2>4. UpdaterNeverOverruns'
    BY <1>1, <2>2, <2>3 DEF UpdaterNeverOverruns
  <2> QED
    BY <1>2, <1>3, <2>2, <2>4 DEF OsipInv, DataInv, RestoreInv
<1>6. CASE /\ ~(lba = 0 \/ ImageSize[img] > MaxSize(attr, large))
           /\ ~(Moves(index, attr) /\ Len(desc) = MAX_OSIP_DESC)
  <2>1. op' = [pc |-> "data", tool |-> tool, img |-> img, lba |-> lba,
               osip |-> NewTable(index, e), left |-> <<>>]
    BY <1>6 DEF BeginStitch
  <2>2. /\ desc \in Seq(Entry) /\ Len(desc) <= MAX_OSIP_DESC
        /\ index \in 1 .. Len(desc) + 1 /\ index <= MAX_OSIP_DESC
        /\ MAX_OSIP_DESC \in Nat /\ Len(desc) \in Nat
    BY <1>1, GeometryAssumption DEF TypeOK, InBounds
  <2>3. ImageSize[img] <= MaxSize(attr, large)
    <3>1. ImageSize[img] \in Nat /\ MaxSize(attr, large) \in Nat
      <4>1. OS_MAX_LBA \in Nat /\ OS_SLOTS \in Nat /\ FW_MAX_LBA \in Nat
        BY GeometryAssumption DEF OS_SLOTS
      <4>2. OS_MAX_LBA * OS_SLOTS \in Nat
        BY ONLY <4>1, Distributes
      <4> QED
        BY <4>1, <4>2, ImagesAssumption DEF MaxSize
    <3> QED
      BY <1>6, <3>1
  <2>4. /\ lba \in Nat /\ lba + ImageSize[img] <= DiskSize
        /\ ~large => \A i \in DOMAIN desc : Fits(desc[i]) =>
             Clear(desc[i], lba, ImageSize[img])
    BY <1>6, <2>2, <2>3, StitchTarget
  <2>5. ~unnoticed => \A i \in DOMAIN desc : Fits(desc[i]) =>
          Clear(desc[i], lba, ImageSize[img])
    <3>1. \A i \in DOMAIN desc :
            desc[i].size = 0 => Clear(desc[i], lba, ImageSize[img])
      BY DEF Clear
    <3> QED
      BY <2>4, <3>1
  <2>6. e \in Entry /\ e.attr = attr
    BY <2>2, <2>4, NewEntryType
  <2>7. Moves(index, attr) => Len(desc) < MAX_OSIP_DESC
    BY <1>6, <2>2
  <2> HIDE DEF lba, e
  <2>8. /\ NewTable(index, e) \in Seq(Entry)
        /\ Len(NewTable(index, e)) <= MAX_OSIP_DESC
    <3>1. /\ NewTable(index, e) \in Seq(Entry)
          /\ Len(NewTable(index, e)) =
               IF index > Len(desc) \/ Moves(index, e.attr) THEN Len(desc) + 1
               ELSE Len(desc)
      BY <2>2, <2>6, NewTableFacts
    <3> QED
      BY <2>2, <2>6, <2>7, <3>1
  <2>9. /\ op' \in Ops /\ Len(op'.osip) <= MAX_OSIP_DESC
        /\ op'.pc = "data" /\ op'.img = img /\ op'.lba = lba
        /\ op'.osip = NewTable(index, e)
    BY <2>1, <2>4, <2>8 DEF Ops
  <2>10. Prepared(index, attr)'
    <3>1. op'.osip = NewTable(index, NewEntry(op.img, attr, index, op.lba))'
      BY <1>1, <2>9 DEF e, NewTable, NewEntry, Moves
    <3>2. InBounds(index)' /\ (index <= Len(desc) + 1)'
      BY <1>1 DEF InBounds
    <3>3. (Moves(index, attr) => Len(desc) < MAX_OSIP_DESC)'
      BY <1>1, <2>7 DEF Moves
    <3> QED
      BY <3>1, <3>2, <3>3 DEF Prepared
  <2>11. DataInv'
    <3>1. (\E i \in Nat, a \in Attrs : Prepared(i, a))'
      BY <2>10
    <3>2. (~unnoticed =>
             \A i \in DOMAIN desc :
               Fits(desc[i]) => Clear(desc[i], op.lba, ImageSize[op.img]))'
      BY <1>1, <2>5, <2>9 DEF Clear, Fits
    <3> QED
      BY <2>4, <2>9, <3>1, <3>2 DEF DataInv
  <2> QED
    BY <1>2, <1>3, <2>9, <2>11 DEF OsipInv, UpdaterNeverOverruns, RestoreInv
<1> QED
  BY <1>4, <1>5, <1>6

\* update_osii changes one entry, and of that only whether it is live.
LEMMA ValidatedFacts ==
  ASSUME desc \in Seq(Entry), NEW name, NEW live \in BOOLEAN
  PROVE  /\ Validated(name, live) \in Seq(Entry)
         /\ Len(Validated(name, live)) = Len(desc)
         /\ \A i \in DOMAIN desc :
              /\ Validated(name, live)[i].lba = desc[i].lba
              /\ Validated(name, live)[i].size = desc[i].size
              /\ Validated(name, live)[i].img = desc[i].img
              /\ Validated(name, live)[i].attr = desc[i].attr
         /\ \/ Validated(name, live) = desc
            \/ \E i \in DOMAIN desc :
                 Validated(name, live) = [desc EXCEPT ![i].live = live]
<1> DEFINE index == get_named_osii_index(name, FALSE)
<1>1. index \in 0 .. Len(desc)
  <2>1. index \in 0 .. Len(desc) + 1 /\ index <= Len(desc)
    BY NamedIndex
  <2> HIDE DEF index
  <2> QED
    BY <2>1
<1>2. CASE index = 0
  <2>1. Validated(name, live) = desc
    BY <1>2 DEF Validated
  <2> QED
    BY <2>1
<1>3. CASE index # 0
  <2>1. Validated(name, live) = [desc EXCEPT ![index].live = live]
    BY <1>3 DEF Validated
  <2> HIDE DEF index
  <2>2. index \in DOMAIN desc
    BY <1>1, <1>3
  <2>3. desc[index] \in Entry
    BY <2>2
  <2> DEFINE e == [desc[index] EXCEPT !.live = live]
  <2>4. /\ e \in Entry /\ e.lba = desc[index].lba /\ e.size = desc[index].size
        /\ e.img = desc[index].img /\ e.attr = desc[index].attr
    BY <2>3 DEF Entry
  <2>5. Validated(name, live) = [desc EXCEPT ![index] = e]
    BY <2>1
  <2> HIDE DEF e
  <2>6. /\ Validated(name, live) \in Seq(Entry)
        /\ Len(Validated(name, live)) = Len(desc)
        /\ \A i \in DOMAIN desc :
             Validated(name, live)[i] = IF i = index THEN e ELSE desc[i]
    BY <2>2, <2>4, <2>5
  <2> QED
    BY <2>2, <2>1, <2>4, <2>6
<1> QED
  BY <1>2, <1>3

\* Images stay whole when the table names no others and the disk stays.
LEMMA SameImages ==
  ASSUME OsipInv, UNCHANGED disk, unnoticed' = FALSE => unnoticed = FALSE,
         unnoticed \in BOOLEAN, unnoticed' \in BOOLEAN,
         \A i \in DOMAIN desc' : \E j \in DOMAIN desc :
            /\ desc'[i].lba = desc[j].lba /\ desc'[i].size = desc[j].size
            /\ desc'[i].img = desc[j].img
  PROVE  NamedImagesAreWhole' /\ SoundInv'
<1>1. NamedImagesAreWhole /\ SoundInv
  BY DEF OsipInv
<1>2. SoundInv'
  BY <1>1 DEF SoundInv, Sound
<1>3. ASSUME ~unnoticed', NEW i \in DOMAIN desc', Fits(desc'[i])
      PROVE  Whole(desc[i])'
  <2>1. PICK j \in DOMAIN desc :
          /\ desc'[i].lba = desc[j].lba /\ desc'[i].size = desc[j].size
          /\ desc'[i].img = desc[j].img
    OBVIOUS
  <2>2. Fits(desc[j])
    BY <1>3, <2>1 DEF Fits
  <2>3. Whole(desc[j])
    BY <1>1, <1>3, <2>2 DEF NamedImagesAreWhole
  <2> QED
    BY <2>1, <2>3 DEF Whole
<1>4. NamedImagesAreWhole'
  BY <1>3 DEF NamedImagesAreWhole
<1> QED
  BY <1>2, <1>4

\* flash_image_osip keeps the invariant.
LEMMA FlashImageInv ==
  ASSUME OsipInv, NEW name \in Destinations, NEW img \in Images,
         FlashImage(name, img)
  PROVE  OsipInv'
<1> DEFINE index == get_named_osii_index(name, TRUE)
           attr == get_named_osii_attr[name]
<1>1. desc \in Seq(Entry)
  BY DEF OsipInv, TypeOK
<1>2. /\ index \in 0 .. Len(desc) + 1
      /\ index \in DOMAIN desc => desc[index].attr = attr
  BY <1>1, NamedIndex
<1>3. attr \in Attrs
  BY NamedAttr
<1>4. ~Moves(index, attr)
  BY <1>2 DEF Moves
<1>5. BeginStitch("updater", img, attr, index, FALSE)
  BY DEF FlashImage
<1> HIDE DEF index, attr
<1>6. index \in Nat /\ index <= Len(desc) + 1
  BY <1>1, <1>2
<1> QED
  BY <1>3, <1>4, <1>5, <1>6, BeginStitchInv

\* cmd_write_osip keeps the invariant.
LEMMA FlashtoolWriteInv ==
  ASSUME OsipInv, NEW name \in Destinations, NEW img \in Images,
         FlashtoolWrite(name, img)
  PROVE  OsipInv'
<1> DEFINE index == get_named_osii_index(name, TRUE)
<1>1. desc \in Seq(Entry)
  BY DEF OsipInv, TypeOK
<1>2. index \in 0 .. Len(desc) + 1
  BY <1>1, NamedIndex
<1>3. ImageAttr[img] \in Attrs
  BY ImagesAssumption
<1>4. BeginStitch("flashtool", img, ImageAttr[img], index, FALSE)
  BY DEF FlashtoolWrite
<1> HIDE DEF index
<1>5. index \in Nat /\ index <= Len(desc) + 1
  BY <1>1, <1>2
<1> QED
  BY <1>3, <1>4, <1>5, BeginStitchInv

\* What the write relies on speaks of the table and the tool alone.
LEMMA DataAside ==
  ASSUME DataInv, UNCHANGED <<desc, op, unnoticed>>
  PROVE  DataInv'
<1>1. ASSUME NEW index \in Nat, NEW attr \in Attrs, Prepared(index, attr)
      PROVE  Prepared(index, attr)'
  <2>1. Moves(index, attr)' = Moves(index, attr)
    BY DEF Moves
  <2>2. NewEntry(op.img, attr, index, op.lba)'
          = NewEntry(op.img, attr, index, op.lba)
    BY DEF NewEntry
  <2>3. NewTable(index, NewEntry(op.img, attr, index, op.lba))'
          = NewTable(index, NewEntry(op.img, attr, index, op.lba))
    BY <2>2 DEF NewTable, Moves
  <2> QED
    BY <1>1, <2>1, <2>3 DEF Prepared, InBounds
<1> QED
  BY <1>1 DEF DataInv, Fits, Clear

\* A sector of the new image falls on no image that fits.
LEMMA WriteSectorInv ==
  ASSUME OsipInv, NEW k \in Sectors, WriteSector(k)
  PROVE  OsipInv'
<1>1. /\ TypeOK /\ NamedImagesAreWhole /\ SoundInv /\ DataInv
      /\ op.pc = "data" /\ k \in 0 .. ImageSize[op.img] - 1
      /\ disk' = [disk EXCEPT ![op.lba + k] = <<op.img, k>>]
      /\ UNCHANGED <<sig, desc, backup, op, unnoticed>>
  BY DEF OsipInv, WriteSector, Pending
<1>2. /\ op.img \in Images /\ ImageSize[op.img] \in Nat /\ op.lba \in Nat
      /\ op.lba + ImageSize[op.img] <= DiskSize /\ DiskSize \in Nat
      /\ disk \in [Sectors -> (Images \cup {NoImage}) \X Nat]
      /\ desc \in Seq(Entry)
  BY <1>1, ImagesAssumption, GeometryAssumption DEF DataInv, TypeOK, Ops
<1>3. /\ op.lba + k \in Sectors /\ k \in Nat
      /\ op.lba + k >= op.lba /\ op.lba + k < op.lba + ImageSize[op.img]
  <2> DEFINE size == ImageSize[op.img]
             lba == op.lba
  <2>1. /\ k \in 0 .. size - 1 /\ size \in Nat /\ lba \in Nat /\ DiskSize \in Nat
        /\ lba + size <= DiskSize
    BY <1>1, <1>2
  <2> HIDE DEF size, lba
  <2>2. k \in Nat /\ lba + k \in 0 .. DiskSize - 1 /\ lba + k >= lba /\ lba + k < lba + size
    BY ONLY <2>1
  <2> QED
    BY <2>2 DEF Sectors, size, lba
<1>4. disk' \in [Sectors -> (Images \cup {NoImage}) \X Nat]
  BY <1>1, <1>2, <1>3
<1>5. TypeOK'
  BY <1>1, <1>4 DEF TypeOK
<1>6. ASSUME ~unnoticed, NEW i \in DOMAIN desc, Fits(desc[i]),
             NEW n \in 0 .. desc[i].size - 1
      PROVE  disk'[desc[i].lba + n] = <<desc[i].img, n>>
  <2>1. disk[desc[i].lba + n] = <<desc[i].img, n>>
    BY <1>1, <1>6 DEF NamedImagesAreWhole, Whole
  <2>2. desc[i].lba + n < op.lba \/ desc[i].lba + n >= op.lba + ImageSize[op.img]
    BY <1>1, <1>6 DEF DataInv, Clear
  <2>3. desc[i] \in Entry
    BY <1>2
  <2>4. desc[i].lba \in Nat /\ desc[i].size \in Nat
    BY <2>3 DEF Entry
  <2>5. desc[i].lba + desc[i].size <= DiskSize
    BY <1>1, <1>6, <2>4 DEF SoundInv, Sound
  <2> DEFINE a == desc[i].lba
             z == desc[i].size
             lba == op.lba
             size == ImageSize[op.img]
  <2>6. /\ a \in Nat /\ z \in Nat /\ lba \in Nat /\ size \in Nat /\ k \in Nat
        /\ DiskSize \in Nat /\ n \in 0 .. z - 1 /\ a + z <= DiskSize
        /\ a + n < lba \/ a + n >= lba + size
        /\ lba + k >= lba /\ lba + k < lba + size
    BY <1>2, <1>3, <2>2, <2>4, <2>5
  <2> HIDE DEF a, z, lba, size
  <2>7. a + n # lba + k /\ a + n \in 0 .. DiskSize - 1
    BY ONLY <2>6
  <2>8. desc[i].lba + n # op.lba + k /\ desc[i].lba + n \in Sectors
    BY <2>7 DEF a, lba, Sectors
  <2> QED
    BY <1>1, <1>2, <2>1, <2>8
<1>7. NamedImagesAreWhole'
  BY <1>1, <1>6 DEF NamedImagesAreWhole, Whole, Fits
<1>8. SoundInv'
  BY <1>1 DEF SoundInv, Sound
<1>9. DataInv'
  BY <1>1, DataAside
<1> QED
  BY <1>1, <1>5, <1>7, <1>8, <1>9
     DEF OsipInv, UpdaterNeverOverruns, RestoreInv

\* The table write_OSIP writes: the new image, and images it named before.
LEMMA WriteOsipInv ==
  ASSUME OsipInv, WriteOsip
  PROVE  OsipInv'
<1>1. /\ TypeOK /\ NamedImagesAreWhole /\ SoundInv /\ DataInv
      /\ op.pc = "data" /\ desc' = op.osip /\ op' = Idle
      /\ unnoticed' = (unnoticed \/ Pending # {})
      /\ UNCHANGED <<sig, backup, disk>>
  BY DEF OsipInv, WriteOsip
<1>2. PICK index \in Nat, attr \in Attrs : Prepared(index, attr)
  BY <1>1 DEF DataInv
<1>3. /\ desc \in Seq(Entry) /\ op.img \in Images /\ op.lba \in Nat
      /\ op.lba + ImageSize[op.img] <= DiskSize
      /\ op.osip \in Seq(Entry) /\ Len(op.osip) <= MAX_OSIP_DESC
  BY <1>1 DEF DataInv, TypeOK, Ops
<1> DEFINE e == NewEntry(op.img, attr, index, op.lba)
<1>4. /\ e \in Entry /\ e.lba = op.lba /\ e.img = op.img
      /\ e.size = ImageSize[op.img]
  BY <1>3, NewEntryType
<1>5. desc' = NewTable(index, e) /\ index \in 1 .. Len(desc) + 1
  BY <1>1, <1>2, <1>3 DEF Prepared, InBounds
<1> HIDE DEF e
<1>6. \A i \in DOMAIN desc' :
        desc'[i] = e \/ \E j \in DOMAIN desc : desc'[i] = desc[j]
  <2>1. ASSUME NEW i \in DOMAIN NewTable(index, e)
        PROVE  \/ NewTable(index, e)[i] = e
               \/ \E j \in DOMAIN desc : NewTable(index, e)[i] = desc[j]
    <3>1. \/ i = index /\ NewTable(index, e)[index] = e
          \/ i \in DOMAIN desc /\ NewTable(index, e)[i] = desc[i]
          \/ Moves(index, e.attr) /\ NewTable(index, e)[i] = desc[index]
      BY <1>3, <1>4, <1>5, NewTableFacts
    <3> QED
      BY <3>1 DEF Moves
  <2> QED
    BY <1>5, <2>1
<1>7. TypeOK'
  <2>1. unnoticed' \in BOOLEAN
    BY <1>1 DEF TypeOK
  <2> QED
    BY <1>1, <1>3, <2>1, IdleFacts DEF TypeOK
<1>8. SoundInv'
  BY <1>1, <1>3, <1>4, <1>6 DEF SoundInv, Sound
<1>9. ASSUME ~unnoticed', NEW i \in DOMAIN desc', Fits(desc'[i])
      PROVE  Whole(desc[i])'
  <2>1. ~unnoticed /\ Pending = {}
    BY <1>1, <1>9
  <2>2. Whole(e)
    BY <1>4, <2>1 DEF Pending, Whole
  <2>3. \A j \in DOMAIN desc : Fits(desc[j]) => Whole(desc[j])
    BY <1>1, <2>1 DEF NamedImagesAreWhole
  <2>4. Whole(desc'[i])
    BY <1>6, <1>9, <2>2, <2>3
  <2> QED
    BY <1>1, <2>4 DEF Whole
<1>10. NamedImagesAreWhole'
  BY <1>9 DEF NamedImagesAreWhole, Fits
<1> QED
  BY <1>1, <1>7, <1>8, <1>10, IdleFacts
     DEF OsipInv, UpdaterNeverOverruns, DataInv, RestoreInv

\* update_osii names no other image.
LEMMA UpdateOsiiInv ==
  ASSUME OsipInv, NEW name \in Destinations, NEW live \in BOOLEAN,
         UpdateOsii(name, live)
  PROVE  OsipInv'
<1>1. /\ TypeOK /\ op.pc = "idle" /\ desc' = Validated(name, live)
      /\ UNCHANGED <<sig, backup, disk, op, unnoticed>>
  BY DEF OsipInv, UpdateOsii
<1>2. /\ desc \in Seq(Entry) /\ Len(desc) <= MAX_OSIP_DESC
      /\ unnoticed \in BOOLEAN
  BY <1>1 DEF TypeOK
<1>3. /\ desc' \in Seq(Entry) /\ Len(desc') = Len(desc)
      /\ \A i \in DOMAIN desc : /\ desc'[i].lba = desc[i].lba
                                /\ desc'[i].size = desc[i].size
                                /\ desc'[i].img = desc[i].img
  BY <1>1, <1>2, ValidatedFacts
<1>4. DOMAIN desc' = DOMAIN desc
  BY <1>2, <1>3
<1>5. NamedImagesAreWhole' /\ SoundInv'
  BY <1>1, <1>2, <1>3, <1>4, SameImages
<1>6. TypeOK'
  BY <1>1, <1>2, <1>3 DEF TypeOK
<1> QED
  BY <1>1, <1>5, <1>6 DEF OsipInv, UpdaterNeverOverruns, DataInv, RestoreInv

\* A reset table names nothing.
LEMMA OemWriteOsipHeaderInv ==
  ASSUME OsipInv, NEW img \in Images \cup {NoImage}, OemWriteOsipHeader(img)
  PROVE  OsipInv'
<1>1. /\ TypeOK /\ UNCHANGED <<backup, disk>>
      /\ op' = [Idle EXCEPT !.pc = "restore", !.img = img,
                            !.left = <<"boot", "recovery", "fastboot">>]
  BY DEF OsipInv, OemWriteOsipHeader
<1>2. PICK written \in BOOLEAN :
        /\ sig' = (sig \/ written)
        /\ desc' = IF written THEN <<DefaultEntry>> ELSE desc
        /\ unnoticed' = (unnoticed \/ ~written)
  BY DEF OemWriteOsipHeader
<1>3. sig' \in BOOLEAN /\ unnoticed' \in BOOLEAN
  BY <1>2
<1>4. /\ op' \in Ops /\ Len(op'.osip) <= MAX_OSIP_DESC /\ op'.pc = "restore"
  <2>1. op' = [pc |-> "restore", tool |-> "none", img |-> img, lba |-> 0,
               osip |-> <<>>, left |-> <<"boot", "recovery", "fastboot">>]
    BY <1>1 DEF Idle
  <2>2. <<>> \in Seq(Entry) /\ Len(<<>>) <= MAX_OSIP_DESC
    BY GeometryAssumption
  <2> QED
    BY <2>1, <2>2 DEF Ops
<1>5. DefaultEntry \in Entry /\ DefaultEntry.size = 0 /\ DefaultEntry.attr = "KERNEL"
  BY DEF DefaultEntry, Entry, Attrs, OsAttrs
<1>6. CASE written = TRUE
  <2>1. /\ desc' = <<DefaultEntry>> /\ Len(desc') = 1 /\ desc'[1] = DefaultEntry
        /\ DOMAIN desc' = {1} /\ desc' \in Seq(Entry)
    BY <1>2, <1>5, <1>6
  <2>2. TypeOK'
    BY <1>1, <1>3, <1>4, <2>1, GeometryAssumption DEF TypeOK
  <2>3. SoundInv' /\ NamedImagesAreWhole'
    BY <1>5, <2>1 DEF SoundInv, Sound, NamedImagesAreWhole, Whole
  <2> QED
    BY <1>4, <1>5, <2>1, <2>2, <2>3
       DEF OsipInv, UpdaterNeverOverruns, DataInv, RestoreInv
<1>7. CASE written = FALSE
  <2>1. desc' = desc /\ unnoticed' = TRUE
    BY <1>2, <1>7
  <2>2. TypeOK'
    BY <1>1, <1>3, <1>4, <2>1 DEF TypeOK
  <2>3. SoundInv' /\ NamedImagesAreWhole'
    BY <2>1 DEF OsipInv, SoundInv, Sound, NamedImagesAreWhole
  <2> QED
    BY <1>4, <2>1, <2>2, <2>3
       DEF OsipInv, UpdaterNeverOverruns, DataInv, RestoreInv
<1> QED
  BY <1>6, <1>7

\* The restores leave an empty table empty.
LEMMA RestoreNextInv ==
  ASSUME OsipInv, RestoreNext
  PROVE  OsipInv'
<1>1. /\ TypeOK /\ RestoreInv /\ op.pc = "restore" /\ op.left # <<>>
      /\ op' = [op EXCEPT !.left = Tail(@)]
      /\ UNCHANGED <<sig, backup, disk>>
  BY DEF OsipInv, RestoreNext
<1>2. PICK written \in BOOLEAN :
        /\ desc' = IF written THEN Validated(Head(op.left), TRUE) ELSE desc
        /\ unnoticed' = (unnoticed \/ ~written)
  BY DEF RestoreNext
<1>3. /\ desc \in Seq(Entry) /\ Len(desc) <= MAX_OSIP_DESC
      /\ unnoticed \in BOOLEAN /\ op \in Ops
  BY <1>1 DEF TypeOK
<1>4. /\ unnoticed' \in BOOLEAN
      /\ unnoticed' = FALSE => unnoticed = FALSE
  BY <1>2, <1>3
<1>5. /\ desc' \in Seq(Entry) /\ Len(desc') = Len(desc)
      /\ \A i \in DOMAIN desc : /\ desc'[i].lba = desc[i].lba
                                /\ desc'[i].size = desc[i].size
                                /\ desc'[i].img = desc[i].img
                                /\ desc'[i].attr = desc[i].attr
  <2>1. CASE written = TRUE
    <3> DEFINE name == Head(op.left)
    <3>1. desc' = Validated(name, TRUE)
      BY <1>2, <2>1
    <3> HIDE DEF name
    <3>2. /\ Validated(name, TRUE) \in Seq(Entry)
          /\ Len(Validated(name, TRUE)) = Len(desc)
          /\ \A i \in DOMAIN desc :
               /\ Validated(name, TRUE)[i].lba = desc[i].lba
               /\ Validated(name, TRUE)[i].size = desc[i].size
               /\ Validated(name, TRUE)[i].img = desc[i].img
               /\ Validated(name, TRUE)[i].attr = desc[i].attr
      BY <1>3, ValidatedFacts
    <3> QED
      BY <3>1, <3>2
  <2>2. CASE written = FALSE
    BY <1>2, <1>3, <2>2
  <2> QED
    BY <2>1, <2>2
<1>6. DOMAIN desc' = DOMAIN desc
  BY <1>3, <1>5
<1>7. NamedImagesAreWhole' /\ SoundInv'
  BY <1>1, <1>3, <1>4, <1>5, <1>6, SameImages
<1>8. /\ op' \in Ops /\ op'.osip = op.osip /\ op'.pc = "restore"
  <2>1. Tail(op.left) \in {<<>>, <<"fastboot">>, <<"recovery", "fastboot">>,
                           <<"boot", "recovery", "fastboot">>}
    <3>1. op.left \in {<<"fastboot">>, <<"recovery", "fastboot">>,
                       <<"boot", "recovery", "fastboot">>}
      BY <1>1, <1>3 DEF Ops
    <3>2. /\ Tail(<<"fastboot">>) = <<>>
          /\ Tail(<<"recovery", "fastboot">>) = <<"fastboot">>
          /\ Tail(<<"boot", "recovery", "fastboot">>)
               = <<"recovery", "fastboot">>
      OBVIOUS
    <3> QED
      BY <3>1, <3>2
  <2> QED
    BY <1>1, <1>3, <2>1 DEF Ops
<1>9. TypeOK'
  BY <1>1, <1>3, <1>4, <1>5, <1>8 DEF TypeOK
<1>10. RestoreInv'
  BY <1>1, <1>3, <1>4, <1>5 DEF RestoreInv
<1> QED
  BY <1>7, <1>8, <1>9, <1>10 DEF OsipInv, UpdaterNeverOverruns, DataInv

\* testos is written to an empty table.
LEMMA RestoreDoneInv ==
  ASSUME OsipInv, RestoreDone
  PROVE  OsipInv'
<1>1. TypeOK /\ RestoreInv /\ op.pc = "restore"
  BY DEF OsipInv, RestoreDone
<1>2. desc \in Seq(Entry) /\ Len(desc) \in Nat /\ op \in Ops
  BY <1>1 DEF TypeOK
<1>3. CASE op.img = NoImage
  <2>1. op' = Idle /\ UNCHANGED <<sig, desc, backup, disk, unnoticed>>
    BY <1>3 DEF RestoreDone
  <2>2. NamedImagesAreWhole' /\ SoundInv'
    BY <2>1, TableAside
  <2>3. TypeOK'
    BY <1>1, <2>1, IdleFacts DEF TypeOK
  <2> QED
    BY <2>1, <2>2, <2>3, IdleFacts
       DEF OsipInv, UpdaterNeverOverruns, DataInv, RestoreInv
<1>4. CASE op.img # NoImage
  <2>1. BeginStitch("updater", op.img, ImageAttr[op.img], 1, TRUE)
    BY <1>4 DEF RestoreDone
  <2>2. op.img \in Images
    BY <1>2, <1>4 DEF Ops
  <2>3. ImageAttr[op.img] \in Attrs
    BY <2>2, ImagesAssumption
  <2>4. ~unnoticed => /\ \A i \in DOMAIN desc : desc[i].size = 0
                      /\ ~Moves(1, ImageAttr[op.img])
    BY <1>1, <1>2 DEF RestoreInv, Moves, OsAttrs
  <2>5. 1 \in Nat /\ 1 <= Len(desc) + 1
    BY <1>2
  <2> QED
    BY <2>1, <2>2, <2>3, <2>4, <2>5, BeginStitchInv
<1> QED
  BY <1>3, <1>4

\* An erased table names nothing, and a tool that stops leaves the table alone.
LEMMA EraseAndStopInv ==
  ASSUME OsipInv, OemEraseOsipHeader \/ Stop
  PROVE  OsipInv'
<1>1. CASE OemEraseOsipHeader
  <2>1. /\ TypeOK /\ op.pc = "idle" /\ sig' = FALSE /\ desc' = <<>>
        /\ UNCHANGED <<backup, disk, op, unnoticed>>
    BY <1>1 DEF OsipInv, OemEraseOsipHeader
  <2>2. desc' \in Seq(Entry) /\ Len(desc') <= MAX_OSIP_DESC /\ DOMAIN desc' = {}
    BY <2>1, GeometryAssumption
  <2>3. TypeOK'
    BY <2>1, <2>2 DEF TypeOK
  <2> QED
    BY <2>1, <2>2, <2>3 DEF OsipInv, NamedImagesAreWhole, SoundInv,
          UpdaterNeverOverruns, DataInv, RestoreInv
<1>2. CASE Stop
  <2>1. TypeOK /\ op' = Idle /\ UNCHANGED <<sig, desc, backup, disk, unnoticed>>
    BY <1>2 DEF OsipInv, Stop
  <2>2. NamedImagesAreWhole' /\ SoundInv'
    BY <2>1, TableAside
  <2>3. TypeOK'
    BY <2>1, IdleFacts DEF TypeOK
  <2> QED
    BY <2>1, <2>2, <2>3, IdleFacts
       DEF OsipInv, UpdaterNeverOverruns, DataInv, RestoreInv
<1> QED
  BY <1>1, <1>2

\* Every step keeps the invariant.
LEMMA NextInv == OsipInv /\ [Next]_vars => OsipInv'
<1> SUFFICES ASSUME OsipInv, [Next]_vars PROVE OsipInv'
  OBVIOUS
<1>1. CASE \E name \in Destinations, img \in Images : FlashImage(name, img)
  BY <1>1, FlashImageInv
<1>2. CASE \E name \in Destinations, img \in Images : FlashtoolWrite(name, img)
  BY <1>2, FlashtoolWriteInv
<1>3. CASE \E k \in Sectors : WriteSector(k)
  BY <1>3, WriteSectorInv
<1>4. CASE WriteOsip
  BY <1>4, WriteOsipInv
<1>5. CASE \E name \in Destinations, live \in BOOLEAN : UpdateOsii(name, live)
  BY <1>5, UpdateOsiiInv
<1>6. CASE \E img \in Images \cup {NoImage} : OemWriteOsipHeader(img)
  BY <1>6, OemWriteOsipHeaderInv
<1>7. CASE RestoreNext
  BY <1>7, RestoreNextInv
<1>8. CASE RestoreDone
  BY <1>8, RestoreDoneInv
<1>9. CASE OemEraseOsipHeader \/ Stop
  BY <1>9, EraseAndStopInv
<1>10. CASE UNCHANGED vars
  <2>1. UNCHANGED <<sig, desc, backup, disk, op, unnoticed>>
    BY <1>10 DEF vars
  <2>2. NamedImagesAreWhole' /\ SoundInv'
    BY <2>1, TableAside
  <2>3. DataInv'
    BY <2>1, DataAside DEF OsipInv
  <2>4. TypeOK' /\ UpdaterNeverOverruns' /\ RestoreInv'
    BY <2>1 DEF OsipInv, TypeOK, UpdaterNeverOverruns, RestoreInv
  <2> QED
    BY <2>2, <2>3, <2>4 DEF OsipInv
<1> QED
  BY <1>1, <1>2, <1>3, <1>4, <1>5, <1>6, <1>7, <1>8, <1>9, <1>10 DEF Next

\* The invariant holds in every state.
LEMMA OsipInvariant == Spec => []OsipInv
BY InitInv, NextInv, PTL DEF Spec

-----------------------------------------------------------------------------
(* The spare slot.                                                         *)

\* An image that leaves the last two sectors of its slot uses no other one.
LEMMA RoomyUsesOne ==
  ASSUME NEW e \in Entry, Roomy(e),
         NEW j \in DOMAIN os_lba_slots, Uses(e, os_lba_slots[j], OS_MAX_LBA)
  PROVE  e.lba = os_lba_slots[j]
<1> DEFINE s == os_lba_slots[j]
<1>1. /\ s \in Nat /\ s >= OS_START_OFFSET /\ OS_MAX_LBA \in Nat
      /\ OS_START_OFFSET \in Nat /\ e.lba \in Nat /\ e.size \in Nat
  BY SlotBounds, GeometryAssumption DEF Entry
<1>2. \/ e.lba >= s /\ e.lba < s + OS_MAX_LBA
      \/ e.lba + 1 + e.size >= s /\ e.lba + 1 + e.size < s + OS_MAX_LBA
  BY DEF Uses
<1>3. OS_START_OFFSET > 1
  BY GeometryAssumption DEF OS_START_OFFSET, FW_SLOTS
<1>4. ~(e = [DefaultEntry EXCEPT !.live = e.live])
  <2> SUFFICES ASSUME e = [DefaultEntry EXCEPT !.live = e.live] PROVE FALSE
    OBVIOUS
  <2>1. e.lba = 0 /\ e.size = 0
    BY DEF DefaultEntry
  <2> HIDE DEF s
  <2> QED BY <1>1, <1>2, <1>3, <2>1
<1>5. ASSUME NEW k \in DOMAIN fw_lba_slots, e.lba = fw_lba_slots[k], e.size <= FW_MAX_LBA - 2
      PROVE  FALSE
  <2>1. e.lba + FW_MAX_LBA <= OS_START_OFFSET /\ FW_MAX_LBA \in Nat
    BY <1>5, SlotBounds, GeometryAssumption
  <2> HIDE DEF s
  <2> QED BY <1>1, <1>2, <1>5, <2>1
<1>6. ASSUME NEW k \in DOMAIN os_lba_slots, e.lba = os_lba_slots[k], e.size <= OS_MAX_LBA - 2
      PROVE  k = j
  <2>1. k \in Nat /\ j \in Nat
    BY GeometryAssumption DEF os_lba_slots, OS_SLOTS
  <2>2. k < j => e.lba + OS_MAX_LBA <= s
    BY <1>6, SlotsApart
  <2>3. j < k => s + OS_MAX_LBA <= e.lba
    BY <1>6, SlotsApart
  <2> HIDE DEF s
  <2>4. ~(k < j) /\ ~(j < k)
    BY <1>1, <1>2, <1>6, <2>2, <2>3
  <2> QED BY <2>1, <2>4
<1> QED BY <1>4, <1>5, <1>6 DEF Roomy

\* get_free_lba answers 0 only when an entry uses every OS slot.
LEMMA NoFreeSlot ==
  ASSUME NEW osip, get_free_os_lba(osip) = 0, NEW j \in DOMAIN os_lba_slots
  PROVE  \E i \in DOMAIN osip : Uses(osip[i], os_lba_slots[j], OS_MAX_LBA)
<1> DEFINE free == {k \in DOMAIN os_lba_slots : \A i \in DOMAIN osip :
                                     ~Uses(osip[i], os_lba_slots[k], OS_MAX_LBA)}
           least == CHOOSE k \in free : \A l \in free : k <= l
<1>1. get_free_os_lba(osip) = IF free = {} THEN 0 ELSE os_lba_slots[least]
  BY DEF get_free_os_lba, get_free_lba
<1>2. free \in SUBSET Nat
  BY GeometryAssumption DEF os_lba_slots, OS_SLOTS
<1>3. free \subseteq DOMAIN os_lba_slots
  OBVIOUS
<1> HIDE DEF free
<1>4. ASSUME free # {} PROVE FALSE
  <2>1. \E k \in free : \A l \in free : k <= l
    BY <1>2, <1>4, LeastElement
  <2>2. least \in DOMAIN os_lba_slots
    BY <2>1, <1>3
  <2>3. os_lba_slots[least] >= OS_START_OFFSET /\ OS_START_OFFSET \in Nat \ {0}
        /\ os_lba_slots[least] \in Nat
    BY <2>2, SlotBounds
  <2> HIDE DEF least
  <2> QED BY <1>1, <1>4, <2>3
<1> QED BY <1>4 DEF free

\* A table has fewer entries than there are OS slots, and each uses one at most.
LEMMA ASlotIsSpare ==
  ASSUME NEW osip \in Seq(Entry), Len(osip) <= MAX_OSIP_DESC,
         \A i \in DOMAIN osip : Roomy(osip[i])
  PROVE  get_free_os_lba(osip) # 0
<1> SUFFICES ASSUME get_free_os_lba(osip) = 0 PROVE FALSE
  OBVIOUS
<1> DEFINE S == DOMAIN os_lba_slots
           T == DOMAIN osip
           f == [j \in S |-> CHOOSE i \in T : Uses(osip[i], os_lba_slots[j], OS_MAX_LBA)]
<1>1. S = 0 .. MAX_OSIP_DESC /\ T = 1 .. Len(osip)
  BY GeometryAssumption DEF os_lba_slots, OS_SLOTS
<1>2. /\ IsFiniteSet(S) /\ Cardinality(S) = MAX_OSIP_DESC + 1
      /\ IsFiniteSet(T) /\ Cardinality(T) = Len(osip)
  <2>1. 0 \in Int /\ 1 \in Int /\ MAX_OSIP_DESC \in Nat /\ Len(osip) \in Nat
    BY GeometryAssumption
  <2> HIDE DEF S, T
  <2>2. IsFiniteSet(S) /\ Cardinality(S) = MAX_OSIP_DESC + 1
    BY <1>1, <2>1, FS_Interval
  <2>3. ASSUME NEW n \in Nat PROVE IsFiniteSet(1 .. n) /\ Cardinality(1 .. n) = n
    <3>1. 1 \in Int /\ n \in Int
      OBVIOUS
    <3>2. IsFiniteSet(1 .. n) /\ Cardinality(1 .. n) = IF 1 > n THEN 0 ELSE n - 1 + 1
      BY ONLY <3>1, FS_Interval
    <3>3. n = IF 1 > n THEN 0 ELSE n - 1 + 1
      BY ONLY n \in Nat
    <3> QED BY ONLY <3>2, <3>3
  <2> QED BY <1>1, <2>1, <2>2, <2>3
<1>3. \A j \in S : f[j] \in T /\ Uses(osip[f[j]], os_lba_slots[j], OS_MAX_LBA)
  BY NoFreeSlot
<1>4. f \in [S -> T]
  BY <1>3
<1> HIDE DEF S, T, f
<1>5. Cardinality(T) < Cardinality(S)
  BY <1>2, GeometryAssumption
<1>6. PICK x \in S, y \in S : x # y /\ f[x] = f[y]
  BY <1>2, <1>4, <1>5, FS_PigeonHole
<1>7. osip[f[x]] \in Entry /\ Roomy(osip[f[x]])
  BY <1>3 DEF T
<1>8. os_lba_slots[x] = os_lba_slots[y]
  BY <1>3, <1>6, <1>7, RoomyUsesOne DEF S
<1>9. x \in Nat /\ y \in Nat /\ OS_MAX_LBA \in Nat /\ OS_MAX_LBA > 0
  BY <1>1, GeometryAssumption
<1>10. ASSUME NEW a \in S, NEW b \in S, a < b PROVE os_lba_slots[a] # os_lba_slots[b]
  BY <1>9, <1>10, SlotsApart, SlotBounds DEF S
<1> QED BY <1>6, <1>8, <1>9, <1>10

\* An update of any entry of the OSIP finds a slot, while the images leave the
\* last two sectors of theirs: for any table size and slot geometry.
THEOREM ASlotStaysFree == Spec => []SlotStaysAvailable
<1>1. OsipInv => SlotStaysAvailable
  BY ASlotIsSpare DEF OsipInv, TypeOK, SlotStaysAvailable
<1> QED BY <1>1, OsipInvariant, PTL


\* The types hold and the table stays within its MAX_OSIP_DESC entries.
THEOREM OsipTypeCorrect == Spec => []TypeOK
<1>1. OsipInv => TypeOK
  BY DEF OsipInv
<1> QED
  BY <1>1, OsipInvariant, PTL

\* Wherever the power is cut, every image that fits and that the table names is
\* whole, unless an error went unnoticed.
THEOREM ImagesStayWhole == Spec => []NamedImagesAreWhole
<1>1. OsipInv => NamedImagesAreWhole
  BY DEF OsipInv
<1> QED
  BY <1>1, OsipInvariant, PTL

\* The updater never writes past the end of the table.
THEOREM UpdaterStaysInTheTable == Spec => []UpdaterNeverOverruns
<1>1. OsipInv => UpdaterNeverOverruns
  BY DEF OsipInv
<1> QED
  BY <1>1, OsipInvariant, PTL

-----------------------------------------------------------------------------
(* What an update does to the table.                                       *)

\* The step that replaces the table puts in one entry, live only if the one it
\* replaces was.
LEMMA WriteOsipStep ==
  ASSUME OsipInv, WriteOsip
  PROVE  \E index \in 1 .. Len(desc) + 1, e \in Entry :
           /\ desc' = NewTable(index, e)
           /\ e.img \in Images /\ e.size = ImageSize[e.img]
           /\ index \in DOMAIN desc => (e.live => desc[index].live)
<1>1. /\ TypeOK /\ DataInv /\ op.pc = "data" /\ desc' = op.osip
  BY DEF OsipInv, WriteOsip
<1>2. PICK index \in Nat, attr \in Attrs : Prepared(index, attr)
  BY <1>1 DEF DataInv
<1>3. desc \in Seq(Entry) /\ op.img \in Images /\ op.lba \in Nat
  BY <1>1 DEF DataInv, TypeOK, Ops
<1> DEFINE e == NewEntry(op.img, attr, index, op.lba)
<1>4. e \in Entry /\ e.img = op.img /\ e.size = ImageSize[op.img]
  BY <1>3, NewEntryType
<1>5. desc' = NewTable(index, e) /\ index \in 1 .. Len(desc) + 1
  BY <1>1, <1>2, <1>3 DEF Prepared, InBounds
<1>6. e.live = (index \in DOMAIN desc => desc[index].live)
  BY DEF NewEntry
<1>7. index \in DOMAIN desc => (e.live => desc[index].live)
  BY <1>6
<1> HIDE DEF e
<1> QED
  BY <1>3, <1>4, <1>5, <1>7

\* A flash never revives an invalidated entry.
THEOREM FlashingKeepsInvalidation == Spec => InvalidationSurvives
<1> DEFINE Kept == op.pc = "data" =>
             \A i \in DOMAIN desc \cap DOMAIN desc' :
               desc'[i].live => desc[i].live
<1>1. OsipInv /\ [Next]_vars => [Kept]_vars
  <2> SUFFICES ASSUME OsipInv, [Next]_vars, op.pc = "data",
                      NEW i \in DOMAIN desc \cap DOMAIN desc', desc'[i].live
               PROVE  desc[i].live
    BY DEF vars
  <2>1. CASE desc' = desc
    BY <2>1
  <2>2. CASE WriteOsip
    <3>1. PICK index \in 1 .. Len(desc) + 1, e \in Entry :
            /\ desc' = NewTable(index, e)
            /\ index \in DOMAIN desc => (e.live => desc[index].live)
      BY <2>2, WriteOsipStep
    <3>2. desc \in Seq(Entry)
      BY DEF OsipInv, TypeOK
    <3>3. \/ i = index /\ desc'[i] = e
          \/ desc'[i] = desc[i]
          \/ i = Len(desc) + 1
      BY <3>1, <3>2, NewTableFacts
    <3>4. i # Len(desc) + 1
      BY <3>2
    <3> QED
      BY <3>1, <3>3, <3>4
  <2>3. desc' = desc \/ WriteOsip
    BY DEF Next, vars, FlashImage, FlashtoolWrite, WriteSector, UpdateOsii,
           OemWriteOsipHeader, RestoreNext, RestoreDone, OemEraseOsipHeader, Stop
  <2> QED
    BY <2>1, <2>2, <2>3
<1> QED
  BY <1>1, OsipInvariant, PTL DEF Spec, InvalidationSurvives

-----------------------------------------------------------------------------
(* OsipUpdate implements OsipContract.                                     *)

\* What the contract sees of an entry while no error went unnoticed.
Named(e) ==
  IF ~Fits(e) THEN Unprotected ELSE IF e.size = 0 THEN NoImage ELSE e.img

SlotOf(e) == [attr |-> e.attr, live |-> e.live, content |-> Named(e)]

\* The disk holds, for every entry, what the entry names.
LEMMA ContentIsNamed ==
  ASSUME OsipInv, ~unnoticed, NEW i \in DOMAIN desc
  PROVE  Content(desc[i]) = Named(desc[i])
<1>1. CASE ~Fits(desc[i])
  BY <1>1 DEF Content, Named
<1>2. CASE Fits(desc[i]) /\ desc[i].size = 0
  BY <1>2 DEF Content, Named
<1>3. CASE Fits(desc[i]) /\ desc[i].size # 0
  <2> DEFINE e == desc[i]
             found == {img \in Images :
                         /\ ImageSize[img] = e.size
                         /\ \A k \in 0 .. e.size - 1 :
                              disk[e.lba + k] = <<img, k>>}
  <2>1. e.img \in Images /\ e.size = ImageSize[e.img]
    BY <1>3 DEF OsipInv, SoundInv, Sound
  <2>2. \A k \in 0 .. e.size - 1 : disk[e.lba + k] = <<e.img, k>>
    BY <1>3 DEF OsipInv, NamedImagesAreWhole, Whole
  <2>3. e.size \in Nat /\ e.size > 0
    BY <2>1, ImagesAssumption
  <2>4. e.img \in found
    BY <2>1, <2>2
  <2>5. ASSUME NEW img \in found PROVE img = e.img
    <3>1. 0 \in 0 .. e.size - 1
      BY <2>3
    <3>2. disk[e.lba + 0] = <<img, 0>> /\ disk[e.lba + 0] = <<e.img, 0>>
      BY <2>2, <2>5, <3>1
    <3>3. <<img, 0>> = <<e.img, 0>>
      BY <3>2
    <3> QED
      BY <3>3
  <2>6. Content(e) = CHOOSE img \in found : TRUE
    BY <1>3, <2>4 DEF Content
  <2>7. Named(e) = e.img
    BY <1>3 DEF Named
  <2> HIDE DEF found
  <2> QED
    BY <2>4, <2>5, <2>6, <2>7
<1> QED
  BY <1>1, <1>2, <1>3

\* The table as the contract sees it, by what its entries name.
TableFacts ==
  /\ Table \in Contract!Tables
  /\ DOMAIN Table = DOMAIN desc /\ Len(Table) = Len(desc)
  /\ ~unnoticed => Table = [i \in DOMAIN desc |-> SlotOf(desc[i])]
  /\ unnoticed => \A i \in DOMAIN Table : Table[i].content = Unprotected

\* What the contract sees follows from the invariant.
LEMMA TableIsNamed == OsipInv => TableFacts
<1> SUFFICES ASSUME OsipInv PROVE TableFacts
  OBVIOUS
<1>1. /\ desc \in Seq(Entry) /\ Len(desc) <= MAX_OSIP_DESC /\ Len(desc) \in Nat
      /\ DOMAIN desc = 1 .. Len(desc)
  BY DEF OsipInv, TypeOK
<1>2. Table = [i \in 1 .. Len(desc) |->
                 [attr |-> desc[i].attr, live |-> desc[i].live,
                  content |-> Content(desc[i])]]
  BY DEF Table
<1>3. ASSUME NEW i \in DOMAIN desc
      PROVE  Content(desc[i]) \in Images \cup {NoImage, Unprotected}
  <2>1. CASE unnoticed
    BY <2>1 DEF Content
  <2>2. CASE ~unnoticed
    <3>1. Content(desc[i]) = Named(desc[i])
      BY <2>2, ContentIsNamed
    <3> QED
      BY <3>1 DEF Named, OsipInv, SoundInv, Sound
  <2> QED
    BY <2>1, <2>2
<1>4. ASSUME NEW i \in DOMAIN desc
      PROVE  Table[i] \in Contract!Slot
  <2>1. desc[i] \in Entry
    BY <1>1
  <2>2. desc[i].attr \in Attrs /\ desc[i].live \in BOOLEAN
    BY <2>1 DEF Entry
  <2>3. Table[i] = [attr |-> desc[i].attr, live |-> desc[i].live,
                    content |-> Content(desc[i])]
    BY <1>1, <1>2
  <2> QED
    BY <1>3, <2>2, <2>3 DEF Contract!Slot
<1>5. DOMAIN Table = 1 .. Len(desc)
  BY <1>2
<1>6. Table \in [1 .. Len(desc) -> Contract!Slot]
  BY <1>1, <1>2, <1>4
<1>7. Table \in Seq(Contract!Slot) /\ Len(Table) = Len(desc)
  BY <1>1, <1>5, <1>6
<1>8. Table \in Contract!Tables
  BY <1>1, <1>7 DEF Contract!Tables
<1>9. ~unnoticed => Table = [i \in DOMAIN desc |-> SlotOf(desc[i])]
  BY <1>1, <1>2, ContentIsNamed DEF SlotOf
<1>10. unnoticed => \A i \in DOMAIN Table : Table[i].content = Unprotected
  BY <1>1, <1>2, <1>5 DEF Content
<1> QED
  BY <1>1, <1>5, <1>7, <1>8, <1>9, <1>10 DEF TableFacts

\* A sequence that agrees with another up to its last element extends it.
LEMMA AppendIs ==
  ASSUME NEW S, NEW s \in Seq(S), NEW t \in Seq(S), Len(t) = Len(s) + 1,
         \A i \in 1 .. Len(s) : t[i] = s[i]
  PROVE  t = Append(s, t[Len(t)])
<1>1. Len(s) \in Nat /\ t[Len(t)] \in S
  OBVIOUS
<1> DEFINE a == Append(s, t[Len(t)])
<1>2. /\ a \in Seq(S) /\ Len(a) = Len(s) + 1
      /\ \A i \in 1 .. Len(s) : a[i] = s[i]
      /\ a[Len(s) + 1] = t[Len(t)]
  BY <1>1, AppendProperties
<1> HIDE DEF a
<1>3. \A i \in 1 .. Len(t) : t[i] = a[i]
  BY <1>1, <1>2
<1>4. t = a
  BY <1>2, <1>3, SeqEqual
<1> QED
  BY <1>4 DEF a

\* A sequence that agrees with another but in one place updates it.
LEMMA ExceptIs ==
  ASSUME NEW S, NEW s \in Seq(S), NEW t \in Seq(S), Len(t) = Len(s),
         NEW n \in 1 .. Len(s), \A i \in 1 .. Len(s) : i # n => t[i] = s[i]
  PROVE  t = [s EXCEPT ![n] = t[n]]
<1>1. Len(s) \in Nat /\ t[n] \in S
  OBVIOUS
<1> DEFINE a == [s EXCEPT ![n] = t[n]]
<1>2. /\ a \in Seq(S) /\ Len(a) = Len(s)
      /\ \A i \in 1 .. Len(s) : a[i] = IF i = n THEN t[n] ELSE s[i]
  BY <1>1, ExceptSeq
<1> HIDE DEF a
<1>3. \A i \in 1 .. Len(t) : t[i] = a[i]
  BY <1>1, <1>2
<1>4. t = a
  BY <1>2, <1>3, SeqEqual
<1> QED
  BY <1>4 DEF a

\* Replacing the table installs one image.
LEMMA WriteOsipInstalls ==
  ASSUME OsipInv, OsipInv', WriteOsip, ~unnoticed, ~unnoticed'
  PROVE  \E i \in 1 .. MAX_OSIP_DESC : Contract!Install(i)
<1>1. PICK index \in 1 .. Len(desc) + 1, e \in Entry :
        /\ desc' = NewTable(index, e)
        /\ e.img \in Images /\ e.size = ImageSize[e.img]
        /\ index \in DOMAIN desc => (e.live => desc[index].live)
  BY WriteOsipStep
<1>2. /\ desc \in Seq(Entry) /\ desc' \in Seq(Entry) /\ Len(desc') <= MAX_OSIP_DESC
      /\ Len(desc) \in Nat /\ Len(desc') \in Nat /\ MAX_OSIP_DESC \in Nat
      /\ DOMAIN desc = 1 .. Len(desc) /\ DOMAIN desc' = 1 .. Len(desc')
  BY GeometryAssumption DEF OsipInv, TypeOK
<1>3. /\ desc'[index] = e /\ index \in DOMAIN desc'
      /\ \A i \in DOMAIN desc' :
           \/ i = index
           \/ i \in DOMAIN desc /\ desc'[i] = desc[i]
           \/ /\ Moves(index, e.attr) /\ i = Len(desc) + 1
              /\ desc'[i] = desc[index]
      /\ Len(desc') = IF index > Len(desc) \/ Moves(index, e.attr)
                         THEN Len(desc) + 1 ELSE Len(desc)
  <2> DEFINE t == NewTable(index, e)
  <2>1. /\ t[index] = e /\ index \in DOMAIN t
        /\ \A i \in DOMAIN t :
             \/ i = index
             \/ i \in DOMAIN desc /\ t[i] = desc[i]
             \/ /\ Moves(index, e.attr) /\ i = Len(desc) + 1
                /\ t[i] = desc[index]
        /\ Len(t) = IF index > Len(desc) \/ Moves(index, e.attr)
                      THEN Len(desc) + 1 ELSE Len(desc)
    BY <1>2, NewTableFacts
  <2> HIDE DEF t
  <2>2. desc' = t
    BY <1>1 DEF t
  <2> QED
    BY <2>1, <2>2
<1>4. /\ Table = [i \in DOMAIN desc |-> SlotOf(desc[i])]
      /\ Table \in Contract!Tables /\ Len(Table) = Len(desc)
  BY TableIsNamed DEF TableFacts
<1>5. /\ Table' = [i \in DOMAIN desc' |-> SlotOf(desc'[i])]
      /\ Table' \in Contract!Tables /\ Len(Table') = Len(desc')
  <2>1. TableFacts'
    BY TableIsNamed, PTL
  <2> QED
    BY <2>1 DEF TableFacts, SlotOf, Named, Fits
<1> DEFINE new == SlotOf(e)
<1>6. Table'[index] = new
  BY <1>3, <1>5
<1>7. new.content # NoImage
  BY <1>1, ImagesAssumption, ContractAssumption DEF SlotOf, Named
<1>8. index \in DOMAIN Table' /\ index \in 1 .. MAX_OSIP_DESC
  BY <1>2, <1>3, <1>5
<1>9. CASE index > Len(desc)
  <2>1. index = Len(desc) + 1 /\ ~Moves(index, e.attr) /\ Len(desc') = Len(desc) + 1
    BY <1>1, <1>2, <1>3, <1>9 DEF Moves
  <2>2. Table' = Append(Table, new)
    <3>1. \A i \in 1 .. Len(desc) + 1 :
            Table'[i] = IF i = Len(desc) + 1 THEN new ELSE Table[i]
      BY <1>2, <1>3, <1>4, <1>5, <1>6, <2>1
    <3>2. Len(Table') = Len(Table) + 1 /\ Table'[Len(Table')] = new
      BY <1>4, <1>5, <1>6, <2>1
    <3>3. \A i \in 1 .. Len(Table) : Table'[i] = Table[i]
      <4> TAKE i \in 1 .. Len(Table)
      <4>1. Len(Table) = Len(desc) /\ Len(desc) \in Nat
        BY <1>2, <1>4
      <4>2. i \in 1 .. Len(desc) + 1 /\ i # Len(desc) + 1
        BY ONLY <4>1, i \in 1 .. Len(Table)
      <4> HIDE DEF new
      <4> QED
        BY ONLY <4>2, <3>1
    <3>4. Table \in Seq(Contract!Slot) /\ Table' \in Seq(Contract!Slot)
      BY <1>4, <1>5 DEF Contract!Tables
    <3> QED
      BY <3>2, <3>3, <3>4, AppendIs
  <2> QED
    BY <1>4, <1>5, <1>6, <1>7, <1>8, <2>1, <2>2 DEF Contract!Install
<1>10. CASE index <= Len(desc)
  <2>1. index \in DOMAIN desc /\ index \in DOMAIN Table
    BY <1>1, <1>2, <1>4, <1>10
  <2>2. new.live => Table[index].live
    BY <1>1, <1>4, <2>1 DEF SlotOf
  <2> DEFINE put == [Table EXCEPT ![index] = new]
  <2>3. CASE ~Moves(index, e.attr)
    <3>1. Table' = put
      <4>1. Len(desc') = Len(desc)
        <5>1. ~(index > Len(desc))
          BY <1>1, <1>2, <1>10
        <5> QED
          BY ONLY <5>1, <1>3, <2>3
      <4>2. \A i \in DOMAIN desc : Table'[i] = IF i = index THEN new ELSE Table[i]
        BY <1>2, <1>3, <1>4, <1>5, <1>6, <2>3, <4>1
      <4>3. Table \in Seq(Contract!Slot) /\ Table' \in Seq(Contract!Slot)
        BY <1>4, <1>5 DEF Contract!Tables
      <4>4. /\ Len(Table') = Len(Table) /\ index \in 1 .. Len(Table)
            /\ \A i \in 1 .. Len(Table) : i # index => Table'[i] = Table[i]
        BY <1>2, <1>4, <1>5, <2>1, <4>1, <4>2
      <4>5. Table' = [Table EXCEPT ![index] = Table'[index]]
        BY <4>3, <4>4, ExceptIs
      <4> QED
        BY <1>6, <4>5
    <3> QED
      BY <1>5, <1>6, <1>7, <1>8, <2>1, <2>2, <3>1 DEF Contract!Install
  <2>4. CASE Moves(index, e.attr)
    <3>1. Len(desc') = Len(desc) + 1
      BY <1>3, <2>4
    <3>2. Table' = Append(put, Table[index])
      <4>1. \A i \in 1 .. Len(desc) + 1 :
              Table'[i] = IF i = Len(desc) + 1 THEN Table[index]
                          ELSE IF i = index THEN new ELSE Table[i]
        BY <1>2, <1>3, <1>4, <1>5, <1>6, <1>10, <2>1, <3>1
      <4>2. Table \in Seq(Contract!Slot) /\ Table' \in Seq(Contract!Slot)
        BY <1>4, <1>5 DEF Contract!Tables
      <4>3. new \in Contract!Slot /\ index \in 1 .. Len(Table)
        BY <1>2, <1>4, <1>5, <1>6, <1>8, <2>1, <4>2
      <4>4. /\ put \in Seq(Contract!Slot) /\ Len(put) = Len(Table)
            /\ \A i \in 1 .. Len(Table) :
                 put[i] = IF i = index THEN new ELSE Table[i]
        BY <4>2, <4>3, ExceptSeq
      <4> HIDE DEF put, new
      <4>5. \A i \in 1 .. Len(put) : Table'[i] = put[i]
        <5> TAKE i \in 1 .. Len(put)
        <5>1. Len(put) = Len(desc) /\ Len(Table) = Len(desc) /\ Len(desc) \in Nat
          BY ONLY <1>2, <1>4, <4>4
        <5>2. /\ i \in 1 .. Len(Table)
              /\ i \in 1 .. Len(desc) + 1 /\ i # Len(desc) + 1
          BY ONLY <5>1, i \in 1 .. Len(put)
        <5> QED
          BY ONLY <5>2, <4>1, <4>4
      <4>6. Len(Table') = Len(put) + 1 /\ Table'[Len(Table')] = Table[index]
        <5>1. /\ Len(put) = Len(desc) /\ Len(Table') = Len(desc) + 1
              /\ Len(desc) \in Nat
          BY ONLY <1>2, <1>4, <1>5, <3>1, <4>4
        <5>2. Len(desc) + 1 \in 1 .. Len(desc) + 1
          BY ONLY <5>1
        <5>3. Table'[Len(desc) + 1] = Table[index]
          BY ONLY <5>2, <4>1
        <5> QED
          BY ONLY <5>1, <5>3
      <4>7. Table' = Append(put, Table'[Len(Table')])
        BY <4>2, <4>4, <4>5, <4>6, AppendIs
      <4> QED
        BY <4>6, <4>7
    <3>3. Table[index].attr # new.attr
      BY <1>4, <2>1, <2>4 DEF SlotOf, Moves
    <3> QED
      BY <1>5, <1>6, <1>7, <1>8, <2>1, <2>2, <3>2, <3>3 DEF Contract!Install
  <2> QED
    BY <2>3, <2>4
<1> QED
  BY <1>1, <1>2, <1>9, <1>10

\* While no error went unnoticed, the contract's table follows from the code's.
LEMMA TablesByName ==
  ASSUME OsipInv, OsipInv', ~unnoticed, ~unnoticed'
  PROVE  /\ Table = [i \in DOMAIN desc |-> SlotOf(desc[i])]
         /\ Table' = [i \in DOMAIN desc' |-> SlotOf(desc'[i])]
<1>1. TableFacts'
  BY TableIsNamed, PTL
<1>2. TableFacts
  BY TableIsNamed
<1> QED
  BY <1>1, <1>2 DEF TableFacts, SlotOf, Named, Fits

\* Validating an entry, or not finding it, is the contract's step.
LEMMA ValidatedStep ==
  ASSUME OsipInv, OsipInv', ~unnoticed, ~unnoticed', NEW name,
         NEW live \in BOOLEAN, desc' = Validated(name, live)
  PROVE  \/ \E i \in DOMAIN Table : Contract!Validate(i, live)
         \/ Table' = Table
<1>1. desc \in Seq(Entry)
  BY DEF OsipInv, TypeOK
<1>2. /\ Table = [i \in DOMAIN desc |-> SlotOf(desc[i])]
      /\ Table' = [i \in DOMAIN desc' |-> SlotOf(desc'[i])]
  BY TablesByName
<1>3. CASE desc' = desc
  BY <1>2, <1>3
<1>4. ASSUME NEW n \in DOMAIN desc, desc' = [desc EXCEPT ![n].live = live]
      PROVE  n \in DOMAIN Table /\ Contract!Validate(n, live)
  <2>1. DOMAIN desc' = DOMAIN desc /\ n \in DOMAIN Table
    BY <1>2, <1>4
  <2>2. desc[n] \in Entry
    BY <1>1
  <2> DEFINE d == desc[n]
             c == [d EXCEPT !.live = live]
  <2>3. desc'[n] = c
    BY <1>4
  <2>4. /\ c.attr = d.attr /\ c.size = d.size /\ c.lba = d.lba
        /\ c.img = d.img /\ c.live = live
    BY <2>2 DEF Entry
  <2> HIDE DEF c
  <2>5. SlotOf(c) = [SlotOf(d) EXCEPT !.live = live]
    <3>1. Fits(c) <=> Fits(d)
      BY <2>4 DEF Fits
    <3>2. Named(c) = Named(d)
      BY <2>4, <3>1 DEF Named
    <3> QED
      BY <2>4, <3>2 DEF SlotOf
  <2>6. \A i \in DOMAIN desc : i # n => desc'[i] = desc[i]
    BY <1>4
  <2>7. Table' = [i \in DOMAIN desc |-> IF i = n THEN [Table[n] EXCEPT !.live = live]
                                       ELSE Table[i]]
    BY <1>2, <2>1, <2>3, <2>5, <2>6
  <2>8. Table' = [Table EXCEPT ![n].live = live]
    BY <1>2, <2>1, <2>7
  <2> QED
    BY <2>1, <2>8 DEF Contract!Validate
<1>5. desc' = desc \/ \E i \in DOMAIN desc : desc' = [desc EXCEPT ![i].live = live]
  BY <1>1, ValidatedFacts
<1> QED
  BY <1>3, <1>4, <1>5

\* A function on 1 .. 1 is a sequence of one element.
LEMMA Singleton == ASSUME NEW x PROVE [i \in 1 .. 1 |-> x] = <<x>>
<1> DEFINE f == [i \in 1 .. 1 |-> x]
<1>1. f \in Seq({x}) /\ Len(f) = 1 /\ f[1] = x
  OBVIOUS
<1>2. <<x>> \in Seq({x}) /\ Len(<<x>>) = 1 /\ <<x>>[1] = x
  OBVIOUS
<1> HIDE DEF f
<1>3. \A i \in 1 .. Len(f) : f[i] = <<x>>[i]
  BY <1>1, <1>2
<1>4. f = <<x>>
  BY <1>1, <1>2, <1>3, SeqEqual
<1> QED
  BY <1>4 DEF f

\* Every step is a step of the contract, or leaves its table alone.
LEMMA StepRefines == OsipInv /\ OsipInv' /\ [Next]_vars => [Contract!Next]_Table
<1> SUFFICES ASSUME OsipInv, OsipInv', [Next]_vars
             PROVE  Contract!Next \/ Table' = Table
  OBVIOUS
<1>1. CASE unnoticed'
  <2>1. TableFacts'
    BY TableIsNamed, PTL
  <2>2. Contract!GiveUp
    BY <1>1, <2>1 DEF TableFacts, Contract!GiveUp
  <2> QED
    BY <2>2 DEF Contract!Next
<1>2. CASE ~unnoticed'
  <2>1. ~unnoticed
    BY <1>2 DEF Next, vars, FlashImage, FlashtoolWrite, BeginStitch, WriteSector,
         WriteOsip, UpdateOsii, OemWriteOsipHeader, RestoreNext, RestoreDone,
         OemEraseOsipHeader, Stop
  <2>2. /\ Table = [i \in DOMAIN desc |-> SlotOf(desc[i])]
        /\ Table' = [i \in DOMAIN desc' |-> SlotOf(desc'[i])]
    BY <1>2, <2>1, TablesByName
  <2>3. CASE desc' = desc
    BY <2>2, <2>3
  <2>4. CASE WriteOsip
    BY <1>2, <2>1, <2>4, WriteOsipInstalls DEF Contract!Next
  <2>5. ASSUME NEW name, NEW live \in BOOLEAN, desc' = Validated(name, live)
        PROVE  Contract!Next \/ Table' = Table
    BY <1>2, <2>1, <2>5, ValidatedStep DEF Contract!Next
  <2>6. CASE \E name \in Destinations, live \in BOOLEAN : UpdateOsii(name, live)
    BY <2>5, <2>6 DEF UpdateOsii
  <2>7. CASE RestoreNext
    BY <2>3, <2>5, <2>7 DEF RestoreNext
  <2>8. CASE desc' = <<DefaultEntry>>
    <3>1. Fits(DefaultEntry)
      BY GeometryAssumption DEF Fits, DefaultEntry
    <3>2. SlotOf(DefaultEntry)
            = [attr |-> "KERNEL", live |-> FALSE, content |-> NoImage]
      BY <3>1 DEF SlotOf, Named, DefaultEntry
    <3>3. DOMAIN desc' = 1 .. 1 /\ desc'[1] = DefaultEntry
      BY <2>8
    <3>4. Table' = [i \in 1 .. 1 |-> [attr |-> "KERNEL", live |-> FALSE,
                                      content |-> NoImage]]
      BY <2>2, <3>2, <3>3
    <3>5. Contract!Reset
      BY <3>4, Singleton DEF Contract!Reset
    <3> QED
      BY <3>5 DEF Contract!Next
  <2>9. CASE \E img \in Images \cup {NoImage} : OemWriteOsipHeader(img)
    BY <2>3, <2>8, <2>9 DEF OemWriteOsipHeader
  <2>10. CASE OemEraseOsipHeader
    <3>1. desc' = <<>>
      BY <2>10 DEF OemEraseOsipHeader
    <3>2. Table' = <<>>
      BY <2>2, <3>1
    <3> QED
      BY <3>2 DEF Contract!Next, Contract!Erase
  <2>11. CASE \/ \E name \in Destinations, img \in Images : FlashImage(name, img)
              \/ \E name \in Destinations, img \in Images : FlashtoolWrite(name, img)
              \/ \E k \in Sectors : WriteSector(k)
              \/ RestoreDone
              \/ Stop
              \/ UNCHANGED vars
    BY <2>3, <2>11 DEF FlashImage, FlashtoolWrite, BeginStitch, WriteSector,
         RestoreDone, Stop, vars
  <2> QED
    BY <2>4, <2>6, <2>7, <2>9, <2>10, <2>11 DEF Next
<1> QED
  BY <1>1, <1>2

\* write_stitch_image_ex, with the writes it makes one by one and the power cut
\* between any two, acts as the atomic table of OsipContract.
THEOREM OsipImplementsContract == Spec => ContractHolds
<1>1. Init => Contract!Init
  BY InitInv, TableIsNamed DEF TableFacts, Contract!Init
<1> QED
  BY <1>1, OsipInvariant, StepRefines, PTL DEF Spec, ContractHolds, Contract!Spec

=============================================================================
