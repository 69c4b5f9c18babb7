------------------------------ MODULE GptDisk ------------------------------
(***************************************************************************)
(* The commands of the GPT library (libintelprov/gpt/lib).                 *)
(* A command loads both headers and both entry tables, changes them in     *)
(* memory and, in DriveClose, writes back the parts it marked as modified, *)
(* one write after the other.  Between two writes the process may die, and *)
(* a write may fail or be short.  A CRC is the value it was computed over. *)
(***************************************************************************)
EXTENDS Integers, FiniteSets, FiniteSetsExt

CONSTANTS
  N,                 \* entries per table (128 in the build)
  LastUsable,        \* usable sectors are 1 .. LastUsable
  MaxPriority,       \* CGPT_ATTRIBUTE_MAX_PRIORITY (15 in the build)
  Guids,             \* unique ids of partitions
  Uuids,             \* ids of the disk
  AddParams,         \* the parameters cgpt_add is called with
  MaxFaults          \* bound: failed writes and killed commands

ASSUME GptAssumption ==
  /\ N \in Nat \ {0} /\ LastUsable \in Nat \ {0} /\ MaxPriority \in Nat \ {0}
  /\ MaxPriority < 99           \* the group cgpt_prioritize raises
  /\ MaxFaults \in Nat
  /\ AddParams \subseteq [partition : Nat, type : {"keep", "unused", "kernel", "data"},
                          first : Nat, size : Nat, guid : Guids \cup {"zero"},
                          priority : Int, label : BOOLEAN]

Parts == 1 .. N
Types == {"unused", "kernel", "data"}
NoGuid == "zero"
Zeroed == [type |-> "unused", first |-> 0, last |-> 0, guid |-> NoGuid, priority |-> 0]
NoEntries == [i \in Parts |-> Zeroed]

\* GptHeader: the fields that tell two headers apart.  "sealed" says that
\* header_crc32 is the CRC of the other fields, "crc" is entries_crc32.
NoHeader == [sig |-> "none", sealed |-> FALSE, site |-> "none", uuid |-> NoGuid, crc |-> NoEntries]

VARIABLES
  disk,          \* both headers and both tables
  mem,           \* the struct drive of the running command
  todo,          \* parts DriveClose still has to write
  errors,        \* DriveClose's error count is not zero
  call,          \* the command and its result
  faults

gptVars == <<disk, mem, todo, errors, call, faults>>
driveVars == <<disk, mem, todo, errors>>

All == {"h1", "h2", "e1", "e2"}

-----------------------------------------------------------------------------
(***************************************************************************)
(* Validation: cgptlib_internal.c.                                         *)
(***************************************************************************)
IsUnused(e) == e.type = "unused"

CheckHeader(h, site) == h.sig # "none" /\ h.sealed /\ h.site = site

\* The start or the end of one entry lies inside another.
Overlap(a, b) ==
  \/ a.first >= b.first /\ a.first <= b.last
  \/ a.last >= b.first /\ a.last <= b.last

\* A faulty variant; no step uses it.
CheckEntries_ends(t, h) ==
  /\ h.crc = t
  /\ \A i \in Parts : ~IsUnused(t[i]) =>
       /\ 1 <= t[i].first /\ t[i].first <= t[i].last /\ t[i].last <= LastUsable
       /\ \A j \in Parts \ {i} : ~IsUnused(t[j]) => t[i].guid # t[j].guid
             /\ ~(t[i].first >= t[j].first /\ t[i].last <= t[j].last)

CheckEntries(t, h) ==
  /\ h.crc = t
  /\ \A i \in Parts : ~IsUnused(t[i]) =>
       /\ 1 <= t[i].first /\ t[i].first <= t[i].last /\ t[i].last <= LastUsable
       /\ \A j \in Parts \ {i} : ~IsUnused(t[j]) =>
            ~Overlap(t[i], t[j]) /\ t[i].guid # t[j].guid

HeaderFieldsSame(h, k) == h.sig = k.sig /\ h.uuid = k.uuid /\ h.crc = k.crc

\* valid_headers and valid_entries; the check succeeds when both are not empty.
GptSanityCheck(d) ==
  LET h1ok == CheckHeader(d.h1, "primary")
      h2ok == CheckHeader(d.h2, "secondary")
      Valid(h) == {p \in {"e1", "e2"} : CheckEntries(d[p], h)}
      first == IF h1ok THEN Valid(d.h1) ELSE IF h2ok THEN Valid(d.h2) ELSE {}
      retry == h1ok /\ h2ok /\ first = {}
      ents == IF retry THEN Valid(d.h2) ELSE first
      hdrs == (IF h1ok THEN {"h1"} ELSE {}) \cup (IF h2ok THEN {"h2"} ELSE {})
  IN [entries |-> ents,
      headers |-> IF retry /\ ents # {} THEN {"h2"}
                  ELSE IF ents # {} /\ hdrs = {"h1", "h2"} /\ ~HeaderFieldsSame(d.h1, d.h2)
                  THEN {"h1"} ELSE hdrs]

Sane(d) == GptSanityCheck(d).entries # {}

Both(g) == g.headers = {"h1", "h2"} /\ g.entries = {"e1", "e2"}

\* GetEntry with ANY_VALID: the table a reader is shown.
AnyValid(d) == IF "e1" \in GptSanityCheck(d).entries THEN d.e1 ELSE d.e2

-----------------------------------------------------------------------------
(***************************************************************************)
(* Repair and CRCs: cgptlib_internal.c and cgpt_common.c.                  *)
(***************************************************************************)
At(h, site) == [h EXCEPT !.site = site]

\* A faulty variant; no step uses it.
GptRepair_primary(d, g) ==
  LET h1 == IF g.headers = {"h2"} THEN At(d.h2, "primary") ELSE d.h1
      h2 == IF g.headers = {"h1"} THEN At(d.h1, "secondary") ELSE d.h2
      other == [h1 |-> "h2", h2 |-> "h1", e1 |-> "e2", e2 |-> "e1"]
  IN IF g.headers = {} \/ g.entries = {} THEN [drive |-> d, modified |-> {}]
     ELSE [drive |-> [d EXCEPT !.h1 = h1, !.h2 = h2, !.e2 = d.e1],
           modified |-> {"e2"} \cup {p \in All : g.headers = {other[p]}}]

\* GptRepair: the result and the parts it marked as modified.
GptRepair(d, g) ==
  LET h1 == IF g.headers = {"h2"} THEN At(d.h2, "primary") ELSE d.h1
      h2 == IF g.headers = {"h1"} THEN At(d.h1, "secondary") ELSE d.h2
      e1 == IF g.entries = {"e2"} THEN d.e2 ELSE d.e1
      e2 == IF g.entries = {"e1"} THEN d.e1 ELSE d.e2
      other == [h1 |-> "h2", h2 |-> "h1", e1 |-> "e2", e2 |-> "e1"]
  IN IF g.headers = {} \/ g.entries = {} THEN [drive |-> d, modified |-> {}]
     ELSE [drive |-> [d EXCEPT !.h1 = h1, !.h2 = h2, !.e1 = e1, !.e2 = e2],
           modified |-> {p \in All : g.headers = {other[p]} \/ g.entries = {other[p]}}]

\* RepairEntries(MASK_PRIMARY) and RepairEntries(MASK_SECONDARY).
RepairEntries(d, from) ==
  IF d.h1.sig = "CHROMEOS" THEN d
  ELSE IF from = "e1" THEN [d EXCEPT !.e2 = d.e1] ELSE [d EXCEPT !.e1 = d.e2]

\* RepairHeader(MASK_PRIMARY), the only mask a caller passes.
RepairHeader(d) == [d EXCEPT !.h2 = At(d.h1, "secondary")]

\* A faulty variant; no step uses it.
UpdateCrc_primary(d, modified) ==
  LET crc1 == IF "e1" \in modified /\ d.h1.sig # "CHROMEOS" THEN d.e1 ELSE d.h1.crc
  IN [d EXCEPT !.h1.crc = crc1,
               !.h1.sealed = IF "h1" \in modified THEN TRUE ELSE @,
               !.h2.sealed = IF "h2" \in modified THEN TRUE ELSE @]

UpdateCrc(d, modified) ==
  LET crc1 == IF "e1" \in modified /\ d.h1.sig # "CHROMEOS" THEN d.e1 ELSE d.h1.crc
      crc2 == IF "e2" \in modified THEN d.e2 ELSE d.h2.crc
  IN [d EXCEPT !.h1.crc = crc1, !.h2.crc = crc2,
               !.h1.sealed = IF "h1" \in modified THEN TRUE ELSE @,
               !.h2.sealed = IF "h2" \in modified THEN TRUE ELSE @]

\* What add, set_attributes and prioritize do with the entry they changed.
Mirrored(d) == UpdateCrc(RepairHeader(RepairEntries(d, "e1")), All)

-----------------------------------------------------------------------------
(***************************************************************************)
(* cgpt_prioritize: the new priority of every kernel.  The groups are the  *)
(* priorities in use, the partition to raise (and, with friends, its whole *)
(* group) being moved to a group of its own above the others.              *)
(***************************************************************************)
Kernels(t) == {i \in Parts : t[i].type = "kernel"}

Group(t, p, i) ==
  IF i = p.partition \/ (p.friends /\ t[i].priority = t[p.partition].priority)
  THEN 99 ELSE t[i].priority

Groups(t, p) == {Group(t, p, i) : i \in Kernels(t)} \ {0}

\* A faulty variant; no step uses it.
Ranked_floor(t, p, i) ==
  LET start == IF p.max # 0 THEN p.max
               ELSE Min({MaxPriority, Cardinality(Groups(t, p))})
      above == Cardinality({v \in Groups(t, p) : v > Group(t, p, i)})
  IN IF Group(t, p, i) = 0 THEN 0 ELSE Max({0, start - above})

Ranked(t, p, i) ==
  LET start == IF p.max # 0 THEN p.max
               ELSE Min({MaxPriority, Cardinality(Groups(t, p))})
      above == Cardinality({v \in Groups(t, p) : v > Group(t, p, i)})
  IN IF Group(t, p, i) = 0 THEN 0 ELSE Max({1, start - above})

Reprioritized(t, p) ==
  [i \in Parts |-> IF i \in Kernels(t) THEN [t[i] EXCEPT !.priority = Ranked(t, p, i)] ELSE t[i]]

-----------------------------------------------------------------------------
(***************************************************************************)
(* Commands.                                                               *)
(***************************************************************************)
GptIdle == call.ret # "running"

\* Only a command that succeeds is remembered by its name.
Return(op, ret) == call' = [op |-> IF ret = "ok" THEN op ELSE "none", ret |-> ret]

GptAnswer(ret) == Return("none", ret) /\ UNCHANGED <<driveVars, faults>>

Refuse == GptAnswer("failed")

Load(part) == disk[part]

DriveOpen == [h1 |-> Load("h1"), h2 |-> Load("h2"), e1 |-> Load("e1"), e2 |-> Load("e2")]

\* The command goes on to DriveClose(drive, 1) with these parts modified.
Close(op, d, modified) ==
  /\ call' = [op |-> op, ret |-> "running"]
  /\ mem' = d /\ todo' = modified /\ errors' = FALSE
  /\ UNCHANGED <<disk, faults>>

\* The partition cgpt_add works on: the one given or the first unused one.
Target(t, p) ==
  IF p.partition # 0 THEN {p.partition} \cap Parts
  ELSE {i \in Parts : IsUnused(t[i]) /\ \A j \in 1 .. i - 1 : ~IsUnused(t[j])}

NewPartitionOk(p) == p.first # 0 /\ p.size # 0 /\ p.type \in {"kernel", "data"}

\* The entry cgpt_add makes; fresh is what uuid_generator returned.
Edited(e, p, fresh) ==
  LET first == IF p.first # 0 THEN p.first ELSE e.first
  IN [type |-> IF p.type # "keep" THEN p.type ELSE e.type,
      first |-> first,
      last |-> IF p.size # 0 THEN first + p.size - 1 ELSE e.last,
      guid |-> IF p.guid # NoGuid THEN p.guid ELSE IF IsUnused(e) THEN fresh ELSE e.guid,
      priority |-> IF p.priority >= 0 THEN p.priority ELSE e.priority]

cgpt_add(p, fresh) ==
  LET drive == DriveOpen
      i == CHOOSE i \in Target(drive.e1, p) : TRUE
      d == Mirrored([drive EXCEPT !.e1[i] = Edited(@, p, fresh)])
  IN /\ GptIdle
     /\ IF /\ Both(GptSanityCheck(drive)) /\ Target(drive.e1, p) # {}
           /\ (IsUnused(drive.e1[i]) => NewPartitionOk(p))
           /\ p.label
           /\ CheckEntries(d.e1, d.h1)
        THEN Close("add", d, All)
        ELSE Refuse

cgpt_set_attributes(i, priority) ==
  LET drive == DriveOpen
  IN /\ GptIdle
     /\ IF Both(GptSanityCheck(drive)) /\ i \in Parts
        THEN Close("attributes", Mirrored([drive EXCEPT !.e1[i].priority = priority]), All)
        ELSE Refuse

\* By number, or by unique id when the number is 0.
cgpt_get_partition_details(i, guid) ==
  LET drive == DriveOpen
      found == {j \in Parts : IF i # 0 THEN j = i ELSE drive.e1[j].guid = guid}
  IN GptIdle /\ IF Both(GptSanityCheck(drive)) /\ found # {} THEN GptAnswer("ok") ELSE Refuse

\* Unlike the others, cgpt_prioritize only asks that the drive is sane.
cgpt_prioritize(p) ==
  LET drive == DriveOpen
  IN /\ GptIdle
     /\ IF Sane(drive) /\ (p.partition # 0 => p.partition \in Kernels(drive.e1))
        THEN Close("prioritize", Mirrored([drive EXCEPT !.e1 = Reprioritized(@, p)]), All)
        ELSE Refuse

cgpt_create(zap, uuid) ==
  LET blank == [h1 |-> NoHeader, h2 |-> NoHeader, e1 |-> NoEntries, e2 |-> NoEntries]
      h == [NoHeader EXCEPT !.sig = "EFI", !.site = "primary", !.uuid = uuid]
  IN /\ GptIdle
     /\ IF zap THEN Close("zap", blank, All)
        ELSE Close("create", UpdateCrc(RepairHeader([blank EXCEPT !.h1 = h]), All), All)

\* cgpt_repair closes the drive whatever GptSanityCheck returned.
cgpt_repair ==
  LET r == GptRepair(DriveOpen, GptSanityCheck(DriveOpen))
  IN GptIdle /\ Close("repair", r.drive, r.modified)

\* The first sector of the primary table is zeroed (four entries of 128).
cgpt_legacy(efipart) ==
  LET sig == IF efipart THEN "EFI" ELSE "CHROMEOS"
      d == [DriveOpen EXCEPT !.h1.sig = sig, !.h2.sig = sig]
      e == IF efipart THEN RepairEntries(d, "e2") ELSE [d EXCEPT !.e1[1] = Zeroed]
      modified == {"h1", "e1", "h2"}
  IN GptIdle /\ Close("legacy", UpdateCrc(e, modified), modified)

\* The PMBR, which no other command reads, is written by itself.
cgpt_boot(i) ==
  GptIdle /\ IF i # 0 /\ ~(Sane(DriveOpen) /\ i \in Parts) THEN Refuse ELSE GptAnswer("ok")

\* Shows one partition, or all of them.
cgpt_show(i) ==
  GptIdle /\ IF Sane(DriveOpen) /\ i \in 0 .. N THEN GptAnswer("ok") ELSE Refuse

\* The partitions of a type or an id that do_search finds.
do_search(type, guid) ==
  {i \in Parts : LET e == AnyValid(DriveOpen)[i] IN ~IsUnused(e) /\ (e.type = type \/ e.guid = guid)}

-----------------------------------------------------------------------------
(***************************************************************************)
(* The command lines: arguments that do not parse, or a drive that cannot  *)
(* be opened, end the command before it starts.                            *)
(***************************************************************************)
NotStarted == GptIdle /\ Refuse

cmd_add ==
  \/ NotStarted
  \/ \E p \in AddParams, fresh \in Guids : p.priority <= MaxPriority /\ cgpt_add(p, fresh)

cmd_create == NotStarted \/ \E zap \in BOOLEAN, uuid \in Uuids : cgpt_create(zap, uuid)

cmd_repair == NotStarted \/ cgpt_repair

cmd_legacy == NotStarted \/ \E efipart \in BOOLEAN : cgpt_legacy(efipart)

\* A highest priority of 0 means that none was given.
cmd_prioritize ==
  \/ NotStarted
  \/ \E p \in [partition : 0 .. N, friends : BOOLEAN, max : 0 .. MaxPriority] :
       (p.friends => p.partition # 0) /\ cgpt_prioritize(p)

cmd_bootable == NotStarted \/ \E i \in 0 .. N + 1 : cgpt_boot(i)

cmd_show == NotStarted \/ \E i \in 0 .. N + 1 : cgpt_show(i)

\* find succeeds when it found something, exactly one with -1.
cmd_find ==
  \/ NotStarted
  \/ \E type \in Types, guid \in Guids, oneonly \in BOOLEAN :
       LET hits == IF Sane(DriveOpen) THEN do_search(type, guid) ELSE {}
       IN GptIdle /\ GptAnswer(IF hits = {} \/ (oneonly /\ Cardinality(hits) # 1) THEN "failed" ELSE "ok")

\* The kernel re-reads the table, or says that a partition is in use.
cmd_reload == GptIdle /\ \E ret \in {"ok", "failed"} : GptAnswer(ret)

-----------------------------------------------------------------------------
(***************************************************************************)
(* DriveClose: the headers first, then the tables.                         *)
(***************************************************************************)
NextPart ==
  IF "h1" \in todo THEN "h1" ELSE IF "h2" \in todo THEN "h2"
  ELSE IF "e1" \in todo THEN "e1" ELSE "e2"

\* A short write leaves the front of the new table before the rest of the old.
GptTorn(new, old, k) == [i \in Parts |-> IF i <= k THEN new[i] ELSE old[i]]

Save ==
  /\ call.ret = "running" /\ todo # {}
  /\ disk' = [disk EXCEPT ![NextPart] = mem[NextPart]]
  /\ todo' = todo \ {NextPart}
  /\ UNCHANGED <<mem, errors, call, faults>>

\* A header is one sector, which is written or not; the next parts follow.
SaveFails ==
  /\ call.ret = "running" /\ todo # {} /\ faults < MaxFaults
  /\ IF NextPart \in {"h1", "h2"} THEN UNCHANGED disk
     ELSE \E k \in 0 .. N - 1 :
            disk' = [disk EXCEPT ![NextPart] = GptTorn(mem[NextPart], @, k)]
  /\ todo' = todo \ {NextPart} /\ errors' = TRUE /\ faults' = faults + 1
  /\ UNCHANGED <<mem, call>>

DriveClose ==
  /\ call.ret = "running" /\ todo = {}
  /\ Return(call.op, IF errors THEN "failed" ELSE "ok")
  /\ mem' = disk /\ errors' = FALSE
  /\ UNCHANGED <<disk, todo, faults>>

\* The program dies between two writes.
Killed ==
  /\ call.ret = "running" /\ faults < MaxFaults
  /\ Return("none", "killed")
  /\ mem' = disk /\ todo' = {} /\ errors' = FALSE /\ faults' = faults + 1
  /\ UNCHANGED <<disk>>

-----------------------------------------------------------------------------
Commands ==
  \/ cmd_add \/ cmd_create \/ cmd_repair \/ cmd_legacy \/ cmd_prioritize
  \/ cmd_bootable \/ cmd_show \/ cmd_find \/ cmd_reload
  \/ \E i \in 0 .. N + 1, priority \in 0 .. MaxPriority : cgpt_set_attributes(i, priority)
  \/ \E i \in 0 .. N + 1, guid \in Guids : cgpt_get_partition_details(i, guid)

Closing == Save \/ SaveFails \/ DriveClose \/ Killed

\* A drive that was never partitioned.
GptInit ==
  /\ disk = [h1 |-> NoHeader, h2 |-> NoHeader, e1 |-> NoEntries, e2 |-> NoEntries]
  /\ mem = disk /\ todo = {} /\ errors = FALSE
  /\ call = [op |-> "none", ret |-> "none"]
  /\ faults = 0

GptNext == Commands \/ Closing

GptSpec == GptInit /\ [][GptNext]_gptVars

-----------------------------------------------------------------------------
(***************************************************************************)
(* Properties.                                                             *)
(***************************************************************************)
Entry == [type : Types, first : Nat, last : Int, guid : Guids \cup {NoGuid},
          priority : 0 .. MaxPriority]
Header == [sig : {"none", "EFI", "CHROMEOS"}, sealed : BOOLEAN,
           site : {"none", "primary", "secondary"}, uuid : Uuids \cup {NoGuid},
           crc : [Parts -> Entry]]
Drive == [h1 : Header, h2 : Header, e1 : [Parts -> Entry], e2 : [Parts -> Entry]]

\* The types of the drive, and the running command.
GptTypeOK ==
  /\ disk \in Drive /\ mem \in Drive
  /\ todo \subseteq All /\ errors \in BOOLEAN
  /\ call.ret \in {"none", "running", "ok", "failed", "killed"}
  /\ faults \in 0 .. MaxFaults

Sectors(e) == e.first .. e.last

\* The drive keeps its types, and a table that GptSanityCheck accepts, from
\* whichever copy, gives no sector to two partitions, although CheckEntries only looks at the two ends of
\* each entry (cgptlib_internal.c:150).
AcceptedTablesAreDisjoint ==
  /\ GptTypeOK
  /\ Sane(disk) =>
       \A i, j \in Parts : LET t == AnyValid(disk) IN
         i # j /\ ~IsUnused(t[i]) /\ ~IsUnused(t[j]) => Sectors(t[i]) \cap Sectors(t[j]) = {}

\* A command that reports success leaves two valid and equal copies, whatever
\* an earlier one that failed or died had left (cgpt_add.c:316, cgpt_repair.c:26).
\* The drive in legacy mode keeps two different tables on purpose, and a
\* repair of a drive without any valid copy reports success and does nothing.
SuccessLeavesTwins ==
  /\ call.ret = "ok" /\ disk.h1.sig = "EFI"
  /\ call.op \in {"add", "attributes", "create"} \/ (call.op = "repair" /\ Sane(disk))
  => Both(GptSanityCheck(disk)) /\ disk.e1 = disk.e2

\* No write of a repair, made, failed or cut short, changes the table a reader
\* is shown: a repair can be interrupted and run again (cgptlib_internal.c:268).
\* Only where two writes of one repair fail may a table that was cut short happen
\* to be the one that the header which was not replaced stands for.
RepairKeepsTheTable ==
  [][/\ call.op = "repair" /\ call.ret = "running" /\ Sane(disk)
     /\ errors => faults' = faults
     => Sane(disk') /\ AnyValid(disk') = AnyValid(disk)]_gptVars

\* What the usage of prioritize promises (cmd_prioritize.c:15): the original
\* order is preserved, the lowest ranks may coalesce, no active kernel is
\* lowered to 0, the given partition and its friends come out on top.
Promised(t, p) ==
  LET new == Reprioritized(t, p)
      moved == {i \in Kernels(t) : Group(t, p, i) = 99}
  IN \A i, j \in Kernels(t) :
       /\ new[i].priority = 0 <=> (t[i].priority = 0 /\ i \notin moved)
       /\ i \notin moved /\ j \notin moved /\ t[i].priority <= t[j].priority
            => new[i].priority <= new[j].priority
       /\ i \in moved => new[i].priority >= new[j].priority
       /\ new[i].priority <= IF p.max # 0 THEN p.max ELSE MaxPriority

PrioritizeMeetsItsUsage ==
  \A p \in [partition : {0} \cup Kernels(disk.e1), friends : BOOLEAN, max : 0 .. MaxPriority] :
    (p.friends => p.partition # 0) => Promised(disk.e1, p)

=============================================================================
