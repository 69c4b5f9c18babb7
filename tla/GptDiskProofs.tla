--------------------------- MODULE GptDiskProofs ---------------------------
(***************************************************************************)
(* What the GPT commands guarantee for every table size, geometry, highest *)
(* priority and set of parameters, with any number of failed writes.       *)
(***************************************************************************)
EXTENDS GptDisk, FiniteSetTheorems, TLAPS

USE DEF Parts, Types, NoGuid

Table == [Parts -> Entry]

(* The values cgpt_create starts from have their types.                        *)
LEMMA BlankTypes ==
  Zeroed \in Entry /\ NoEntries \in Table /\ NoHeader \in Header
<1>1. Zeroed \in Entry
  BY GptAssumption DEF Zeroed, Entry
<1>2. NoEntries \in Table
  BY <1>1 DEF NoEntries, Table
<1>3. NoHeader \in Header
  BY <1>2 DEF NoHeader, Header, Table
<1> QED
  BY <1>1, <1>2, <1>3

(* Copying one header or table over the other, and the new checksums, keep a   *)
(* drive a drive (RepairHeader, RepairEntries, UpdateCrc).                     *)
LEMMA CopiesTypes ==
  ASSUME NEW d \in Drive
  PROVE  /\ RepairHeader(d) \in Drive
         /\ \A from \in {"e1", "e2"} : RepairEntries(d, from) \in Drive
         /\ \A modified \in SUBSET All : UpdateCrc(d, modified) \in Drive
         /\ Mirrored(d) \in Drive /\ Mirrored(d).h1.sig = d.h1.sig
<1>1. ASSUME NEW x \in Drive PROVE RepairHeader(x) \in Drive
  BY DEF RepairHeader, At, Drive, Header
<1>2. ASSUME NEW x \in Drive, NEW from \in {"e1", "e2"} PROVE RepairEntries(x, from) \in Drive
  BY DEF RepairEntries, Drive
<1>3. ASSUME NEW x \in Drive, NEW modified PROVE UpdateCrc(x, modified) \in Drive
  BY DEF UpdateCrc, Drive, Header
<1>4. Mirrored(d).h1.sig = d.h1.sig
  BY DEF Mirrored, UpdateCrc, RepairHeader, RepairEntries, At, Drive, Header
<1> QED
  BY <1>1, <1>2, <1>3, <1>4 DEF Mirrored

(* The entry cgpt_add builds from its parameters is an entry.                  *)
LEMMA EditedType ==
  ASSUME NEW p \in AddParams, NEW e \in Entry, NEW fresh \in Guids,
         p.priority <= MaxPriority
  PROVE  Edited(e, p, fresh) \in Entry
  BY GptAssumption DEF Edited, Entry

-----------------------------------------------------------------------------
(***************************************************************************)
(* What GptSanityCheck's answer says of the drive.                         *)
(***************************************************************************)

(* Every table GptSanityCheck accepts was checked against one header, which is *)
(* accepted too; two accepted headers agree.                                   *)
LEMMA SanityFacts ==
  ASSUME NEW d \in Drive,
         GptSanityCheck(d).entries # {}
  PROVE  /\ GptSanityCheck(d).entries \in {{"e1"}, {"e2"}, {"e1", "e2"}}
         /\ GptSanityCheck(d).headers \in {{"h1"}, {"h2"}, {"h1", "h2"}}
         /\ "h1" \in GptSanityCheck(d).headers =>
              /\ CheckHeader(d.h1, "primary")
              /\ "e1" \in GptSanityCheck(d).entries => CheckEntries(d.e1, d.h1)
              /\ "e2" \in GptSanityCheck(d).entries => CheckEntries(d.e2, d.h1)
         /\ "h2" \in GptSanityCheck(d).headers =>
              /\ CheckHeader(d.h2, "secondary")
              /\ "h1" \in GptSanityCheck(d).headers => HeaderFieldsSame(d.h1, d.h2)
              /\ "h1" \notin GptSanityCheck(d).headers =>
                   /\ "e1" \in GptSanityCheck(d).entries => CheckEntries(d.e1, d.h2)
                   /\ "e2" \in GptSanityCheck(d).entries => CheckEntries(d.e2, d.h2)
<1> DEFINE h1ok == CheckHeader(d.h1, "primary")
           h2ok == CheckHeader(d.h2, "secondary")
           Valid(h) == {p \in {"e1", "e2"} : CheckEntries(d[p], h)}
           first == IF h1ok THEN Valid(d.h1) ELSE IF h2ok THEN Valid(d.h2) ELSE {}
           retry == h1ok /\ h2ok /\ first = {}
           ents == IF retry THEN Valid(d.h2) ELSE first
           hdrs == (IF h1ok THEN {"h1"} ELSE {}) \cup (IF h2ok THEN {"h2"} ELSE {})
           same == HeaderFieldsSame(d.h1, d.h2)
           heads == IF retry /\ ents # {} THEN {"h2"}
                    ELSE IF ents # {} /\ hdrs = {"h1", "h2"} /\ ~same THEN {"h1"} ELSE hdrs
<1>1. GptSanityCheck(d).entries = ents /\ GptSanityCheck(d).headers = heads
  BY DEF GptSanityCheck
<1>2. \A h : Valid(h) \in {{}, {"e1"}, {"e2"}, {"e1", "e2"}}
  OBVIOUS
<1>3. \A h : /\ "e1" \in Valid(h) => CheckEntries(d.e1, h)
             /\ "e2" \in Valid(h) => CheckEntries(d.e2, h)
  BY DEF Drive
<1>4. h1ok \in BOOLEAN /\ h2ok \in BOOLEAN /\ same \in BOOLEAN
  BY DEF CheckHeader, HeaderFieldsSame, Drive, Header
<1> HIDE DEF h1ok, h2ok, Valid, same
<1>5. ents \in {{"e1"}, {"e2"}, {"e1", "e2"}}
  BY <1>1, <1>2
<1>6. hdrs \in {{"h1"}, {"h2"}, {"h1", "h2"}}
  BY <1>5, <1>4
<1>7. heads \in {{"h1"}, {"h2"}, {"h1", "h2"}}
  BY <1>6, <1>5
<1>8. "h1" \in heads => h1ok /\ ents = Valid(d.h1)
  BY <1>4, <1>5
<1>9. "h2" \in heads => h2ok /\ ("h1" \in heads => same) /\ ("h1" \notin heads => ents = Valid(d.h2))
  BY <1>4, <1>5
<1> QED
  BY <1>1, <1>3, <1>5, <1>7, <1>8, <1>9 DEF h1ok, h2ok, same

(* Two equal copies that pass the checks one by one pass them together.        *)
LEMMA TwinsAreBoth ==
  ASSUME NEW d \in Drive,
         CheckHeader(d.h1, "primary"), CheckHeader(d.h2, "secondary"),
         HeaderFieldsSame(d.h1, d.h2), d.e1 = d.e2, CheckEntries(d.e1, d.h1)
  PROVE  Both(GptSanityCheck(d))
<1>1. {p \in {"e1", "e2"} : CheckEntries(d[p], d.h1)} = {"e1", "e2"}
  BY DEF Drive
<1>2. GptSanityCheck(d) = [entries |-> {"e1", "e2"}, headers |-> {"h1", "h2"}]
  BY <1>1 DEF GptSanityCheck
<1> QED
  BY <1>2 DEF Both

(* A drive the sanity check accepts in full has its first table accepted by    *)
(* its first header.                                                           *)
LEMMA BothFacts ==
  ASSUME NEW d \in Drive, Both(GptSanityCheck(d))
  PROVE  CheckHeader(d.h1, "primary") /\ CheckEntries(d.e1, d.h1)
<1>1. GptSanityCheck(d).entries # {}
  BY DEF Both
<1> QED
  BY <1>1, SanityFacts DEF Both

-----------------------------------------------------------------------------
(***************************************************************************)
(* What the commands hand to DriveClose.                                   *)
(***************************************************************************)
Twins(d) == Both(GptSanityCheck(d)) /\ d.e1 = d.e2

\* What a command's drive in memory is once everything in it is on the disk.
Delivers(op, d) ==
  d.h1.sig = "EFI" /\ (op \in {"add", "attributes", "create"} \/ (op = "repair" /\ Sane(d)))
  => Twins(d)

(* RepairEntries, RepairHeader and UpdateCrc make twins of any drive that has  *)
(* a primary header and a table whose entries pass the checks.                 *)
LEMMA MirroredTwins ==
  ASSUME NEW d \in Drive,
         d.h1.sig = "EFI", d.h1.site = "primary",
         CheckEntries(d.e1, [d.h1 EXCEPT !.crc = d.e1])
  PROVE  Twins(Mirrored(d))
<1> DEFINE m == Mirrored(d)
<1>1. m \in Drive
  BY CopiesTypes
<1>2. /\ m.h1 = [d.h1 EXCEPT !.crc = d.e1, !.sealed = TRUE]
      /\ m.h2 = [d.h1 EXCEPT !.crc = d.e1, !.sealed = TRUE, !.site = "secondary"]
      /\ m.e1 = d.e1 /\ m.e2 = d.e1
  BY DEF Mirrored, UpdateCrc, RepairHeader, RepairEntries, At, Drive, Header, All
<1>3. CheckEntries(m.e1, m.h1)
  BY <1>2 DEF CheckEntries, Drive, Header
<1>4. /\ CheckHeader(m.h1, "primary") /\ CheckHeader(m.h2, "secondary")
      /\ HeaderFieldsSame(m.h1, m.h2)
  BY <1>2 DEF CheckHeader, HeaderFieldsSame, Drive, Header
<1> QED
  BY <1>1, <1>2, <1>3, <1>4, TwinsAreBoth DEF Twins

(* GptRepair makes twins of a drive with an accepted copy, and changes only    *)
(* the parts it marks.                                                         *)
LEMMA RepairTwins ==
  ASSUME NEW d \in Drive
  PROVE  LET r == GptRepair(d, GptSanityCheck(d))
         IN  /\ r.drive \in Drive /\ r.modified \subseteq All
             /\ \A p \in All : p \in r.modified \/ r.drive[p] = d[p]
             /\ Sane(r.drive) => Twins(r.drive)
<1> DEFINE g == GptSanityCheck(d)
           r == GptRepair(d, g)
<1>1. CASE g.entries = {}
  <2>1. r = [drive |-> d, modified |-> {}]
    BY <1>1 DEF GptRepair
  <2> QED
    BY <1>1, <2>1 DEF Sane, All
<1>2. CASE g.entries # {}
  <2> DEFINE h1 == IF g.headers = {"h2"} THEN At(d.h2, "primary") ELSE d.h1
             h2 == IF g.headers = {"h1"} THEN At(d.h1, "secondary") ELSE d.h2
             e1 == IF g.entries = {"e2"} THEN d.e2 ELSE d.e1
             e2 == IF g.entries = {"e1"} THEN d.e1 ELSE d.e2
             other == [h1 |-> "h2", h2 |-> "h1", e1 |-> "e2", e2 |-> "e1"]
             parts == {p \in All : g.headers = {other[p]} \/ g.entries = {other[p]}}
             new == [d EXCEPT !.h1 = h1, !.h2 = h2, !.e1 = e1, !.e2 = e2]
  <2>1. /\ g.entries \in {{"e1"}, {"e2"}, {"e1", "e2"}}
        /\ g.headers \in {{"h1"}, {"h2"}, {"h1", "h2"}}
    BY <1>2, SanityFacts
  <2>2. r.drive = new /\ r.modified = parts
    BY <1>2, <2>1 DEF GptRepair
  <2>3. new \in Drive
    <3>1. h1 \in Header /\ h2 \in Header
      BY DEF Drive, Header, At
    <3>2. e1 \in Table /\ e2 \in Table
      BY DEF Drive, Table
    <3> HIDE DEF h1, h2, e1, e2
    <3> QED
      BY <3>1, <3>2 DEF Drive, Table
  <2>4. new.h1 = h1 /\ new.h2 = h2 /\ new.e1 = e1 /\ new.e2 = e2
    BY DEF Drive
  <2>5. \A p \in All : p \in parts \/ new[p] = d[p]
    <3>1. /\ other["h1"] = "h2" /\ other["h2"] = "h1"
          /\ other["e1"] = "e2" /\ other["e2"] = "e1"
      OBVIOUS
    <3>2. /\ "h1" \in parts \/ h1 = d.h1
          /\ "h2" \in parts \/ h2 = d.h2
          /\ "e1" \in parts \/ e1 = d.e1
          /\ "e2" \in parts \/ e2 = d.e2
      BY <3>1 DEF All
    <3> HIDE DEF h1, h2, e1, e2, parts
    <3> QED
      BY <3>2 DEF All, Drive
  <2>6. CheckHeader(h1, "primary") /\ CheckHeader(h2, "secondary") /\ HeaderFieldsSame(h1, h2)
    <3>1. CASE g.headers = {"h1"}
      <4>1. CheckHeader(d.h1, "primary") /\ h1 = d.h1 /\ h2 = At(d.h1, "secondary")
        BY <1>2, <3>1, SanityFacts
      <4> QED
        BY <4>1 DEF CheckHeader, HeaderFieldsSame, At, Drive, Header
    <3>2. CASE g.headers = {"h2"}
      <4>1. CheckHeader(d.h2, "secondary") /\ h2 = d.h2 /\ h1 = At(d.h2, "primary")
        BY <1>2, <3>2, SanityFacts
      <4> QED
        BY <4>1 DEF CheckHeader, HeaderFieldsSame, At, Drive, Header
    <3>3. CASE g.headers = {"h1", "h2"}
      BY <1>2, <3>3, SanityFacts
    <3> QED
      BY <2>1, <3>1, <3>2, <3>3
  <2>7. CheckEntries(e1, h1) /\ CheckEntries(e2, h1)
    <3>1. h1.crc = IF g.headers = {"h2"} THEN d.h2.crc ELSE d.h1.crc
      BY DEF At, Drive, Header
    <3>2. \A p \in {"e1", "e2"} : p \in g.entries =>
            CheckEntries(d[p], IF g.headers = {"h2"} THEN d.h2 ELSE d.h1)
      BY <1>2, <2>1, SanityFacts DEF Drive
    <3>3. \A p \in {"e1", "e2"} : p \in g.entries => CheckEntries(d[p], h1)
      BY <3>1, <3>2 DEF CheckEntries
    <3> QED
      BY <2>1, <3>3 DEF Drive
  <2>8. e1 = e2
    BY <2>7 DEF CheckEntries
  <2> HIDE DEF h1, h2, e1, e2, parts, new, r
  <2>9. Twins(new)
    BY <2>3, <2>4, <2>6, <2>7, <2>8, TwinsAreBoth DEF Twins
  <2>10. parts \subseteq All
    BY DEF parts
  <2> QED
    BY <2>2, <2>3, <2>5, <2>9, <2>10 DEF r
<1> QED
  BY <1>1, <1>2

\* A command that goes on to DriveClose, with what the invariant needs of it.
Ops == {"add", "attributes", "create", "zap", "repair", "legacy", "prioritize"}
Closes ==
  \E op \in Ops, d \in Drive, modified \in SUBSET All :
    /\ Close(op, d, modified)
    /\ \A p \in All : p \in modified \/ d[p] = disk[p]
    /\ Delivers(op, d)

\* A command that ends at once.
Answers == \E ret \in {"ok", "failed"} : GptAnswer(ret)

(* DriveOpen reads both headers and both tables.                               *)
LEMMA OpenReadsAll == ASSUME disk \in Drive PROVE DriveOpen = disk
  BY DEF DriveOpen, Load, Drive

(* cgpt_add refuses a table its own check rejects (cgpt_add.c:316), so it      *)
(* closes with twins.                                                          *)
LEMMA AddCloses ==
  ASSUME GptTypeOK, NEW p \in AddParams, NEW fresh \in Guids,
         p.priority <= MaxPriority, cgpt_add(p, fresh)
  PROVE  Closes \/ Answers
<1> DEFINE i == CHOOSE i \in Target(disk.e1, p) : TRUE
           e == [disk EXCEPT !.e1[i] = Edited(@, p, fresh)]
           d == Mirrored(e)
<1>0. disk \in Drive /\ DriveOpen = disk
  BY OpenReadsAll DEF GptTypeOK
<1>1. CASE Refuse
  BY <1>1 DEF Refuse, Answers
<1>2. CASE ~Refuse
  <2>1. /\ Both(GptSanityCheck(disk)) /\ Target(disk.e1, p) # {}
        /\ CheckEntries(d.e1, d.h1) /\ Close("add", d, All)
    BY <1>0, <1>2 DEF cgpt_add
  <2>2. i \in Parts
    BY <2>1 DEF Target
  <2> HIDE DEF i
  <2>3. e \in Drive
    <3>1. disk.e1 \in Table /\ disk.e1[i] \in Entry
      BY <1>0, <2>2 DEF Drive, Table
    <3>2. Edited(disk.e1[i], p, fresh) \in Entry
      BY <3>1, EditedType
    <3> QED
      BY <1>0, <2>2, <3>1, <3>2 DEF Drive, Table
  <2>4. e.h1 = disk.h1
    BY <1>0 DEF Drive
  <2>5. d \in Drive
    BY <2>3, CopiesTypes
  <2> HIDE DEF e
  <2>6. ASSUME d.h1.sig = "EFI" PROVE Twins(d)
    <3>1. d.h1.sig = e.h1.sig
      BY <2>3, CopiesTypes
    <3>2. d.e1 = e.e1 /\ d.h1.crc = e.e1
      BY <2>3, <2>6, <3>1 DEF Mirrored, UpdateCrc, RepairHeader, RepairEntries, At, Drive, Header, All
    <3>3. CheckEntries(e.e1, [e.h1 EXCEPT !.crc = e.e1])
      BY <2>1, <2>3, <3>2 DEF CheckEntries, Drive, Header
    <3>4. e.h1.site = "primary"
      BY <1>0, <2>1, <2>4, BothFacts DEF CheckHeader
    <3> QED
      BY <2>3, <2>6, <3>1, <3>3, <3>4, MirroredTwins
  <2> HIDE DEF d
  <2>7. Delivers("add", d)
    BY <2>6 DEF Delivers
  <2>20. Closes
    <3> USE DEF Closes, Ops
    <3> WITNESS "add" \in Ops, d \in Drive, All \in SUBSET All
    <3> QED
      BY <2>1, <2>7
  <2> QED
    BY <2>20
<1> QED
  BY <1>1, <1>2

(* cgpt_set_attributes leaves places and ids alone, so the checks that held    *)
(* when it opened the drive still hold.                                        *)
LEMMA AttributesClose ==
  ASSUME GptTypeOK, NEW i \in 0 .. N + 1, NEW priority \in 0 .. MaxPriority,
         cgpt_set_attributes(i, priority)
  PROVE  Closes \/ Answers
<1> DEFINE e == [disk EXCEPT !.e1[i].priority = priority]
           d == Mirrored(e)
<1>0. disk \in Drive /\ DriveOpen = disk
  BY OpenReadsAll DEF GptTypeOK
<1>1. CASE Refuse
  BY <1>1 DEF Refuse, Answers
<1>2. CASE ~Refuse
  <2>1. Both(GptSanityCheck(disk)) /\ i \in Parts /\ Close("attributes", d, All)
    BY <1>0, <1>2 DEF cgpt_set_attributes
  <2>2. disk.e1 \in Table /\ disk.e1[i] \in Entry
    BY <1>0, <2>1 DEF Drive, Table
  <2>3. e.h1 = disk.h1 /\ e.e1 = [disk.e1 EXCEPT ![i] = [@ EXCEPT !.priority = priority]]
    BY <1>0 DEF Drive
  <2>4. e \in Drive
    <3>1. [disk.e1[i] EXCEPT !.priority = priority] \in Entry
      BY <2>2 DEF Entry
    <3> QED
      BY <1>0, <2>1, <2>2, <3>1 DEF Drive, Table
  <2>5. d \in Drive
    BY <2>4, CopiesTypes
  <2>6. CheckHeader(disk.h1, "primary") /\ CheckEntries(disk.e1, disk.h1)
    BY <1>0, <2>1, BothFacts
  <2>7. \A j \in Parts : /\ e.e1[j].type = disk.e1[j].type /\ e.e1[j].first = disk.e1[j].first
                         /\ e.e1[j].last = disk.e1[j].last /\ e.e1[j].guid = disk.e1[j].guid
    BY <2>1, <2>2, <2>3 DEF Entry, Table
  <2> HIDE DEF e
  <2>8. CheckEntries(e.e1, [e.h1 EXCEPT !.crc = e.e1])
    BY <2>4, <2>6, <2>7 DEF CheckEntries, IsUnused, Overlap, Drive, Header
  <2>9. d.h1.sig = e.h1.sig
    BY <2>4, CopiesTypes
  <2>10. d.h1.sig = "EFI" => Twins(d)
    BY <2>3, <2>4, <2>6, <2>8, <2>9, MirroredTwins DEF CheckHeader
  <2> HIDE DEF d
  <2>11. Delivers("attributes", d)
    BY <2>10 DEF Delivers
  <2>20. Closes
    <3> USE DEF Closes, Ops
    <3> WITNESS "attributes" \in Ops, d \in Drive, All \in SUBSET All
    <3> QED
      BY <2>1, <2>11
  <2> QED
    BY <2>20
<1> QED
  BY <1>1, <1>2

-----------------------------------------------------------------------------
(***************************************************************************)
(* The arithmetic of cgpt_prioritize.                                      *)
(***************************************************************************)

(* The larger and the smaller of two numbers.                                  *)
LEMMA MaxMin ==
  ASSUME NEW a \in Int, NEW b \in Int
  PROVE  /\ Max({a, b}) = IF a >= b THEN a ELSE b
         /\ Min({a, b}) = IF a <= b THEN a ELSE b
<1>1. \E x \in {a, b} : \A y \in {a, b} : x >= y
  OBVIOUS
<1>2. \E x \in {a, b} : \A y \in {a, b} : x <= y
  OBVIOUS
<1>3. Max({a, b}) \in {a, b} /\ Max({a, b}) >= a /\ Max({a, b}) >= b
  BY <1>1 DEF Max
<1>4. Min({a, b}) \in {a, b} /\ Min({a, b}) <= a /\ Min({a, b}) <= b
  BY <1>2 DEF Min
<1> QED
  BY <1>3, <1>4

\* The counts cgpt_prioritize works with: the highest new priority, and how
\* many groups come before that of i.
Start(t, p) == IF p.max # 0 THEN p.max ELSE Min({MaxPriority, Cardinality(Groups(t, p))})
Before(t, p, i) == {v \in Groups(t, p) : v > Group(t, p, i)}
Limit(p) == IF p.max # 0 THEN p.max ELSE MaxPriority

(* A group is 99 or a priority; there are finitely many.                       *)
LEMMA GroupFacts ==
  ASSUME NEW t \in Table, NEW p
  PROVE  /\ \A i \in Parts : /\ Group(t, p, i) \in {99, t[i].priority}
                             /\ Group(t, p, i) \in 0 .. 99
                             /\ t[i].priority \in 0 .. MaxPriority
         /\ IsFiniteSet(Groups(t, p)) /\ Cardinality(Groups(t, p)) \in Nat
         /\ \A i \in Parts : IsFiniteSet(Before(t, p, i)) /\ Cardinality(Before(t, p, i)) \in Nat
<1>1. \A i \in Parts : /\ Group(t, p, i) \in {99, t[i].priority}
                       /\ t[i].priority \in 0 .. MaxPriority
  BY DEF Group, Table, Entry
<1>2. \A i \in Parts : Group(t, p, i) \in 0 .. 99
  <2>1. MaxPriority \in Nat /\ MaxPriority < 99
    BY GptAssumption
  <2> TAKE i \in Parts
  <2> DEFINE g == Group(t, p, i)
             q == t[i].priority
  <2>2. g \in {99, q} /\ q \in 0 .. MaxPriority
    BY <1>1
  <2> HIDE DEF g, q
  <2>3. g \in 0 .. 99
    BY <2>1, <2>2
  <2> QED
    BY <2>3 DEF g
<1>3. Groups(t, p) \subseteq 0 .. 99
  BY <1>2 DEF Groups, Kernels
<1>4. IsFiniteSet(0 .. 99)
  <2>1. 0 \in Int /\ 99 \in Int
    OBVIOUS
  <2> QED
    BY ONLY <2>1, FS_Interval, Zenon
<1>5. IsFiniteSet(Groups(t, p))
  BY <1>3, <1>4, FS_Subset
<1>6. \A i \in Parts : IsFiniteSet(Before(t, p, i))
  BY <1>5, FS_Subset DEF Before
<1> QED
  BY <1>1, <1>2, <1>5, <1>6, FS_CardinalityType

(* The start value lies between 0 and the limit, and is a natural number.      *)
LEMMA StartFacts ==
  ASSUME NEW t \in Table, NEW p, p.max \in 0 .. MaxPriority
  PROVE  Start(t, p) \in Nat /\ Start(t, p) <= Limit(p) /\ Limit(p) \in 1 .. MaxPriority
<1>1. Cardinality(Groups(t, p)) \in Nat
  BY GroupFacts
<1> DEFINE c == Cardinality(Groups(t, p))
<1> HIDE DEF c
<1>2. Min({MaxPriority, c}) = IF MaxPriority <= c THEN MaxPriority ELSE c
  <2>1. MaxPriority \in Int /\ c \in Int
    BY <1>1, GptAssumption DEF c
  <2> QED
    BY ONLY <2>1, MaxMin
<1> QED
  BY <1>1, <1>2, GptAssumption DEF Start, Limit, c

(* Ranked in terms of the counts: never below 1 for an active kernel.          *)
LEMMA RankedIs ==
  ASSUME NEW t \in Table, NEW p, p.max \in 0 .. MaxPriority, NEW i \in Parts
  PROVE  /\ Ranked(t, p, i) = IF Group(t, p, i) = 0 THEN 0
                              ELSE IF 1 >= Start(t, p) - Cardinality(Before(t, p, i)) THEN 1
                              ELSE Start(t, p) - Cardinality(Before(t, p, i))
         /\ Ranked(t, p, i) \in 0 .. Limit(p)
         /\ Ranked(t, p, i) = 0 <=> Group(t, p, i) = 0
<1> DEFINE s == Start(t, p)
           c == Cardinality(Before(t, p, i))
<1>1. s \in Nat /\ c \in Nat /\ s <= Limit(p) /\ Limit(p) \in 1 .. MaxPriority
  BY StartFacts, GroupFacts
<1>2. Ranked(t, p, i) = IF Group(t, p, i) = 0 THEN 0 ELSE Max({1, s - c})
  BY DEF Ranked, Start, Before
<1> HIDE DEF s, c
<1>3. Max({1, s - c}) = IF 1 >= s - c THEN 1 ELSE s - c
  BY <1>1, MaxMin
<1>4. Ranked(t, p, i) \in 0 .. Limit(p) /\ (Ranked(t, p, i) = 0 <=> Group(t, p, i) = 0)
  BY <1>1, <1>2, <1>3, GptAssumption
<1> QED
  BY <1>2, <1>3, <1>4 DEF s, c

(* Ranking keeps the order of the groups.                                      *)
LEMMA RankedIsMonotone ==
  ASSUME NEW t \in Table, NEW p, p.max \in 0 .. MaxPriority,
         NEW i \in Parts, NEW j \in Parts, Group(t, p, i) <= Group(t, p, j)
  PROVE  Ranked(t, p, i) <= Ranked(t, p, j)
<1>1. Group(t, p, i) \in 0 .. 99 /\ Group(t, p, j) \in 0 .. 99
  BY GroupFacts
<1>2. Groups(t, p) \subseteq 0 .. 99
  <2>1. \A k \in Parts : Group(t, p, k) \in 0 .. 99
    BY GroupFacts
  <2> QED
    BY <2>1 DEF Groups, Kernels
<1>3. Before(t, p, j) \subseteq Before(t, p, i)
  BY <1>1, <1>2 DEF Before
<1>4. Cardinality(Before(t, p, j)) <= Cardinality(Before(t, p, i))
  BY <1>3, GroupFacts, FS_Subset
<1> DEFINE s == Start(t, p)
           ci == Cardinality(Before(t, p, i))
           cj == Cardinality(Before(t, p, j))
           gi == Group(t, p, i)
           gj == Group(t, p, j)
<1>5. s \in Nat /\ ci \in Nat /\ cj \in Nat /\ cj <= ci /\ gi \in 0 .. 99 /\ gj \in 0 .. 99 /\ gi <= gj
  BY <1>1, <1>4, StartFacts, GroupFacts
<1>6. /\ Ranked(t, p, i) = IF gi = 0 THEN 0 ELSE IF 1 >= s - ci THEN 1 ELSE s - ci
      /\ Ranked(t, p, j) = IF gj = 0 THEN 0 ELSE IF 1 >= s - cj THEN 1 ELSE s - cj
  BY RankedIs
<1> HIDE DEF s, ci, cj, gi, gj
<1> QED
  BY <1>5, <1>6

(* Priorities and nothing else change, and stay within their range.            *)
LEMMA ReprioritizedType ==
  ASSUME NEW t \in Table, NEW p, p.max \in 0 .. MaxPriority
  PROVE  Reprioritized(t, p) \in Table
<1>1. ASSUME NEW i \in Parts PROVE Ranked(t, p, i) \in 0 .. MaxPriority
  <2>1. Ranked(t, p, i) \in 0 .. Limit(p) /\ Limit(p) \in 1 .. MaxPriority
    BY RankedIs, StartFacts
  <2> QED
    BY <2>1, GptAssumption
<1> QED
  BY <1>1 DEF Reprioritized, Table, Entry

(* The usage text of prioritize (cmd_prioritize.c:15) holds of the ranks.      *)
LEMMA PromiseKept ==
  ASSUME NEW t \in Table, NEW p, p.max \in 0 .. MaxPriority
  PROVE  Promised(t, p)
<1> DEFINE new == Reprioritized(t, p)
           moved == {i \in Kernels(t) : Group(t, p, i) = 99}
<1> SUFFICES ASSUME NEW i \in Kernels(t), NEW j \in Kernels(t)
             PROVE  /\ new[i].priority = 0 <=> (t[i].priority = 0 /\ i \notin moved)
                    /\ i \notin moved /\ j \notin moved /\ t[i].priority <= t[j].priority
                         => new[i].priority <= new[j].priority
                    /\ i \in moved => new[i].priority >= new[j].priority
                    /\ new[i].priority <= IF p.max # 0 THEN p.max ELSE MaxPriority
  BY DEF Promised
<1>1. i \in Parts /\ j \in Parts
  BY DEF Kernels
<1>2. new[i].priority = Ranked(t, p, i) /\ new[j].priority = Ranked(t, p, j)
  BY <1>1 DEF Reprioritized, Table, Entry
<1> DEFINE gi == Group(t, p, i)
           gj == Group(t, p, j)
           ri == Ranked(t, p, i)
           rj == Ranked(t, p, j)
           qi == t[i].priority
           qj == t[j].priority
<1>3. /\ gi \in {99, qi} /\ gj \in {99, qj} /\ gi \in 0 .. 99 /\ gj \in 0 .. 99
      /\ qi \in 0 .. MaxPriority /\ qj \in 0 .. MaxPriority
  BY <1>1, GroupFacts
<1>4. ri = 0 <=> gi = 0
  BY <1>1, RankedIs
<1>5. ri \in 0 .. Limit(p) /\ rj \in 0 .. Limit(p)
  BY <1>1, RankedIs
<1>6. (gi <= gj => ri <= rj) /\ (gj <= gi => rj <= ri)
  BY <1>1, RankedIsMonotone
<1>7. (i \in moved <=> gi = 99) /\ (j \in moved <=> gj = 99)
  OBVIOUS
<1>8. MaxPriority \in Nat /\ MaxPriority < 99 /\ Limit(p) \in 1 .. MaxPriority
  BY GptAssumption, StartFacts
<1> HIDE DEF gi, gj, ri, rj, qi, qj, moved
<1>9. ri = 0 <=> (qi = 0 /\ i \notin moved)
  BY <1>3, <1>4, <1>7, <1>8
<1>10. i \notin moved /\ j \notin moved /\ qi <= qj => ri <= rj
  BY <1>3, <1>6, <1>7
<1>11. i \in moved => ri >= rj
  BY <1>3, <1>5, <1>6, <1>7, <1>8
<1>12. ri <= Limit(p)
  BY <1>5, <1>8
<1> HIDE DEF new
<1> QED
  BY <1>2, <1>9, <1>10, <1>11, <1>12 DEF ri, rj, qi, qj, Limit

-----------------------------------------------------------------------------
(***************************************************************************)
(* The other commands that write.                                          *)
(***************************************************************************)

(* cgpt_create builds a primary header, an empty table and their copies.       *)
LEMMA CreateCloses ==
  ASSUME GptTypeOK, NEW zap \in BOOLEAN, NEW uuid \in Uuids, cgpt_create(zap, uuid)
  PROVE  Closes
<1> DEFINE blank == [h1 |-> NoHeader, h2 |-> NoHeader, e1 |-> NoEntries, e2 |-> NoEntries]
           h == [NoHeader EXCEPT !.sig = "EFI", !.site = "primary", !.uuid = uuid]
           e == [blank EXCEPT !.h1 = h]
           d == UpdateCrc(RepairHeader(e), All)
<1>1. blank \in Drive
  BY BlankTypes DEF Drive, Table
<1>2. h \in Header
  BY BlankTypes DEF Header
<1>3. e \in Drive
  BY <1>1, <1>2 DEF Drive
<1>4. e.h1 = h /\ e.e1 = NoEntries /\ e.e2 = NoEntries
  BY DEF Drive
<1>5. h.sig = "EFI" /\ h.site = "primary"
  BY DEF NoHeader
<1> HIDE DEF h, e
<1>6. d = Mirrored(e)
  BY <1>3, <1>4, <1>5 DEF Mirrored, RepairEntries, Drive
<1>7. CheckEntries(e.e1, [e.h1 EXCEPT !.crc = e.e1])
  BY <1>2, <1>4 DEF CheckEntries, NoEntries, Zeroed, IsUnused, Header
<1>8. d \in Drive /\ Twins(d)
  BY <1>3, <1>4, <1>5, <1>6, <1>7, CopiesTypes, MirroredTwins
<1>9. CASE zap
  <2>1. Close("zap", blank, All) /\ Delivers("zap", blank)
    BY <1>9 DEF cgpt_create, Delivers
  <2> USE DEF Closes, Ops
  <2> WITNESS "zap" \in Ops, blank \in Drive, All \in SUBSET All
  <2> QED
    BY <2>1
<1>10. CASE ~zap
  <2>1. Close("create", d, All)
    BY <1>10 DEF cgpt_create, h, e
  <2> HIDE DEF d
  <2>2. Delivers("create", d)
    BY <1>8 DEF Delivers
  <2>3. d \in Drive
    BY <1>8
  <2> USE DEF Closes, Ops
  <2> WITNESS "create" \in Ops, d \in Drive, All \in SUBSET All
  <2> QED
    BY <2>1, <2>2
<1> QED
  BY <1>9, <1>10

(* cgpt_repair closes with what GptRepair made.                                *)
LEMMA RepairCloses ==
  ASSUME GptTypeOK, cgpt_repair
  PROVE  Closes
<1> DEFINE r == GptRepair(disk, GptSanityCheck(disk))
<1>1. disk \in Drive /\ DriveOpen = disk
  BY OpenReadsAll DEF GptTypeOK
<1>2. Close("repair", r.drive, r.modified)
  BY <1>1 DEF cgpt_repair
<1>3. /\ r.drive \in Drive /\ r.modified \in SUBSET All
      /\ \A p \in All : p \in r.modified \/ r.drive[p] = disk[p]
      /\ Sane(r.drive) => Twins(r.drive)
  BY <1>1, RepairTwins
<1> HIDE DEF r
<1>4. Delivers("repair", r.drive)
  BY <1>3 DEF Delivers
<1>5. r.drive \in Drive /\ r.modified \in SUBSET All
  BY <1>3
<1> USE <1>5 DEF Closes, Ops
<1> WITNESS "repair" \in Ops, r.drive \in Drive, r.modified \in SUBSET All
<1> QED
  BY <1>2, <1>3, <1>4

(* cgpt_legacy leaves the secondary table as it is.                            *)
LEMMA LegacyCloses ==
  ASSUME GptTypeOK, NEW efipart \in BOOLEAN, cgpt_legacy(efipart)
  PROVE  Closes
<1> DEFINE sig == IF efipart THEN "EFI" ELSE "CHROMEOS"
           d == [disk EXCEPT !.h1.sig = sig, !.h2.sig = sig]
           e == IF efipart THEN RepairEntries(d, "e2") ELSE [d EXCEPT !.e1[1] = Zeroed]
           modified == {"h1", "e1", "h2"}
           c == UpdateCrc(e, modified)
<1>1. disk \in Drive /\ DriveOpen = disk
  BY OpenReadsAll DEF GptTypeOK
<1>2. Close("legacy", c, modified)
  BY <1>1 DEF cgpt_legacy
<1>3. d \in Drive /\ d.e2 = disk.e2
  BY <1>1 DEF Drive, Header
<1> HIDE DEF d
<1>4. e \in Drive /\ e.e2 = disk.e2
  <2>1. RepairEntries(d, "e2") \in Drive /\ RepairEntries(d, "e2").e2 = d.e2
    BY <1>3, CopiesTypes DEF RepairEntries, Drive
  <2>2. [d EXCEPT !.e1[1] = Zeroed] \in Drive /\ [d EXCEPT !.e1[1] = Zeroed].e2 = d.e2
    BY <1>3, BlankTypes DEF Drive, Table
  <2> QED
    BY <1>3, <2>1, <2>2
<1> HIDE DEF e
<1>5. c \in Drive /\ c.e2 = disk.e2
  <2>1. modified \in SUBSET All
    BY DEF All
  <2>2. c.e2 = e.e2
    BY <1>4 DEF UpdateCrc, Drive
  <2> QED
    BY <1>4, <2>1, <2>2, CopiesTypes
<1>6. modified \in SUBSET All
  BY DEF All
<1> HIDE DEF c
<1>7. \A p \in All : p \in modified \/ c[p] = disk[p]
  BY <1>1, <1>5 DEF All, Drive
<1>8. Delivers("legacy", c) /\ c \in Drive
  BY <1>5 DEF Delivers
<1> HIDE DEF modified
<1> USE <1>6, <1>8 DEF Closes, Ops
<1> WITNESS "legacy" \in Ops, c \in Drive, modified \in SUBSET All
<1> QED
  BY <1>2, <1>7, <1>8

(* cgpt_prioritize needs one accepted copy only.                               *)
LEMMA PrioritizeCloses ==
  ASSUME GptTypeOK, NEW p, p.max \in 0 .. MaxPriority, cgpt_prioritize(p)
  PROVE  Closes \/ Answers
<1> DEFINE e == [disk EXCEPT !.e1 = Reprioritized(@, p)]
           d == Mirrored(e)
<1>0. disk \in Drive /\ DriveOpen = disk
  BY OpenReadsAll DEF GptTypeOK
<1>1. CASE Refuse
  BY <1>1 DEF Refuse, Answers
<1>2. CASE ~Refuse
  <2>1. Close("prioritize", d, All)
    BY <1>0, <1>2 DEF cgpt_prioritize
  <2>2. disk.e1 \in Table
    BY <1>0 DEF Drive, Table
  <2>3. e \in Drive
    BY <1>0, <2>2, ReprioritizedType DEF Drive, Table
  <2> HIDE DEF e
  <2>4. d \in Drive
    BY <2>3, CopiesTypes
  <2> HIDE DEF d
  <2>5. Delivers("prioritize", d)
    BY DEF Delivers
  <2>6. Closes
    <3> USE DEF Closes, Ops
    <3> WITNESS "prioritize" \in Ops, d \in Drive, All \in SUBSET All
    <3> QED
      BY <2>1, <2>5
  <2> QED
    BY <2>6
<1> QED
  BY <1>1, <1>2

(* Every command closes the drive or ends at once.                             *)
LEMMA CommandsCloseOrAnswer ==
  ASSUME GptTypeOK, Commands
  PROVE  Closes \/ Answers
<1>0. NotStarted => Answers
  BY DEF NotStarted, Refuse, Answers
<1>1. CASE cmd_add
  BY <1>1, <1>0, AddCloses DEF cmd_add
<1>2. CASE cmd_create
  BY <1>2, <1>0, CreateCloses DEF cmd_create
<1>3. CASE cmd_repair
  BY <1>3, <1>0, RepairCloses DEF cmd_repair
<1>4. CASE cmd_legacy
  BY <1>4, <1>0, LegacyCloses DEF cmd_legacy
<1>5. CASE cmd_prioritize
  <2>1. ASSUME NEW p \in [partition : 0 .. N, friends : BOOLEAN, max : 0 .. MaxPriority],
               cgpt_prioritize(p)
        PROVE  Closes \/ Answers
    BY <2>1, PrioritizeCloses
  <2> QED
    BY <1>5, <1>0, <2>1 DEF cmd_prioritize
<1>6. CASE cmd_bootable
  BY <1>6, <1>0 DEF cmd_bootable, cgpt_boot, Refuse, Answers
<1>7. CASE cmd_show
  BY <1>7, <1>0 DEF cmd_show, cgpt_show, Refuse, Answers
<1>8. CASE cmd_find
  BY <1>8, <1>0 DEF cmd_find, Answers
<1>9. CASE cmd_reload
  BY <1>9 DEF cmd_reload, Answers
<1>10. CASE \E i \in 0 .. N + 1, priority \in 0 .. MaxPriority : cgpt_set_attributes(i, priority)
  BY <1>10, AttributesClose
<1>11. CASE \E i \in 0 .. N + 1, guid \in Guids : cgpt_get_partition_details(i, guid)
  BY <1>11 DEF cgpt_get_partition_details, Refuse, Answers
<1> QED
  BY <1>1, <1>2, <1>3, <1>4, <1>5, <1>6, <1>7, <1>8, <1>9, <1>10, <1>11 DEF Commands

-----------------------------------------------------------------------------
(***************************************************************************)
(* The inductive invariant.                                                *)
(***************************************************************************)

\* While a command closes the drive its memory holds what it promises, and,
\* unless a write failed, every part not still to be written is on the disk.
GptInv ==
  /\ GptTypeOK
  /\ call.ret = "running" => Delivers(call.op, mem)
  /\ call.ret = "running" /\ ~errors => \A p \in All : p \in todo \/ disk[p] = mem[p]
  /\ SuccessLeavesTwins

(* A drive that was never partitioned satisfies it.                            *)
LEMMA InvAtStart == GptInit => GptInv
<1> SUFFICES ASSUME GptInit PROVE GptInv
  OBVIOUS
<1> DEFINE blank == [h1 |-> NoHeader, h2 |-> NoHeader, e1 |-> NoEntries, e2 |-> NoEntries]
<1>1. blank \in Drive
  BY BlankTypes DEF Drive, Table
<1> HIDE DEF blank
<1>2. disk = blank /\ mem = blank /\ todo = {} /\ errors = FALSE /\ faults = 0 /\ call.ret = "none"
  BY DEF GptInit, blank
<1>3. 0 \in 0 .. MaxFaults
  BY GptAssumption
<1>4. GptTypeOK
  BY <1>1, <1>2, <1>3 DEF GptTypeOK
<1> QED
  BY <1>2, <1>4 DEF GptInit, GptInv, SuccessLeavesTwins

(* A part that is copied or torn keeps the drive a drive.                      *)
LEMMA WriteTypes ==
  ASSUME GptTypeOK, todo # {}
  PROVE  /\ NextPart \in todo /\ NextPart \in All
         /\ [disk EXCEPT ![NextPart] = mem[NextPart]] \in Drive
         /\ NextPart \notin {"h1", "h2"} =>
              \A k \in 0 .. N - 1 :
                [disk EXCEPT ![NextPart] = GptTorn(mem[NextPart], @, k)] \in Drive
<1>1. NextPart \in todo /\ NextPart \in {"h1", "h2", "e1", "e2"}
  BY DEF NextPart, GptTypeOK, All
<1>2. disk \in Drive /\ mem \in Drive
  BY DEF GptTypeOK
<1>3. \A p \in {"h1", "h2", "e1", "e2"} : [disk EXCEPT ![p] = mem[p]] \in Drive
  BY <1>2 DEF Drive
<1>4. ASSUME NEW p \in {"e1", "e2"}, NEW k \in 0 .. N - 1
      PROVE  [disk EXCEPT ![p] = GptTorn(mem[p], @, k)] \in Drive
  <2>1. mem[p] \in Table /\ disk[p] \in Table
    BY <1>2 DEF Drive, Table
  <2> DEFINE torn == GptTorn(mem[p], disk[p], k)
  <2>2. torn \in Table
    BY <2>1 DEF GptTorn, Table
  <2> HIDE DEF torn
  <2>3. [disk EXCEPT ![p] = torn] \in Drive
    BY <1>2, <2>2 DEF Drive, Table
  <2> QED
    BY <2>3 DEF torn
<1> QED
  BY <1>1, <1>3, <1>4 DEF All

(* Every step keeps it.                                                        *)
LEMMA InvIsKept == GptInv /\ [GptNext]_gptVars => GptInv'
<1> SUFFICES ASSUME GptInv, [GptNext]_gptVars PROVE GptInv'
  OBVIOUS
<1>0. GptTypeOK
  BY DEF GptInv
<1>1. CASE Closes
  <2>1. PICK op \in Ops, d \in Drive, modified \in SUBSET All :
          /\ Close(op, d, modified)
          /\ \A p \in All : p \in modified \/ d[p] = disk[p]
          /\ Delivers(op, d)
    BY <1>1 DEF Closes
  <2>2. /\ call' = [op |-> op, ret |-> "running"] /\ mem' = d /\ todo' = modified
        /\ errors' = FALSE /\ disk' = disk /\ faults' = faults
    BY <2>1 DEF Close
  <2>3. GptTypeOK'
    BY <1>0, <2>2 DEF GptTypeOK
  <2>4. call'.ret = "running" /\ call'.op = op
    BY <2>2
  <2>5. (call.ret = "running" => Delivers(call.op, mem))'
    BY <2>1, <2>2, <2>4 DEF Delivers, Sane, Twins, GptSanityCheck
  <2>6. (call.ret = "running" /\ ~errors => \A p \in All : p \in todo \/ disk[p] = mem[p])'
    BY <2>1, <2>2
  <2>7. SuccessLeavesTwins'
    BY <2>4 DEF SuccessLeavesTwins
  <2> QED
    BY <2>3, <2>5, <2>6, <2>7 DEF GptInv
<1>2. CASE Answers
  <2>1. PICK ret \in {"ok", "failed"} : GptAnswer(ret)
    BY <1>2 DEF Answers
  <2>2. /\ call' = [op |-> "none", ret |-> ret] /\ mem' = mem /\ todo' = todo
        /\ errors' = errors /\ disk' = disk /\ faults' = faults
    BY <2>1 DEF GptAnswer, Return, driveVars
  <2>3. call'.ret = ret /\ call'.op = "none"
    BY <2>2
  <2>4. GptTypeOK'
    BY <1>0, <2>2, <2>3 DEF GptTypeOK
  <2>5. SuccessLeavesTwins'
    BY <2>3 DEF SuccessLeavesTwins
  <2> QED
    BY <2>3, <2>4, <2>5 DEF GptInv
<1>3. CASE Save
  <2>1. /\ NextPart \in todo /\ NextPart \in All
        /\ [disk EXCEPT ![NextPart] = mem[NextPart]] \in Drive
    BY <1>0, <1>3, WriteTypes DEF Save
  <2>2. /\ disk' = [disk EXCEPT ![NextPart] = mem[NextPart]] /\ todo' = todo \ {NextPart}
        /\ mem' = mem /\ errors' = errors /\ call' = call /\ faults' = faults
        /\ call.ret = "running"
    BY <1>3 DEF Save
  <2>3. GptTypeOK'
    BY <1>0, <2>1, <2>2 DEF GptTypeOK
  <2>4. (call.ret = "running" /\ ~errors => \A p \in All : p \in todo \/ disk[p] = mem[p])'
    <3>1. \A p \in All : disk'[p] = IF p = NextPart THEN mem[p] ELSE disk[p]
      BY <1>0, <2>2 DEF GptTypeOK, Drive, All
    <3> QED
      BY <2>2, <3>1 DEF GptInv
  <2>5. (call.ret = "running" => Delivers(call.op, mem))'
    BY <2>2 DEF GptInv, Delivers, Sane, Twins, GptSanityCheck
  <2>6. SuccessLeavesTwins'
    BY <2>2 DEF SuccessLeavesTwins
  <2> QED
    BY <2>3, <2>4, <2>5, <2>6 DEF GptInv
<1>4. CASE SaveFails
  <2>1. /\ NextPart \in All /\ disk' \in Drive
        /\ todo' = todo \ {NextPart} /\ errors' = TRUE /\ faults' = faults + 1
        /\ mem' = mem /\ call' = call /\ call.ret = "running" /\ faults < MaxFaults
    BY <1>0, <1>4, WriteTypes DEF SaveFails, GptTypeOK
  <2>2. GptTypeOK'
    BY <1>0, <2>1, GptAssumption DEF GptTypeOK
  <2>3. (call.ret = "running" => Delivers(call.op, mem))'
    BY <2>1 DEF GptInv, Delivers, Sane, Twins, GptSanityCheck
  <2>4. SuccessLeavesTwins'
    BY <2>1 DEF SuccessLeavesTwins
  <2> QED
    BY <2>1, <2>2, <2>3, <2>4 DEF GptInv
<1>5. CASE DriveClose
  <2> DEFINE ret == IF errors THEN "failed" ELSE "ok"
  <2>1. /\ call' = [op |-> IF ret = "ok" THEN call.op ELSE "none", ret |-> ret]
        /\ mem' = disk /\ errors' = FALSE /\ disk' = disk /\ todo' = todo /\ faults' = faults
        /\ todo = {} /\ call.ret = "running"
    BY <1>5 DEF DriveClose, Return
  <2>2. call'.ret = ret /\ (ret = "ok" => call'.op = call.op /\ ~errors)
    BY <2>1
  <2>3. GptTypeOK'
    BY <1>0, <2>1, <2>2 DEF GptTypeOK
  <2>4. SuccessLeavesTwins'
    <3>1. CASE errors
      BY <2>2, <3>1 DEF SuccessLeavesTwins
    <3>2. CASE ~errors
      <4>1. \A p \in All : disk[p] = mem[p]
        BY <2>1, <3>2 DEF GptInv
      <4>2. disk = mem
        BY <1>0, <4>1 DEF GptTypeOK, Drive, All
      <4>3. Delivers(call.op, disk)
        BY <2>1, <4>2 DEF GptInv
      <4> QED
        BY <2>1, <2>2, <3>2, <4>3 DEF SuccessLeavesTwins, Delivers, Twins, Sane, GptSanityCheck
    <3> QED
      BY <3>1, <3>2
  <2> QED
    BY <2>2, <2>3, <2>4 DEF GptInv
<1>6. CASE Killed
  <2>1. /\ call' = [op |-> "none", ret |-> "killed"] /\ mem' = disk /\ todo' = {}
        /\ errors' = FALSE /\ disk' = disk /\ faults' = faults + 1 /\ faults < MaxFaults
    BY <1>6 DEF Killed, Return
  <2>2. call'.ret = "killed"
    BY <2>1
  <2>3. faults + 1 \in 0 .. MaxFaults
    BY <1>0, <2>1, GptAssumption DEF GptTypeOK
  <2>4. GptTypeOK'
    BY <1>0, <2>1, <2>2, <2>3 DEF GptTypeOK
  <2> QED
    BY <2>2, <2>4 DEF GptInv, SuccessLeavesTwins
<1>7. CASE UNCHANGED gptVars
  BY <1>7 DEF gptVars, GptInv, GptTypeOK, Delivers, Sane, Twins, GptSanityCheck, SuccessLeavesTwins
<1> QED
  BY <1>0, <1>1, <1>2, <1>3, <1>4, <1>5, <1>6, <1>7, CommandsCloseOrAnswer DEF GptNext, Closing

-----------------------------------------------------------------------------
(***************************************************************************)
(* What a repair does to the table that readers see.                       *)
(***************************************************************************)

\* What CheckEntries asks of a table besides its CRC.
Wellformed(t) ==
  \A i \in Parts : ~IsUnused(t[i]) =>
    /\ 1 <= t[i].first /\ t[i].first <= t[i].last /\ t[i].last <= LastUsable
    /\ \A j \in Parts \ {i} : ~IsUnused(t[j]) =>
         ~Overlap(t[i], t[j]) /\ t[i].guid # t[j].guid

HeldBy(d, t) == d.e1 = t \/ d.e2 = t

\* The first header stands for a table on the drive that may be used.
FirstCounts(d) ==
  CheckHeader(d.h1, "primary") /\ Wellformed(d.h1.crc) /\ HeldBy(d, d.h1.crc)

\* The drive shows the table t: the first header that counts stands for it.
Shows(d, t) ==
  /\ Wellformed(t) /\ HeldBy(d, t)
  /\ \/ CheckHeader(d.h1, "primary") /\ d.h1.crc = t
     \/ CheckHeader(d.h2, "secondary") /\ d.h2.crc = t /\ ~FirstCounts(d)

(* The table a reader is shown is the one that the first header that counts    *)
(* was sealed over (GptSanityCheck).                                           *)
LEMMA ShownTable ==
  ASSUME NEW d \in Drive
  PROVE  /\ Sane(d) => Shows(d, AnyValid(d))
         /\ \A t : Shows(d, t) => Sane(d) /\ AnyValid(d) = t
<1> DEFINE h1ok == CheckHeader(d.h1, "primary")
           h2ok == CheckHeader(d.h2, "secondary")
           Valid(h) == {p \in {"e1", "e2"} : CheckEntries(d[p], h)}
           first == IF h1ok THEN Valid(d.h1) ELSE IF h2ok THEN Valid(d.h2) ELSE {}
           retry == h1ok /\ h2ok /\ first = {}
           ents == IF retry THEN Valid(d.h2) ELSE first
<1>1. GptSanityCheck(d).entries = ents
  BY DEF GptSanityCheck
<1>2. \A h, t : CheckEntries(t, h) <=> h.crc = t /\ Wellformed(t)
  BY Zenon DEF CheckEntries, Wellformed
<1>3. h1ok \in BOOLEAN /\ h2ok \in BOOLEAN
  BY DEF CheckHeader, Drive, Header
<1>4. \A h : /\ Valid(h) \subseteq {"e1", "e2"}
             /\ "e1" \in Valid(h) <=> h.crc = d.e1 /\ Wellformed(d.e1)
             /\ "e2" \in Valid(h) <=> h.crc = d.e2 /\ Wellformed(d.e2)
  BY <1>2 DEF Drive
<1>5. \A h : Valid(h) # {} <=> Wellformed(h.crc) /\ HeldBy(d, h.crc)
  <2> HIDE DEF Valid
  <2> QED
    BY <1>4 DEF HeldBy
<1>6. FirstCounts(d) <=> h1ok /\ Valid(d.h1) # {}
  BY <1>5 DEF FirstCounts
<1> HIDE DEF h1ok, h2ok, Valid
<1>7. ents = IF h1ok /\ Valid(d.h1) # {} THEN Valid(d.h1)
             ELSE IF h2ok THEN Valid(d.h2) ELSE {}
  BY <1>3
<1>8. AnyValid(d) = IF "e1" \in ents THEN d.e1 ELSE d.e2
  BY <1>1 DEF AnyValid
<1>9. Sane(d) <=> ents # {}
  BY <1>1 DEF Sane
<1> HIDE DEF ents
<1>10. ASSUME NEW h, ents = Valid(h), ents # {}
       PROVE  AnyValid(d) = h.crc
  BY <1>4, <1>8, <1>10
<1>11. CASE FirstCounts(d)
  <2>1. ents = Valid(d.h1) /\ ents # {} /\ h1ok
    BY <1>6, <1>7, <1>11
  <2>2. AnyValid(d) = d.h1.crc /\ Sane(d)
    BY <1>9, <1>10, <2>1
  <2>3. Shows(d, d.h1.crc)
    BY <1>11 DEF Shows, FirstCounts
  <2>4. \A t : Shows(d, t) => t = d.h1.crc
    BY <1>11 DEF Shows
  <2> QED
    BY <2>2, <2>3, <2>4
<1>12. CASE ~FirstCounts(d)
  <2>1. ents = IF h2ok THEN Valid(d.h2) ELSE {}
    BY <1>6, <1>7, <1>12
  <2>2. \A t : Shows(d, t) => h2ok /\ d.h2.crc = t /\ Valid(d.h2) # {}
    BY <1>5, <1>12 DEF Shows, FirstCounts, h2ok
  <2>3. \A t : Shows(d, t) => Sane(d) /\ AnyValid(d) = t
    BY <1>9, <1>10, <2>1, <2>2
  <2>4. ASSUME Sane(d) PROVE Shows(d, AnyValid(d))
    <3>1. h2ok /\ ents = Valid(d.h2) /\ ents # {}
      BY <1>9, <2>1, <2>4
    <3>2. AnyValid(d) = d.h2.crc
      BY <1>10, <3>1
    <3> QED
      BY <1>5, <1>12, <3>1, <3>2 DEF Shows, h2ok
  <2> QED
    BY <2>3, <2>4
<1> QED
  BY <1>11, <1>12

\* While a repair is under way: what is still to be written is a copy of what a
\* reader is shown, its own source stays, and once the first header is written
\* it does not stand for another table.
RepairOn(d, m, left, failed) ==
  LET t == AnyValid(d) IN
  /\ Sane(d)
  /\ "e1" \in left => m.e1 = t /\ d.e2 = t /\ "e2" \notin left
  /\ "e2" \in left => m.e2 = t /\ d.e1 = t
  /\ "h1" \in left => /\ m.h1 = At(d.h2, "primary") /\ "h2" \notin left
                      /\ CheckHeader(d.h2, "secondary") /\ d.h2.crc = t
  /\ "h2" \in left => CheckHeader(d.h1, "primary") /\ d.h1.crc = t
  /\ ~failed /\ "h1" \notin left /\ CheckHeader(d.h1, "primary") => d.h1.crc = t

RepairInv ==
  call.op = "repair" /\ call.ret = "running" /\ todo # {} => RepairOn(disk, mem, todo, errors)

(* cgpt_repair is the only command that closes the drive as a repair.          *)
LEMMA OnlyRepairs ==
  ASSUME Commands
  PROVE  cgpt_repair \/ call'.op # "repair"
<1>1. \A op, d, m : Close(op, d, m) => call'.op = op
  BY DEF Close
<1>2. \A ret : GptAnswer(ret) => call'.op = "none"
  BY DEF GptAnswer, Return
<1>3. Refuse \/ NotStarted => call'.op = "none"
  BY <1>2 DEF Refuse, NotStarted
<1>4. CASE cmd_add
  BY <1>1, <1>3, <1>4 DEF cmd_add, cgpt_add
<1>5. CASE cmd_create
  BY <1>1, <1>3, <1>5 DEF cmd_create, cgpt_create
<1>6. CASE cmd_repair
  BY <1>3, <1>6 DEF cmd_repair
<1>7. CASE cmd_legacy
  BY <1>1, <1>3, <1>7 DEF cmd_legacy, cgpt_legacy
<1>8. CASE cmd_prioritize
  BY <1>1, <1>3, <1>8 DEF cmd_prioritize, cgpt_prioritize
<1>9. CASE cmd_bootable \/ cmd_show \/ cmd_find \/ cmd_reload
  BY <1>2, <1>3, <1>9 DEF cmd_bootable, cgpt_boot, cmd_show, cgpt_show, cmd_find, cmd_reload
<1>10. CASE \E i \in 0 .. N + 1, priority \in 0 .. MaxPriority : cgpt_set_attributes(i, priority)
  BY <1>1, <1>3, <1>10 DEF cgpt_set_attributes
<1>11. CASE \E i \in 0 .. N + 1, guid \in Guids : cgpt_get_partition_details(i, guid)
  BY <1>2, <1>3, <1>11 DEF cgpt_get_partition_details
<1> QED
  BY <1>4, <1>5, <1>6, <1>7, <1>8, <1>9, <1>10, <1>11 DEF Commands

(* A repair starts with copies of what a reader is shown (GptRepair).          *)
LEMMA RepairStarts ==
  ASSUME GptTypeOK, cgpt_repair, todo' # {}
  PROVE  RepairOn(disk, mem', todo', FALSE)
<1> DEFINE g == GptSanityCheck(disk)
           r == GptRepair(disk, g)
           t == AnyValid(disk)
<1>1. disk \in Drive /\ DriveOpen = disk
  BY OpenReadsAll DEF GptTypeOK
<1>2. mem' = r.drive /\ todo' = r.modified
  BY <1>1 DEF cgpt_repair, Close
<1>3. g.entries # {} /\ g.headers # {}
  BY <1>2 DEF GptRepair
<1>4. /\ g.entries \in {{"e1"}, {"e2"}, {"e1", "e2"}}
      /\ g.headers \in {{"h1"}, {"h2"}, {"h1", "h2"}}
      /\ "h1" \in g.headers =>
           /\ CheckHeader(disk.h1, "primary")
           /\ "e1" \in g.entries => disk.h1.crc = disk.e1
           /\ "e2" \in g.entries => disk.h1.crc = disk.e2
      /\ g.headers = {"h2"} =>
           /\ CheckHeader(disk.h2, "secondary")
           /\ "e1" \in g.entries => disk.h2.crc = disk.e1
           /\ "e2" \in g.entries => disk.h2.crc = disk.e2
  BY <1>1, <1>3, SanityFacts DEF CheckEntries
<1>5. t = IF "e1" \in g.entries THEN disk.e1 ELSE disk.e2
  BY DEF AnyValid
<1>6. Sane(disk)
  BY <1>3 DEF Sane
<1>7. /\ r.drive.h1 = IF g.headers = {"h2"} THEN At(disk.h2, "primary") ELSE disk.h1
      /\ r.drive.e1 = IF g.entries = {"e2"} THEN disk.e2 ELSE disk.e1
      /\ r.drive.e2 = IF g.entries = {"e1"} THEN disk.e1 ELSE disk.e2
  BY <1>1, <1>3 DEF GptRepair, Drive
<1>8. /\ "h1" \in todo' <=> g.headers = {"h2"}
      /\ "h2" \in todo' <=> g.headers = {"h1"}
      /\ "e1" \in todo' <=> g.entries = {"e2"}
      /\ "e2" \in todo' <=> g.entries = {"e1"}
  <2> DEFINE other == [h1 |-> "h2", h2 |-> "h1", e1 |-> "e2", e2 |-> "e1"]
  <2>1. r.modified = {p \in All : g.headers = {other[p]} \/ g.entries = {other[p]}}
    BY <1>3 DEF GptRepair
  <2> QED
    BY <1>2, <1>4, <2>1 DEF All
<1> HIDE DEF g, r, t
<1>9. t = disk.h1.crc \/ "h1" \notin g.headers
  BY <1>4, <1>5
<1>10. g.headers = {"h2"} => t = disk.h2.crc
  BY <1>4, <1>5
<1>11. /\ "e1" \in todo' => mem'.e1 = t /\ disk.e2 = t /\ "e2" \notin todo'
       /\ "e2" \in todo' => mem'.e2 = t /\ disk.e1 = t
  BY <1>2, <1>5, <1>7, <1>8
<1>12. /\ "h1" \in todo' => /\ mem'.h1 = At(disk.h2, "primary") /\ "h2" \notin todo'
                            /\ CheckHeader(disk.h2, "secondary") /\ disk.h2.crc = t
       /\ "h2" \in todo' => CheckHeader(disk.h1, "primary") /\ disk.h1.crc = t
       /\ "h1" \notin todo' => disk.h1.crc = t
  BY <1>2, <1>4, <1>7, <1>8, <1>9, <1>10
<1> QED
  BY <1>6, <1>11, <1>12 DEF RepairOn, t

(* A write of a repair leaves what a reader is shown, and the rest of the      *)
(* repair as it was (DriveClose).                                              *)
LEMMA WriteShows ==
  ASSUME NEW d \in Drive, NEW m \in Drive, NEW left \in SUBSET All, NEW failed \in BOOLEAN,
         RepairOn(d, m, left, failed),
         NEW p \in left, p \in {"e1", "e2"} => "h1" \notin left /\ "h2" \notin left
  PROVE  LET e == [d EXCEPT ![p] = m[p]] IN
         /\ Sane(e) /\ AnyValid(e) = AnyValid(d)
         /\ RepairOn(e, m, left \ {p}, failed)
<1> DEFINE t == AnyValid(d)
           e == [d EXCEPT ![p] = m[p]]
<1>1. p \in {"h1", "h2", "e1", "e2"}
  BY DEF All
<1>2. e \in Drive
  BY <1>1 DEF Drive
<1>3. /\ e.h1 = IF p = "h1" THEN m.h1 ELSE d.h1
      /\ e.h2 = IF p = "h2" THEN m.h2 ELSE d.h2
      /\ e.e1 = IF p = "e1" THEN m.e1 ELSE d.e1
      /\ e.e2 = IF p = "e2" THEN m.e2 ELSE d.e2
  BY <1>1 DEF Drive
<1>4. Sane(d) /\ Shows(d, t)
  BY ShownTable DEF RepairOn
<1>5. /\ "e1" \in left => m.e1 = t /\ d.e2 = t /\ "e2" \notin left
      /\ "e2" \in left => m.e2 = t /\ d.e1 = t
      /\ "h1" \in left => /\ m.h1 = At(d.h2, "primary") /\ "h2" \notin left
                          /\ CheckHeader(d.h2, "secondary") /\ d.h2.crc = t
      /\ "h2" \in left => CheckHeader(d.h1, "primary") /\ d.h1.crc = t
      /\ ~failed /\ "h1" \notin left /\ CheckHeader(d.h1, "primary") => d.h1.crc = t
  BY DEF RepairOn
<1>6. "h1" \in left => CheckHeader(m.h1, "primary") /\ m.h1.crc = t
  <2> SUFFICES ASSUME "h1" \in left PROVE CheckHeader(m.h1, "primary") /\ m.h1.crc = t
    OBVIOUS
  <2>1. d.h2 \in Header
    BY DEF Drive
  <2> QED
    BY <1>5, <2>1 DEF CheckHeader, At, Header
<1> HIDE DEF e, t
<1>7. Shows(e, t)
  <2>1. CASE p = "h1"
    BY <1>3, <1>4, <1>6, <2>1 DEF Shows, HeldBy
  <2>2. CASE p = "h2"
    BY <1>3, <1>4, <1>5, <2>2 DEF Shows, HeldBy
  <2>3. CASE p \in {"e1", "e2"}
    <3>1. e.e1 = t /\ e.e2 = t /\ e.h1 = d.h1 /\ e.h2 = d.h2
      BY <1>3, <1>5, <2>3
    <3> QED
      BY <1>4, <3>1 DEF Shows, HeldBy, FirstCounts
  <2> QED
    BY <1>1, <2>1, <2>2, <2>3
<1>8. Sane(e) /\ AnyValid(e) = t
  BY <1>2, <1>7, ShownTable
<1>9. RepairOn(e, m, left \ {p}, failed)
  <2>1. CASE p = "h1"
    BY <1>3, <1>5, <1>6, <1>8, <2>1 DEF RepairOn
  <2>2. CASE p = "h2"
    BY <1>3, <1>5, <1>8, <2>2 DEF RepairOn
  <2>3. CASE p = "e1"
    BY <1>3, <1>5, <1>8, <2>3 DEF RepairOn
  <2>4. CASE p = "e2"
    BY <1>3, <1>5, <1>8, <2>4 DEF RepairOn
  <2> QED
    BY <1>1, <2>1, <2>2, <2>3, <2>4
<1> QED
  BY <1>8, <1>9 DEF e, t

(* A table that is cut short does not change what a reader is shown, as the    *)
(* first header, when it is good, stands for the other copy.                   *)
LEMMA TornShows ==
  ASSUME NEW d \in Drive, NEW m \in Drive, NEW left \in SUBSET All,
         RepairOn(d, m, left, FALSE), "h1" \notin left,
         NEW p \in {"e1", "e2"}, p \in left, NEW x \in Table
  PROVE  LET e == [d EXCEPT ![p] = x] IN Sane(e) /\ AnyValid(e) = AnyValid(d)
<1> DEFINE t == AnyValid(d)
           e == [d EXCEPT ![p] = x]
<1>1. e \in Drive
  BY DEF Drive, Table
<1>2. /\ e.h1 = d.h1 /\ e.h2 = d.h2
      /\ p = "e1" => e.e2 = d.e2
      /\ p = "e2" => e.e1 = d.e1
  BY DEF Drive
<1>3. Shows(d, t)
  BY ShownTable DEF RepairOn
<1>4. /\ p = "e1" => d.e2 = t
      /\ p = "e2" => d.e1 = t
      /\ CheckHeader(d.h1, "primary") => d.h1.crc = t
  BY DEF RepairOn
<1> HIDE DEF e, t
<1>5. HeldBy(e, t)
  BY <1>2, <1>4 DEF HeldBy
<1>6. Shows(e, t)
  BY <1>2, <1>3, <1>4, <1>5 DEF Shows, FirstCounts
<1>7. Sane(e) /\ AnyValid(e) = t
  BY <1>1, <1>6, ShownTable
<1> QED
  BY <1>7 DEF e, t

\* One step of a repair that is under way.
KeepsShown == Sane(disk') /\ AnyValid(disk') = AnyValid(disk)

(* The table that is written last is the last part of a repair.                *)
LEMMA TableIsLast ==
  ASSUME GptTypeOK, todo # {}, RepairOn(disk, mem, todo, errors), NextPart \notin {"h1", "h2"}
  PROVE  /\ NextPart \in {"e1", "e2"} /\ "h1" \notin todo /\ "h2" \notin todo
         /\ todo \ {NextPart} = {}
<1>1. todo \subseteq {"h1", "h2", "e1", "e2"}
  BY DEF GptTypeOK, All
<1>2. NextPart \in {"e1", "e2"} /\ "h1" \notin todo /\ "h2" \notin todo
  BY <1>1 DEF NextPart
<1>3. "e1" \in todo => "e2" \notin todo
  BY DEF RepairOn
<1> QED
  BY <1>1, <1>2, <1>3 DEF NextPart

(* Every step of a repair keeps what a reader is shown, unless it is the       *)
(* second write that fails, and goes on with the repair.                       *)
LEMMA RepairStep ==
  ASSUME GptTypeOK, RepairInv, [GptNext]_gptVars
  PROVE  /\ RepairInv'
         /\ /\ call.op = "repair" /\ call.ret = "running" /\ Sane(disk)
            /\ errors => faults' = faults
            => KeepsShown
<1> DEFINE on == call.op = "repair" /\ call.ret = "running"
           goal == on /\ Sane(disk) /\ (errors => faults' = faults) => KeepsShown
<1> SUFFICES RepairInv' /\ goal
  OBVIOUS
<1>0. /\ disk \in Drive /\ mem \in Drive /\ todo \in SUBSET All /\ errors \in BOOLEAN
      /\ faults \in Nat
  BY GptAssumption DEF GptTypeOK
<1>1. disk' = disk => goal
  BY DEF KeepsShown
<1>2. CASE Commands
  <2>1. Closes \/ Answers
    BY <1>2, CommandsCloseOrAnswer
  <2>2. disk' = disk
    BY <2>1 DEF Closes, Close, Answers, GptAnswer, driveVars
  <2>3. CASE cgpt_repair
    <3>1. errors' = FALSE
      BY <2>3 DEF cgpt_repair, Close
    <3>2. todo' # {} => RepairOn(disk, mem', todo', FALSE)
      BY <2>3, RepairStarts
    <3>3. RepairInv'
      BY <2>2, <3>1, <3>2 DEF RepairInv
    <3> QED
      BY <1>1, <2>2, <3>3
  <2>4. CASE call'.op # "repair"
    BY <1>1, <2>2, <2>4 DEF RepairInv
  <2> QED
    BY <1>2, <2>3, <2>4, OnlyRepairs
<1>3. CASE Save
  <2>1. /\ disk' = [disk EXCEPT ![NextPart] = mem[NextPart]] /\ todo' = todo \ {NextPart}
        /\ mem' = mem /\ errors' = errors /\ call' = call /\ todo # {}
    BY <1>3 DEF Save
  <2>2. NextPart \in todo /\ (NextPart \in {"e1", "e2"} => "h1" \notin todo /\ "h2" \notin todo)
    BY <1>0, <2>1 DEF NextPart, All
  <2>3. CASE ~on
    BY <2>1, <2>3 DEF RepairInv
  <2>4. CASE on
    <3>1. RepairOn(disk, mem, todo, errors)
      BY <2>1, <2>4 DEF RepairInv
    <3> DEFINE e == [disk EXCEPT ![NextPart] = mem[NextPart]]
    <3>3. /\ Sane(e) /\ AnyValid(e) = AnyValid(disk)
          /\ RepairOn(e, mem, todo \ {NextPart}, errors)
      BY ONLY <1>0, <2>2, <3>1, WriteShows
    <3> HIDE DEF e
    <3>4. disk' = e
      BY <2>1 DEF e
    <3>2. KeepsShown /\ RepairOn(disk', mem, todo', errors)
      BY <2>1, <3>3, <3>4 DEF KeepsShown
    <3> QED
      BY <2>1, <3>2 DEF RepairInv
  <2> QED
    BY <2>3, <2>4
<1>4. CASE SaveFails
  <2>1. /\ todo' = todo \ {NextPart} /\ faults' = faults + 1 /\ errors' = TRUE
        /\ mem' = mem /\ call' = call /\ todo # {}
    BY <1>4 DEF SaveFails
  <2>2. CASE ~on
    BY <2>1, <2>2 DEF RepairInv
  <2>3. CASE on
    <3>1. RepairOn(disk, mem, todo, errors)
      BY <2>1, <2>3 DEF RepairInv
    <3>2. CASE NextPart \in {"h1", "h2"}
      <4>1. disk' = disk
        BY <1>4, <3>2 DEF SaveFails
      <4>2. RepairOn(disk, mem, todo \ {NextPart}, TRUE)
        BY <3>1 DEF RepairOn
      <4> QED
        BY <1>1, <2>1, <4>1, <4>2 DEF RepairInv
    <3>3. CASE NextPart \notin {"h1", "h2"}
      <4>1. /\ NextPart \in {"e1", "e2"} /\ "h1" \notin todo /\ NextPart \in todo
            /\ todo' = {}
        BY <2>1, <3>1, <3>3, TableIsLast, WriteTypes
      <4>2. PICK k \in 0 .. N - 1 :
              disk' = [disk EXCEPT ![NextPart] = GptTorn(mem[NextPart], @, k)]
        BY <1>4, <3>3 DEF SaveFails
      <4> DEFINE x == GptTorn(mem[NextPart], disk[NextPart], k)
      <4>3. disk' = [disk EXCEPT ![NextPart] = x]
        BY <4>2
      <4>4. x \in Table
        <5>1. mem[NextPart] \in Table /\ disk[NextPart] \in Table
          BY <1>0, <4>1 DEF Drive, Table
        <5> QED
          BY <5>1 DEF GptTorn, Table
      <4> HIDE DEF x
      <4> DEFINE e == [disk EXCEPT ![NextPart] = x]
      <4>7. ~errors => RepairOn(disk, mem, todo, FALSE)
        BY <1>0, <3>1 DEF RepairOn
      <4>8. ~errors => Sane(e) /\ AnyValid(e) = AnyValid(disk)
        BY ONLY <1>0, <4>7, <4>1, <4>4, TornShows
      <4>5. ~errors => KeepsShown
        BY <4>3, <4>8 DEF KeepsShown
      <4>6. errors => faults' # faults
        BY <1>0, <2>1
      <4> QED
        BY <4>1, <4>5, <4>6 DEF RepairInv
    <3> QED
      BY <3>2, <3>3
  <2> QED
    BY <2>2, <2>3
<1>5. CASE DriveClose \/ Killed
  <2>1. disk' = disk /\ todo' = {}
    BY <1>5 DEF DriveClose, Killed
  <2> QED
    BY <1>1, <2>1 DEF RepairInv
<1>6. CASE UNCHANGED gptVars
  BY <1>1, <1>6 DEF gptVars, RepairInv
<1> QED
  BY <1>2, <1>3, <1>4, <1>5, <1>6 DEF GptNext, Closing

-----------------------------------------------------------------------------
(***************************************************************************)
(* Theorems.                                                               *)
(***************************************************************************)

(* A command that reports success leaves two valid and equal copies on the     *)
(* drive, whatever failed or died before it (DriveClose, cgpt_common.c).       *)
THEOREM SuccessMeansTwins == GptSpec => []SuccessLeavesTwins
<1>1. GptInv => SuccessLeavesTwins
  BY DEF GptInv
<1> QED
  BY <1>1, InvAtStart, InvIsKept, PTL DEF GptSpec

(* No two partitions of an accepted table share a sector, although             *)
(* CheckEntries compares only the ends of the entries (cgptlib_internal.c).    *)
THEOREM TablesAreDisjoint == GptSpec => []AcceptedTablesAreDisjoint
<1>1. GptInv => AcceptedTablesAreDisjoint
  <2> SUFFICES ASSUME GptInv, Sane(disk), NEW i \in Parts, NEW j \in Parts,
                      i # j, ~IsUnused(AnyValid(disk)[i]), ~IsUnused(AnyValid(disk)[j])
               PROVE  Sectors(AnyValid(disk)[i]) \cap Sectors(AnyValid(disk)[j]) = {}
    BY DEF AcceptedTablesAreDisjoint, GptInv
  <2> DEFINE t == AnyValid(disk)
  <2>1. disk \in Drive
    BY DEF GptInv, GptTypeOK
  <2>2. t \in Table
    BY <2>1 DEF AnyValid, Drive, Table
  <2>3. \E h : CheckEntries(t, h)
    BY <2>1, SanityFacts DEF Sane, AnyValid
  <2> HIDE DEF t
  <2>4. ~Overlap(t[i], t[j]) /\ ~Overlap(t[j], t[i])
    BY <2>3 DEF CheckEntries, t
  <2>5. t[i].first \in Nat /\ t[i].last \in Int /\ t[j].first \in Nat /\ t[j].last \in Int
    BY <2>2 DEF Table, Entry
  <2>6. Sectors(t[i]) \cap Sectors(t[j]) = {}
    BY <2>4, <2>5 DEF Overlap, Sectors
  <2> QED
    BY <2>6 DEF t
<1> QED
  BY <1>1, InvAtStart, InvIsKept, PTL DEF GptSpec

(* Whatever table is on the drive and whatever priorities are asked for, the   *)
(* new priorities are those the usage text promises (cgpt_prioritize.c).       *)
THEOREM PrioritiesAreAsPromised == GptSpec => []PrioritizeMeetsItsUsage
<1>1. GptInv => PrioritizeMeetsItsUsage
  <2> SUFFICES ASSUME GptInv,
                      NEW p \in [partition : {0} \cup Kernels(disk.e1), friends : BOOLEAN,
                                max : 0 .. MaxPriority]
               PROVE  Promised(disk.e1, p)
    BY DEF PrioritizeMeetsItsUsage
  <2>1. disk.e1 \in Table /\ p.max \in 0 .. MaxPriority
    BY DEF GptInv, GptTypeOK, Drive, Table
  <2> QED
    BY <2>1, PromiseKept
<1> QED
  BY <1>1, InvAtStart, InvIsKept, PTL DEF GptSpec

(* A repair can be interrupted and run again: no write of it, made, failed or  *)
(* cut short, changes the table a reader is shown, unless a second one of the  *)
(* same repair fails (GptRepair, DriveClose).                                  *)
THEOREM RepairIsSafe == GptSpec => RepairKeepsTheTable
<1>1. GptInit => RepairInv
  BY DEF GptInit, RepairInv
<1>2. GptInv => GptTypeOK
  BY DEF GptInv
<1>3. GptInv /\ RepairInv /\ [GptNext]_gptVars => RepairInv'
  BY <1>2, RepairStep
<1>4. GptInv /\ RepairInv /\ [GptNext]_gptVars =>
        [/\ call.op = "repair" /\ call.ret = "running" /\ Sane(disk)
         /\ errors => faults' = faults
         => Sane(disk') /\ AnyValid(disk') = AnyValid(disk)]_gptVars
  BY <1>2, RepairStep DEF KeepsShown
<1> QED
  BY <1>1, <1>3, <1>4, InvAtStart, InvIsKept, PTL DEF GptSpec, RepairKeepsTheTable
=============================================================================
