---------------------------- MODULE OsipContract ----------------------------
(***************************************************************************)
(* What the OSIP promises: a table whose entries read back as whole        *)
(* images, and updates that happen in one step or not at all.  An entry    *)
(* reads as NoImage when it is empty and as Unprotected when nothing is    *)
(* promised of it; there is no half-written image.                         *)
(***************************************************************************)
EXTENDS Integers, Sequences

CONSTANTS MaxEntries, Attrs, Images, NoImage, Unprotected

VARIABLE table

Slot == [attr : Attrs, live : BOOLEAN,
         content : Images \cup {NoImage, Unprotected}]

Tables == {t \in Seq(Slot) : Len(t) <= MaxEntries}

Init == table \in Tables

\* An image takes a new entry or the place of an old one, and does not revive
\* an invalidated one.  An old entry of another kind may be kept at the end.
Install(i) ==
  /\ table' \in Tables
  /\ i \in DOMAIN table'
  /\ table'[i].content # NoImage
  /\ \/ /\ i = Len(table) + 1
        /\ table' = Append(table, table'[i])
     \/ /\ i \in DOMAIN table
        /\ table'[i].live => table[i].live
        /\ \/ table' = [table EXCEPT ![i] = table'[i]]
           \/ /\ table[i].attr # table'[i].attr
              /\ table' = Append([table EXCEPT ![i] = table'[i]], table[i])

Validate(i, live) == table' = [table EXCEPT ![i].live = live]

Reset ==
  table' = <<[attr |-> "KERNEL", live |-> FALSE, content |-> NoImage]>>

Erase == table' = <<>>

\* An error went unnoticed: from then on nothing is promised of any image.
GiveUp ==
  /\ table' \in Tables
  /\ \A i \in DOMAIN table' : table'[i].content = Unprotected

Next ==
  \/ \E i \in 1 .. MaxEntries : Install(i)
  \/ \E i \in DOMAIN table, live \in BOOLEAN : Validate(i, live)
  \/ Reset
  \/ Erase
  \/ GiveUp

Spec == Init /\ [][Next]_table

=============================================================================
