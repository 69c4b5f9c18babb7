------------------------------ MODULE FwVersion ------------------------------
(* Firmware versions: what the SCU reports of the running firmware and what    *)
(* the readers of libintelprov/fw_version_check.c find in an image.  An image  *)
(* is given by the FIP headers its scan meets, in order; only the IFWI version *)
(* of a header decides anything, the other components are printed.             *)
EXTENDS Naturals, Sequences

NoVersion == [major |-> 0, minor |-> 0]

\* External: the bytes /sys/devices/ipc/.../fw_version prints on a device that
\* runs version v, in the layout of the older and of the newer SCU.
ScuBytes(v) == [i \in 0..15 |-> CASE i = 14 -> v.minor % 256
                                  [] i = 15 -> v.major % 256
                                  [] OTHER -> 0]
ScuBytesLong(v) == [i \in 0..27 |-> CASE i = 16 -> v.minor % 256
                                      [] i = 17 -> v.minor \div 256
                                      [] i = 18 -> v.major % 256
                                      [] i = 19 -> v.major \div 256
                                      [] OTHER -> 0]

\* The first len numbers of the file; an entry the file lacks stays 0.
read_fw_revision(bytes, len) ==
  [i \in 0..(len - 1) |-> IF i \in DOMAIN bytes THEN bytes[i] ELSE 0]

get_current_fw_rev(bytes) ==
  LET fw_revision == read_fw_revision(bytes, 16)
  IN [major |-> fw_revision[15], minor |-> fw_revision[14]]

get_current_fw_rev_long(bytes) ==
  LET fw_revision == read_fw_revision(bytes, 32)
  IN [major |-> fw_revision[19] * 256 + fw_revision[18],
      minor |-> fw_revision[17] * 256 + fw_revision[16]]

KeepIfNull(new, old) == IF new # 0 THEN new ELSE old

\* Every header replaces the fields it does not leave null.
get_image_fw_rev(fips) ==
  LET rev[n \in 0..Len(fips)] ==
        IF n = 0 THEN NoVersion
        ELSE [major |-> KeepIfNull(fips[n].major, rev[n - 1].major),
              minor |-> KeepIfNull(fips[n].minor, rev[n - 1].minor)]
  IN rev[Len(fips)]

get_image_fw_rev_long(fips) ==
  LET rev[n \in 0..Len(fips)] ==
        IF n = 0 THEN NoVersion
        ELSE [minor |-> KeepIfNull(fips[n].minor, rev[n - 1].minor),
              major |-> KeepIfNull(fips[n].major, rev[n - 1].major)]
  IN rev[Len(fips)]

HasFip(fips) == fips # <<>>

\* The first header with a version; an image without one is refused.
Versioned(fips) == SelectSeq(fips, LAMBDA fip : fip # NoVersion)
CanCrack(fips) == Versioned(fips) # <<>>
crack_update_fw(fips) == Head(Versioned(fips))

\* The PTI byte of the SMIP area: the search fails without an SMIP pattern.
crack_update_fw_pti_field(image) ==
  IF image.pti = "missing" THEN [ret |-> 1, field |-> 0]
  ELSE [ret |-> 0, field |-> IF image.pti = "on" THEN 128 ELSE 0]
=============================================================================
