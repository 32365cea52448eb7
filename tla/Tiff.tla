-------------------------------- MODULE Tiff --------------------------------
(***************************************************************************)
(* The layout of a TIFF header (lib/tiff.c): the directory of tags at a    *)
(* given offset, and after it the values that do not fit in an entry, each *)
(* on a multiple of four.  A tag is [id, bytes, sub]: how long its value   *)
(* is, or the tags of the directory it points to.                          *)
(***************************************************************************)
EXTENDS Integers, Sequences, FiniteSets

Round4(n) == ((n + 3) \div 4) * 4

Tag(id, bytes) == [id |-> id, bytes |-> bytes, sub |-> <<>>]
SubIfd(id, tags) == [id |-> id, bytes |-> 0, sub |-> tags]

(* The tags that the formats share, by length of value; a string has a     *)
(* terminator.                                                             *)
Baseline(bits) ==
  <<Tag(254, 4), Tag(256, 4), Tag(257, 4), Tag(258, bits), Tag(259, 2), Tag(262, 2),
    Tag(271, 18), Tag(272, 12), Tag(273, 4), Tag(274, 2), Tag(277, 2), Tag(278, 4),
    Tag(279, 4), Tag(284, 2), Tag(296, 2)>>
CfaTags == <<Tag(33421, 4), Tag(33422, 4)>>
BayerTags ==
  <<Tag(50706, 4), Tag(50707, 4), Tag(50708, 21), Tag(50711, 2), Tag(50717, 2),
    Tag(50721, 72), Tag(50728, 24), Tag(50778, 2)>>
GreyTags == <<Tag(50706, 4), Tag(50707, 4), Tag(50708, 21), Tag(50717, 2), Tag(50721, 24)>>

(* The bytes after an entry for a value of n bytes: none up to four.       *)
Extension(n) == IF n > 4 THEN Round4(n) ELSE 0

(* Bytes of the extensions of the first i values.                          *)
ExtensionBytes(lengths) ==
  LET bytes[i \in 0 .. Len(lengths)] ==
        IF i = 0 THEN 0 ELSE bytes[i - 1] + Extension(lengths[i])
  IN  bytes

(* A sub-directory holds plain values only.                                *)
Lengths(tags) == [i \in DOMAIN tags |-> tags[i].bytes]
tiff_sizeof_ifd(tags) == 6 + 12 * Len(tags) + ExtensionBytes(Lengths(tags))[Len(tags)]
tiff_tag_datalen(t) == IF t.sub = <<>> THEN t.bytes ELSE tiff_sizeof_ifd(t.sub)

(* Where value i of a directory at an offset goes.                         *)
ExtensionAt(offset, lengths, i) ==
  offset + Round4(12 * Len(lengths) + 6) + ExtensionBytes(lengths)[i - 1]

Extents(offset, lengths) ==
  {[at |-> offset, len |-> 12 * Len(lengths) + 6]} \cup
  {[at |-> ExtensionAt(offset, lengths, i), len |-> lengths[i]] :
     i \in {j \in DOMAIN lengths : lengths[j] > 4}}

(* What tiff_write_ifd writes, each value that is a directory by a call of *)
(* its own.  A directory that would not end before maxlen is cut short: no *)
(* extents.                                                                *)
IfdExtents(offset, lengths, maxlen) ==
  LET extents == Extents(offset, lengths)
  IN  IF /\ offset + Round4(12 * Len(lengths) + 6) < maxlen
         /\ \A e \in extents : e.at + e.len <= maxlen
      THEN extents ELSE {}

tiff_write_ifd(offset, tags, maxlen) ==
  LET lengths == [i \in DOMAIN tags |-> tiff_tag_datalen(tags[i])]
      subs    == {i \in DOMAIN tags : tags[i].sub # <<>>}
      inner   == [i \in subs |-> IfdExtents(ExtensionAt(offset, lengths, i),
                                            Lengths(tags[i].sub), maxlen)]
      places  == {[at |-> ExtensionAt(offset, lengths, i), len |-> lengths[i]] : i \in subs}
      outer   == IfdExtents(offset, lengths, maxlen)
  IN  IF outer = {} \/ \E i \in subs : inner[i] = {} THEN {}
      ELSE (outer \ places) \cup UNION {inner[i] : i \in subs}

(* The file header takes eight bytes, the directory follows.               *)
tiff_build_header(size, tags) == tiff_write_ifd(8, tags, size)

(* The values that a header must hold: the directory, each value that does *)
(* not fit in its entry, and these of the directories it points to.        *)
Slots(tags) ==
  {<<0, 0>>} \cup
  {<<i, 0>> : i \in {j \in DOMAIN tags : tiff_tag_datalen(tags[j]) > 4}} \cup
  UNION {{<<i, k>> : k \in {j \in DOMAIN tags[i].sub : tags[i].sub[j].bytes > 4}} : i \in DOMAIN tags}

(* A reader that follows the offsets finds every value: none is missing,   *)
(* every offset is even as the format demands, and no two values share a   *)
(* byte.                                                                   *)
Readable(extents, tags) ==
  /\ Cardinality(extents) = Cardinality(Slots(tags))
  /\ \A e \in extents : e.at % 2 = 0
  /\ \A e, f \in extents : e.at < f.at => e.at + e.len <= f.at
=============================================================================
