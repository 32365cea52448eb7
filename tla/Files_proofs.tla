----------------------------- MODULE Files_proofs -----------------------------
(***************************************************************************)
(* Theorems about the files of frames, for any paths, kinds and lengths of *)
(* a serial number, and any number of saves, buffers and refused writes;   *)
(* and about their recovery from memory, for any region, table and blocks. *)
(*                                                                         *)
(* The first part is about headers, and needs no behaviour: a directory    *)
(* lays its values out one after another on even offsets, each in a room   *)
(* of its own (RoomsFollow), the values of a directory within a directory  *)
(* in the room of the entry that points to it (ExtentInRoom).  So no two   *)
(* share a byte, and there is one for each slot of the table               *)
(* (HeaderReadable).  What each format puts into its table fits.           *)
(*                                                                         *)
(* The second part is about the files.  A directory that exists is never   *)
(* taken for a save, so its image files are the running save's or none     *)
(* are; the number in a file's name runs with the buffers, also past a     *)
(* file that cannot be created; a file either has all of its header and    *)
(* frame, or its own write failed.  A raw file is truncated when a save    *)
(* opens it, so it grows by that save's buffers alone (RawGrows).          *)
(*                                                                         *)
(* The third part is about the recovery.  The blocks recorded follow one   *)
(* another in memory, a frame that is gone was overwritten by a later      *)
(* block (Blocked), and the table has the last of them, each at the place  *)
(* of its number (Tabled).  The list grows by one entry at a time: at any  *)
(* time it holds the last of the entries read that share no memory         *)
(* (EntryShows, AllRead).  So every listed block is whole (ListedWhole),   *)
(* and looked up number by number its frames come in the order of          *)
(* recording (InOrder).                                                    *)
(***************************************************************************)
EXTENDS FrameFiles, Recover, Segments_proofs, FiniteSetTheorems

-----------------------------------------------------------------------------
(* A table of tags: plain values, and directories of plain values.         *)
PlainTag == [id : Nat, bytes : Nat, sub : {<<>>}]
AnyTag == [id : Nat, bytes : Nat, sub : Seq(PlainTag)]

LEMMA ExtensionType ==
  ASSUME NEW n \in Nat
  PROVE  /\ Extension(n) \in Nat
         /\ Extension(n) % 4 = 0
         /\ n > 4 => n <= Extension(n)
         /\ Round4(n) \in Nat /\ n <= Round4(n) /\ Round4(n) % 4 = 0
BY DEF Extension, Round4

Extends(f, lengths, n) ==
  /\ f \in [0 .. n -> Nat]
  /\ f[0] = 0
  /\ \A i \in 1 .. n : f[i] = f[i - 1] + Extension(lengths[i])

LEMMA ExtensionSumsExist ==
  ASSUME NEW lengths \in Seq(Nat)
  PROVE  \E f : Extends(f, lengths, Len(lengths))
<1> DEFINE S == {n \in Nat : n <= Len(lengths) => \E f : Extends(f, lengths, n)}
<1>1. 0 \in S
  <2>1. Extends([i \in 0 .. 0 |-> 0], lengths, 0)
    BY DEF Extends
  <2> QED BY <2>1
<1>2. ASSUME NEW n \in Nat, n \in S
      PROVE  n + 1 \in S
  <2> SUFFICES ASSUME n + 1 <= Len(lengths)
               PROVE  \E g : Extends(g, lengths, n + 1)
    OBVIOUS
  <2>1. n + 1 \in 1 .. Len(lengths) /\ n <= Len(lengths)
    OBVIOUS
  <2>2. PICK f : Extends(f, lengths, n)
    BY <2>1, <1>2
  <2> DEFINE x == Extension(lengths[n + 1])
  <2>3. x \in Nat
    <3>1. lengths[n + 1] \in Nat
      BY <2>1
    <3> QED BY <3>1, ExtensionType
  <2> HIDE DEF x
  <2> DEFINE g == [i \in 0 .. n + 1 |-> IF i = n + 1 THEN f[n] + x ELSE f[i]]
  <2>4. g \in [0 .. n + 1 -> Nat] /\ g[0] = 0
    BY <2>2, <2>3 DEF Extends
  <2>5. ASSUME NEW i \in 1 .. n + 1
        PROVE  g[i] = g[i - 1] + Extension(lengths[i])
    <3>1. i - 1 \in 0 .. n + 1 /\ i - 1 # n + 1 /\ g[i - 1] = f[i - 1]
      OBVIOUS
    <3>2. CASE i = n + 1
      BY <3>1, <3>2 DEF x
    <3>3. CASE i # n + 1
      <4>1. i \in 1 .. n /\ g[i] = f[i]
        BY <3>3
      <4> QED BY <3>1, <4>1, <2>2 DEF Extends
    <3> QED BY <3>2, <3>3
  <2> HIDE DEF g
  <2>6. Extends(g, lengths, n + 1)
    BY <2>4, <2>5 DEF Extends
  <2> QED BY <2>6
<1> HIDE DEF S
<1>3. Len(lengths) \in Nat /\ \A n \in Nat : n \in S
  BY <1>1, <1>2, SetInduction
<1> QED BY <1>3 DEF S

(* Entry i of ExtensionBytes is the bytes of the first i extensions.       *)
LEMMA ExtensionBytesAdds ==
  ASSUME NEW lengths \in Seq(Nat)
  PROVE  Extends(ExtensionBytes(lengths), lengths, Len(lengths))
<1> DEFINE n == Len(lengths)
           Body(f) == [i \in 0 .. n |-> IF i = 0 THEN 0 ELSE f[i - 1] + Extension(lengths[i])]
<1>1. PICK f : Extends(f, lengths, n)
  BY ExtensionSumsExist
<1>2. f = Body(f)
  <2>1. f = [i \in 0 .. n |-> f[i]]
    BY <1>1 DEF Extends
  <2>2. \A i \in 0 .. n : f[i] = IF i = 0 THEN 0 ELSE f[i - 1] + Extension(lengths[i])
    BY <1>1 DEF Extends
  <2> QED BY <2>1, <2>2
<1>3. ExtensionBytes(lengths) = CHOOSE g : g = Body(g)
  BY DEF ExtensionBytes
<1>4. ExtensionBytes(lengths) = Body(ExtensionBytes(lengths))
  BY <1>2, <1>3
<1> DEFINE b == ExtensionBytes(lengths)
<1>5. /\ b = [i \in 0 .. n |-> b[i]]
      /\ b[0] = 0
      /\ \A i \in 1 .. n : b[i] = b[i - 1] + Extension(lengths[i])
  <2> HIDE DEF b
  <2>1. b = Body(b)
    BY <1>4 DEF b
  <2> QED BY <2>1
<1> HIDE DEF b
<1> DEFINE S == {k \in Nat : k <= n => b[k] \in Nat}
<1>6. 0 \in S
  BY <1>5
<1>7. ASSUME NEW k \in Nat, k \in S
      PROVE  k + 1 \in S
  <2> SUFFICES ASSUME k + 1 <= n PROVE b[k + 1] \in Nat
    OBVIOUS
  <2> DEFINE j == k + 1
  <2>1. j \in 1 .. n /\ j - 1 = k /\ b[k] \in Nat
    BY <1>7
  <2> HIDE DEF j
  <2>2. b[j] = b[j - 1] + Extension(lengths[j]) /\ Extension(lengths[j]) \in Nat
    <3>1. lengths[j] \in Nat
      BY <2>1
    <3> QED BY <2>1, <3>1, <1>5, ExtensionType
  <2>3. b[j] \in Nat
    BY <2>1, <2>2
  <2> QED BY <2>3 DEF j
<1>8. \A k \in Nat : k \in S
  <2> HIDE DEF S
  <2> QED BY <1>6, <1>7, SetInduction
<1>9. b \in [0 .. n -> Nat]
  BY <1>5, <1>8
<1> QED BY <1>5, <1>9 DEF Extends, b

LEMMA ExtensionBytesGrows ==
  ASSUME NEW lengths \in Seq(Nat), NEW i \in 0 .. Len(lengths)
  PROVE  /\ ExtensionBytes(lengths)[i] \in Nat
         /\ ExtensionBytes(lengths)[i] % 4 = 0
         /\ \A j \in 0 .. Len(lengths) :
              i <= j => ExtensionBytes(lengths)[i] <= ExtensionBytes(lengths)[j]
<1> DEFINE n == Len(lengths)
           b == ExtensionBytes(lengths)
<1>1. /\ b \in [0 .. n -> Nat] /\ b[0] = 0 /\ n \in Nat
      /\ \A j \in 1 .. n : b[j] = b[j - 1] + Extension(lengths[j])
  BY ExtensionBytesAdds DEF Extends
<1>2. \A j \in 1 .. n : Extension(lengths[j]) \in Nat /\ Extension(lengths[j]) % 4 = 0
  <2>1. \A j \in 1 .. n : lengths[j] \in Nat
    OBVIOUS
  <2> QED BY <2>1, ExtensionType
<1> HIDE DEF b
<1> DEFINE S == {k \in Nat : k <= n => b[k] % 4 = 0}
           T == {d \in Nat : i + d <= n => b[i] <= b[i + d]}
<1>3. 0 \in S /\ 0 \in T
  BY <1>1
<1>4. ASSUME NEW k \in Nat, k + 1 <= n
      PROVE  b[k] \in Nat /\ b[k] <= b[k + 1] /\ (b[k] % 4 = 0 => b[k + 1] % 4 = 0)
  <2> DEFINE j == k + 1
  <2>1. j \in 1 .. n /\ j - 1 = k /\ k \in 0 .. n
    BY <1>4
  <2> HIDE DEF j
  <2>2. b[j] = b[k] + Extension(lengths[j]) /\ b[k] \in Nat
    BY <2>1, <1>1
  <2>3. Extension(lengths[j]) \in Nat /\ Extension(lengths[j]) % 4 = 0
    BY <2>1, <1>2
  <2>4. b[k] <= b[j] /\ (b[k] % 4 = 0 => b[j] % 4 = 0)
    <3> DEFINE u == b[k]
               v == b[j]
               w == Extension(lengths[j])
    <3>1. u \in Nat /\ w \in Nat /\ w % 4 = 0 /\ v = u + w
      BY <2>2, <2>3
    <3> HIDE DEF u, v, w
    <3>2. u <= v /\ (u % 4 = 0 => v % 4 = 0)
      BY <3>1
    <3> QED BY <3>2 DEF u, v
  <2> QED BY <2>2, <2>4 DEF j
<1>5. ASSUME NEW k \in Nat, k \in S
      PROVE  k + 1 \in S
  <2> SUFFICES ASSUME k + 1 <= n PROVE b[k + 1] % 4 = 0
    OBVIOUS
  <2>1. k <= n
    BY <1>1
  <2> QED BY <1>4, <1>5, <2>1
<1>6. ASSUME NEW d \in Nat, d \in T
      PROVE  d + 1 \in T
  <2> SUFFICES ASSUME i + (d + 1) <= n PROVE b[i] <= b[i + (d + 1)]
    OBVIOUS
  <2> DEFINE k == i + d
  <2>1. k \in Nat /\ k + 1 <= n /\ b[i] <= b[k] /\ i + (d + 1) = k + 1 /\ i \in 0 .. n /\ k + 1 \in 0 .. n
    BY <1>6, <1>1
  <2> HIDE DEF k
  <2>2. b[i] \in Nat /\ b[k] \in Nat /\ b[k + 1] \in Nat /\ b[k] <= b[k + 1]
    BY <2>1, <1>1, <1>4
  <2>3. b[i] <= b[k + 1]
    BY <2>1, <2>2
  <2> QED BY <2>1, <2>3
<1>7. (\A k \in Nat : k \in S) /\ (\A d \in Nat : d \in T)
  <2> HIDE DEF S, T
  <2> QED BY <1>3, <1>5, <1>6, SetInduction
<1>8. ASSUME NEW j \in 0 .. n, i <= j
      PROVE  b[i] <= b[j]
  <2>1. j - i \in Nat /\ i + (j - i) = j
    BY <1>8
  <2>2. j - i \in T
    BY <2>1, <1>7
  <2> QED BY <2>1, <2>2
<1>9. b[i] \in Nat /\ b[i] % 4 = 0
  BY <1>1, <1>7
<1> QED BY <1>8, <1>9 DEF b

(* Where a directory ends, its extensions included.                        *)
IfdEnd(offset, lengths) ==
  offset + Round4(12 * Len(lengths) + 6) + ExtensionBytes(lengths)[Len(lengths)]

(* The values of a directory follow it, on even offsets, one after another. *)
LEMMA IfdLayout ==
  ASSUME NEW offset \in Nat, offset % 2 = 0, NEW lengths \in Seq(Nat), NEW i \in 1 .. Len(lengths)
  PROVE  /\ ExtensionAt(offset, lengths, i) \in Nat
         /\ ExtensionAt(offset, lengths, i) % 2 = 0
         /\ offset + Round4(12 * Len(lengths) + 6) <= ExtensionAt(offset, lengths, i)
         /\ ExtensionAt(offset, lengths, i) + Extension(lengths[i]) <= IfdEnd(offset, lengths)
         /\ \A j \in 1 .. Len(lengths) : i < j =>
              ExtensionAt(offset, lengths, i) + Extension(lengths[i]) <= ExtensionAt(offset, lengths, j)
<1> DEFINE n == Len(lengths)
           b == ExtensionBytes(lengths)
           r == Round4(12 * n + 6)
<1>1. n \in Nat /\ i - 1 \in 0 .. n /\ i \in 0 .. n /\ i - 1 <= i /\ i <= n /\ n \in 0 .. n
  OBVIOUS
<1>2. r \in Nat /\ r % 4 = 0
  <2>1. 12 * n + 6 \in Nat
    BY <1>1
  <2> QED BY <2>1, ExtensionType
<1>3. b[i] = b[i - 1] + Extension(lengths[i])
  BY ExtensionBytesAdds DEF Extends
<1>4. b[i - 1] \in Nat /\ b[i - 1] % 4 = 0 /\ b[i] \in Nat /\ b[i] <= b[n] /\ b[n] \in Nat
  BY <1>1, ExtensionBytesGrows
<1>5. ASSUME NEW j \in 1 .. n, i < j
      PROVE  b[i] <= b[j - 1] /\ b[j - 1] \in Nat
  <2>1. j - 1 \in 0 .. n /\ i <= j - 1
    BY <1>5
  <2> QED BY <2>1, <1>1, ExtensionBytesGrows
<1>6. Extension(lengths[i]) \in Nat
  <2>1. lengths[i] \in Nat
    OBVIOUS
  <2> QED BY <2>1, ExtensionType
<1>7. \A j : ExtensionAt(offset, lengths, j) = offset + r + b[j - 1]
  BY DEF ExtensionAt
<1>8. IfdEnd(offset, lengths) = offset + r + b[n]
  BY DEF IfdEnd
<1> DEFINE x == ExtensionAt(offset, lengths, i)
           l == Extension(lengths[i])
           p == b[i - 1]
           q == b[i]
           z == b[n]
           end == IfdEnd(offset, lengths)
<1>9. x = offset + r + p /\ q = p + l /\ end = offset + r + z
      /\ p \in Nat /\ q \in Nat /\ z \in Nat /\ r \in Nat /\ l \in Nat /\ p % 4 = 0 /\ r % 4 = 0 /\ q <= z
  <2> HIDE DEF b
  <2> QED BY <1>2, <1>3, <1>4, <1>6, <1>7, <1>8
<1>10. ASSUME NEW j \in 1 .. n, i < j
       PROVE  x + l <= ExtensionAt(offset, lengths, j)
  <2> DEFINE y == ExtensionAt(offset, lengths, j)
             t == b[j - 1]
  <2>1. y = offset + r + t /\ q <= t /\ t \in Nat
    <3> HIDE DEF b
    <3> QED BY <1>5, <1>7, <1>10
  <2> HIDE DEF x, l, p, q, z, end, r, y, t
  <2> QED BY <1>9, <2>1 DEF y
<1>11. x \in Nat /\ x % 2 = 0 /\ offset + r <= x /\ x + l <= end
  <2> HIDE DEF x, l, p, q, z, end, r
  <2> QED BY <1>9
<1> QED BY <1>10, <1>11

Table == Seq(AnyTag)
DataLengths(tags) == [i \in DOMAIN tags |-> tiff_tag_datalen(tags[i])]

(* A directory takes what its entry says of it, its own extensions         *)
(* included.                                                               *)
LEMMA PlainTable ==
  ASSUME NEW sub \in Seq(PlainTag)
  PROVE  /\ Lengths(sub) \in Seq(Nat)
         /\ Len(Lengths(sub)) = Len(sub)
         /\ \A k \in 1 .. Len(sub) : Lengths(sub)[k] = sub[k].bytes
         /\ tiff_sizeof_ifd(sub) \in Nat /\ tiff_sizeof_ifd(sub) > 4
         /\ \A at \in Nat : IfdEnd(at, Lengths(sub)) = at + Extension(tiff_sizeof_ifd(sub))
<1> DEFINE m == Len(sub)
           l == Lengths(sub)
           b == ExtensionBytes(l)[m]
<1>1. m \in Nat /\ DOMAIN sub = 1 .. m /\ \A k \in 1 .. m : sub[k].bytes \in Nat
  <2>1. \A k \in 1 .. m : sub[k] \in PlainTag
    OBVIOUS
  <2> QED BY <2>1 DEF PlainTag
<1>2. l = [k \in 1 .. m |-> sub[k].bytes]
  BY <1>1 DEF Lengths
<1>3. l \in Seq(Nat) /\ Len(l) = m /\ \A k \in 1 .. m : l[k] = sub[k].bytes
  BY <1>1, <1>2
<1>4. b \in Nat /\ b % 4 = 0
  BY <1>1, <1>3, ExtensionBytesGrows
<1>5. tiff_sizeof_ifd(sub) = 6 + 12 * m + b
  BY DEF tiff_sizeof_ifd
<1>6. \A at \in Nat : IfdEnd(at, l) = at + Round4(12 * m + 6) + b
  BY <1>3 DEF IfdEnd
<1> HIDE DEF m, l, b
<1>7. Extension(6 + 12 * m + b) = Round4(12 * m + 6) + b /\ Round4(12 * m + 6) \in Nat
  BY <1>1, <1>4 DEF Extension, Round4
<1>8. \A at \in Nat : at + Round4(12 * m + 6) + b = at + (Round4(12 * m + 6) + b)
  BY <1>4, <1>7
<1>9. \A at \in Nat : IfdEnd(at, l) = at + Extension(tiff_sizeof_ifd(sub))
  BY <1>5, <1>6, <1>7, <1>8
<1>10. tiff_sizeof_ifd(sub) \in Nat /\ tiff_sizeof_ifd(sub) > 4
  BY <1>1, <1>4, <1>5
<1> QED BY <1>3, <1>9, <1>10 DEF m, l

LEMMA TableLengths ==
  ASSUME NEW tags \in Table
  PROVE  /\ DataLengths(tags) \in Seq(Nat)
         /\ Len(DataLengths(tags)) = Len(tags)
         /\ \A i \in 1 .. Len(tags) :
              /\ tags[i].sub \in Seq(PlainTag)
              /\ tags[i].sub = <<>> => DataLengths(tags)[i] = tags[i].bytes
              /\ tags[i].sub # <<>> => DataLengths(tags)[i] = tiff_sizeof_ifd(tags[i].sub)
<1>1. DOMAIN tags = 1 .. Len(tags) /\ Len(tags) \in Nat
  BY DEF Table
<1>2. \A i \in 1 .. Len(tags) : tags[i] \in AnyTag
  BY DEF Table
<1>3. \A i \in 1 .. Len(tags) : tags[i].sub \in Seq(PlainTag) /\ tags[i].bytes \in Nat
  BY <1>2 DEF AnyTag
<1>4. \A i \in 1 .. Len(tags) : tiff_tag_datalen(tags[i]) \in Nat
  BY <1>3, PlainTable DEF tiff_tag_datalen
<1>5. DataLengths(tags) = [i \in 1 .. Len(tags) |-> tiff_tag_datalen(tags[i])]
  BY <1>1 DEF DataLengths
<1>6. DataLengths(tags) \in Seq(Nat) /\ Len(DataLengths(tags)) = Len(tags)
  BY <1>1, <1>4, <1>5
<1> QED BY <1>3, <1>5, <1>6 DEF tiff_tag_datalen

-----------------------------------------------------------------------------
(* Where value i of a table goes, and value k of the directory that is     *)
(* value i.                                                                *)
At(offset, tags, i) == ExtensionAt(offset, DataLengths(tags), i)
AtSub(offset, tags, i, k) == ExtensionAt(At(offset, tags, i), Lengths(tags[i].sub), k)

(* What is written for a slot.                                             *)
Extent(offset, tags, p) ==
  IF p = <<0, 0>> THEN [at |-> offset, len |-> 12 * Len(tags) + 6]
  ELSE IF p[2] # 0
       THEN [at |-> AtSub(offset, tags, p[1], p[2]), len |-> tags[p[1]].sub[p[2]].bytes]
       ELSE [at |-> At(offset, tags, p[1]),
             len |-> IF tags[p[1]].sub = <<>> THEN tags[p[1]].bytes ELSE 12 * Len(tags[p[1]].sub) + 6]

Room(tags, i) == Extension(DataLengths(tags)[i])

(* Each value but the directory itself lies in the room of its entry, and  *)
(* these follow one another.                                               *)
LEMMA RoomsFollow ==
  ASSUME NEW tags \in Table, NEW offset \in Nat, offset % 2 = 0, NEW i \in 1 .. Len(tags)
  PROVE  /\ At(offset, tags, i) \in Nat /\ At(offset, tags, i) % 2 = 0
         /\ Room(tags, i) \in Nat
         /\ offset + 12 * Len(tags) + 6 <= At(offset, tags, i)
         /\ At(offset, tags, i) + Room(tags, i) <= IfdEnd(offset, DataLengths(tags))
         /\ \A j \in 1 .. Len(tags) :
              i < j => At(offset, tags, i) + Room(tags, i) <= At(offset, tags, j)
<1> DEFINE l == DataLengths(tags)
           n == Len(tags)
<1>1. l \in Seq(Nat) /\ Len(l) = n /\ n \in Nat
  BY TableLengths DEF Table
<1>2. l[i] \in Nat
  BY <1>1
<1>3. Room(tags, i) \in Nat
  BY <1>2, ExtensionType DEF Room
<1>4. /\ At(offset, tags, i) \in Nat
      /\ At(offset, tags, i) % 2 = 0
      /\ offset + Round4(12 * n + 6) <= At(offset, tags, i)
      /\ At(offset, tags, i) + Room(tags, i) <= IfdEnd(offset, l)
      /\ \A j \in 1 .. n : i < j =>
           At(offset, tags, i) + Room(tags, i) <= At(offset, tags, j)
  <2> HIDE DEF l
  <2> QED BY <1>1, IfdLayout DEF At, Room, l
<1>5. offset + 12 * n + 6 <= offset + Round4(12 * n + 6) /\ Round4(12 * n + 6) \in Nat
  <2>1. 12 * n + 6 \in Nat
    BY <1>1
  <2>2. Round4(12 * n + 6) \in Nat /\ 12 * n + 6 <= Round4(12 * n + 6)
    BY <2>1, ExtensionType
  <2> QED BY <2>1, <2>2, <1>1
<1> DEFINE r == Round4(12 * n + 6)
           x == At(offset, tags, i)
<1>6. offset + 12 * n + 6 <= x
  <2>1. x \in Nat /\ r \in Nat /\ offset + r <= x /\ offset + 12 * n + 6 <= offset + r
    BY <1>4, <1>5
  <2> HIDE DEF r, x, n
  <2> QED BY <1>1, <2>1
<1> QED BY <1>3, <1>4, <1>6

LEMMA SlotKinds ==
  ASSUME NEW tags \in Table, NEW p \in Slots(tags)
  PROVE  \/ p = <<0, 0>>
         \/ \E i \in 1 .. Len(tags) : p = <<i, 0>> /\ DataLengths(tags)[i] > 4
         \/ \E i \in 1 .. Len(tags) : \E k \in 1 .. Len(tags[i].sub) :
              p = <<i, k>> /\ tags[i].sub[k].bytes > 4
<1>1. DOMAIN tags = 1 .. Len(tags) /\ \A i \in 1 .. Len(tags) : DOMAIN tags[i].sub = 1 .. Len(tags[i].sub)
  BY TableLengths DEF Table
<1>2. \A i \in 1 .. Len(tags) : DataLengths(tags)[i] = tiff_tag_datalen(tags[i])
  BY <1>1 DEF DataLengths
<1> QED BY <1>1, <1>2 DEF Slots

(* What is written for value i lies in its room, and what is written for   *)
(* its value k after its directory there.                                  *)
LEMMA ExtentOfValue ==
  ASSUME NEW tags \in Table, NEW offset \in Nat, offset % 2 = 0, NEW i \in 1 .. Len(tags),
         DataLengths(tags)[i] > 4
  PROVE  LET e == Extent(offset, tags, <<i, 0>>)
         IN  /\ e.at = At(offset, tags, i)
             /\ e.len \in Nat /\ e.len > 0 /\ e.len <= Room(tags, i)
             /\ tags[i].sub # <<>> => e.len = 12 * Len(tags[i].sub) + 6
<1> DEFINE e == Extent(offset, tags, <<i, 0>>)
           n == DataLengths(tags)[i]
           m == Len(tags[i].sub)
<1>1. <<i, 0>> # <<0, 0>> /\ <<i, 0>>[1] = i /\ <<i, 0>>[2] = 0
  OBVIOUS
<1>2. e = [at |-> At(offset, tags, i), len |-> IF tags[i].sub = <<>> THEN tags[i].bytes ELSE 12 * m + 6]
  BY <1>1 DEF Extent
<1>3. n \in Nat /\ n > 4 /\ n <= Extension(n) /\ Room(tags, i) = Extension(n) /\ Extension(n) \in Nat
  <2>1. n \in Nat
    BY TableLengths
  <2> QED BY <2>1, ExtensionType DEF Room
<1>4. CASE tags[i].sub = <<>>
  <2>1. e.len = n /\ e.at = At(offset, tags, i)
    BY <1>2, <1>4, TableLengths
  <2> HIDE DEF e, n
  <2>3. e.at = At(offset, tags, i) /\ e.len \in Nat /\ e.len > 0 /\ e.len <= Room(tags, i)
    BY <1>3, <2>1
  <2> QED BY <1>4, <2>3 DEF e
<1>5. CASE tags[i].sub # <<>>
  <2>1. e.len = 12 * m + 6 /\ e.at = At(offset, tags, i)
    BY <1>2, <1>5
  <2>2. n = tiff_sizeof_ifd(tags[i].sub) /\ tags[i].sub \in Seq(PlainTag) /\ m \in Nat
    BY <1>5, TableLengths
  <2>3. n >= 12 * m + 6
    <3>1. Lengths(tags[i].sub) \in Seq(Nat) /\ Len(Lengths(tags[i].sub)) = m /\ m \in 0 .. m
      BY <2>2, PlainTable
    <3>2. ExtensionBytes(Lengths(tags[i].sub))[m] \in Nat
      BY <3>1, ExtensionBytesGrows
    <3> QED BY <2>2, <3>2 DEF tiff_sizeof_ifd
  <2>4. e.len \in Nat /\ e.len > 0 /\ e.len <= Room(tags, i)
    <3> HIDE DEF e, n, m
    <3> QED BY <1>3, <2>1, <2>2, <2>3
  <2>5. /\ e.at = At(offset, tags, i)
        /\ e.len \in Nat /\ e.len > 0 /\ e.len <= Room(tags, i)
        /\ tags[i].sub # <<>> => e.len = 12 * Len(tags[i].sub) + 6
    <3> HIDE DEF e
    <3> QED BY <2>1, <2>4
  <2> HIDE DEF e, m, n
  <2> QED BY <2>5 DEF e
<1> QED BY <1>4, <1>5

LEMMA ExtentOfSub ==
  ASSUME NEW tags \in Table, NEW offset \in Nat, offset % 2 = 0, NEW i \in 1 .. Len(tags),
         NEW k \in 1 .. Len(tags[i].sub), tags[i].sub[k].bytes > 4
  PROVE  LET e == Extent(offset, tags, <<i, k>>)
         IN  /\ e.at \in Nat /\ e.at % 2 = 0
             /\ e.len \in Nat /\ e.len > 0
             /\ DataLengths(tags)[i] > 4 /\ tags[i].sub # <<>>
             /\ At(offset, tags, i) + 12 * Len(tags[i].sub) + 6 <= e.at
             /\ e.at + e.len <= At(offset, tags, i) + Room(tags, i)
             /\ \A j \in 1 .. Len(tags[i].sub) :
                  k < j => e.at + e.len <= AtSub(offset, tags, i, j)
             /\ e.at = AtSub(offset, tags, i, k)
<1> DEFINE e == Extent(offset, tags, <<i, k>>)
           sub == tags[i].sub
           l == Lengths(sub)
           m == Len(sub)
           a == At(offset, tags, i)
<1>1. <<i, k>> # <<0, 0>> /\ <<i, k>>[1] = i /\ <<i, k>>[2] = k /\ k # 0
  OBVIOUS
<1>2. e.at = AtSub(offset, tags, i, k) /\ e.len = sub[k].bytes
  BY <1>1 DEF Extent
<1>3. sub \in Seq(PlainTag) /\ sub # <<>> /\ DataLengths(tags)[i] = tiff_sizeof_ifd(sub)
      /\ m \in Nat /\ k \in 1 .. m
  BY TableLengths
<1>4. /\ l \in Seq(Nat) /\ Len(l) = m /\ l[k] = sub[k].bytes /\ DataLengths(tags)[i] > 4
      /\ a \in Nat => IfdEnd(a, l) = a + Room(tags, i)
  <2> HIDE DEF sub, a
  <2> QED BY <1>3, PlainTable DEF Room
<1>5. a \in Nat /\ a % 2 = 0 /\ Room(tags, i) \in Nat
  BY RoomsFollow
<1>6. AtSub(offset, tags, i, k) = ExtensionAt(a, l, k)
      /\ \A j \in 1 .. m : AtSub(offset, tags, i, j) = ExtensionAt(a, l, j)
  BY DEF AtSub
<1>7. l[k] \in Nat /\ l[k] <= Extension(l[k]) /\ Extension(l[k]) \in Nat /\ l[k] > 4
  <2>1. l[k] \in Nat /\ l[k] > 4
    BY <1>4
  <2> HIDE DEF l
  <2> QED BY <2>1, ExtensionType
<1> DEFINE x == ExtensionAt(a, l, k)
           r == Round4(12 * m + 6)
           z == Extension(l[k])
<1>8. /\ x \in Nat /\ x % 2 = 0
      /\ a + r <= x
      /\ x + z <= a + Room(tags, i)
      /\ \A j \in 1 .. m : k < j => x + z <= ExtensionAt(a, l, j)
      /\ \A j \in 1 .. m : ExtensionAt(a, l, j) \in Nat
  <2> HIDE DEF l, a
  <2>1. k \in 1 .. Len(l)
    BY <1>4
  <2> HIDE DEF m
  <2> QED BY <1>4, <1>5, <2>1, IfdLayout
<1>9. r \in Nat /\ 12 * m + 6 <= r
  <2>1. 12 * m + 6 \in Nat
    BY <1>3
  <2> QED BY <2>1, ExtensionType
<1>10. e.at = x /\ e.len = l[k]
  BY <1>2, <1>4, <1>6
<1>11. /\ a + 12 * m + 6 <= x
       /\ x + l[k] <= a + Room(tags, i)
  <2> DEFINE y == l[k]
             room == Room(tags, i)
  <2>1. y \in Nat /\ y <= z /\ z \in Nat /\ room \in Nat /\ a \in Nat /\ m \in Nat /\ r \in Nat /\ x \in Nat
        /\ a + r <= x /\ x + z <= a + room /\ 12 * m + 6 <= r
    BY <1>3, <1>5, <1>7, <1>8, <1>9
  <2>2. a + 12 * m + 6 <= x /\ x + y <= a + room
    <3> HIDE DEF x, r, z, a, m, y, room
    <3> QED BY <2>1
  <2> QED BY <2>2
<1>12. ASSUME NEW j \in 1 .. m, k < j
       PROVE  x + l[k] <= AtSub(offset, tags, i, j)
  <2>1. x + z <= ExtensionAt(a, l, j) /\ ExtensionAt(a, l, j) \in Nat /\ AtSub(offset, tags, i, j) = ExtensionAt(a, l, j)
    BY <1>6, <1>8, <1>12
  <2> DEFINE y == ExtensionAt(a, l, j)
  <2> HIDE DEF x, z, l, y
  <2> QED BY <2>1, <1>7, <1>8 DEF y, z
<1> HIDE DEF x, l, a, e
<1>13. e.at \in Nat /\ e.at % 2 = 0 /\ e.len \in Nat /\ e.len > 0
  BY <1>7, <1>8, <1>10
<1> QED BY <1>2, <1>3, <1>4, <1>10, <1>11, <1>12, <1>13 DEF e, a

Before(e, f) == e.at + e.len <= f.at

LEMMA ExtentTypes ==
  ASSUME NEW tags \in Table, NEW offset \in Nat, offset % 2 = 0, NEW p \in Slots(tags)
  PROVE  /\ Extent(offset, tags, p).at \in Nat
         /\ Extent(offset, tags, p).at % 2 = 0
         /\ Extent(offset, tags, p).len \in Nat
         /\ Extent(offset, tags, p).len > 0
<1>1. CASE p = <<0, 0>>
  <2>1. Len(tags) \in Nat
    BY DEF Table
  <2> QED BY <1>1, <2>1 DEF Extent
<1>2. ASSUME NEW i \in 1 .. Len(tags), p = <<i, 0>>, DataLengths(tags)[i] > 4
      PROVE  /\ Extent(offset, tags, p).at \in Nat
             /\ Extent(offset, tags, p).at % 2 = 0
             /\ Extent(offset, tags, p).len \in Nat
             /\ Extent(offset, tags, p).len > 0
  <2> DEFINE e == Extent(offset, tags, <<i, 0>>)
  <2>1. e.at = At(offset, tags, i) /\ e.len \in Nat /\ e.len > 0
    BY <1>2, ExtentOfValue
  <2>2. At(offset, tags, i) \in Nat /\ At(offset, tags, i) % 2 = 0
    BY RoomsFollow
  <2> QED BY <1>2, <2>1, <2>2
<1>3. ASSUME NEW i \in 1 .. Len(tags), NEW k \in 1 .. Len(tags[i].sub), p = <<i, k>>,
             tags[i].sub[k].bytes > 4
      PROVE  /\ Extent(offset, tags, p).at \in Nat
             /\ Extent(offset, tags, p).at % 2 = 0
             /\ Extent(offset, tags, p).len \in Nat
             /\ Extent(offset, tags, p).len > 0
  <2> DEFINE e == Extent(offset, tags, <<i, k>>)
  <2>1. e.at \in Nat /\ e.at % 2 = 0 /\ e.len \in Nat /\ e.len > 0
    BY <1>3, ExtentOfSub
  <2> QED BY <1>3, <2>1
<1> QED BY <1>1, <1>2, <1>3, SlotKinds

(* The directory comes first; what belongs to value i is in its room.      *)
LEMMA ExtentInRoom ==
  ASSUME NEW tags \in Table, NEW offset \in Nat, offset % 2 = 0, NEW p \in Slots(tags), p # <<0, 0>>
  PROVE  /\ p[1] \in 1 .. Len(tags)
         /\ At(offset, tags, p[1]) <= Extent(offset, tags, p).at
         /\ Extent(offset, tags, p).at + Extent(offset, tags, p).len
              <= At(offset, tags, p[1]) + Room(tags, p[1])
<1>1. ASSUME NEW i \in 1 .. Len(tags), p = <<i, 0>>, DataLengths(tags)[i] > 4
      PROVE  /\ p[1] = i
             /\ At(offset, tags, i) <= Extent(offset, tags, p).at
             /\ Extent(offset, tags, p).at + Extent(offset, tags, p).len
                  <= At(offset, tags, i) + Room(tags, i)
  <2> DEFINE e == Extent(offset, tags, <<i, 0>>)
             a == At(offset, tags, i)
             room == Room(tags, i)
  <2>1. e.at = a /\ e.len \in Nat /\ e.len <= room /\ room \in Nat /\ a \in Nat
    BY <1>1, ExtentOfValue, RoomsFollow
  <2>2. a <= e.at /\ e.at + e.len <= a + room
    <3> HIDE DEF e, a, room
    <3> QED BY <2>1
  <2> QED BY <1>1, <2>2
<1>2. ASSUME NEW i \in 1 .. Len(tags), NEW k \in 1 .. Len(tags[i].sub), p = <<i, k>>,
             tags[i].sub[k].bytes > 4
      PROVE  /\ p[1] = i
             /\ At(offset, tags, i) <= Extent(offset, tags, p).at
             /\ Extent(offset, tags, p).at + Extent(offset, tags, p).len
                  <= At(offset, tags, i) + Room(tags, i)
  <2> DEFINE e == Extent(offset, tags, <<i, k>>)
             a == At(offset, tags, i)
             m == Len(tags[i].sub)
  <2>1. a + 12 * m + 6 <= e.at /\ a \in Nat /\ e.at \in Nat /\ m \in Nat
        /\ e.at + e.len <= a + Room(tags, i)
    <3>1. m \in Nat
      BY TableLengths
    <3> QED BY <1>2, <3>1, ExtentOfSub, RoomsFollow
  <2>2. a <= e.at
    <3> HIDE DEF e, a, m
    <3> QED BY <2>1
  <2> QED BY <1>2, <2>1, <2>2
<1> QED BY <1>1, <1>2, SlotKinds

(* What is written for different slots does not overlap.                   *)
LEMMA ExtentsApart ==
  ASSUME NEW tags \in Table, NEW offset \in Nat, offset % 2 = 0,
         NEW p \in Slots(tags), NEW q \in Slots(tags), p # q
  PROVE  \/ Before(Extent(offset, tags, p), Extent(offset, tags, q))
         \/ Before(Extent(offset, tags, q), Extent(offset, tags, p))
<1> DEFINE E(s) == Extent(offset, tags, s)
<1>1. ASSUME NEW s \in Slots(tags), s # <<0, 0>>
      PROVE  Before(E(<<0, 0>>), E(s))
  <2> DEFINE a == At(offset, tags, s[1])
             n == Len(tags)
             e == E(s)
  <2>1. E(<<0, 0>>).at = offset /\ E(<<0, 0>>).len = 12 * n + 6 /\ n \in Nat
    BY DEF Extent, Table
  <2>2. offset + 12 * n + 6 <= a /\ a <= e.at /\ a \in Nat /\ e.at \in Nat
    BY <1>1, ExtentInRoom, ExtentTypes, RoomsFollow
  <2> HIDE DEF a, e, n, E
  <2>3. offset + (12 * n + 6) <= e.at
    BY <2>1, <2>2
  <2> QED BY <2>1, <2>3 DEF Before, e
<1>2. ASSUME NEW s \in Slots(tags), NEW t \in Slots(tags), s # <<0, 0>>, t # <<0, 0>>, s[1] < t[1]
      PROVE  Before(E(s), E(t))
  <2> DEFINE a == At(offset, tags, s[1])
             b == At(offset, tags, t[1])
             room == Room(tags, s[1])
             end == E(s).at + E(s).len
             y == E(t).at
  <2>1. s[1] \in 1 .. Len(tags) /\ t[1] \in 1 .. Len(tags)
    BY <1>2, ExtentInRoom
  <2>2. end <= a + room /\ b <= y
    BY <1>2, ExtentInRoom
  <2>3. end \in Nat /\ y \in Nat
    BY ExtentTypes
  <2>4. a \in Nat /\ b \in Nat /\ room \in Nat /\ a + room <= b
    BY <1>2, <2>1, RoomsFollow
  <2>5. end <= y
    <3> HIDE DEF a, b, room, end, y
    <3> QED BY <2>2, <2>3, <2>4
  <2> QED BY <2>5 DEF Before
<1>3. ASSUME NEW i \in 1 .. Len(tags), NEW k \in 1 .. Len(tags[i].sub), tags[i].sub[k].bytes > 4,
             <<i, 0>> \in Slots(tags), DataLengths(tags)[i] > 4
      PROVE  Before(E(<<i, 0>>), E(<<i, k>>))
  <2> DEFINE a == At(offset, tags, i)
             m == Len(tags[i].sub)
             y == E(<<i, k>>).at
  <2>1. tags[i].sub # <<>> /\ a + 12 * m + 6 <= y /\ y \in Nat
    BY <1>3, ExtentOfSub
  <2>2. E(<<i, 0>>).at = a /\ E(<<i, 0>>).len = 12 * m + 6
    BY <1>3, <2>1, ExtentOfValue
  <2>3. m \in Nat /\ a \in Nat
    <3>1. m \in Nat
      BY TableLengths
    <3> QED BY <3>1, RoomsFollow
  <2>4. a + (12 * m + 6) <= y
    <3> HIDE DEF a, m, y
    <3> QED BY <2>1, <2>3
  <2> HIDE DEF a, m
  <2> QED BY <2>2, <2>4 DEF Before
<1>4. ASSUME NEW i \in 1 .. Len(tags), NEW k \in 1 .. Len(tags[i].sub), tags[i].sub[k].bytes > 4,
             NEW j \in 1 .. Len(tags[i].sub), tags[i].sub[j].bytes > 4, k < j
      PROVE  Before(E(<<i, k>>), E(<<i, j>>))
  <2>1. E(<<i, k>>).at + E(<<i, k>>).len <= AtSub(offset, tags, i, j)
    BY <1>4, ExtentOfSub
  <2>2. E(<<i, j>>).at = AtSub(offset, tags, i, j)
    BY <1>4, ExtentOfSub
  <2> QED BY <2>1, <2>2 DEF Before
<1>5. CASE p = <<0, 0>> \/ q = <<0, 0>>
  BY <1>1, <1>5
<1>6. CASE p # <<0, 0>> /\ q # <<0, 0>> /\ p[1] # q[1]
  <2>1. p[1] < q[1] \/ q[1] < p[1]
    BY <1>6, ExtentInRoom
  <2> QED BY <1>2, <1>6, <2>1
<1>7. CASE p # <<0, 0>> /\ q # <<0, 0>> /\ p[1] = q[1]
  <2>1. PICK i \in 1 .. Len(tags) : p[1] = i
    BY <1>7, ExtentInRoom
  <2>2. \/ p = <<i, 0>> /\ DataLengths(tags)[i] > 4
        \/ \E k \in 1 .. Len(tags[i].sub) : p = <<i, k>> /\ tags[i].sub[k].bytes > 4
    BY <1>7, <2>1, SlotKinds
  <2>3. \/ q = <<i, 0>> /\ DataLengths(tags)[i] > 4
        \/ \E k \in 1 .. Len(tags[i].sub) : q = <<i, k>> /\ tags[i].sub[k].bytes > 4
    <3>1. q[1] = i /\ q # <<0, 0>>
      BY <1>7, <2>1
    <3> QED BY <3>1, SlotKinds
  <2>4. CASE p = <<i, 0>> \/ q = <<i, 0>>
    <3> HIDE DEF E
    <3>1. Before(E(p), E(q)) \/ Before(E(q), E(p))
      BY <1>3, <2>2, <2>3, <2>4
    <3> QED BY <3>1 DEF E
  <2>5. CASE p # <<i, 0>> /\ q # <<i, 0>>
    <3>1. PICK k \in 1 .. Len(tags[i].sub) : p = <<i, k>> /\ tags[i].sub[k].bytes > 4
      BY <2>2, <2>5
    <3>2. PICK j \in 1 .. Len(tags[i].sub) : q = <<i, j>> /\ tags[i].sub[j].bytes > 4
      BY <2>3, <2>5
    <3>3. k < j \/ j < k
      BY <3>1, <3>2
    <3> QED BY <1>4, <3>1, <3>2, <3>3
  <2> QED BY <2>4, <2>5
<1> QED BY <1>5, <1>6, <1>7

LEMMA SlotsFinite ==
  ASSUME NEW tags \in Table
  PROVE  IsFiniteSet(Slots(tags))
<1> DEFINE D == 1 .. Len(tags)
           K(i) == 0 .. Len(tags[i].sub)
           Q(i) == {i} \X K(i)
           F == {Q(i) : i \in D}
<1>1. Len(tags) \in Nat /\ IsFiniteSet(D)
  BY FS_Interval DEF Table
<1>2. ASSUME NEW i \in D
      PROVE  IsFiniteSet(Q(i))
  <2>1. Len(tags[i].sub) \in Nat
    BY TableLengths
  <2>2. IsFiniteSet(K(i)) /\ IsFiniteSet({i})
    <3>1. 0 \in Int /\ Len(tags[i].sub) \in Int
      BY <2>1
    <3>2. IsFiniteSet(K(i))
      BY <3>1, FS_Interval
    <3> QED BY <3>2, FS_Singleton
  <2> HIDE DEF K
  <2> QED BY <2>2, FS_Product
<1>3. IsFiniteSet(F)
  <2> DEFINE f == [i \in D |-> Q(i)]
  <2> HIDE DEF D, Q
  <2>1. f \in Surjection(D, F)
    BY DEF Surjection
  <2> QED BY <1>1, <2>1, FS_Surjection
<1>4. IsFiniteSet(UNION F)
  <2>1. \A T \in F : IsFiniteSet(T)
    BY <1>2
  <2> HIDE DEF F
  <2> QED BY <1>3, <2>1, FS_UNION
<1>5. IsFiniteSet({<<0, 0>>} \cup UNION F)
  <2> HIDE DEF F
  <2> QED BY <1>4, FS_Singleton, FS_Union
<1>6. Slots(tags) \subseteq {<<0, 0>>} \cup UNION F
  <2> SUFFICES ASSUME NEW p \in Slots(tags), p # <<0, 0>>
               PROVE  \E i \in D : p \in Q(i)
    OBVIOUS
  <2>1. PICK i \in D : p = <<i, 0>> \/ \E k \in 1 .. Len(tags[i].sub) : p = <<i, k>>
    BY SlotKinds
  <2>2. Len(tags[i].sub) \in Nat
    BY TableLengths
  <2>3. p \in Q(i)
    BY <2>1, <2>2
  <2> QED BY <2>3
<1> QED BY <1>5, <1>6, FS_Subset

(* A directory that ends before maxlen is written in whole.                *)
LEMMA IfdFits ==
  ASSUME NEW offset \in Nat, offset % 2 = 0, NEW lengths \in Seq(Nat), NEW maxlen \in Nat,
         IfdEnd(offset, lengths) < maxlen
  PROVE  IfdExtents(offset, lengths, maxlen) = Extents(offset, lengths)
<1> DEFINE n == Len(lengths)
           r == Round4(12 * n + 6)
           z == ExtensionBytes(lengths)[n]
           end == IfdEnd(offset, lengths)
<1>1. n \in Nat /\ r \in Nat /\ 12 * n + 6 <= r /\ z \in Nat /\ end = offset + r + z
  <2>1. n \in Nat /\ n \in 0 .. n /\ 12 * n + 6 \in Nat
    OBVIOUS
  <2>2. z \in Nat
    BY <2>1, ExtensionBytesGrows
  <2>3. r \in Nat /\ 12 * n + 6 <= r
    BY <2>1, ExtensionType
  <2> QED BY <2>1, <2>2, <2>3 DEF IfdEnd
<1>2. offset + r < maxlen /\ offset + (12 * n + 6) <= maxlen
  <2> HIDE DEF n, r, z
  <2> QED BY <1>1
<1>3. ASSUME NEW i \in 1 .. n, lengths[i] > 4
      PROVE  ExtensionAt(offset, lengths, i) + lengths[i] <= maxlen
  <2> DEFINE x == ExtensionAt(offset, lengths, i)
             l == lengths[i]
             w == Extension(lengths[i])
  <2>1. l \in Nat /\ l > 4
    BY <1>3
  <2>2. w \in Nat /\ l <= w
    BY <2>1, ExtensionType
  <2>3. x \in Nat /\ x + w <= end
    BY IfdLayout
  <2>4. x + l <= maxlen
    <3>1. end < maxlen /\ end \in Nat
      BY <1>1
    <3> HIDE DEF x, l, w, end
    <3> QED BY <2>1, <2>2, <2>3, <3>1
  <2> QED BY <2>4
<1>4. \A e \in Extents(offset, lengths) : e.at + e.len <= maxlen
  <2>1. DOMAIN lengths = 1 .. n
    OBVIOUS
  <2> HIDE DEF n
  <2> QED BY <1>2, <1>3, <2>1 DEF Extents, n
<1> QED BY <1>2, <1>4 DEF IfdExtents

SubIfds(tags) == {i \in DOMAIN tags : tags[i].sub # <<>>}

WrittenWhole(offset, tags, maxlen) ==
  /\ IfdExtents(offset, DataLengths(tags), maxlen) = Extents(offset, DataLengths(tags))
  /\ \A i \in SubIfds(tags) :
       IfdExtents(At(offset, tags, i), Lengths(tags[i].sub), maxlen)
         = Extents(At(offset, tags, i), Lengths(tags[i].sub))

LEMMA TableFits ==
  ASSUME NEW tags \in Table, NEW offset \in Nat, offset % 2 = 0, NEW maxlen \in Nat,
         IfdEnd(offset, DataLengths(tags)) < maxlen
  PROVE  WrittenWhole(offset, tags, maxlen)
<1>1. IfdExtents(offset, DataLengths(tags), maxlen) = Extents(offset, DataLengths(tags))
  BY TableLengths, IfdFits
<1>2. ASSUME NEW i \in SubIfds(tags)
      PROVE  IfdExtents(At(offset, tags, i), Lengths(tags[i].sub), maxlen)
               = Extents(At(offset, tags, i), Lengths(tags[i].sub))
  <2> DEFINE a == At(offset, tags, i)
             end == IfdEnd(offset, DataLengths(tags))
  <2>1. i \in 1 .. Len(tags) /\ tags[i].sub # <<>>
    BY DEF SubIfds, Table
  <2>2. tags[i].sub \in Seq(PlainTag) /\ DataLengths(tags)[i] = tiff_sizeof_ifd(tags[i].sub)
    BY <2>1, TableLengths
  <2>3. a \in Nat /\ a % 2 = 0 /\ a + Room(tags, i) <= end /\ Room(tags, i) \in Nat
    BY <2>1, RoomsFollow
  <2>4. Lengths(tags[i].sub) \in Seq(Nat) /\ IfdEnd(a, Lengths(tags[i].sub)) = a + Room(tags, i)
    <3> HIDE DEF a
    <3> QED BY <2>2, <2>3, PlainTable DEF Room
  <2>5. end \in Nat
    <3>1. DataLengths(tags) \in Seq(Nat) /\ Len(DataLengths(tags)) \in Nat
      BY TableLengths
    <3>2. ExtensionBytes(DataLengths(tags))[Len(DataLengths(tags))] \in Nat
      BY <3>1, ExtensionBytesGrows
    <3>3. 12 * Len(DataLengths(tags)) + 6 \in Nat
      BY <3>1
    <3>4. Round4(12 * Len(DataLengths(tags)) + 6) \in Nat
      BY <3>3, ExtensionType
    <3> QED BY <3>2, <3>4 DEF IfdEnd
  <2>6. a + Room(tags, i) < maxlen
    <3> HIDE DEF a, end
    <3> QED BY <2>3, <2>5 DEF end
  <2> HIDE DEF a
  <2> QED BY <2>3, <2>4, <2>6, IfdFits DEF a
<1> QED BY <1>1, <1>2 DEF WrittenWhole

(* What is written in whole is one extent for each slot.                   *)
LEMMA ExtentsAreSlots ==
  ASSUME NEW tags \in Table, NEW offset \in Nat, offset % 2 = 0, NEW maxlen \in Nat,
         WrittenWhole(offset, tags, maxlen)
  PROVE  tiff_write_ifd(offset, tags, maxlen) = {Extent(offset, tags, p) : p \in Slots(tags)}
<1> DEFINE l == DataLengths(tags)
           n == Len(tags)
           D == 1 .. n
           subs == SubIfds(tags)
           inner(i) == Extents(At(offset, tags, i), Lengths(tags[i].sub))
           outer == Extents(offset, l)
           places == {[at |-> At(offset, tags, i), len |-> l[i]] : i \in subs}
           X == {Extent(offset, tags, p) : p \in Slots(tags)}
           W == (outer \ places) \cup UNION {inner(i) : i \in subs}
<1>1. DOMAIN tags = D /\ DOMAIN l = D /\ Len(l) = n /\ subs = {i \in D : tags[i].sub # <<>>}
  BY TableLengths DEF Table, DataLengths, SubIfds
<1>2. outer # {} /\ \A i \in subs : inner(i) # {}
  BY DEF Extents
<1>3. tiff_write_ifd(offset, tags, maxlen) = W
  <2>1. IfdExtents(offset, l, maxlen) = outer
    BY DEF WrittenWhole
  <2>2. [i \in subs |-> IfdExtents(At(offset, tags, i), Lengths(tags[i].sub), maxlen)]
          = [i \in subs |-> inner(i)]
    BY DEF WrittenWhole
  <2> DEFINE Within(whole, parts) ==
               IF whole = {} \/ \E i \in subs : parts[i] = {} THEN {}
               ELSE (whole \ places) \cup UNION {parts[i] : i \in subs}
  <2>3. tiff_write_ifd(offset, tags, maxlen)
          = Within(IfdExtents(offset, l, maxlen),
                   [i \in subs |-> IfdExtents(At(offset, tags, i), Lengths(tags[i].sub), maxlen)])
    BY DEF tiff_write_ifd, DataLengths, SubIfds, At
  <2> HIDE DEF inner, outer, subs, places
  <2> QED BY <1>2, <2>1, <2>2, <2>3
<1>4. ASSUME NEW i \in D, l[i] > 4
      PROVE  <<i, 0>> \in Slots(tags)
  <2>1. l[i] = tiff_tag_datalen(tags[i])
    BY <1>1 DEF DataLengths
  <2> QED BY <1>1, <1>4, <2>1 DEF Slots
<1>5. ASSUME NEW i \in D, NEW k \in 1 .. Len(tags[i].sub), tags[i].sub[k].bytes > 4
      PROVE  <<i, k>> \in Slots(tags)
  <2>1. DOMAIN tags[i].sub = 1 .. Len(tags[i].sub)
    BY TableLengths
  <2> QED BY <1>1, <1>5, <2>1 DEF Slots
<1>6. ASSUME NEW i \in D
      PROVE  Extent(offset, tags, <<i, 0>>)
               = [at |-> At(offset, tags, i),
                  len |-> IF tags[i].sub = <<>> THEN tags[i].bytes ELSE 12 * Len(tags[i].sub) + 6]
  <2>1. <<i, 0>> # <<0, 0>> /\ <<i, 0>>[1] = i /\ <<i, 0>>[2] = 0
    OBVIOUS
  <2> QED BY <2>1 DEF Extent
<1>7. ASSUME NEW i \in D, NEW k \in 1 .. Len(tags[i].sub)
      PROVE  Extent(offset, tags, <<i, k>>) = [at |-> AtSub(offset, tags, i, k), len |-> tags[i].sub[k].bytes]
  <2>1. <<i, k>> # <<0, 0>> /\ <<i, k>>[1] = i /\ <<i, k>>[2] = k /\ k # 0
    OBVIOUS
  <2> QED BY <2>1 DEF Extent
<1>8. Extent(offset, tags, <<0, 0>>) = [at |-> offset, len |-> 12 * n + 6] /\ <<0, 0>> \in Slots(tags)
  BY DEF Extent, Slots
<1>9. outer = {[at |-> offset, len |-> 12 * n + 6]} \cup
              {[at |-> At(offset, tags, i), len |-> l[i]] : i \in {j \in D : l[j] > 4}}
  BY <1>1 DEF Extents, At
<1>10. ASSUME NEW i \in subs
       PROVE  inner(i) = {[at |-> At(offset, tags, i), len |-> 12 * Len(tags[i].sub) + 6]} \cup
                         {[at |-> AtSub(offset, tags, i, k), len |-> tags[i].sub[k].bytes] :
                            k \in {j \in 1 .. Len(tags[i].sub) : tags[i].sub[j].bytes > 4}}
  <2> DEFINE s == Lengths(tags[i].sub)
             m == Len(tags[i].sub)
  <2>1. i \in D /\ tags[i].sub \in Seq(PlainTag)
    BY <1>1, TableLengths
  <2>2. Len(s) = m /\ DOMAIN s = 1 .. m /\ \A k \in 1 .. m : s[k] = tags[i].sub[k].bytes
    <3>1. s \in Seq(Nat) /\ Len(s) = m /\ \A k \in 1 .. m : s[k] = tags[i].sub[k].bytes
      BY <2>1, PlainTable
    <3> QED BY <3>1
  <2> HIDE DEF s, m
  <2> QED BY <2>2 DEF Extents, AtSub, s, m
<1>11. \A i \in subs : i \in D /\ l[i] > 4 /\ tags[i].sub # <<>>
  <2> SUFFICES ASSUME NEW i \in subs PROVE l[i] > 4
    BY <1>1
  <2>1. i \in D /\ tags[i].sub # <<>>
    BY <1>1
  <2>2. tags[i].sub \in Seq(PlainTag) /\ l[i] = tiff_sizeof_ifd(tags[i].sub)
    BY <2>1, TableLengths
  <2> QED BY <2>2, PlainTable
(* Different values have different places.                                 *)
<1>12. ASSUME NEW i \in D, NEW j \in D, l[i] > 4, l[j] > 4, At(offset, tags, i) = At(offset, tags, j)
       PROVE  i = j
  <2> SUFFICES ASSUME i < j \/ j < i PROVE FALSE
    OBVIOUS
  <2> DEFINE a == At(offset, tags, i)
  <2>1. a \in Nat /\ Room(tags, i) \in Nat /\ Room(tags, j) \in Nat
    BY RoomsFollow
  <2>2. a + Room(tags, i) <= a \/ a + Room(tags, j) <= a
    BY <1>12, RoomsFollow
  <2>3. l[i] \in Nat /\ l[j] \in Nat
    BY TableLengths
  <2>4. l[i] <= Room(tags, i) /\ l[j] <= Room(tags, j)
    <3> HIDE DEF l
    <3> QED BY <1>12, <2>3, ExtensionType DEF Room, l
  <2> HIDE DEF l, a
  <2> QED BY <1>12, <2>1, <2>2, <2>3, <2>4
<1>13. ASSUME NEW i \in D
       PROVE  offset # At(offset, tags, i)
  <2> DEFINE a == At(offset, tags, i)
  <2>1. offset + 12 * n + 6 <= a /\ a \in Nat /\ n \in Nat
    <3>1. n \in Nat
      BY DEF Table
    <3> QED BY <3>1, RoomsFollow
  <2>2. offset # a
    <3> HIDE DEF a, n
    <3> QED BY <2>1
  <2> QED BY <2>2
<1>14. W \subseteq X
  <2> SUFFICES ASSUME NEW e \in W
               PROVE  \E p \in Slots(tags) : e = Extent(offset, tags, p)
    OBVIOUS
  <2>1. CASE e = [at |-> offset, len |-> 12 * n + 6]
    BY <1>8, <2>1
  <2>2. ASSUME NEW i \in D, l[i] > 4, e = [at |-> At(offset, tags, i), len |-> l[i]], e \notin places
        PROVE  e = Extent(offset, tags, <<i, 0>>)
    <3>1. i \notin subs
      BY <2>2
    <3>2. tags[i].sub = <<>>
      BY <1>1, <3>1
    <3>3. l[i] = tags[i].bytes
      BY <3>2, TableLengths
    <3> HIDE DEF l, n
    <3> QED BY <1>6, <2>2, <3>2, <3>3
  <2>3. ASSUME NEW i \in subs, e \in inner(i)
        PROVE  \E p \in Slots(tags) : e = Extent(offset, tags, p)
    <3>1. i \in D /\ tags[i].sub # <<>> /\ l[i] > 4
      BY <1>11
    <3>2. \/ e = [at |-> At(offset, tags, i), len |-> 12 * Len(tags[i].sub) + 6]
          \/ \E k \in 1 .. Len(tags[i].sub) : /\ tags[i].sub[k].bytes > 4
                                              /\ e = [at |-> AtSub(offset, tags, i, k), len |-> tags[i].sub[k].bytes]
      <4> HIDE DEF inner, subs
      <4> QED BY <1>10, <2>3
    <3>3. CASE e = [at |-> At(offset, tags, i), len |-> 12 * Len(tags[i].sub) + 6]
      <4>1. e = Extent(offset, tags, <<i, 0>>)
        BY <1>6, <3>1, <3>3
      <4> QED BY <1>4, <3>1, <4>1
    <3>4. ASSUME NEW k \in 1 .. Len(tags[i].sub), tags[i].sub[k].bytes > 4,
                 e = [at |-> AtSub(offset, tags, i, k), len |-> tags[i].sub[k].bytes]
          PROVE  \E p \in Slots(tags) : e = Extent(offset, tags, p)
      <4>1. e = Extent(offset, tags, <<i, k>>)
        BY <1>7, <3>1, <3>4
      <4> QED BY <1>5, <3>1, <3>4, <4>1
    <3> QED BY <3>2, <3>3, <3>4
  <2>4. e \in outer \ places \/ \E i \in subs : e \in inner(i)
    <3> HIDE DEF outer, places, inner, subs
    <3> QED OBVIOUS
  <2>5. CASE e \in outer \ places
    <3>1. e = [at |-> offset, len |-> 12 * n + 6]
          \/ \E i \in D : l[i] > 4 /\ e = [at |-> At(offset, tags, i), len |-> l[i]]
      <4> HIDE DEF outer, places, D, n, l
      <4> QED BY <1>9, <2>5
    <3>2. CASE \E i \in D : l[i] > 4 /\ e = [at |-> At(offset, tags, i), len |-> l[i]]
      <4>1. PICK i \in D : l[i] > 4 /\ e = [at |-> At(offset, tags, i), len |-> l[i]]
        BY <3>2
      <4>2. e = Extent(offset, tags, <<i, 0>>) /\ <<i, 0>> \in Slots(tags)
        <5> HIDE DEF l, places
        <5> QED BY <1>4, <2>2, <2>5, <4>1
      <4> QED BY <4>2
    <3> QED BY <2>1, <3>1, <3>2
  <2> QED BY <2>3, <2>4, <2>5
<1>15. X \subseteq W
  <2> SUFFICES ASSUME NEW p \in Slots(tags)
               PROVE  Extent(offset, tags, p) \in W
    OBVIOUS
  <2>1. CASE p = <<0, 0>>
    <3>1. [at |-> offset, len |-> 12 * n + 6] \in outer
      BY <1>9
    <3>2. [at |-> offset, len |-> 12 * n + 6] \notin places
      <4>1. \A i \in subs : offset # At(offset, tags, i)
        BY <1>11, <1>13
      <4> HIDE DEF subs, l
      <4> QED BY <4>1
    <3> HIDE DEF outer, places
    <3> QED BY <1>8, <2>1, <3>1, <3>2
  <2>2. ASSUME NEW i \in D, p = <<i, 0>>, l[i] > 4, tags[i].sub = <<>>
        PROVE  Extent(offset, tags, p) \in W
    <3>1. l[i] = tags[i].bytes
      BY <2>2, TableLengths
    <3>2. Extent(offset, tags, p) = [at |-> At(offset, tags, i), len |-> l[i]]
      <4> HIDE DEF l
      <4> QED BY <1>6, <2>2, <3>1
    <3>3. [at |-> At(offset, tags, i), len |-> l[i]] \in outer
      <4> HIDE DEF outer, l
      <4> QED BY <1>9, <2>2
    <3>4. \A j \in subs : At(offset, tags, i) # At(offset, tags, j)
      <4> HIDE DEF l, subs
      <4> QED BY <1>11, <1>12, <2>2
    <3>5. [at |-> At(offset, tags, i), len |-> l[i]] \notin places
      <4> HIDE DEF l, subs
      <4> QED BY <3>4
    <3> HIDE DEF outer, places, l
    <3> QED BY <3>2, <3>3, <3>5
  <2>3. ASSUME NEW i \in D, p = <<i, 0>>, tags[i].sub # <<>>
        PROVE  Extent(offset, tags, p) \in W
    <3>1. i \in subs
      BY <1>1, <2>3
    <3>2. Extent(offset, tags, p) = [at |-> At(offset, tags, i), len |-> 12 * Len(tags[i].sub) + 6]
      BY <1>6, <2>3
    <3>3. Extent(offset, tags, p) \in inner(i)
      <4> HIDE DEF inner, subs
      <4> QED BY <1>10, <3>1, <3>2
    <3> HIDE DEF outer, places, inner
    <3> QED BY <3>1, <3>3
  <2>4. ASSUME NEW i \in D, NEW k \in 1 .. Len(tags[i].sub), p = <<i, k>>, tags[i].sub[k].bytes > 4
        PROVE  Extent(offset, tags, p) \in W
    <3>1. i \in subs
      <4>1. tags[i].sub # <<>>
        BY <2>4
      <4> QED BY <1>1, <4>1
    <3>2. Extent(offset, tags, p) = [at |-> AtSub(offset, tags, i, k), len |-> tags[i].sub[k].bytes]
      BY <1>7, <2>4
    <3>3. Extent(offset, tags, p) \in inner(i)
      <4> HIDE DEF inner, subs
      <4> QED BY <1>10, <2>4, <3>1, <3>2
    <3> HIDE DEF outer, places, inner
    <3> QED BY <3>1, <3>3
  <2> HIDE DEF W
  <2> QED BY <2>1, <2>2, <2>3, <2>4, SlotKinds
<1> HIDE DEF W, X
<1>16. W = X
  BY <1>14, <1>15
<1> QED BY <1>3, <1>16 DEF X

(* A header that fits is readable, whatever the table of tags: every value *)
(* is there once, on an even offset, and shares no byte with another       *)
(* (tiff.c:26-149).                                                       *)
THEOREM HeaderReadable ==
  ASSUME NEW tags \in Table, NEW size \in Nat, IfdEnd(8, DataLengths(tags)) < size
  PROVE  Readable(tiff_build_header(size, tags), tags)
<1> DEFINE S == Slots(tags)
           E(p) == Extent(8, tags, p)
           X == {E(p) : p \in S}
           f == [p \in S |-> E(p)]
<1>1. 8 \in Nat /\ 8 % 2 = 0
  OBVIOUS
<1>2. tiff_build_header(size, tags) = X
  BY <1>1, TableFits, ExtentsAreSlots DEF tiff_build_header
<1>3. \A p \in S : E(p).at \in Nat /\ E(p).at % 2 = 0 /\ E(p).len \in Nat /\ E(p).len > 0
  BY <1>1, ExtentTypes
<1>4. \A p, q \in S : p # q => Before(E(p), E(q)) \/ Before(E(q), E(p))
  BY <1>1, ExtentsApart
<1>5. IsFiniteSet(S)
  BY SlotsFinite
<1> HIDE DEF S, E
<1>6. \A p, q \in S : E(p) = E(q) => p = q
  BY <1>3, <1>4 DEF Before
<1>7. f \in Surjection(S, X) /\ f \in Injection(S, X)
  BY <1>6 DEF Surjection, Injection, IsInjective
<1>8. Cardinality(X) = Cardinality(S)
  BY <1>5, <1>7, FS_Surjection
<1>9. \A e \in X : e.at % 2 = 0
  BY <1>3
<1>10. ASSUME NEW p \in S, NEW q \in S, E(p).at < E(q).at
       PROVE  E(p).at + E(p).len <= E(q).at
  <2>1. Before(E(p), E(q)) \/ Before(E(q), E(p))
    <3>1. p # q
      BY <1>3, <1>10
    <3> QED BY <1>4, <3>1
  <2>2. CASE Before(E(q), E(p))
    <3>1. E(q).at + E(q).len <= E(p).at
      BY <2>2 DEF Before
    <3> QED BY <1>3, <1>10, <3>1
  <2> QED BY <2>1, <2>2 DEF Before
<1>11. \A e, g \in X : e.at < g.at => e.at + e.len <= g.at
  BY <1>10
<1> HIDE DEF X
<1> QED BY <1>2, <1>8, <1>9, <1>11 DEF Readable, S

-----------------------------------------------------------------------------
(* The bytes that follow a directory, for its values and those of the      *)
(* directories it points to.                                               *)
Bytes(tags) == ExtensionBytes(DataLengths(tags))[Len(tags)]

LEMMA BytesType ==
  ASSUME NEW tags \in Table
  PROVE  Bytes(tags) \in Nat
<1>1. DataLengths(tags) \in Seq(Nat) /\ Len(DataLengths(tags)) = Len(tags)
  BY TableLengths
<1>2. Len(tags) \in 0 .. Len(DataLengths(tags))
  BY <1>1
<1> QED BY <1>1, <1>2, ExtensionBytesGrows DEF Bytes

LEMMA TableAppends ==
  ASSUME NEW a \in Table, NEW b \in Table
  PROVE  /\ a \o b \in Table
         /\ Len(a \o b) = Len(a) + Len(b)
         /\ \A i \in 1 .. Len(a) : DataLengths(a \o b)[i] = DataLengths(a)[i]
         /\ \A i \in 1 .. Len(b) : DataLengths(a \o b)[Len(a) + i] = DataLengths(b)[i]
<1> DEFINE c == a \o b
           n == Len(a)
           m == Len(b)
<1>1. a \in Seq(AnyTag) /\ b \in Seq(AnyTag) /\ n \in Nat /\ m \in Nat /\ DOMAIN a = 1 .. n /\ DOMAIN b = 1 .. m
  BY DEF Table
<1>2. c \in Seq(AnyTag) /\ Len(c) = n + m /\ DOMAIN c = 1 .. n + m
  BY <1>1
<1>3. (\A i \in 1 .. n : c[i] = a[i]) /\ \A i \in 1 .. m : c[n + i] = b[i]
  BY <1>1
<1> HIDE DEF c, n, m
<1>4. ASSUME NEW i \in 1 .. n
      PROVE  DataLengths(c)[i] = DataLengths(a)[i]
  <2>1. i \in 1 .. n + m
    BY <1>1
  <2> QED BY <1>1, <1>2, <1>3, <2>1 DEF DataLengths
<1>5. ASSUME NEW i \in 1 .. m
      PROVE  DataLengths(c)[n + i] = DataLengths(b)[i]
  <2>1. n + i \in 1 .. n + m
    BY <1>1
  <2> QED BY <1>1, <1>2, <1>3, <2>1 DEF DataLengths
<1> QED BY <1>2, <1>4, <1>5 DEF c, n, m, Table

LEMMA BytesAdd ==
  ASSUME NEW a \in Table, NEW b \in Table
  PROVE  Bytes(a \o b) = Bytes(a) + Bytes(b)
<1> DEFINE c == a \o b
           n == Len(a)
           m == Len(b)
           x == ExtensionBytes(DataLengths(a))
           y == ExtensionBytes(DataLengths(b))
           z == ExtensionBytes(DataLengths(c))
<1>1. c \in Table /\ n \in Nat /\ m \in Nat /\ Len(c) = n + m
  BY TableAppends DEF Table
<1>2. \A i \in 1 .. n : DataLengths(c)[i] = DataLengths(a)[i]
  BY TableAppends
<1>3. \A i \in 1 .. m : DataLengths(c)[n + i] = DataLengths(b)[i]
  BY TableAppends
<1>4. Extends(x, DataLengths(a), n) /\ Extends(y, DataLengths(b), m)
  BY TableLengths, ExtensionBytesAdds
<1>5. Extends(z, DataLengths(c), n + m)
  <2> HIDE DEF c
  <2> QED BY <1>1, TableLengths, ExtensionBytesAdds
<1> HIDE DEF x, y, z, c, n, m
<1> DEFINE S == {i \in Nat : i <= n => z[i] = x[i]}
           T == {i \in Nat : i <= m => z[n + i] = x[n] + y[i]}
<1>6. \A i \in Nat : i \in S
  <2>1. 0 \in S
    BY <1>4, <1>5 DEF Extends
  <2>2. ASSUME NEW i \in Nat, i \in S PROVE i + 1 \in S
    <3> SUFFICES ASSUME i + 1 <= n PROVE z[i + 1] = x[i + 1]
      OBVIOUS
    <3> DEFINE j == i + 1
    <3>1. j \in 1 .. n /\ j \in 1 .. n + m /\ j - 1 = i /\ z[i] = x[i]
      BY <1>1, <2>2
    <3> HIDE DEF j
    <3>2. z[j] = x[j]
      BY <3>1, <1>2, <1>4, <1>5 DEF Extends
    <3> QED BY <3>2 DEF j
  <2> HIDE DEF S
  <2> QED BY <2>1, <2>2, SetInduction
<1>7. z[n] = x[n] /\ x[n] \in Nat
  BY <1>1, <1>4, <1>6 DEF Extends
<1>8. \A i \in Nat : i \in T
  <2>1. 0 \in T
    <3>1. y[0] = 0 /\ n + 0 = n
      BY <1>1, <1>4 DEF Extends
    <3> QED BY <1>7, <3>1
  <2>2. ASSUME NEW i \in Nat, i \in T PROVE i + 1 \in T
    <3> SUFFICES ASSUME i + 1 <= m PROVE z[n + (i + 1)] = x[n] + y[i + 1]
      OBVIOUS
    <3> DEFINE j == i + 1
               k == n + j
    <3>1. j \in 1 .. m /\ k \in 1 .. n + m /\ j - 1 = i /\ k - 1 = n + i /\ z[n + i] = x[n] + y[i] /\ i \in 0 .. m
      BY <1>1, <2>2
    <3>2. DataLengths(c)[k] = DataLengths(b)[j]
      BY <1>3, <3>1
    <3> HIDE DEF j, k
    <3>3. z[k] = z[n + i] + Extension(DataLengths(b)[j])
      BY <3>1, <3>2, <1>5 DEF Extends
    <3>4. y[j] = y[i] + Extension(DataLengths(b)[j]) /\ y[i] \in Nat /\ y[j] \in Nat
      BY <3>1, <1>4 DEF Extends
    <3>5. Extension(DataLengths(b)[j]) \in Nat
      <4>1. DataLengths(b)[j] \in Nat
        BY <3>1, TableLengths DEF m
      <4> QED BY <4>1, ExtensionType
    <3> DEFINE e == Extension(DataLengths(b)[j])
    <3>6. z[k] = x[n] + y[j]
      <4>1. z[k] = (x[n] + y[i]) + e /\ y[j] = y[i] + e /\ e \in Nat /\ x[n] \in Nat /\ y[i] \in Nat
        BY <1>7, <3>1, <3>3, <3>4, <3>5
      <4> HIDE DEF e
      <4> QED BY <4>1
    <3> QED BY <3>6 DEF j, k
  <2> HIDE DEF T
  <2> QED BY <2>1, <2>2, SetInduction
<1>9. z[n + m] = x[n] + y[m]
  BY <1>1, <1>8
<1> QED BY <1>1, <1>9 DEF Bytes, x, y, z, c, n, m

(* The tables that the formats are made of.                                *)
LEMMA BaselineBytes ==
  ASSUME NEW bits \in {2, 6}
  PROVE  Baseline(bits) \in Table /\ Len(Baseline(bits)) = 15 /\ Bytes(Baseline(bits)) <= 40
<1> DEFINE t == Baseline(bits)
           l == DataLengths(t)
           b == ExtensionBytes(l)
<1>1. t \in Table /\ Len(t) = 15
  BY DEF Baseline, Tag, Table, AnyTag
<1>2. /\ t[1].sub = <<>> /\ t[1].bytes = 4
      /\ t[2].sub = <<>> /\ t[2].bytes = 4
      /\ t[3].sub = <<>> /\ t[3].bytes = 4
      /\ t[4].sub = <<>> /\ t[4].bytes = bits
      /\ t[5].sub = <<>> /\ t[5].bytes = 2
      /\ t[6].sub = <<>> /\ t[6].bytes = 2
      /\ t[7].sub = <<>> /\ t[7].bytes = 18
      /\ t[8].sub = <<>> /\ t[8].bytes = 12
      /\ t[9].sub = <<>> /\ t[9].bytes = 4
      /\ t[10].sub = <<>> /\ t[10].bytes = 2
      /\ t[11].sub = <<>> /\ t[11].bytes = 2
      /\ t[12].sub = <<>> /\ t[12].bytes = 4
      /\ t[13].sub = <<>> /\ t[13].bytes = 4
      /\ t[14].sub = <<>> /\ t[14].bytes = 2
      /\ t[15].sub = <<>> /\ t[15].bytes = 2
  BY DEF Baseline, Tag
<1>3. /\ l[1] = 4
      /\ l[2] = 4
      /\ l[3] = 4
      /\ l[4] = bits
      /\ l[5] = 2
      /\ l[6] = 2
      /\ l[7] = 18
      /\ l[8] = 12
      /\ l[9] = 4
      /\ l[10] = 2
      /\ l[11] = 2
      /\ l[12] = 4
      /\ l[13] = 4
      /\ l[14] = 2
      /\ l[15] = 2
  <2>1. \A i \in 1 .. 15 : t[i].sub = <<>> => l[i] = t[i].bytes
    BY <1>1, TableLengths
  <2> HIDE DEF t, l
  <2> QED BY <1>2, <2>1
<1>4. /\ b[0] = 0
      /\ \A i \in 1 .. 15 : b[i] = b[i - 1] + Extension(l[i])
  <2>1. l \in Seq(Nat) /\ Len(l) = 15
    BY <1>1, TableLengths
  <2> QED BY <2>1, ExtensionBytesAdds DEF Extends
<1> HIDE DEF l, b, t
<1>5. /\ b[1] = b[0] + Extension(l[1])
      /\ b[2] = b[1] + Extension(l[2])
      /\ b[3] = b[2] + Extension(l[3])
      /\ b[4] = b[3] + Extension(l[4])
      /\ b[5] = b[4] + Extension(l[5])
      /\ b[6] = b[5] + Extension(l[6])
      /\ b[7] = b[6] + Extension(l[7])
      /\ b[8] = b[7] + Extension(l[8])
      /\ b[9] = b[8] + Extension(l[9])
      /\ b[10] = b[9] + Extension(l[10])
      /\ b[11] = b[10] + Extension(l[11])
      /\ b[12] = b[11] + Extension(l[12])
      /\ b[13] = b[12] + Extension(l[13])
      /\ b[14] = b[13] + Extension(l[14])
      /\ b[15] = b[14] + Extension(l[15])
  BY <1>4
<1>6. b[15] <= 40
  BY <1>3, <1>4, <1>5 DEF Extension, Round4
<1> QED BY <1>1, <1>6 DEF Bytes, b, l, t

LEMMA CfaTagsBytes ==
  CfaTags \in Table /\ Len(CfaTags) = 2 /\ Bytes(CfaTags) <= 0
<1> DEFINE t == CfaTags
           l == DataLengths(t)
           b == ExtensionBytes(l)
<1>1. t \in Table /\ Len(t) = 2
  BY DEF CfaTags, Tag, Table, AnyTag
<1>2. /\ t[1].sub = <<>> /\ t[1].bytes = 4
      /\ t[2].sub = <<>> /\ t[2].bytes = 4
  BY DEF CfaTags, Tag
<1>3. /\ l[1] = 4
      /\ l[2] = 4
  <2>1. \A i \in 1 .. 2 : t[i].sub = <<>> => l[i] = t[i].bytes
    BY <1>1, TableLengths
  <2> HIDE DEF t, l
  <2> QED BY <1>2, <2>1
<1>4. /\ b[0] = 0
      /\ \A i \in 1 .. 2 : b[i] = b[i - 1] + Extension(l[i])
  <2>1. l \in Seq(Nat) /\ Len(l) = 2
    BY <1>1, TableLengths
  <2> QED BY <2>1, ExtensionBytesAdds DEF Extends
<1> HIDE DEF l, b, t
<1>5. /\ b[1] = b[0] + Extension(l[1])
      /\ b[2] = b[1] + Extension(l[2])
  BY <1>4
<1>6. b[2] <= 0
  BY <1>3, <1>4, <1>5 DEF Extension, Round4
<1> QED BY <1>1, <1>6 DEF Bytes, b, l, t

LEMMA BayerTagsBytes ==
  BayerTags \in Table /\ Len(BayerTags) = 8 /\ Bytes(BayerTags) <= 120
<1> DEFINE t == BayerTags
           l == DataLengths(t)
           b == ExtensionBytes(l)
<1>1. t \in Table /\ Len(t) = 8
  BY DEF BayerTags, Tag, Table, AnyTag
<1>2. /\ t[1].sub = <<>> /\ t[1].bytes = 4
      /\ t[2].sub = <<>> /\ t[2].bytes = 4
      /\ t[3].sub = <<>> /\ t[3].bytes = 21
      /\ t[4].sub = <<>> /\ t[4].bytes = 2
      /\ t[5].sub = <<>> /\ t[5].bytes = 2
      /\ t[6].sub = <<>> /\ t[6].bytes = 72
      /\ t[7].sub = <<>> /\ t[7].bytes = 24
      /\ t[8].sub = <<>> /\ t[8].bytes = 2
  BY DEF BayerTags, Tag
<1>3. /\ l[1] = 4
      /\ l[2] = 4
      /\ l[3] = 21
      /\ l[4] = 2
      /\ l[5] = 2
      /\ l[6] = 72
      /\ l[7] = 24
      /\ l[8] = 2
  <2>1. \A i \in 1 .. 8 : t[i].sub = <<>> => l[i] = t[i].bytes
    BY <1>1, TableLengths
  <2> HIDE DEF t, l
  <2> QED BY <1>2, <2>1
<1>4. /\ b[0] = 0
      /\ \A i \in 1 .. 8 : b[i] = b[i - 1] + Extension(l[i])
  <2>1. l \in Seq(Nat) /\ Len(l) = 8
    BY <1>1, TableLengths
  <2> QED BY <2>1, ExtensionBytesAdds DEF Extends
<1> HIDE DEF l, b, t
<1>5. /\ b[1] = b[0] + Extension(l[1])
      /\ b[2] = b[1] + Extension(l[2])
      /\ b[3] = b[2] + Extension(l[3])
      /\ b[4] = b[3] + Extension(l[4])
      /\ b[5] = b[4] + Extension(l[5])
      /\ b[6] = b[5] + Extension(l[6])
      /\ b[7] = b[6] + Extension(l[7])
      /\ b[8] = b[7] + Extension(l[8])
  BY <1>4
<1>6. b[8] <= 120
  BY <1>3, <1>4, <1>5 DEF Extension, Round4
<1> QED BY <1>1, <1>6 DEF Bytes, b, l, t

LEMMA GreyTagsBytes ==
  GreyTags \in Table /\ Len(GreyTags) = 5 /\ Bytes(GreyTags) <= 48
<1> DEFINE t == GreyTags
           l == DataLengths(t)
           b == ExtensionBytes(l)
<1>1. t \in Table /\ Len(t) = 5
  BY DEF GreyTags, Tag, Table, AnyTag
<1>2. /\ t[1].sub = <<>> /\ t[1].bytes = 4
      /\ t[2].sub = <<>> /\ t[2].bytes = 4
      /\ t[3].sub = <<>> /\ t[3].bytes = 21
      /\ t[4].sub = <<>> /\ t[4].bytes = 2
      /\ t[5].sub = <<>> /\ t[5].bytes = 24
  BY DEF GreyTags, Tag
<1>3. /\ l[1] = 4
      /\ l[2] = 4
      /\ l[3] = 21
      /\ l[4] = 2
      /\ l[5] = 24
  <2>1. \A i \in 1 .. 5 : t[i].sub = <<>> => l[i] = t[i].bytes
    BY <1>1, TableLengths
  <2> HIDE DEF t, l
  <2> QED BY <1>2, <2>1
<1>4. /\ b[0] = 0
      /\ \A i \in 1 .. 5 : b[i] = b[i - 1] + Extension(l[i])
  <2>1. l \in Seq(Nat) /\ Len(l) = 5
    BY <1>1, TableLengths
  <2> QED BY <2>1, ExtensionBytesAdds DEF Extends
<1> HIDE DEF l, b, t
<1>5. /\ b[1] = b[0] + Extension(l[1])
      /\ b[2] = b[1] + Extension(l[2])
      /\ b[3] = b[2] + Extension(l[3])
      /\ b[4] = b[3] + Extension(l[4])
      /\ b[5] = b[4] + Extension(l[5])
  BY <1>4
<1>6. b[5] <= 48
  BY <1>3, <1>4, <1>5 DEF Extension, Round4
<1> QED BY <1>1, <1>6 DEF Bytes, b, l, t

LEMMA OpcodeBytes ==
  <<Tag(50708, 21)>> \in Table /\ Len(<<Tag(50708, 21)>>) = 1 /\ Bytes(<<Tag(50708, 21)>>) <= 24
<1> DEFINE t == <<Tag(50708, 21)>>
           l == DataLengths(t)
           b == ExtensionBytes(l)
<1>1. t \in Table /\ Len(t) = 1 /\ t[1].sub = <<>> /\ t[1].bytes = 21
  BY DEF Tag, Table, AnyTag
<1>2. l[1] = 21 /\ l \in Seq(Nat) /\ Len(l) = 1
  <2> HIDE DEF t
  <2> QED BY <1>1, TableLengths
<1>3. b[0] = 0 /\ b[1] = b[0] + Extension(l[1])
  <2>1. Extends(b, l, 1)
    <3> HIDE DEF l
    <3> QED BY <1>2, ExtensionBytesAdds
  <2> QED BY <2>1 DEF Extends
<1> HIDE DEF l, b, t
<1>4. b[1] <= 24
  BY <1>2, <1>3 DEF Extension, Round4
<1> QED BY <1>1, <1>4 DEF Bytes, b, l, t

LEMMA ExifBytes ==
  ASSUME NEW serial \in 0 .. 32
  PROVE  Exif(serial) \in Seq(PlainTag) /\ tiff_sizeof_ifd(Exif(serial)) <= 138
<1> DEFINE t == Exif(serial)
           l == Lengths(t)
           b == ExtensionBytes(l)
<1>1. t \in Seq(PlainTag) /\ Len(t) = 5
  BY DEF Exif, Tag, PlainTag
<1>2. /\ t[1].bytes = 8
      /\ t[2].bytes = 4
      /\ t[3].bytes = 20
      /\ t[4].bytes = serial + 1
      /\ t[5].bytes = 8
  BY DEF Exif, Tag
<1>3. l \in Seq(Nat) /\ Len(l) = 5 /\ l[1] = 8 /\ l[2] = 4 /\ l[3] = 20 /\ l[4] = serial + 1 /\ l[5] = 8
  <2>1. l \in Seq(Nat) /\ Len(l) = 5 /\ \A i \in 1 .. 5 : l[i] = t[i].bytes
    BY <1>1, PlainTable
  <2> HIDE DEF l, t
  <2> QED BY <1>2, <2>1
<1>4. b[0] = 0 /\ \A i \in 1 .. 5 : b[i] = b[i - 1] + Extension(l[i])
  BY <1>3, ExtensionBytesAdds DEF Extends
<1>5. tiff_sizeof_ifd(t) = 6 + 12 * 5 + b[5]
  BY <1>1 DEF tiff_sizeof_ifd
<1> HIDE DEF l, b, t
<1>6. /\ b[1] = b[0] + Extension(l[1])
      /\ b[2] = b[1] + Extension(l[2])
      /\ b[3] = b[2] + Extension(l[3])
      /\ b[4] = b[3] + Extension(l[4])
      /\ b[5] = b[4] + Extension(l[5])
  BY <1>4
<1>7. b[5] <= 72 /\ b[5] \in Nat
  BY <1>3, <1>4, <1>6 DEF Extension, Round4
<1> QED BY <1>1, <1>5, <1>7 DEF t

LEMMA SubBytes ==
  ASSUME NEW serial \in 0 .. 32
  PROVE  Sub(serial) \in Table /\ Len(Sub(serial)) = 1 /\ Bytes(Sub(serial)) <= 140
<1> DEFINE t == Sub(serial)
           l == DataLengths(t)
           b == ExtensionBytes(l)
<1>1. t \in Table /\ Len(t) = 1 /\ t[1].sub = Exif(serial)
  <2>1. Exif(serial) \in Seq(PlainTag)
    BY ExifBytes
  <2>2. SubIfd(34665, Exif(serial)) \in AnyTag
    BY <2>1 DEF SubIfd, AnyTag
  <2>3. SubIfd(34665, Exif(serial)).sub = Exif(serial)
    BY DEF SubIfd
  <2>4. t = <<SubIfd(34665, Exif(serial))>>
    BY DEF Sub
  <2> HIDE DEF t
  <2> QED BY <2>2, <2>3, <2>4 DEF Table
<1>2. t[1].sub # <<>>
  BY <1>1 DEF Exif
<1>3. l[1] = tiff_sizeof_ifd(Exif(serial)) /\ l \in Seq(Nat) /\ Len(l) = 1
  <2> HIDE DEF t
  <2> QED BY <1>1, <1>2, TableLengths
<1>4. b[0] = 0 /\ b[1] = b[0] + Extension(l[1])
  <2>1. Extends(b, l, 1)
    <3> HIDE DEF l
    <3> QED BY <1>3, ExtensionBytesAdds
  <2> QED BY <2>1 DEF Extends
<1>5. l[1] \in Nat /\ l[1] <= 138
  <2>1. Exif(serial) \in Seq(PlainTag) /\ tiff_sizeof_ifd(Exif(serial)) <= 138
    BY ExifBytes
  <2>2. tiff_sizeof_ifd(Exif(serial)) \in Nat
    BY <2>1, PlainTable
  <2> HIDE DEF l
  <2> QED BY <1>3, <2>1, <2>2
<1> HIDE DEF l, b, t
<1>6. b[1] <= 140
  BY <1>4, <1>5 DEF Extension, Round4
<1> QED BY <1>1, <1>6 DEF Bytes, b, l, t

(* A table that fits with room to spare.                                   *)
Small(tags) == tags \in Table /\ Len(tags) <= 26 /\ Bytes(tags) <= 300

LEMMA SmallFits ==
  ASSUME NEW tags, Small(tags), NEW size \in Nat, size >= 1024
  PROVE  Readable(tiff_build_header(size, tags), tags)
<1> DEFINE n == Len(tags)
           z == Bytes(tags)
<1>1. tags \in Table /\ n \in Nat /\ n <= 26 /\ z \in Nat /\ z <= 300
  BY BytesType DEF Small, Table
<1>2. IfdEnd(8, DataLengths(tags)) = 8 + Round4(12 * n + 6) + z
  BY <1>1, TableLengths DEF IfdEnd, Bytes
<1>3. 8 + Round4(12 * n + 6) + z < size
  <2> HIDE DEF n, z
  <2> QED BY <1>1 DEF Round4
<1> QED BY <1>1, <1>2, <1>3, HeaderReadable

(* A table of n tags followed by at most z bytes.                          *)
Within(tags, n, z) == tags \in Table /\ Len(tags) = n /\ Bytes(tags) <= z

LEMMA WithinAdds ==
  ASSUME NEW a, NEW b, NEW n \in Nat, NEW m \in Nat, NEW y \in Nat, NEW z \in Nat,
         Within(a, n, y), Within(b, m, z)
  PROVE  Within(a \o b, n + m, y + z)
<1>1. a \in Table /\ b \in Table /\ Len(a) = n /\ Len(b) = m
  BY DEF Within
<1>2. a \o b \in Table /\ Len(a \o b) = n + m
  BY <1>1, TableAppends
<1>3. Bytes(a \o b) = Bytes(a) + Bytes(b) /\ Bytes(a) \in Nat /\ Bytes(b) \in Nat
  BY <1>1, BytesAdd, BytesType
<1>4. Bytes(a) <= y /\ Bytes(b) <= z
  BY DEF Within
<1>5. Bytes(a \o b) <= y + z
  BY <1>3, <1>4
<1> QED BY <1>2, <1>5 DEF Within

LEMMA WithinSmall ==
  ASSUME NEW tags, NEW n \in 0 .. 26, NEW z \in 0 .. 300, Within(tags, n, z)
  PROVE  Small(tags)
<1>1. Bytes(tags) \in Nat
  BY BytesType DEF Within
<1> QED BY <1>1 DEF Within, Small

LEMMA PartsOfTables ==
  /\ \A bits \in {2, 6} : Within(Baseline(bits), 15, 40)
  /\ Within(CfaTags, 2, 0)
  /\ Within(BayerTags, 8, 120)
  /\ Within(GreyTags, 5, 48)
  /\ Within(<<Tag(50708, 21)>>, 1, 24)
  /\ \A serial \in 0 .. 32 : Within(Sub(serial), 1, 140)
BY BaselineBytes, CfaTagsBytes, BayerTagsBytes, GreyTagsBytes, OpcodeBytes, SubBytes DEF Within

LEMMA FrameTagsSmall ==
  ASSUME NEW kind \in {"dng", "tiff", "tiffraw"}, NEW color \in BOOLEAN, NEW serial \in 0 .. 32
  PROVE  Small(FrameTags(kind, color, serial))
<1> DEFINE op == <<Tag(50708, 21)>>
           sub == Sub(serial)
<1>1. /\ Within(Baseline(2), 15, 40)
      /\ Within(Baseline(6), 15, 40)
      /\ Within(sub, 1, 140)
      /\ Within(CfaTags, 2, 0)
      /\ Within(BayerTags, 8, 120)
      /\ Within(GreyTags, 5, 48)
      /\ Within(op, 1, 24)
  BY PartsOfTables
<1> HIDE DEF op, sub
<1>2. Small(Baseline(2) \o CfaTags \o sub \o BayerTags)
  <2>1. Within(Baseline(2) \o CfaTags, 17, 40)
    <3>1. Within(Baseline(2) \o CfaTags, 15 + 2, 40 + 0)
      BY <1>1, WithinAdds
    <3> QED BY <3>1
  <2>2. Within(Baseline(2) \o CfaTags \o sub, 18, 180)
    <3>1. Within(Baseline(2) \o CfaTags \o sub, 17 + 1, 40 + 140)
      BY <1>1, <2>1, WithinAdds
    <3> QED BY <3>1
  <2>3. Within(Baseline(2) \o CfaTags \o sub \o BayerTags, 18 + 8, 180 + 120)
    BY <1>1, <2>2, WithinAdds
  <2>4. Within(Baseline(2) \o CfaTags \o sub \o BayerTags, 26, 300) /\ 26 \in 0 .. 26 /\ 300 \in 0 .. 300
    BY <2>3
  <2> QED BY <2>4, WithinSmall
<1>3. Within(Baseline(2) \o sub, 16, 180)
  <2>1. Within(Baseline(2) \o sub, 15 + 1, 40 + 140)
    BY <1>1, WithinAdds
  <2> QED BY <2>1
<1>4. Small(Baseline(2) \o sub \o GreyTags)
  <2>1. Within(Baseline(2) \o sub \o GreyTags, 16 + 5, 180 + 48)
    BY <1>1, <1>3, WithinAdds
  <2>2. Within(Baseline(2) \o sub \o GreyTags, 21, 228) /\ 21 \in 0 .. 26 /\ 228 \in 0 .. 300
    BY <2>1
  <2> QED BY <2>2, WithinSmall
<1>5. Small(Baseline(6) \o sub)
  <2>1. Within(Baseline(6) \o sub, 15 + 1, 40 + 140)
    BY <1>1, WithinAdds
  <2>2. Within(Baseline(6) \o sub, 16, 180) /\ 16 \in 0 .. 26 /\ 180 \in 0 .. 300
    BY <2>1
  <2> QED BY <2>2, WithinSmall
<1>6. Small(Baseline(2) \o sub \o op)
  <2>1. Within(Baseline(2) \o sub \o op, 16 + 1, 180 + 24)
    BY <1>1, <1>3, WithinAdds
  <2>2. Within(Baseline(2) \o sub \o op, 17, 204) /\ 17 \in 0 .. 26 /\ 204 \in 0 .. 300
    BY <2>1
  <2> QED BY <2>2, WithinSmall
<1>7. CASE kind = "dng" /\ color
  <2>1. FrameTags(kind, color, serial) = dng_bayer_tags(serial)
    BY <1>7 DEF FrameTags
  <2> QED BY <1>2, <2>1 DEF dng_bayer_tags, sub
<1>8. CASE kind = "dng" /\ ~color
  <2>1. FrameTags(kind, color, serial) = dng_greyscale_tags(serial)
    BY <1>8 DEF FrameTags
  <2> QED BY <1>4, <2>1 DEF dng_greyscale_tags, sub
<1>9. CASE kind = "tiff" /\ color
  <2>1. FrameTags(kind, color, serial) = tiff_rgb_tags(serial)
    BY <1>9 DEF FrameTags
  <2> QED BY <1>5, <2>1 DEF tiff_rgb_tags, sub
<1>10. CASE kind = "tiff" /\ ~color
  <2>1. FrameTags(kind, color, serial) = tiff_grayscale_tags(serial)
    BY <1>10 DEF FrameTags
  <2> QED BY <1>6, <2>1 DEF tiff_grayscale_tags, sub, op
<1>11. CASE kind = "tiffraw"
  <2>1. FrameTags(kind, color, serial) = tiff_raw_tags(serial)
    BY <1>11 DEF FrameTags
  <2> QED BY <1>6, <2>1 DEF tiff_raw_tags, sub, op
<1> QED BY <1>7, <1>8, <1>9, <1>10, <1>11

(* Nothing of a header lies behind its end.                                *)
LEMMA HeaderWithin ==
  ASSUME NEW size, NEW tags
  PROVE  \A e \in tiff_build_header(size, tags) : e.at + e.len <= size
<1>1. ASSUME NEW offset, NEW lengths
      PROVE  \A e \in IfdExtents(offset, lengths, size) : e.at + e.len <= size
  BY DEF IfdExtents
<1> DEFINE lengths == [i \in DOMAIN tags |-> tiff_tag_datalen(tags[i])]
           subs    == {i \in DOMAIN tags : tags[i].sub # <<>>}
           inner   == [i \in subs |-> IfdExtents(ExtensionAt(8, lengths, i), Lengths(tags[i].sub), size)]
           places  == {[at |-> ExtensionAt(8, lengths, i), len |-> lengths[i]] : i \in subs}
           outer   == IfdExtents(8, lengths, size)
<1>2. tiff_build_header(size, tags) =
        IF outer = {} \/ \E i \in subs : inner[i] = {} THEN {}
        ELSE (outer \ places) \cup UNION {inner[i] : i \in subs}
  BY DEF tiff_build_header, tiff_write_ifd
<1>3. \A e \in outer : e.at + e.len <= size
  BY <1>1
<1>4. ASSUME NEW i \in subs PROVE \A e \in inner[i] : e.at + e.len <= size
  <2>1. inner[i] = IfdExtents(ExtensionAt(8, lengths, i), Lengths(tags[i].sub), size)
    OBVIOUS
  <2> HIDE DEF lengths, subs, inner
  <2> QED BY <1>1, <2>1
<1> HIDE DEF subs, inner, places, outer
<1> QED BY <1>2, <1>3, <1>4

LEMMA WholeHeader ==
  ASSUME NEW f, NEW kind \in FrameKinds, NEW color \in BOOLEAN, NEW serial \in 0 .. 32,
         f.tags = <<kind, color, serial>>, f.header = TIFF_HDR_SIZE
  PROVE  Readable(HeaderOf(f), TagsOf(f))
<1> DEFINE tags == FrameTags(kind, color, serial)
           whole == tiff_build_header(TIFF_HDR_SIZE, tags)
<1>1. TagsOf(f) = tags
  BY DEF TagsOf
<1>2. Small(tags)
  BY FrameTagsSmall DEF FrameKinds
<1>3. Readable(whole, tags)
  <2> HIDE DEF tags
  <2>1. TIFF_HDR_SIZE \in Nat /\ TIFF_HDR_SIZE >= 1024
    BY DEF TIFF_HDR_SIZE
  <2> QED BY <1>2, <2>1, SmallFits
<1>4. HeaderOf(f) = {e \in whole : e.at + e.len <= TIFF_HDR_SIZE}
  BY <1>1 DEF HeaderOf
<1>5. \A e \in whole : e.at + e.len <= TIFF_HDR_SIZE
  BY HeaderWithin
<1> HIDE DEF whole, tags
<1>6. HeaderOf(f) = whole
  BY <1>4, <1>5
<1> QED BY <1>1, <1>3, <1>6
-----------------------------------------------------------------------------
(* The files. *)

OfFrames == save.on /\ save.kind \in FrameKinds
OfRaws == save.on /\ save.kind \in RawKinds

(* A save that counts frames has seen as many buffers, and made its        *)
(* directory.                                                              *)
SaveOK ==
  /\ save = [on |-> save.on, n |-> save.n, kind |-> save.kind, segs |-> save.segs,
             count |-> save.count, buffers |-> save.buffers]
  /\ save.n \in Nat /\ save.count \in Nat /\ save.buffers \in Nat
  /\ OfFrames => save.buffers = save.count /\ save.segs \in dirs

CameraOK ==
  /\ camera = [serial |-> camera.serial, color |-> camera.color, listed |-> camera.listed,
               alive |-> camera.alive]
  /\ camera.serial \in 0 .. 32
  /\ camera.color \in BOOLEAN

FileOK(f) ==
  /\ f.n \in Nat \ {0}
  /\ f.frame \in {f.n, 0}
  /\ <<f.save, f.n>> \notin troubles => f.frame = f.n
  /\ f.frame = f.n => f.header = TIFF_HDR_SIZE
  /\ f.segs \in dirs
  /\ \E kind \in FrameKinds, color \in BOOLEAN, serial \in 0 .. 32 : f.tags = <<kind, color, serial>>

FilesOK == \A f \in files : FileOK(f)

(* A directory has the files of one save; that of the running save has     *)
(* none but its own.                                                       *)
OneSave ==
  /\ OneSaveEach
  /\ OfFrames => \A f \in files : f.segs = save.segs => f.save = save.n

RawFileOK(r) ==
  /\ r = [segs |-> r.segs, by |-> r.by, got |-> r.got]
  /\ r.got \in Seq(Nat)
  /\ RawOK(r)

RawFilesOK == \A r \in raws : RawFileOK(r)

(* The file of a save that has seen b buffers: there is a place for each,  *)
(* unless one failed that would have been before the next place.           *)
RawRuns(r, by, b) ==
  /\ r.by = by
  /\ \A i \in DOMAIN r.got : r.got[i] <= b
  /\ Len(r.got) = b \/ \E k \in 1 .. Len(r.got) + 1 : <<by, k>> \in troubles
RawRunning ==
  OfRaws => /\ \E r \in raws : r.segs = save.segs
            /\ \A r \in raws : r.segs = save.segs => RawRuns(r, save.n, save.buffers)

NoneMissing == \A n \in 1 .. save.buffers : <<save.n, n>> \in troubles \/ OnFile(n)

FilesInv ==
  /\ SaveOK
  /\ CameraOK
  /\ FilesOK
  /\ OneSave
  /\ RawFilesOK
  /\ RawRunning
  /\ NoneMissing

LEMMA FilesInitInv == FilesInit => FilesInv
<1> SUFFICES ASSUME FilesInit PROVE FilesInv
  OBVIOUS
<1>1. save = NoSave /\ files = {} /\ raws = {}
  BY DEF FilesInit
<1>2. SaveOK /\ OneSave /\ RawRunning /\ ~save.on /\ save.buffers = 0
  BY <1>1 DEF SaveOK, OneSave, OneSaveEach, NoSave, OfFrames, OfRaws, RawRunning
<1>3. CameraOK
  <2>1. camera \in [serial : Serials, color : BOOLEAN, listed : {TRUE}, alive : {TRUE}]
    BY DEF FilesInit
  <2> QED BY <2>1, FilesAssumption DEF CameraOK, CAMERA_SERIAL_LENGTH
<1>4. FilesOK /\ RawFilesOK
  BY <1>1 DEF FilesOK, RawFilesOK
<1>5. NoneMissing
  BY <1>2 DEF NoneMissing
<1> QED BY <1>2, <1>3, <1>4, <1>5 DEF FilesInv

(* What is on file stays so when directories are made or writes fail.      *)
LEMMA FilesKept ==
  ASSUME FilesInv, UNCHANGED files, dirs \subseteq dirs', troubles \subseteq troubles'
  PROVE  FilesOK'
<1> SUFFICES ASSUME NEW f \in files PROVE FileOK(f)'
  BY DEF FilesOK
<1>1. FileOK(f)
  BY DEF FilesInv, FilesOK
<1> QED BY <1>1 DEF FileOK

LEMMA RawsKept ==
  ASSUME NEW r, RawFileOK(r), troubles \subseteq troubles'
  PROVE  RawFileOK(r)'
BY DEF RawFileOK, RawOK

LEMMA RawFilesKept ==
  ASSUME FilesInv, UNCHANGED raws, troubles \subseteq troubles'
  PROVE  RawFilesOK'
<1> SUFFICES ASSUME NEW r \in raws PROVE RawFileOK(r)'
  BY DEF RawFilesOK
<1> QED BY RawsKept DEF FilesInv, RawFilesOK

LEMMA TroubleAdds ==
  ASSUME NEW s, NEW n, Trouble(s, n)
  PROVE  troubles \subseteq troubles' /\ <<s, n>> \in troubles'
BY DEF Trouble

(* A save that is refused or ends leaves nothing to show.                  *)
LEMMA SaveStops ==
  ASSUME FilesInv, ~save'.on, UNCHANGED files, OneSaveEach
  PROVE  OneSave' /\ RawRunning'
BY DEF OneSave, OneSaveEach, OfFrames, OfRaws, RawRunning

LEMMA RefusedInv ==
  ASSUME FilesInv, ~save.on, SaveRefused, UNCHANGED <<files, raws, camera>>,
         dirs \subseteq dirs', troubles \subseteq troubles'
  PROVE  FilesInv'
<1>1. /\ save = [on |-> save.on, n |-> save.n, kind |-> save.kind, segs |-> save.segs,
                 count |-> save.count, buffers |-> save.buffers]
      /\ save.n \in Nat /\ save.count \in Nat /\ save.buffers \in Nat
  BY DEF FilesInv, SaveOK
<1>2. save' = [save EXCEPT !.n = @ + 1, !.buffers = 0]
  BY DEF SaveRefused
<1>3. /\ save' = [on |-> save.on, n |-> save.n + 1, kind |-> save.kind, segs |-> save.segs,
                  count |-> save.count, buffers |-> 0]
  BY <1>1, <1>2
<1>4. SaveOK' /\ ~save'.on /\ save'.buffers = 0
  BY <1>1, <1>3 DEF SaveOK, OfFrames
<1>5. OneSave' /\ RawRunning'
  BY <1>4, SaveStops DEF FilesInv, OneSave
<1>6. NoneMissing'
  BY <1>4 DEF NoneMissing
<1>7. CameraOK'
  BY DEF FilesInv, CameraOK
<1> QED BY <1>4, <1>5, <1>6, <1>7, FilesKept, RawFilesKept DEF FilesInv

LEMMA FrameSinkInv ==
  ASSUME FilesInv, NEW path, NEW kind, FrameSink(path, kind)
  PROVE  FilesInv'
<1>1. UNCHANGED <<files, raws, camera>> /\ kind \in FrameKinds /\ ~save.on
  BY DEF FrameSink
<1>2. dirs \subseteq dirs' /\ troubles \subseteq troubles'
  BY DEF FrameSink, dng_mkdir, MkdirStops, Trouble
<1>3. CASE SaveRefused
  BY <1>1, <1>2, <1>3, RefusedInv
<1>4. CASE /\ MakesLast(path)
           /\ dng_mkdir(path)
           /\ save' = [on |-> TRUE, n |-> save.n + 1, kind |-> kind, segs |-> Target(path),
                       count |-> 0, buffers |-> 0]
  <2>1. Target(path) \in dirs' /\ Target(path) \notin dirs
    BY <1>4 DEF MakesLast, dng_mkdir
  <2>2. FilesOK' /\ RawFilesOK'
    BY <1>1, <1>2, FilesKept, RawFilesKept
  <2>3. save.n \in Nat
    BY DEF FilesInv, SaveOK
  <2>4. /\ save'.on /\ save'.kind = kind /\ save'.segs = Target(path)
        /\ save'.n = save.n + 1 /\ save'.count = 0 /\ save'.buffers = 0
    BY <1>4
  <2>5. SaveOK'
    BY <1>4, <2>1, <2>3, <2>4 DEF SaveOK
  <2>6. OneSave'
    <3>1. OneSaveEach'
      BY <1>1 DEF FilesInv, OneSave, OneSaveEach
    <3>2. ASSUME NEW f \in files', f.segs = save'.segs PROVE FALSE
      <4>1. f \in files
        BY <1>1
      <4>2. f.segs \in dirs
        BY <4>1 DEF FilesInv, FilesOK, FileOK
      <4> QED BY <2>1, <2>4, <3>2, <4>2
    <3> QED BY <3>1, <3>2 DEF OneSave
  <2>7. RawRunning'
    BY <1>1, <2>4 DEF RawRunning, OfRaws, FrameKinds, RawKinds
  <2>8. NoneMissing'
    BY <2>4 DEF NoneMissing
  <2>9. CameraOK'
    BY <1>1 DEF FilesInv, CameraOK
  <2> QED BY <2>2, <2>5, <2>6, <2>7, <2>8, <2>9 DEF FilesInv
<1> QED BY <1>3, <1>4 DEF FrameSink

LEMMA RawSinkInv ==
  ASSUME FilesInv, NEW path, NEW kind, cam_raw_sink(path, kind)
  PROVE  FilesInv'
<1>1. UNCHANGED <<dirs, files, camera>> /\ kind \in RawKinds /\ ~save.on
  BY DEF cam_raw_sink
<1>2. troubles \subseteq troubles'
  BY DEF cam_raw_sink, Trouble
<1>3. CASE SaveRefused /\ UNCHANGED raws
  BY <1>1, <1>2, <1>3, RefusedInv
<1>4. CASE /\ raws' = {r \in raws : r.segs # Target(path)} \cup
                        {[segs |-> Target(path), by |-> save.n + 1, got |-> <<>>]}
           /\ SaveStarts(path, kind)
  <2> PICK new : new = [segs |-> Target(path), by |-> save.n + 1, got |-> <<>>]
    OBVIOUS
  <2>1. /\ save = [on |-> save.on, n |-> save.n, kind |-> save.kind, segs |-> save.segs,
                   count |-> save.count, buffers |-> save.buffers]
        /\ save.n \in Nat /\ save.count \in Nat
    BY DEF FilesInv, SaveOK
  <2>2. save' = [on |-> TRUE, n |-> save.n + 1, kind |-> kind, segs |-> Target(path),
                 count |-> save.count, buffers |-> 0]
    BY <1>4, <2>1 DEF SaveStarts
  <2>3. /\ save'.on /\ save'.kind = kind /\ save'.segs = Target(path)
        /\ save'.n = save.n + 1 /\ save'.count = save.count /\ save'.buffers = 0
    BY <2>2
  <2>4. ~OfFrames'
    BY <1>1, <2>3 DEF OfFrames, FrameKinds, RawKinds
  <2>5. SaveOK'
    BY <2>1, <2>2, <2>3, <2>4 DEF SaveOK
  <2>6. OneSave'
    BY <1>1, <2>4 DEF FilesInv, OneSave, OneSaveEach
  <2>7. /\ new = [segs |-> new.segs, by |-> new.by, got |-> new.got]
        /\ new.segs = Target(path) /\ new.by = save.n + 1 /\ new.got = <<>>
    OBVIOUS
  <2>8. new \in raws' /\ \A r \in raws' : r = new \/ (r \in raws /\ r.segs # Target(path))
    BY <1>4
  <2>9. RawFileOK(new)'
    BY <2>7 DEF RawFileOK, RawOK
  <2>10. RawFilesOK'
    <3> SUFFICES ASSUME NEW r \in raws' PROVE RawFileOK(r)'
      BY DEF RawFilesOK
    <3>1. CASE r \in raws
      BY <1>2, <3>1, RawsKept DEF FilesInv, RawFilesOK
    <3> QED BY <2>8, <2>9, <3>1
  <2>11. RawRuns(new, save.n, save.buffers)'
    BY <2>3, <2>7 DEF RawRuns
  <2>12. RawRunning'
    BY <2>3, <2>7, <2>8, <2>11 DEF RawRunning
  <2>13. NoneMissing'
    BY <2>3 DEF NoneMissing
  <2>14. CameraOK'
    BY <1>1 DEF FilesInv, CameraOK
  <2> QED BY <1>1, <1>2, <2>5, <2>6, <2>10, <2>12, <2>13, <2>14, FilesKept DEF FilesInv
<1> QED BY <1>3, <1>4 DEF cam_raw_sink

(* The file that a probe writes is of the running save, and its number is  *)
(* that of the buffer: a file that cannot be created takes its number too. *)
LEMMA FrameProbeInv ==
  ASSUME FilesInv, FrameProbe
  PROVE  FilesInv'
<1>1. /\ OfFrames
      /\ save' = [save EXCEPT !.count = save.count + 1, !.buffers = save.buffers + 1]
      /\ UNCHANGED <<dirs, raws, camera>>
      /\ troubles \subseteq troubles'
  BY DEF FrameProbe, OfFrames, Trouble
<1>2. /\ save = [on |-> save.on, n |-> save.n, kind |-> save.kind, segs |-> save.segs,
                 count |-> save.count, buffers |-> save.buffers]
      /\ save.n \in Nat /\ save.count \in Nat /\ save.buffers \in Nat
      /\ save.segs \in dirs /\ save.buffers = save.count /\ save.kind \in FrameKinds
  BY <1>1 DEF FilesInv, SaveOK, OfFrames
<1>3. /\ save'.on = save.on /\ save'.n = save.n /\ save'.kind = save.kind /\ save'.segs = save.segs
      /\ save'.count = save.count + 1 /\ save'.buffers = save.buffers + 1
      /\ SaveOK'
  <2>1. save' = [on |-> save.on, n |-> save.n, kind |-> save.kind, segs |-> save.segs,
                 count |-> save.count + 1, buffers |-> save.buffers + 1]
    BY <1>1, <1>2
  <2>2. /\ save'.on = save.on /\ save'.n = save.n /\ save'.kind = save.kind /\ save'.segs = save.segs
        /\ save'.count = save.count + 1 /\ save'.buffers = save.buffers + 1
    BY <2>1
  <2>3. save' = [on |-> save'.on, n |-> save'.n, kind |-> save'.kind, segs |-> save'.segs,
                 count |-> save'.count, buffers |-> save'.buffers]
    BY <2>1, <2>2
  <2>4. save'.n \in Nat /\ save'.count \in Nat /\ save'.buffers \in Nat /\ save'.buffers = save'.count
    BY <1>2, <2>2
  <2>5. save'.segs \in dirs'
    BY <1>1, <1>2, <2>2
  <2> QED BY <2>2, <2>3, <2>4, <2>5 DEF SaveOK
<1>4. CameraOK' /\ RawFilesOK'
  BY <1>1, RawFilesKept DEF FilesInv, CameraOK
<1>5. RawRunning'
  BY <1>2, <1>3 DEF RawRunning, OfRaws, FrameKinds, RawKinds
<1>6. CASE UNCHANGED files /\ Trouble(save.n, save.buffers + 1)
  <2>1. FilesOK' /\ OneSave'
    BY <1>1, <1>3, <1>6, FilesKept DEF FilesInv, OneSave, OneSaveEach
  <2>2. NoneMissing'
    <3> SUFFICES ASSUME NEW n \in 1 .. save.buffers + 1
                 PROVE  <<save.n, n>> \in troubles' \/ OnFile(n)'
      BY <1>3 DEF NoneMissing
    <3>1. CASE n = save.buffers + 1
      BY <1>6, <3>1, TroubleAdds
    <3>2. CASE n # save.buffers + 1
      <4>1. n \in 1 .. save.buffers
        BY <1>2, <3>2
      <4>2. <<save.n, n>> \in troubles \/ OnFile(n)
        BY <4>1 DEF FilesInv, NoneMissing
      <4> QED BY <1>1, <1>2, <1>3, <1>6, <4>2 DEF OnFile
    <3> QED BY <3>1, <3>2
  <2> QED BY <1>3, <1>4, <1>5, <2>1, <2>2 DEF FilesInv
<1>7. ASSUME NEW header, NEW frame,
             files' = {f \in files : f.segs # save.segs \/ f.n # save.count + 1} \cup
                 {[segs |-> save.segs, n |-> save.count + 1, save |-> save.n, header |-> header,
                   frame |-> frame, tags |-> <<save.kind, camera.color, camera.serial>>]},
             \/ header = TIFF_HDR_SIZE /\ frame = save.buffers + 1
             \/ frame = 0 /\ Trouble(save.n, save.buffers + 1)
      PROVE  FilesInv'
  <2> PICK new : new = [segs |-> save.segs, n |-> save.count + 1, save |-> save.n, header |-> header,
                        frame |-> frame, tags |-> <<save.kind, camera.color, camera.serial>>]
    OBVIOUS
  <2>1. /\ new \in files'
        /\ \A f \in files' : f \in files \/ f = new
        /\ \A f \in files : f.n # save.count + 1 => f \in files'
    BY <1>7
  <2>2. /\ new.segs = save.segs /\ new.n = save.count + 1 /\ new.save = save.n
        /\ new.header = header /\ new.frame = frame
        /\ new.tags = <<save.kind, camera.color, camera.serial>>
    OBVIOUS
  <2>3. FilesOK'
    <3> SUFFICES ASSUME NEW f \in files' PROVE FileOK(f)'
      BY DEF FilesOK
    <3>1. CASE f \in files
      <4>1. FileOK(f)
        BY <3>1 DEF FilesInv, FilesOK
      <4> QED BY <4>1, <1>1 DEF FileOK
    <3>2. CASE f = new
      <4>1. new.n \in Nat \ {0} /\ new.frame \in {new.n, 0}
        BY <1>2, <1>7, <2>2
      <4>2. new.frame = new.n => new.header = TIFF_HDR_SIZE
        BY <1>2, <1>7, <2>2
      <4>3. <<new.save, new.n>> \notin troubles' => new.frame = new.n
        <5>1. CASE frame = save.buffers + 1
          BY <1>2, <2>2, <5>1
        <5>2. CASE Trouble(save.n, save.buffers + 1)
          BY <1>2, <2>2, <5>2, TroubleAdds
        <5> QED BY <1>7, <5>1, <5>2
      <4>4. camera.color \in BOOLEAN /\ camera.serial \in 0 .. 32
        BY DEF FilesInv, CameraOK
      <4>5. new.segs \in dirs'
        BY <1>1, <1>2, <2>2
      <4> QED BY <1>2, <2>2, <3>2, <4>1, <4>2, <4>3, <4>4, <4>5 DEF FileOK
    <3> QED BY <2>1, <3>1, <3>2
  <2>4. \A f \in files' : f.segs = save.segs => f.save = save.n
    <3>1. \A f \in files : f.segs = save.segs => f.save = save.n
      BY <1>1 DEF FilesInv, OneSave
    <3> QED BY <2>1, <2>2, <3>1
  <2>5. \A f, g \in files' : g.segs = f.segs => g.save = f.save
    <3>1. \A f, g \in files : g.segs = f.segs => g.save = f.save
      BY DEF FilesInv, OneSave, OneSaveEach
    <3> SUFFICES ASSUME NEW f \in files', NEW g \in files', g.segs = f.segs
                 PROVE  g.save = f.save
      OBVIOUS
    <3>2. CASE f.segs = save.segs
      BY <2>4, <3>2
    <3>3. CASE f.segs # save.segs
      BY <2>1, <2>2, <3>1, <3>3
    <3> QED BY <3>2, <3>3
  <2>6. OneSave'
    BY <1>3, <2>4, <2>5 DEF OneSave, OneSaveEach
  <2>7. NoneMissing'
    <3> SUFFICES ASSUME NEW n \in 1 .. save.buffers + 1
                 PROVE  <<save.n, n>> \in troubles' \/ OnFile(n)'
      BY <1>3 DEF NoneMissing
    <3>1. CASE n = save.buffers + 1
      <4>1. CASE frame = save.buffers + 1
        BY <1>2, <1>3, <2>1, <2>2, <3>1, <4>1 DEF OnFile
      <4> QED BY <1>7, <3>1, <4>1, TroubleAdds
    <3>2. CASE n # save.buffers + 1
      <4>1. n \in 1 .. save.buffers
        BY <1>2, <3>2
      <4>2. <<save.n, n>> \in troubles \/ OnFile(n)
        BY <4>1 DEF FilesInv, NoneMissing
      <4>3. CASE OnFile(n)
        <5>1. PICK f \in files : f.segs = save.segs /\ f.save = save.n /\ f.n = n /\ f.frame = n
          BY <1>2, <4>3 DEF OnFile
        <5>2. f \in files'
          BY <1>2, <2>1, <3>2, <5>1
        <5> QED BY <1>2, <1>3, <5>1, <5>2 DEF OnFile
      <4> QED BY <1>1, <4>2, <4>3
    <3> QED BY <3>1, <3>2
  <2> QED BY <1>3, <1>4, <1>5, <2>3, <2>6, <2>7 DEF FilesInv
<1>8. CASE /\ files' = {f \in files : f.segs # save.segs \/ f.n # save.count + 1} \cup
                 {[segs |-> save.segs, n |-> save.count + 1, save |-> save.n, header |-> TIFF_HDR_SIZE,
                   frame |-> save.buffers + 1, tags |-> <<save.kind, camera.color, camera.serial>>]}
  BY <1>7, <1>8
<1>9. CASE \E cut \in Cuts :
             /\ files' = {f \in files : f.segs # save.segs \/ f.n # save.count + 1} \cup
                 {[segs |-> save.segs, n |-> save.count + 1, save |-> save.n, header |-> cut,
                   frame |-> 0, tags |-> <<save.kind, camera.color, camera.serial>>]}
             /\ Trouble(save.n, save.buffers + 1)
  BY <1>7, <1>9
<1> QED BY <1>6, <1>8, <1>9 DEF FrameProbe

(* What a write appends of buffer b, and the file after it.                *)
PartOf(part, by, b) == part = <<b>> \/ (part \in {<<0>>, <<>>} /\ <<by, b>> \in troubles)
Grown(r, part) == [r EXCEPT !.got = @ \o part]

(* A raw file stays in order whatever part of a buffer is appended to it.  *)
LEMMA RawGrows ==
  ASSUME NEW r, RawFileOK(r), NEW by, NEW b \in Nat, RawRuns(r, by, b), troubles \subseteq troubles',
         NEW part, PartOf(part, by, b + 1)',
         NEW q, q = Grown(r, part)
  PROVE  /\ RawFileOK(q)' /\ q.segs = r.segs /\ q.by = r.by
         /\ q.got = r.got \o part
         /\ RawRuns(q, by, b + 1)'
<1> DEFINE n == Len(r.got)
<1>0. /\ \/ part = <<b + 1>>
         \/ part \in {<<0>>, <<>>} /\ <<by, b + 1>> \in troubles'
      /\ q = [r EXCEPT !.got = @ \o part]
  BY DEF PartOf, Grown
<1>1. /\ r = [segs |-> r.segs, by |-> r.by, got |-> r.got]
      /\ r.got \in Seq(Nat) /\ n \in Nat /\ r.by = by
  BY DEF RawFileOK, RawRuns
<1>2. q = [segs |-> r.segs, by |-> r.by, got |-> r.got \o part]
  BY <1>0, <1>1
<1>3. q.segs = r.segs /\ q.by = by /\ q.got = r.got \o part /\ q = [segs |-> q.segs, by |-> q.by, got |-> q.got]
  BY <1>1, <1>2
<1>4. /\ \A i \in 1 .. n : r.got[i] \in Nat /\ r.got[i] <= b
      /\ \A i \in 1 .. n : r.got[i] = i \/ \E k \in 1 .. i : <<by, k>> \in troubles
      /\ \A i, j \in 1 .. n : i < j /\ r.got[i] # 0 /\ r.got[j] # 0 => r.got[i] < r.got[j]
      /\ n = b \/ \E k \in 1 .. n + 1 : <<by, k>> \in troubles
  <2>1. DOMAIN r.got = 1 .. n
    BY <1>1
  <2>2. \A i \in 1 .. n : r.got[i] \in Nat
    BY <1>1
  <2>3. \A i \in 1 .. n : r.got[i] <= b
    BY <2>1 DEF RawRuns
  <2>4. \A i \in 1 .. n : r.got[i] = i \/ \E k \in 1 .. i : <<by, k>> \in troubles
    BY <1>1, <2>1 DEF RawFileOK, RawOK
  <2>5. \A i, j \in 1 .. n : i < j /\ r.got[i] # 0 /\ r.got[j] # 0 => r.got[i] < r.got[j]
    BY <2>1 DEF RawFileOK, RawOK
  <2>6. n = b \/ \E k \in 1 .. n + 1 : <<by, k>> \in troubles
    BY DEF RawRuns
  <2> QED BY <2>2, <2>3, <2>4, <2>5, <2>6
<1>5. ASSUME NEW x \in Nat, part = <<x>>,
             x = b + 1 \/ (x = 0 /\ <<by, b + 1>> \in troubles')
      PROVE  RawFileOK(q)' /\ RawRuns(q, by, b + 1)'
  <2> DEFINE got == q.got
  <2>1. /\ got \in Seq(Nat) /\ Len(got) = n + 1
        /\ \A i \in 1 .. n : got[i] = r.got[i]
        /\ got[n + 1] = x
        /\ DOMAIN got = 1 .. n + 1
    BY <1>1, <1>3, <1>5
  <2> HIDE DEF got, n
  <2>2. \A i \in 1 .. n + 1 : i \in 1 .. n \/ i = n + 1
    BY <1>1
  <2>3. x <= b + 1
    BY <1>5
  <2>4. \A i \in 1 .. n + 1 : got[i] <= b + 1
    <3> SUFFICES ASSUME NEW i \in 1 .. n + 1 PROVE got[i] <= b + 1
      OBVIOUS
    <3>1. CASE i = n + 1
      BY <2>1, <2>3, <3>1
    <3>2. CASE i \in 1 .. n
      <4>1. r.got[i] \in Nat /\ r.got[i] <= b /\ got[i] = r.got[i]
        BY <1>4, <2>1, <3>2
      <4> QED BY <4>1
    <3> QED BY <2>2, <3>1, <3>2
  <2>5. x = n + 1 \/ \E k \in 1 .. n + 1 : <<by, k>> \in troubles'
    <3>1. CASE n = b
      <4>1. n + 1 \in 1 .. n + 1
        BY <1>1
      <4> QED BY <1>5, <3>1, <4>1
    <3> QED BY <1>4, <3>1
  <2>6. \A i \in 1 .. n + 1 : got[i] = i \/ \E k \in 1 .. i : <<by, k>> \in troubles'
    BY <1>4, <2>1, <2>2, <2>5
  <2>7. ASSUME NEW i \in 1 .. n + 1, NEW j \in 1 .. n + 1, i < j, got[i] # 0, got[j] # 0
        PROVE  got[i] < got[j]
    <3>1. i \in 1 .. n
      BY <1>1, <2>7
    <3>2. CASE j \in 1 .. n
      BY <1>4, <2>1, <2>7, <3>1, <3>2
    <3>3. CASE j = n + 1
      <4>1. got[j] = b + 1
        BY <1>5, <2>1, <2>7, <3>3
      <4>2. got[i] \in Nat /\ got[i] <= b
        BY <1>4, <2>1, <3>1
      <4> QED BY <4>1, <4>2
    <3> QED BY <2>2, <3>2, <3>3
  <2>8. RawOK(q)'
    BY <1>3, <2>1, <2>6, <2>7 DEF RawOK, got
  <2>9. n + 1 = b + 1 \/ \E k \in 1 .. n + 1 + 1 : <<by, k>> \in troubles'
    <3>1. \A k \in 1 .. n + 1 : k \in 1 .. n + 1 + 1
      BY <1>1
    <3> QED BY <1>4, <3>1
  <2>10. RawRuns(q, by, b + 1)'
    BY <1>3, <2>1, <2>4, <2>9 DEF RawRuns, got
  <2> QED BY <1>3, <2>1, <2>8, <2>10 DEF RawFileOK, got
<1>6. CASE part = <<>> /\ <<by, b + 1>> \in troubles'
  <2>1. q.got = r.got
    BY <1>1, <1>3, <1>6
  <2>2. RawFileOK(q)'
    <3>1. q = r
      BY <1>1, <1>2, <1>3, <2>1
    <3>2. RawFileOK(r)'
      BY RawsKept
    <3> QED BY <3>1, <3>2
  <2>3. \E k \in 1 .. n + 1 : <<by, k>> \in troubles'
    <3>1. CASE n = b
      <4>1. n + 1 \in 1 .. n + 1
        BY <1>1
      <4> QED BY <1>6, <3>1, <4>1
    <3> QED BY <1>4, <3>1
  <2>4. \A i \in DOMAIN q.got : q.got[i] <= b + 1
    <3> SUFFICES ASSUME NEW i \in DOMAIN q.got PROVE q.got[i] <= b + 1
      OBVIOUS
    <3>1. i \in 1 .. n
      BY <1>1, <2>1
    <3>2. r.got[i] \in Nat /\ r.got[i] <= b
      BY <1>4, <3>1
    <3> QED BY <2>1, <3>2
  <2> QED BY <1>1, <1>3, <2>1, <2>2, <2>3, <2>4 DEF RawRuns
<1>7. CASE part = <<b + 1>>
  <2>1. b + 1 \in Nat
    OBVIOUS
  <2>2. RawFileOK(q)' /\ RawRuns(q, by, b + 1)'
    BY <1>5, <1>7, <2>1
  <2> QED BY <1>1, <1>3, <2>2
<1>8. CASE part = <<0>> /\ <<by, b + 1>> \in troubles'
  <2>1. 0 \in Nat
    OBVIOUS
  <2>2. RawFileOK(q)' /\ RawRuns(q, by, b + 1)'
    BY <1>5, <1>8, <2>1
  <2> QED BY <1>1, <1>3, <2>2
<1> QED BY <1>0, <1>6, <1>7, <1>8

LEMMA RawProbeInv ==
  ASSUME FilesInv, RawProbe
  PROVE  FilesInv'
<1>1. /\ OfRaws
      /\ save' = [save EXCEPT !.buffers = save.buffers + 1]
      /\ UNCHANGED <<dirs, files, camera>>
      /\ troubles \subseteq troubles'
  BY DEF RawProbe, OfRaws, Trouble
<1>2. /\ save = [on |-> save.on, n |-> save.n, kind |-> save.kind, segs |-> save.segs,
                 count |-> save.count, buffers |-> save.buffers]
      /\ save.n \in Nat /\ save.count \in Nat /\ save.buffers \in Nat
      /\ save.kind \in RawKinds /\ save.kind \notin FrameKinds
  BY <1>1 DEF FilesInv, SaveOK, OfRaws, FrameKinds, RawKinds
<1>3. save' = [on |-> save.on, n |-> save.n, kind |-> save.kind, segs |-> save.segs,
               count |-> save.count, buffers |-> save.buffers + 1]
  BY <1>1, <1>2
<1>4. /\ save'.on = save.on /\ save'.n = save.n /\ save'.kind = save.kind /\ save'.segs = save.segs
      /\ save'.count = save.count /\ save'.buffers = save.buffers + 1
  BY <1>3
<1>5. ~OfFrames'
  BY <1>2, <1>4 DEF OfFrames
<1>6. SaveOK'
  <2>1. save' = [on |-> save'.on, n |-> save'.n, kind |-> save'.kind, segs |-> save'.segs,
                 count |-> save'.count, buffers |-> save'.buffers]
    BY <1>3, <1>4
  <2>2. save'.n \in Nat /\ save'.count \in Nat /\ save'.buffers \in Nat
    BY <1>2, <1>4
  <2> QED BY <1>5, <2>1, <2>2 DEF SaveOK
<1>7. CameraOK' /\ FilesOK' /\ OneSave'
  BY <1>1, <1>5, FilesKept DEF FilesInv, CameraOK, OneSave, OneSaveEach
<1>8. PICK part :
        /\ raws' = {IF r.segs = save.segs THEN [r EXCEPT !.got = @ \o part] ELSE r : r \in raws}
        /\ \/ part = <<save.buffers + 1>>
           \/ part \in {<<0>>, <<>>} /\ <<save.n, save.buffers + 1>> \in troubles'
  BY TroubleAdds DEF RawProbe
<1> DEFINE Next(r) == IF r.segs = save.segs THEN Grown(r, part) ELSE r
<1>9. raws' = {Next(r) : r \in raws}
  BY <1>8 DEF Grown
<1>10. ASSUME NEW r \in raws, r.segs = save.segs, NEW q, q = Next(r)
       PROVE  /\ RawFileOK(q)' /\ q.segs = r.segs /\ q.by = r.by /\ r.by = save.n
              /\ q.got = r.got \o part /\ r.got \in Seq(Nat)
              /\ RawRuns(q, save.n, save.buffers)'
  <2>1. RawFileOK(r) /\ RawRuns(r, save.n, save.buffers)
    BY <1>1, <1>10 DEF FilesInv, RawFilesOK, RawRunning
  <2>2. q = Grown(r, part)
    BY <1>10
  <2> HIDE DEF Next
  <2>3. PICK m, s : m = save.n /\ s = save.buffers
    OBVIOUS
  <2>4. RawRuns(r, m, s) /\ s \in Nat
    BY <1>2, <2>1, <2>3
  <2>5. PartOf(part, m, s + 1)'
    BY <1>8, <2>3 DEF PartOf
  <2>6. /\ RawFileOK(q)' /\ q.segs = r.segs /\ q.by = r.by
        /\ q.got = r.got \o part
        /\ RawRuns(q, m, s + 1)'
    BY <1>1, <2>1, <2>2, <2>4, <2>5, RawGrows
  <2>7. m = save'.n /\ s + 1 = save'.buffers
    BY <1>4, <2>3
  <2>8. RawRuns(q, save.n, save.buffers)'
    BY <2>6, <2>7 DEF RawRuns
  <2>9. r.by = save.n /\ r.got \in Seq(Nat)
    BY <2>1 DEF RawRuns, RawFileOK
  <2> QED BY <2>6, <2>8, <2>9
<1>11. ASSUME NEW q \in raws'
       PROVE  \E r \in raws : q = Next(r) /\ q.segs = r.segs
  <2>1. PICK r \in raws : q = Next(r)
    BY <1>9
  <2>2. CASE r.segs = save.segs
    BY <1>10, <2>1, <2>2
  <2>3. CASE r.segs # save.segs
    BY <2>1, <2>3
  <2> QED BY <2>1, <2>2, <2>3
<1>12. RawFilesOK'
  <2> SUFFICES ASSUME NEW q \in raws' PROVE RawFileOK(q)'
    BY DEF RawFilesOK
  <2>1. PICK r \in raws : q = Next(r) /\ q.segs = r.segs
    BY <1>11
  <2>2. CASE r.segs = save.segs
    BY <1>10, <2>1, <2>2
  <2>3. CASE r.segs # save.segs
    <3>1. q = r
      BY <2>1, <2>3
    <3> HIDE DEF Next
    <3> QED BY <1>1, <3>1, RawsKept DEF FilesInv, RawFilesOK
  <2> QED BY <2>2, <2>3
<1>13. PICK old \in raws : old.segs = save.segs
  BY <1>1 DEF FilesInv, RawRunning
<1>14. Next(old) \in raws'
  BY <1>9
<1> HIDE DEF Next
<1>15. PICK new : new = Next(old)
  OBVIOUS
<1>16. /\ new \in raws' /\ new.segs = save.segs /\ new.by = save.n
       /\ new.got = old.got \o part /\ old.got \in Seq(Nat)
  BY <1>10, <1>13, <1>14, <1>15
<1>17. RawRunning'
  <2>1. ASSUME NEW q \in raws', q.segs = save'.segs PROVE RawRuns(q, save.n, save.buffers)'
    <3>1. PICK r \in raws : q = Next(r) /\ q.segs = r.segs
      BY <1>11
    <3> QED BY <1>4, <1>10, <2>1, <3>1
  <2>2. \E r \in raws' : r.segs = save'.segs
    BY <1>4, <1>16
  <2> QED BY <2>1, <2>2 DEF RawRunning
<1>18. NoneMissing'
  <2> SUFFICES ASSUME NEW n \in 1 .. save.buffers + 1
               PROVE  <<save.n, n>> \in troubles' \/ OnFile(n)'
    BY <1>4 DEF NoneMissing
  <2>1. ASSUME NEW r \in raws', r.segs = save.segs, r.by = save.n, NEW i \in DOMAIN r.got, r.got[i] = n
        PROVE  OnFile(n)'
    BY <1>2, <1>4, <2>1 DEF OnFile
  <2>2. CASE n = save.buffers + 1
    <3>1. CASE part = <<n>>
      <4>1. new.got = Append(old.got, n)
        BY <1>16, <3>1
      <4>2. Len(old.got) + 1 \in DOMAIN new.got /\ new.got[Len(old.got) + 1] = n
        BY <1>16, <4>1
      <4> QED BY <1>16, <2>1, <4>2
    <3> QED BY <1>8, <2>2, <3>1
  <2>3. CASE n # save.buffers + 1
    <3>1. n \in 1 .. save.buffers
      BY <1>2, <2>3
    <3>2. <<save.n, n>> \in troubles \/ OnFile(n)
      BY <3>1 DEF FilesInv, NoneMissing
    <3>3. CASE OnFile(n)
      <4>1. \E r \in raws : r.segs = save.segs /\ r.by = save.n /\ \E i \in DOMAIN r.got : r.got[i] = n
        BY <1>2, <3>3 DEF OnFile
      <4>2. PICK r \in raws : r.segs = save.segs /\ r.by = save.n /\ \E i \in DOMAIN r.got : r.got[i] = n
        BY <4>1
      <4>3. PICK i \in DOMAIN r.got : r.got[i] = n
        BY <4>2
      <4>4. PICK q : q = Next(r)
        OBVIOUS
      <4>5. q \in raws'
        BY <1>9, <4>4
      <4>6. q.segs = save.segs /\ q.by = save.n /\ q.got = r.got \o part /\ r.got \in Seq(Nat)
        BY <1>10, <4>2, <4>4
      <4>7. i \in DOMAIN q.got /\ q.got[i] = n
        <5>1. part \in Seq(Nat)
          <6>1. PICK b : b = save.buffers + 1
            OBVIOUS
          <6>2. b \in Nat
            BY <1>2, <6>1
          <6>3. <<b>> \in Seq(Nat)
            BY <6>2
          <6>4. <<0>> \in Seq(Nat) /\ <<>> \in Seq(Nat)
            OBVIOUS
          <6> QED BY <1>8, <6>1, <6>3, <6>4
        <5> QED BY <4>3, <4>6, <5>1
      <4> QED BY <2>1, <4>5, <4>6, <4>7
    <3> QED BY <1>1, <3>2, <3>3
  <2> QED BY <2>2, <2>3
<1> QED BY <1>6, <1>7, <1>12, <1>17, <1>18 DEF FilesInv

LEMMA OtherFilesInv ==
  ASSUME FilesInv, NoSegment \/ SaveEnds \/ FlushSegments \/ UNCHANGED filesVars
  PROVE  FilesInv'
<1>1. UNCHANGED <<dirs, files, raws, troubles>>
  BY DEF NoSegment, SaveEnds, FlushSegments, filesVars
<1>2. FilesOK' /\ RawFilesOK'
  BY <1>1, FilesKept, RawFilesKept
<1>3. CameraOK'
  <2>1. UNCHANGED camera \/ camera' = [camera EXCEPT !.alive = FALSE] \/ camera' = [camera EXCEPT !.listed = FALSE]
    BY DEF NoSegment, SaveEnds, FlushSegments, filesVars
  <2>2. CameraOK
    BY DEF FilesInv
  <2> QED BY <2>1, <2>2 DEF CameraOK
<1>4. CASE UNCHANGED save
  <2>1. SaveOK' /\ OneSave' /\ RawRunning'
    BY <1>1, <1>4 DEF SaveOK, OneSave, OneSaveEach, OfFrames, RawRunning, OfRaws, RawRuns, FilesInv
  <2>2. NoneMissing'
    BY <1>1, <1>4 DEF NoneMissing, OnFile, FilesInv
  <2> QED BY <1>2, <1>3, <2>1, <2>2 DEF FilesInv
<1>5. CASE save' = [save EXCEPT !.on = FALSE]
  <2>1. /\ save = [on |-> save.on, n |-> save.n, kind |-> save.kind, segs |-> save.segs,
                   count |-> save.count, buffers |-> save.buffers]
        /\ save.n \in Nat /\ save.count \in Nat /\ save.buffers \in Nat
    BY DEF FilesInv, SaveOK
  <2>2. save' = [on |-> FALSE, n |-> save.n, kind |-> save.kind, segs |-> save.segs,
                 count |-> save.count, buffers |-> save.buffers]
    BY <1>5, <2>1
  <2>3. /\ ~save'.on
        /\ save'.n = save.n /\ save'.kind = save.kind /\ save'.segs = save.segs
        /\ save'.buffers = save.buffers
    BY <2>2
  <2>4. SaveOK'
    BY <2>1, <2>2 DEF SaveOK, OfFrames
  <2>5. OneSave' /\ RawRunning'
    BY <1>1, <2>3, SaveStops DEF FilesInv, OneSave
  <2>6. NoneMissing'
    BY <1>1, <2>3 DEF NoneMissing, OnFile, FilesInv
  <2> QED BY <1>2, <1>3, <2>4, <2>5, <2>6 DEF FilesInv
<1> QED BY <1>4, <1>5 DEF NoSegment, SaveEnds, FlushSegments, filesVars

LEMMA FilesStepInv == FilesInv /\ [FilesNext]_filesVars => FilesInv'
BY FrameSinkInv, RawSinkInv, FrameProbeInv, RawProbeInv, OtherFilesInv DEF FilesNext

LEMMA FilesInvHolds == FilesInv => FilesAreFrames
<1> SUFFICES ASSUME FilesInv PROVE FilesAreFrames
  OBVIOUS
<1>1. ASSUME NEW f \in files PROVE ImageOK(f)
  <2>1. FileOK(f)
    BY DEF FilesInv, FilesOK
  <2>2. PICK kind \in FrameKinds, color \in BOOLEAN, serial \in 0 .. 32 : f.tags = <<kind, color, serial>>
    BY <2>1 DEF FileOK
  <2>3. f.frame = f.n => Readable(HeaderOf(f), TagsOf(f))
    BY <2>1, <2>2, WholeHeader DEF FileOK
  <2> QED BY <2>1, <2>3 DEF FileOK, ImageOK
<1>2. \A r \in raws : RawOK(r)
  BY DEF FilesInv, RawFilesOK, RawFileOK
<1>3. OneSaveEach
  BY DEF FilesInv, OneSave
<1>4. \A n \in 1 .. save.buffers : <<save.n, n>> \in troubles \/ OnFile(n)
  BY DEF FilesInv, NoneMissing
<1> QED BY <1>1, <1>2, <1>3, <1>4 DEF FilesAreFrames

(* However often saves are tried, under whatever names, and whatever the   *)
(* file system refuses or cuts short: the image files of a directory are   *)
(* of one save, file number n has buffer n and every tag of its header, a  *)
(* raw file has the buffers of its save in order, and no buffer of a save  *)
(* is missing - but for buffers whose own write failed, for which nothing  *)
(* more is claimed than that the file has no other's frame (dng.c:36-300,  *)
(* 302-590; raw.c:30-95; tiff.c:26-149).                                   *)
THEOREM FilesOfFrames == FilesInit /\ [][FilesNext]_filesVars => []FilesAreFrames
<1>1. FilesInit => FilesInv
  BY FilesInitInv
<1>2. FilesInv /\ [FilesNext]_filesVars => FilesInv'
  BY FilesStepInv
<1>3. FilesInv => FilesAreFrames
  BY FilesInvHolds
<1> QED BY <1>1, <1>2, <1>3, PTL

-----------------------------------------------------------------------------
(* A recorded block is the segment that its entry becomes, with hi, the    *)
(* number of its newest frame.  Its frames are stamped from the oldest on, *)
(* which lies offset frames after the start.                               *)
InBlock(seg, a) == a \in Addr /\ RingDist(seg.start, a) < seg.nframes

FrameAt(seg, a) ==
  IF RingDist(seg.start, a) >= seg.offset
  THEN seg.hi - seg.nframes + 1 + (RingDist(seg.start, a) - seg.offset)
  ELSE seg.hi + 1 - (seg.offset - RingDist(seg.start, a))

IsBlock(seg) ==
  /\ Stretch(seg)
  /\ seg.offset \in Nat /\ seg.offset < seg.nframes
  /\ seg.hi \in Nat /\ seg.nframes <= seg.hi

(* The blocks recorded, oldest first; frames is the number of the newest   *)
(* frame, mem what memory holds.  Frames are numbered in this order, and   *)
(* one that is not in memory was overwritten by a later block.             *)
Numbers(blocks, frames) ==
  /\ \A i \in 1 .. Len(blocks) : IsBlock(blocks[i]) /\ blocks[i].hi <= frames
  /\ \A i, j \in 1 .. Len(blocks) : i < j => blocks[i].hi + blocks[j].nframes <= blocks[j].hi
  /\ \A i \in 1 .. Len(blocks) : i = Len(blocks) => blocks[i].hi = frames

InMemory(blocks, mem) ==
  \A i \in 1 .. Len(blocks) : \A a : InBlock(blocks[i], a) =>
     \/ mem[a] = FrameAt(blocks[i], a)
     \/ \E j \in 1 .. Len(blocks) : j > i /\ InBlock(blocks[j], a)

(* wp is where the next block starts.                                      *)
Blocked(blocks, frames, wp, mem) ==
  /\ Len(blocks) \in Nat
  /\ Numbers(blocks, frames)
  /\ Adjacent(blocks)
  /\ Len(blocks) > 0 => wp = RingAdd(blocks[Len(blocks)].end, 1)
  /\ InMemory(blocks, mem)

LEMMA BlockTypes ==
  ASSUME NEW seg, IsBlock(seg)
  PROVE  /\ seg.start \in Addr /\ seg.end \in Addr
         /\ seg.nframes \in Nat /\ seg.nframes >= 1 /\ seg.nframes <= RingSize
         /\ seg.nframes = RingDist(seg.start, seg.end) + 1
         /\ seg.offset \in Nat /\ seg.offset < seg.nframes
         /\ seg.hi \in Nat /\ seg.nframes <= seg.hi
<1>1. seg.start \in Addr /\ seg.end \in Addr /\ seg.nframes = RingDist(seg.start, seg.end) + 1
  BY DEF IsBlock, Stretch
<1>2. RingDist(seg.start, seg.end) \in Nat /\ RingDist(seg.start, seg.end) < RingSize
  BY <1>1, RingDistType
<1>3. seg.offset \in Nat /\ seg.offset < seg.nframes /\ seg.hi \in Nat /\ seg.nframes <= seg.hi
  BY DEF IsBlock
<1> QED BY <1>1, <1>2, <1>3, RegionFacts

(* A block more: newest is the number of its newest frame.                 *)
Grows(blocks, new, seg) ==
  /\ Len(new) = Len(blocks) + 1
  /\ \A i \in 1 .. Len(blocks) : new[i] = blocks[i]
  /\ new[Len(blocks) + 1] = seg

Written(mem, mem2, seg) ==
  \A a \in Addr : mem2[a] = IF InBlock(seg, a) THEN FrameAt(seg, a) ELSE mem[a]

LEMMA BlocksGrow ==
  ASSUME NEW blocks, NEW new, NEW seg, NEW frames \in Nat, NEW newest, NEW wp \in Addr, NEW mem, NEW mem2,
         Blocked(blocks, frames, wp, mem), Grows(blocks, new, seg),
         IsBlock(seg), seg.hi = newest, frames + seg.nframes <= newest, seg.start = wp,
         Written(mem, mem2, seg)
  PROVE  Blocked(new, newest, RingAdd(seg.end, 1), mem2)
<1> DEFINE n == Len(blocks)
<1>1. /\ n \in Nat /\ Len(new) = n + 1 /\ new[n + 1] = seg
      /\ \A i \in 1 .. n : new[i] = blocks[i]
  BY DEF Blocked, Grows
<1>2. /\ seg.nframes \in Nat /\ seg.nframes >= 1 /\ seg.hi \in Nat /\ newest \in Nat /\ frames <= newest
  <2>1. /\ seg.nframes \in Nat /\ seg.nframes >= 1 /\ seg.hi \in Nat
    BY BlockTypes
  <2> QED BY <2>1
<1>3. \A i \in 1 .. n + 1 : i \in 1 .. n \/ i = n + 1
  BY <1>1
<1>4. \A i \in 1 .. n : IsBlock(blocks[i]) /\ blocks[i].hi <= frames /\ blocks[i].hi \in Nat
  BY BlockTypes DEF Blocked, Numbers
<1>5. Numbers(new, newest)
  <2>1. ASSUME NEW i \in 1 .. n + 1
        PROVE  IsBlock(new[i]) /\ new[i].hi <= newest
    <3>1. CASE i = n + 1
      BY <3>1, <1>1, <1>2
    <3>2. CASE i \in 1 .. n
      BY <3>2, <1>1, <1>2, <1>4
    <3> QED BY <3>1, <3>2, <1>3
  <2>2. ASSUME NEW i \in 1 .. n + 1, NEW j \in 1 .. n + 1, i < j
        PROVE  new[i].hi + new[j].nframes <= new[j].hi
    <3>1. i \in 1 .. n
      BY <2>2, <1>1
    <3>2. CASE j = n + 1
      BY <3>1, <3>2, <1>1, <1>2, <1>4
    <3>3. CASE j \in 1 .. n
      <4>1. blocks[i].hi + blocks[j].nframes <= blocks[j].hi
        BY <3>1, <3>3, <2>2 DEF Blocked, Numbers
      <4> QED BY <4>1, <3>1, <3>3, <1>1
    <3> QED BY <3>2, <3>3, <1>3
  <2>3. \A i \in 1 .. n + 1 : i = n + 1 => new[i].hi = newest
    BY <1>1
  <2> QED BY <2>1, <2>2, <2>3, <1>1 DEF Numbers
<1>6. Adjacent(new)
  <2> SUFFICES ASSUME NEW i \in 1 .. n + 1, i + 1 \in 1 .. n + 1
               PROVE  new[i + 1].start = RingAdd(new[i].end, 1)
    BY <1>1 DEF Adjacent
  <2>1. i \in 1 .. n /\ new[i] = blocks[i]
    BY <1>1
  <2>2. CASE i = n
    BY <2>1, <2>2, <1>1 DEF Blocked
  <2>3. CASE i # n
    <3>1. i + 1 \in 1 .. n
      BY <2>1, <2>3, <1>1
    <3> QED BY <2>1, <3>1, <1>1 DEF Blocked, Adjacent
  <2> QED BY <2>2, <2>3
<1>7. InMemory(new, mem2)
  <2> SUFFICES ASSUME NEW i \in 1 .. n + 1, NEW a, InBlock(new[i], a)
               PROVE  \/ mem2[a] = FrameAt(new[i], a)
                      \/ \E j \in 1 .. n + 1 : j > i /\ InBlock(new[j], a)
    BY <1>1 DEF InMemory
  <2>1. a \in Addr
    BY DEF InBlock
  <2>2. CASE i = n + 1
    BY <2>1, <2>2, <1>1 DEF Written
  <2>3. CASE i \in 1 .. n /\ InBlock(seg, a)
    <3>1. n + 1 \in 1 .. n + 1 /\ n + 1 > i
      BY <2>3, <1>1
    <3> QED BY <3>1, <2>3, <1>1
  <2>4. CASE i \in 1 .. n /\ ~InBlock(seg, a)
    <3>1. mem2[a] = mem[a] /\ new[i] = blocks[i]
      BY <2>1, <2>4, <1>1 DEF Written
    <3>2. \/ mem[a] = FrameAt(blocks[i], a)
          \/ \E j \in 1 .. n : j > i /\ InBlock(blocks[j], a)
      BY <2>4, <3>1 DEF Blocked, InMemory
    <3>3. ASSUME NEW j \in 1 .. n, j > i, InBlock(blocks[j], a)
          PROVE  j \in 1 .. n + 1 /\ InBlock(new[j], a)
      BY <3>3, <1>1
    <3> QED BY <3>1, <3>2, <3>3
  <2> QED BY <2>2, <2>3, <2>4, <1>3
<1> QED BY <1>1, <1>5, <1>6, <1>7 DEF Blocked

-----------------------------------------------------------------------------
(* A list of segments that are the last of the blocks.                     *)
Piece(seg) ==
  [start |-> seg.start, end |-> seg.end, nframes |-> seg.nframes, offset |-> seg.offset]
Pieces == [start : Nat, end : Nat, nframes : Nat, offset : Nat]

Shows(list, blocks, k, n) ==
  /\ k \in Nat /\ n \in Nat /\ k <= n /\ n <= Len(blocks)
  /\ list \in Seq(Pieces)
  /\ Len(list) = n - k
  /\ \A i \in 1 .. n - k : list[i] = Piece(blocks[k + i])
  /\ Ordered(list)

(* Every frame up to the last has its segment, and of two frames the later *)
(* one was recorded later; the last is the newest.                         *)
InOrder(list, mem, newest) ==
  \E total \in Nat :
    /\ \A p \in Nat : LookupSegment(list, p) # 0 <=> p < total
    /\ \A p, q \in Nat : p < q /\ q < total =>
         mem[video_segment_lookup(list, p)] < mem[video_segment_lookup(list, q)]
    /\ \A p \in Nat : p + 1 = total => mem[video_segment_lookup(list, p)] = newest

LEMMA SegmentOfFrame ==
  ASSUME NEW list, Counted(list), NEW p \in Nat, p < FramesBefore(list)[Len(list)]
  PROVE  \E i \in 1 .. Len(list) : FramesBefore(list)[i - 1] <= p /\ p < FramesBefore(list)[i]
<1> DEFINE n == Len(list)
           b == FramesBefore(list)
           T == {i \in Nat : i <= n /\ p < b[i]}
<1>1. n \in Nat /\ b \in [0 .. n -> Nat] /\ b[0] = 0
  BY FramesBeforeAdds DEF Adds, Counted
<1>2. n \in T
  BY <1>1
<1>3. PICK i \in T : \A k \in T : i <= k
  <2>1. T \in SUBSET Nat /\ T # {}
    BY <1>2
  <2> HIDE DEF T
  <2> QED BY <2>1, Least
<1> HIDE DEF b
<1>4. i \in Nat /\ i <= n /\ p < b[i] /\ i # 0
  BY <1>1
<1>5. i - 1 \in Nat /\ i - 1 <= n /\ i - 1 \notin T
  BY <1>1, <1>3, <1>4
<1>6. b[i - 1] <= p
  <2>1. b[i - 1] \in Nat /\ ~(p < b[i - 1])
    BY <1>1, <1>5
  <2> QED BY <2>1
<1>7. i \in 1 .. n
  BY <1>1, <1>4
<1> QED BY <1>4, <1>6, <1>7 DEF b

LEMMA ShownTypes ==
  ASSUME NEW blocks, NEW frames \in Nat, NEW wp, NEW mem, Blocked(blocks, frames, wp, mem),
         NEW list, NEW k, NEW n, Shows(list, blocks, k, n)
  PROVE  /\ k \in Nat /\ n \in Nat /\ Len(list) = n - k /\ Len(list) \in Nat
         /\ Ordered(list) /\ Adjacent(list) /\ Counted(list)
         /\ \A i \in 1 .. n - k :
              /\ k + i \in 1 .. Len(blocks) /\ IsBlock(blocks[k + i])
              /\ list[i].start = blocks[k + i].start /\ list[i].end = blocks[k + i].end
              /\ list[i].nframes = blocks[k + i].nframes /\ list[i].offset = blocks[k + i].offset
<1>1. /\ k \in Nat /\ n \in Nat /\ k <= n /\ n <= Len(blocks) /\ Len(blocks) \in Nat
      /\ Len(list) = n - k /\ Ordered(list)
      /\ \A i \in 1 .. n - k : list[i] = Piece(blocks[k + i])
  BY DEF Shows, Blocked
<1>2. ASSUME NEW i \in 1 .. n - k
      PROVE  /\ k + i \in 1 .. Len(blocks) /\ IsBlock(blocks[k + i])
             /\ list[i].start = blocks[k + i].start /\ list[i].end = blocks[k + i].end
             /\ list[i].nframes = blocks[k + i].nframes /\ list[i].offset = blocks[k + i].offset
  <2>1. k + i \in 1 .. Len(blocks)
    BY <1>1
  <2>2. IsBlock(blocks[k + i])
    BY <2>1 DEF Blocked, Numbers
  <2>3. list[i] = Piece(blocks[k + i])
    BY <1>1
  <2> QED BY <2>1, <2>2, <2>3 DEF Piece
<1>3. Adjacent(list)
  <2> SUFFICES ASSUME NEW i \in 1 .. n - k, i + 1 \in 1 .. n - k
               PROVE  list[i + 1].start = RingAdd(list[i].end, 1)
    BY <1>1 DEF Adjacent
  <2> DEFINE m == k + i
  <2>1. m \in 1 .. Len(blocks) /\ m + 1 \in 1 .. Len(blocks) /\ k + (i + 1) = m + 1
    BY <1>1
  <2>2. list[i].end = blocks[m].end
    BY <1>2
  <2>3. list[i + 1].start = blocks[k + (i + 1)].start
    BY <1>2
  <2> HIDE DEF m
  <2>4. blocks[m + 1].start = RingAdd(blocks[m].end, 1)
    BY <2>1 DEF Blocked, Adjacent
  <2> QED BY <2>1, <2>2, <2>3, <2>4
<1>4. Len(list) \in Nat /\ Counted(list)
  BY <1>1, OrderedCounted
<1> QED BY <1>1, <1>2, <1>3, <1>4

LEMMA DistThrough ==
  ASSUME NEW h \in Addr, NEW x \in Addr, NEW a \in Addr,
         RingDist(h, x) + RingDist(x, a) < RingSize
  PROVE  RingDist(h, a) = RingDist(h, x) + RingDist(x, a)
BY RegionFacts DEF RingDist

(* A listed block is whole: a later one that took a frame from it would    *)
(* have evicted it.                                                        *)
LEMMA ListedWhole ==
  ASSUME NEW blocks, NEW frames \in Nat, NEW wp, NEW mem, Blocked(blocks, frames, wp, mem),
         NEW list, NEW k, Shows(list, blocks, k, Len(blocks)),
         NEW i \in 1 .. Len(list), NEW a, InBlock(blocks[k + i], a)
  PROVE  mem[a] = FrameAt(blocks[k + i], a)
<1> DEFINE n == Len(blocks)
<1>1. /\ k \in Nat /\ n \in Nat /\ Len(list) = n - k /\ Ordered(list)
      /\ \A j \in 1 .. n - k :
              /\ k + j \in 1 .. n /\ IsBlock(blocks[k + j])
              /\ list[j].start = blocks[k + j].start
              /\ list[j].nframes = blocks[k + j].nframes
  BY ShownTypes
<1>2. k + i \in 1 .. n /\ i \in 1 .. n - k
  BY <1>1
<1>3. \/ mem[a] = FrameAt(blocks[k + i], a)
      \/ \E j \in 1 .. n : j > k + i /\ InBlock(blocks[j], a)
  BY <1>2 DEF Blocked, InMemory
<1>4. ASSUME NEW j \in 1 .. n, j > k + i, InBlock(blocks[j], a)
      PROVE  FALSE
  <2> DEFINE m == j - k
  <2>1. m \in 1 .. n - k /\ i < m /\ k + m = j /\ 1 \in 1 .. n - k
    BY <1>1, <1>2, <1>4
  <2> HIDE DEF m
  <2> DEFINE h == list[1].start
             x == list[i].start
             y == list[m].start
  <2>2. /\ RingDist(h, x) + list[i].nframes <= RingDist(h, y)
        /\ RingDist(h, y) + list[m].nframes <= RingSize
    BY <1>1, <1>2, <2>1 DEF Ordered
  <2>3. /\ h \in Addr /\ x \in Addr /\ y \in Addr /\ a \in Addr
        /\ list[i].nframes \in Nat /\ list[m].nframes \in Nat
    <3>1. IsBlock(blocks[k + 1]) /\ IsBlock(blocks[k + i]) /\ IsBlock(blocks[k + m])
      BY <1>1, <1>2, <2>1
    <3>2. /\ blocks[k + 1].start \in Addr /\ blocks[k + i].start \in Addr /\ blocks[k + m].start \in Addr
          /\ blocks[k + i].nframes \in Nat /\ blocks[k + m].nframes \in Nat
      BY <3>1, BlockTypes
    <3> QED BY <1>1, <1>2, <2>1, <3>2 DEF InBlock
  <2>4. RingDist(x, a) < list[i].nframes /\ RingDist(y, a) < list[m].nframes
    BY <1>1, <1>2, <1>4, <2>1 DEF InBlock
  <2> HIDE DEF h, x, y
  <2>5. /\ RingDist(h, x) \in Nat /\ RingDist(h, y) \in Nat
        /\ RingDist(x, a) \in Nat /\ RingDist(y, a) \in Nat
        /\ RingSize \in Nat
    BY <2>3, RingDistType, RegionFacts
  <2>6. /\ RingDist(h, x) + RingDist(x, a) < RingSize
        /\ RingDist(h, y) + RingDist(y, a) < RingSize
        /\ RingDist(h, x) + RingDist(x, a) # RingDist(h, y) + RingDist(y, a)
    <3>1. \A hx, hy, xa, ya, p, q, r \in Nat :
            /\ hx + p <= hy /\ hy + q <= r
            /\ xa < p /\ ya < q
            => /\ hx + xa < r /\ hy + ya < r
               /\ hx + xa # hy + ya
      OBVIOUS
    <3> DEFINE hx == RingDist(h, x)
               hy == RingDist(h, y)
               xa == RingDist(x, a)
               ya == RingDist(y, a)
               p == list[i].nframes
               q == list[m].nframes
    <3>2. /\ hx \in Nat /\ hy \in Nat /\ xa \in Nat /\ ya \in Nat /\ p \in Nat /\ q \in Nat
          /\ RingSize \in Nat
          /\ hx + p <= hy /\ hy + q <= RingSize
          /\ xa < p /\ ya < q
      BY <2>2, <2>3, <2>4, <2>5
    <3> HIDE DEF hx, hy, xa, ya, p, q
    <3>3. hx + xa < RingSize /\ hy + ya < RingSize /\ hx + xa # hy + ya
      BY <3>1, <3>2
    <3> QED BY <3>3 DEF hx, hy, xa, ya
  <2>7. RingDist(h, a) = RingDist(h, x) + RingDist(x, a)
    BY <2>3, <2>6, DistThrough
  <2>8. RingDist(h, a) = RingDist(h, y) + RingDist(y, a)
    BY <2>3, <2>6, DistThrough
  <2> QED BY <2>6, <2>7, <2>8
<1> QED BY <1>3, <1>4

(* The frame that is found for a frame number.                             *)
LEMMA FrameFound ==
  ASSUME NEW blocks, NEW frames \in Nat, NEW wp, NEW mem, Blocked(blocks, frames, wp, mem),
         NEW list, NEW k, Shows(list, blocks, k, Len(blocks)),
         NEW p \in Nat, p < FramesBefore(list)[Len(list)]
  PROVE  \E i \in 1 .. Len(list) :
           /\ FramesBefore(list)[i - 1] <= p /\ p < FramesBefore(list)[i]
           /\ LookupSegment(list, p) = i
           /\ mem[video_segment_lookup(list, p)]
                = blocks[k + i].hi - blocks[k + i].nframes + 1 + (p - FramesBefore(list)[i - 1])
<1> DEFINE b == FramesBefore(list)
<1>1. /\ k \in Nat /\ Len(blocks) \in Nat /\ Len(list) = Len(blocks) - k /\ Len(list) \in Nat
      /\ Ordered(list) /\ Adjacent(list) /\ Counted(list)
      /\ \A i \in 1 .. Len(list) :
              /\ k + i \in 1 .. Len(blocks) /\ IsBlock(blocks[k + i])
              /\ list[i].start = blocks[k + i].start
              /\ list[i].nframes = blocks[k + i].nframes /\ list[i].offset = blocks[k + i].offset
  BY ShownTypes
<1>2. PICK i \in 1 .. Len(list) : b[i - 1] <= p /\ p < b[i]
  BY <1>1, SegmentOfFrame
<1>3. LookupSegment(list, p) = i
  BY <1>1, <1>2, LookupFinds
<1> DEFINE seg == blocks[k + i]
           j   == p - b[i - 1]
           a   == video_segment_lookup(list, p)
<1>4. /\ seg.nframes \in Nat /\ seg.offset \in Nat /\ seg.offset < seg.nframes /\ seg.hi \in Nat
      /\ list[i].start = seg.start /\ list[i].nframes = seg.nframes /\ list[i].offset = seg.offset
      /\ IsBlock(seg)
  BY <1>1, BlockTypes
<1>5. b[i - 1] \in Nat /\ b[i] = b[i - 1] + list[i].nframes
  BY <1>1, FrameNumbers
<1> HIDE DEF seg, b
<1>6. j \in 0 .. list[i].nframes - 1 /\ b[i - 1] + j = p /\ j \in Nat /\ j < seg.nframes
  BY <1>2, <1>4, <1>5
<1> HIDE DEF j
<1>7. /\ a \in Addr
      /\ RingDist(seg.start, a) =
           IF j + seg.offset < seg.nframes THEN j + seg.offset ELSE j + seg.offset - seg.nframes
  <2>1. LET z == video_segment_lookup(list, FramesBefore(list)[i - 1] + j)
        IN  /\ z \in Addr
            /\ RingDist(list[i].start, z) =
                 IF j + list[i].offset < list[i].nframes THEN j + list[i].offset
                 ELSE j + list[i].offset - list[i].nframes
    <3>1. list[i].offset \in Nat /\ list[i].offset < list[i].nframes
      BY <1>4
    <3> QED BY <1>1, <1>6, <3>1, LookupAt
  <2> QED BY <2>1, <1>4, <1>6 DEF b
<1> HIDE DEF a
<1>8. InBlock(seg, a) /\ FrameAt(seg, a) = seg.hi - seg.nframes + 1 + j
  <2> DEFINE d == RingDist(seg.start, a)
  <2>1. d = IF j + seg.offset < seg.nframes THEN j + seg.offset ELSE j + seg.offset - seg.nframes
    BY <1>7
  <2> HIDE DEF d
  <2>2. FrameAt(seg, a) = IF d >= seg.offset THEN seg.hi - seg.nframes + 1 + (d - seg.offset)
                          ELSE seg.hi + 1 - (seg.offset - d)
    BY DEF FrameAt, d
  <2>3. CASE j + seg.offset < seg.nframes
    <3>1. d = j + seg.offset
      BY <2>1, <2>3
    <3>2. d >= seg.offset /\ d - seg.offset = j /\ d < seg.nframes
      BY <3>1, <2>3, <1>4, <1>6
    <3> QED BY <3>2, <2>2, <1>7 DEF d, InBlock
  <2>4. CASE ~(j + seg.offset < seg.nframes)
    <3>1. d = j + seg.offset - seg.nframes
      BY <2>1, <2>4
    <3>2. ~(d >= seg.offset)
      BY <3>1, <1>4, <1>6
    <3>3. d < seg.nframes
      BY <3>1, <1>4, <1>6
    <3>4. seg.hi + 1 - (seg.offset - d) = seg.hi - seg.nframes + 1 + j
      <4>1. \A hi, o, nf, i2, z \in Int : z = i2 + o - nf => hi + 1 - (o - z) = hi - nf + 1 + i2
        OBVIOUS
      <4>2. seg.hi \in Int /\ seg.offset \in Int /\ seg.nframes \in Int /\ j \in Int /\ d \in Int
        BY <3>1, <1>4, <1>6
      <4> QED BY <3>1, <4>1, <4>2
    <3>5. FrameAt(seg, a) = seg.hi - seg.nframes + 1 + j
      BY <2>2, <3>2, <3>4
    <3> QED BY <3>3, <3>5, <1>7 DEF d, InBlock
  <2> QED BY <2>3, <2>4
<1>9. mem[a] = FrameAt(seg, a)
  BY <1>8, ListedWhole DEF seg
<1> QED BY <1>2, <1>3, <1>8, <1>9 DEF seg, a, b, j

LEMMA ShownInOrder ==
  ASSUME NEW blocks, NEW frames \in Nat, NEW wp, NEW mem, Blocked(blocks, frames, wp, mem),
         NEW list, NEW k, Shows(list, blocks, k, Len(blocks))
  PROVE  InOrder(list, mem, frames)
<1> DEFINE n == Len(list)
           b == FramesBefore(list)
           total == b[n]
           at(p) == mem[video_segment_lookup(list, p)]
           hi(i) == blocks[k + i].hi
           nf(i) == blocks[k + i].nframes
<1>1. /\ k \in Nat /\ Len(blocks) \in Nat /\ n = Len(blocks) - k /\ n \in Nat
      /\ Ordered(list) /\ Adjacent(list) /\ Counted(list)
      /\ \A i \in 1 .. n :
              /\ k + i \in 1 .. Len(blocks) /\ IsBlock(blocks[k + i])
              /\ list[i].nframes = blocks[k + i].nframes
  BY ShownTypes
<1>0. n \in Nat /\ \A i \in 1 .. n : i \in Nat /\ 1 <= i /\ i <= n
  BY <1>1
<1>2. \A i \in 1 .. n :
        /\ nf(i) \in Nat /\ nf(i) >= 1 /\ hi(i) \in Nat
        /\ b[i] = b[i - 1] + nf(i)
        /\ b[i - 1] \in Nat /\ b[i] \in Nat
        /\ \A j \in 1 .. n : i < j => b[i] <= b[j - 1]
  <2> SUFFICES ASSUME NEW i \in 1 .. n
               PROVE  /\ nf(i) \in Nat /\ nf(i) >= 1 /\ hi(i) \in Nat
                      /\ b[i] = b[i - 1] + nf(i)
                      /\ b[i - 1] \in Nat /\ b[i] \in Nat
                      /\ \A j \in 1 .. n : i < j => b[i] <= b[j - 1]
    OBVIOUS
  <2>1. nf(i) \in Nat /\ nf(i) >= 1 /\ hi(i) \in Nat
    <3>1. IsBlock(blocks[k + i])
      BY <1>1
    <3> QED BY <3>1, BlockTypes
  <2>2. /\ b[i] = b[i - 1] + list[i].nframes
        /\ b[i - 1] \in Nat /\ b[i] \in Nat
        /\ \A j \in 1 .. n : i < j => b[i] <= b[j - 1]
    BY <1>1, FrameNumbers
  <2>3. list[i].nframes = nf(i)
    BY <1>1
  <2> QED BY <2>1, <2>2, <2>3
<1>3. total \in Nat
  BY <1>1, FramesBeforeAdds DEF Adds
<1>4. ASSUME NEW p \in Nat, p < total
      PROVE  \E i \in 1 .. n :
               /\ b[i - 1] <= p /\ p < b[i] /\ LookupSegment(list, p) = i
               /\ at(p) = hi(i) - nf(i) + 1 + (p - b[i - 1])
  BY <1>4, FrameFound
<1>8. ASSUME NEW i \in 1 .. n, NEW j \in 1 .. n, i < j
      PROVE  hi(i) + nf(j) <= hi(j)
  <2>1. k + i \in 1 .. Len(blocks) /\ k + j \in 1 .. Len(blocks) /\ k + i < k + j
    BY <1>8, <1>1
  <2> QED BY <2>1 DEF Blocked, Numbers
<1>9. ASSUME n > 0
      PROVE  hi(n) = frames
  <2>1. k + n = Len(blocks) /\ Len(blocks) \in 1 .. Len(blocks)
    BY <1>9, <1>1
  <2> QED BY <2>1 DEF Blocked, Numbers
<1> HIDE DEF b, at, hi, nf
<1>10. ASSUME NEW i \in 1 .. n, NEW p \in Nat, b[i - 1] <= p, p < b[i],
              at(p) = hi(i) - nf(i) + 1 + (p - b[i - 1])
       PROVE  /\ at(p) \in Int /\ hi(i) - nf(i) < at(p) /\ at(p) <= hi(i)
              /\ p + 1 = b[i] => at(p) = hi(i)
  <2> DEFINE x == b[i - 1]
             y == b[i]
             h == hi(i)
             f == nf(i)
             z == at(p)
  <2>1. x \in Nat /\ y \in Nat /\ h \in Nat /\ f \in Nat /\ y = x + f /\ x <= p /\ p < y
    BY <1>2, <1>10
  <2>2. z = h - f + 1 + (p - x)
    BY <1>10
  <2> HIDE DEF x, y, h, f, z
  <2>3. z \in Int /\ h - f < z /\ z <= h /\ (p + 1 = y => z = h)
    BY <2>1, <2>2
  <2> QED BY <2>3 DEF x, y, h, f, z
<1>5. ASSUME NEW p \in Nat
      PROVE  LookupSegment(list, p) # 0 <=> p < total
  <2>1. CASE p < total
    <3>1. PICK i \in 1 .. n : LookupSegment(list, p) = i
      BY <2>1, <1>4
    <3> QED BY <2>1, <3>1
  <2>2. CASE ~(p < total)
    <3>1. ASSUME NEW i \in 1 .. n, p < b[i]
          PROVE  FALSE
      <4>1. b[i] <= total
        <5>1. CASE i = n
          BY <5>1, <1>2
        <5>2. CASE i # n
          <6>1. n \in 1 .. n /\ i < n
            BY <5>2, <1>0
          <6>2. b[i] <= b[n - 1] /\ b[n] = b[n - 1] + nf(n) /\ nf(n) \in Nat
                /\ b[i] \in Nat /\ b[n - 1] \in Nat
            BY <6>1, <1>2
          <6> QED BY <6>2
        <5> QED BY <5>1, <5>2
      <4>2. b[i] \in Nat
        BY <1>2
      <4> QED BY <4>1, <4>2, <3>1, <2>2, <1>3
    <3>2. {i \in 1 .. n : b[i - 1] <= p /\ p < b[i]} = {}
      BY <3>1
    <3>3. LookupSegment(list, p) = 0
      BY <3>2 DEF LookupSegment, b
    <3> QED BY <3>3, <2>2
  <2> QED BY <2>1, <2>2
<1>6. ASSUME NEW p \in Nat, NEW q \in Nat, p < q, q < total
      PROVE  at(p) < at(q)
  <2>1. p < total
    BY <1>3, <1>6
  <2>2. PICK i \in 1 .. n :
               /\ b[i - 1] <= p /\ p < b[i]
               /\ at(p) = hi(i) - nf(i) + 1 + (p - b[i - 1])
    BY <2>1, <1>4
  <2>3. PICK j \in 1 .. n :
               /\ b[j - 1] <= q /\ q < b[j]
               /\ at(q) = hi(j) - nf(j) + 1 + (q - b[j - 1])
    BY <1>6, <1>4
  <2>4. /\ b[i - 1] \in Nat /\ b[j - 1] \in Nat /\ b[j] \in Nat
        /\ b[i] = b[i - 1] + nf(i)
        /\ hi(i) \in Nat /\ nf(i) \in Nat
        /\ hi(j) \in Nat /\ nf(j) \in Nat
    BY <1>2
  <2>5. ~(j < i)
    <3> SUFFICES ASSUME j < i PROVE FALSE
      OBVIOUS
    <3> DEFINE x == b[j]
               y == b[i - 1]
    <3>1. x <= y /\ x \in Nat /\ y \in Nat
      BY <1>2
    <3>2. y <= p /\ q < x
      BY <2>2, <2>3
    <3> HIDE DEF x, y
    <3>3. FALSE
      BY <3>1, <3>2, <1>6
    <3> QED BY <3>3
  <2>6. CASE i = j
    BY <2>6, <2>2, <2>3, <2>4, <1>6
  <2>7. CASE i < j
    <3> DEFINE u == at(p)
               v == at(q)
    <3>1. /\ u \in Int /\ u <= hi(i) /\ v \in Int /\ hi(j) - nf(j) < v
          /\ hi(i) + nf(j) <= hi(j)
      <4>1. at(p) \in Int /\ at(p) <= hi(i)
        BY <2>2, <1>10
      <4>2. at(q) \in Int /\ hi(j) - nf(j) < at(q)
        BY <2>3, <1>10
      <4> QED BY <4>1, <4>2, <2>7, <1>8
    <3> HIDE DEF u, v
    <3>2. u < v
      BY <3>1, <2>4
    <3> QED BY <3>2 DEF u, v
  <2>8. i < j \/ i = j \/ j < i
    OBVIOUS
  <2> QED BY <2>5, <2>6, <2>7, <2>8
<1>7. ASSUME NEW p \in Nat, p + 1 = total
      PROVE  at(p) = frames
  <2>1. p < total
    BY <1>7
  <2>2. PICK i \in 1 .. n :
               /\ b[i - 1] <= p /\ p < b[i]
               /\ at(p) = hi(i) - nf(i) + 1 + (p - b[i - 1])
    BY <2>1, <1>4
  <2>3. CASE i = n
    <3>1. p + 1 = b[i] /\ n > 0
      BY <2>3, <1>7
    <3>2. at(p) = hi(i)
      BY <3>1, <2>2, <1>10
    <3> QED BY <3>1, <3>2, <2>3, <1>9
  <2>4. CASE i # n
    <3>1. n \in 1 .. n /\ i < n
      BY <2>4, <1>0
    <3> DEFINE x == b[n - 1]
               y == b[n]
               z == b[i]
    <3>2. z <= x /\ y = x + nf(n) /\ z \in Nat /\ x \in Nat /\ nf(n) \in Nat /\ nf(n) >= 1
      BY <3>1, <1>2
    <3>3. p < z /\ p + 1 = y
      BY <2>2, <1>7
    <3> HIDE DEF x, y, z
    <3>4. FALSE
      BY <3>2, <3>3
    <3> QED BY <3>4
  <2> QED BY <2>3, <2>4
<1> QED BY <1>3, <1>5, <1>6, <1>7 DEF InOrder, at

-----------------------------------------------------------------------------
(* The table.  Of b blocks reported, those within the region are the first *)
(* c[b] of the blocks.                                                     *)
Outside(entry) == entry.start \notin Addr

EntryOf(entry, seg) ==
  /\ entry.start = seg.start
  /\ entry.end = seg.end
  /\ entry.last \in Addr
  /\ NewestSegment(entry) = Piece(seg)

Reported(entry, b, c, blocks) ==
  /\ entry.no = b
  /\ \/ Outside(entry) /\ c[b + 1] = c[b]
     \/ c[b + 1] = c[b] + 1 /\ EntryOf(entry, blocks[c[b + 1]])

Tabled(blocks, c, data, blockno) ==
  /\ blockno \in Nat
  /\ c \in [0 .. blockno -> 0 .. Len(blocks)]
  /\ c[blockno] = Len(blocks)
  /\ \A b \in 0 .. blockno - 1 : blockno <= b + Blocks => Reported(data[b % Blocks], b, c, blocks)
  /\ \A i \in 0 .. Blocks - 1 : i >= blockno => Outside(data[i])

LEMMA BlocksType == Blocks \in Nat /\ Blocks >= 1
BY RecoverAssumption

LEMMA ModApart ==
  ASSUME NEW b \in Nat, NEW n \in Nat, b < n, n < b + Blocks
  PROVE  b % Blocks # n % Blocks
<1> DEFINE B == Blocks
           p == b \div B
           q == n \div B
<1>1. B \in Nat /\ B >= 1
  BY BlocksType
<1> HIDE DEF B
<1>2. p \in Int /\ q \in Int /\ b = B * p + (b % B) /\ n = B * q + (n % B)
      /\ b % B \in Int /\ n % B \in Int
  BY <1>1
<1> HIDE DEF p, q
<1> SUFFICES ASSUME b % B = n % B
             PROVE  FALSE
  BY DEF B
<1>3. n - b = B * q - B * p
  BY <1>1, <1>2
<1>4. B * q - B * p = B * (q - p)
  BY <1>1, <1>2
<1> DEFINE d == q - p
<1>5. d \in Int /\ B * d > 0 /\ B * d < B
  BY <1>1, <1>2, <1>3, <1>4 DEF B
<1> HIDE DEF d
<1> DEFINE m == B * d
<1>8. m \in Int
  BY <1>1, <1>5
<1>6. CASE d <= 0
  <2>1. m <= 0
    BY <1>1, <1>5, <1>6
  <2> HIDE DEF m
  <2> QED BY <2>1, <1>5, <1>8 DEF m
<1>7. CASE d >= 1
  <2>1. m >= B
    BY <1>1, <1>5, <1>7
  <2>2. m < B
    BY <1>5
  <2> HIDE DEF m
  <2> QED BY <2>1, <2>2, <1>1, <1>8
<1> QED BY <1>5, <1>6, <1>7

LEMMA ModType ==
  ASSUME NEW n \in Nat
  PROVE  n % Blocks \in 0 .. Blocks - 1 /\ n % Blocks <= n /\ (n < Blocks => n % Blocks = n)
BY BlocksType

Counts(c, blockno, total) == [b \in 0 .. blockno + 1 |-> IF b = blockno + 1 THEN total ELSE c[b]]

LEMMA TableGrows ==
  ASSUME NEW blocks, NEW c, NEW data, NEW blockno, Tabled(blocks, c, data, blockno),
         Len(blocks) \in Nat, NEW new, NEW entry, entry.no = blockno,
         \/ new = blocks /\ Outside(entry)
         \/ \E seg : Grows(blocks, new, seg) /\ EntryOf(entry, seg),
         NEW data2, data2[blockno % Blocks] = entry,
         \A i \in 0 .. Blocks - 1 : i # blockno % Blocks => data2[i] = data[i]
  PROVE  Tabled(new, Counts(c, blockno, Len(new)), data2, blockno + 1)
<1> DEFINE d == Counts(c, blockno, Len(new))
           n == Len(blocks)
<1>1. /\ blockno \in Nat /\ c \in [0 .. blockno -> 0 .. n] /\ c[blockno] = n /\ n \in Nat
  BY DEF Tabled
<1>2. /\ Len(new) \in Nat /\ n <= Len(new)
      /\ \A i \in 1 .. n : new[i] = blocks[i]
  <2>1. CASE new = blocks
    BY <2>1, <1>1
  <2>2. CASE \E seg : Grows(blocks, new, seg)
    BY <2>2, <1>1 DEF Grows
  <2> QED BY <2>1, <2>2
<1>3. /\ d \in [0 .. blockno + 1 -> 0 .. Len(new)]
      /\ d[blockno + 1] = Len(new)
      /\ \A b \in 0 .. blockno : d[b] = c[b]
  BY <1>1, <1>2 DEF Counts
<1> HIDE DEF d
<1>4. ASSUME NEW b \in 0 .. blockno, blockno + 1 <= b + Blocks
      PROVE  Reported(data2[b % Blocks], b, d, new)
  <2>1. CASE b = blockno
    <3>1. data2[b % Blocks] = entry /\ d[b] = n /\ d[b + 1] = Len(new)
      BY <2>1, <1>1, <1>3
    <3>2. CASE new = blocks /\ Outside(entry)
      BY <2>1, <3>1, <3>2 DEF Reported
    <3>3. CASE \E seg : Grows(blocks, new, seg) /\ EntryOf(entry, seg)
      <4>1. Len(new) = n + 1 /\ EntryOf(entry, new[n + 1])
        BY <3>3 DEF Grows
      <4> QED BY <2>1, <3>1, <4>1 DEF Reported
    <3> QED BY <3>2, <3>3
  <2>2. CASE b # blockno
    <3>1. b \in 0 .. blockno - 1 /\ b \in Nat /\ b < blockno /\ blockno < b + Blocks /\ blockno <= b + Blocks
          /\ b + 1 \in 0 .. blockno
      BY <1>1, <1>4, <2>2, BlocksType
    <3>2. data2[b % Blocks] = data[b % Blocks]
      <4>1. b % Blocks # blockno % Blocks
        BY <3>1, <1>1, ModApart
      <4>2. b % Blocks \in 0 .. Blocks - 1
        BY <3>1, ModType
      <4> QED BY <4>1, <4>2
    <3>3. Reported(data[b % Blocks], b, c, blocks)
      BY <3>1 DEF Tabled
    <3>4. d[b] = c[b] /\ d[b + 1] = c[b + 1] /\ c[b] \in 0 .. n /\ c[b + 1] \in 0 .. n
      BY <3>1, <1>1, <1>3
    <3> DEFINE e == data[b % Blocks]
    <3> HIDE DEF e
    <3>5. CASE Outside(e) /\ c[b + 1] = c[b]
      BY <3>2, <3>3, <3>4, <3>5 DEF Reported, e
    <3>6. CASE c[b + 1] = c[b] + 1 /\ EntryOf(e, blocks[c[b + 1]])
      <4>1. c[b + 1] \in 1 .. n
        BY <3>4, <3>6
      <4>2. new[c[b + 1]] = blocks[c[b + 1]]
        BY <4>1, <1>2
      <4> QED BY <3>2, <3>3, <3>4, <3>6, <4>2 DEF Reported, e
    <3> QED BY <3>3, <3>5, <3>6 DEF Reported, e
  <2> QED BY <2>1, <2>2
<1>5. ASSUME NEW i \in 0 .. Blocks - 1, i >= blockno + 1
      PROVE  Outside(data2[i])
  <2>1. blockno % Blocks <= blockno /\ blockno % Blocks \in Int
    BY <1>1, ModType
  <2>2. i # blockno % Blocks /\ i >= blockno
    BY <1>1, <1>5, <2>1
  <2> QED BY <2>2 DEF Tabled
<1> QED BY <1>1, <1>3, <1>4, <1>5 DEF Tabled, d

-----------------------------------------------------------------------------
(* What is found in the table.                                             *)
LEMMA EvictsSome ==
  ASSUME NEW list, Len(list) \in Nat, NEW seg
  PROVE  \E k \in 0 .. Len(list) : Evicts(list, seg, k)
<1> DEFINE T == {j \in Nat : j < Len(list) => ~video_segment_overlap(seg, list[j + 1])}
<1>1. T \in SUBSET Nat /\ Len(list) \in T
  OBVIOUS
<1>2. PICK m \in T : \A j \in T : m <= j
  <2> HIDE DEF T
  <2> QED BY <1>1, Least
<1>3. m \in Nat /\ m <= Len(list)
  BY <1>1, <1>2
<1>4. ASSUME NEW i \in 1 .. m
      PROVE  video_segment_overlap(seg, list[i])
  <2>1. i - 1 \in Nat /\ i - 1 \notin T
    <3>1. i - 1 \in Nat /\ ~(m <= i - 1)
      BY <1>3
    <3> HIDE DEF T
    <3> QED BY <3>1, <1>2
  <2>2. i - 1 + 1 = i
    OBVIOUS
  <2> QED BY <2>1, <2>2
<1>5. m < Len(list) => ~video_segment_overlap(seg, list[m + 1])
  OBVIOUS
<1> QED BY <1>3, <1>4, <1>5 DEF Evicts

LEMMA LinkShows ==
  ASSUME NEW blocks, NEW frames \in Nat, NEW wp, NEW mem, Blocked(blocks, frames, wp, mem),
         NEW list, NEW k, NEW n, Shows(list, blocks, k, n), n < Len(blocks)
  PROVE  \E j : Shows(video_segment_add(list, Piece(blocks[n + 1])), blocks, j, n + 1)
<1> DEFINE seg == Piece(blocks[n + 1])
           size == Len(list)
           e == CHOOSE e \in 0 .. size : Evicts(list, seg, e)
           new == Linked(list, seg, e)
<1>1. /\ k \in Nat /\ n \in Nat /\ k <= n /\ size = n - k /\ size \in Nat
      /\ Ordered(list) /\ list \in Seq(Pieces)
      /\ \A i \in 1 .. n - k : list[i] = Piece(blocks[k + i])
      /\ Len(blocks) \in Nat /\ n + 1 \in 1 .. Len(blocks)
  BY DEF Shows, Blocked
<1>2. IsBlock(blocks[n + 1])
  BY <1>1 DEF Blocked, Numbers
<1>3. /\ seg.start = blocks[n + 1].start /\ seg.end = blocks[n + 1].end
      /\ seg.nframes = blocks[n + 1].nframes /\ seg.offset = blocks[n + 1].offset
  BY DEF Piece
<1>4. seg \in Pieces
  <2> DEFINE x == blocks[n + 1]
  <2>1. x.start \in Addr /\ x.end \in Addr /\ x.nframes \in Nat /\ x.offset \in Nat
    BY <1>2, BlockTypes
  <2>2. x.start \in Nat /\ x.end \in Nat
    BY <2>1, RegionFacts
  <2> HIDE DEF x
  <2>3. Piece(x) \in Pieces
    BY <2>1, <2>2 DEF Piece, Pieces
  <2> QED BY <2>3 DEF x
<1>5. Stretch(seg)
  BY <1>2, <1>3 DEF IsBlock, Stretch
<1>6. ASSUME list # <<>>
      PROVE  seg.start = RingAdd(list[size].end, 1)
  <2>1. size \in 1 .. n - k /\ k + size = n /\ n \in 1 .. Len(blocks)
    BY <1>1, <1>6
  <2>2. list[size].end = blocks[n].end
    <3>1. list[size] = Piece(blocks[n])
      <4>1. \A i \in 1 .. n - k : list[i] = Piece(blocks[k + i])
        BY <1>1
      <4> HIDE DEF size
      <4> QED BY <2>1, <4>1
    <3> QED BY <3>1 DEF Piece
  <2>3. blocks[n + 1].start = RingAdd(blocks[n].end, 1)
    BY <2>1, <1>1 DEF Blocked, Adjacent
  <2> QED BY <2>2, <2>3, <1>3
<1> HIDE DEF seg
<1>7. e \in 0 .. size /\ Evicts(list, seg, e)
  BY <1>1, EvictsSome
<1> HIDE DEF e
<1>8. /\ new \in Seq(Pieces) /\ Ordered(new)
  BY <1>1, <1>4, <1>5, <1>6, <1>7, LinkedOrdered
<1>9. /\ Linked(list, seg, e) \in Seq(Pieces)
      /\ Len(new) = size - e + 1
      /\ \A i \in 1 .. size - e : new[i] = list[i + e]
      /\ new[size - e + 1] = seg
  <2>1. list \in Seq(Pieces) /\ seg \in Pieces /\ e \in 0 .. Len(list)
    BY <1>1, <1>4, <1>7
  <2> QED BY <2>1, LinkedIndex, ZenonT(30)
<1>10. video_segment_add(list, seg) = new
  BY DEF video_segment_add, e
<1> HIDE DEF new
<1> DEFINE j == k + e
<1>11. j \in Nat /\ j <= n + 1 /\ size - e + 1 = n + 1 - j /\ e \in Nat
  BY <1>1, <1>7
<1>12. ASSUME NEW i \in 1 .. n + 1 - j
       PROVE  new[i] = Piece(blocks[j + i])
  <2>1. CASE i = n + 1 - j
    <3>1. j + i = n + 1 /\ i = size - e + 1
      BY <2>1, <1>1, <1>11
    <3> QED BY <3>1, <1>9 DEF seg
  <2>2. CASE i # n + 1 - j
    <3>1. i \in 1 .. size - e /\ i + e \in 1 .. n - k /\ k + (i + e) = j + i
      BY <2>2, <1>1, <1>7, <1>11
    <3>2. new[i] = list[i + e] /\ list[i + e] = Piece(blocks[k + (i + e)])
      BY <3>1, <1>1, <1>9
    <3> QED BY <3>1, <3>2
  <2> QED BY <2>1, <2>2
<1> HIDE DEF j
<1>13. Shows(new, blocks, j, n + 1)
  BY <1>1, <1>8, <1>9, <1>11, <1>12 DEF Shows
<1> QED BY <1>10, <1>13 DEF seg

(* One entry of the table, in the order they are read.                     *)
Added(list, i) ==
  LET entry == sequencer.data[TableOrder(OldestBlock, i)]
  IN  IF SaneEntry(entry, OldestBlock)
      THEN video_segment_add(list, NewestSegment(entry)) ELSE list

(* Of the blocks, those reported before the i-th entry from the oldest.    *)
UpTo(c, i) ==
  c[IF OldestBlock + i <= sequencer.blockno THEN OldestBlock + i ELSE sequencer.blockno]

LEMMA EntryShows ==
  ASSUME NEW blocks, NEW frames \in Nat, NEW wp, NEW mem, Blocked(blocks, frames, wp, mem),
         NEW c, Tabled(blocks, c, sequencer.data, sequencer.blockno),
         NEW i \in 0 .. Blocks - 1, NEW list, NEW k,
         Shows(list, blocks, k, UpTo(c, i))
  PROVE  \E j : Shows(Added(list, i), blocks, j, UpTo(c, i + 1))
<1> DEFINE blockno == sequencer.blockno
           start == OldestBlock
           b == start + i
           e == sequencer.data[b % Blocks]
<1>1. /\ blockno \in Nat /\ Blocks \in Nat /\ Blocks >= 1
      /\ c \in [0 .. blockno -> 0 .. Len(blocks)] /\ Len(blocks) \in Nat
  BY BlocksType DEF Tabled, Blocked
<1>2. /\ start \in Nat /\ start <= blockno /\ blockno <= start + Blocks
      /\ start > 0 => start + Blocks = blockno
  BY <1>1 DEF OldestBlock
<1>3. Added(list, i) = IF SaneEntry(e, start)
                       THEN video_segment_add(list, NewestSegment(e)) ELSE list
  BY DEF Added, TableOrder
<1>4. UpTo(c, i) = c[IF b <= blockno THEN b ELSE blockno]
  BY DEF UpTo
<1>5. UpTo(c, i + 1) = c[IF b + 1 <= blockno THEN b + 1 ELSE blockno]
  <2>1. start + (i + 1) = b + 1
    BY <1>2
  <2> QED BY <2>1 DEF UpTo
<1> HIDE DEF start
<1>6. CASE b < blockno
  <2>1. /\ b \in 0 .. blockno - 1 /\ blockno <= b + Blocks /\ b \in Nat
        /\ b <= blockno /\ b + 1 <= blockno
    BY <1>1, <1>2, <1>6
  <2>2. UpTo(c, i) = c[b] /\ UpTo(c, i + 1) = c[b + 1]
    BY <1>4, <1>5, <2>1
  <2>3. Reported(e, b, c, blocks)
    BY <2>1 DEF Tabled
  <2> HIDE DEF e, b
  <2>4. CASE Outside(e) /\ c[b + 1] = c[b]
    <3>1. ~SaneEntry(e, start)
      BY <2>4 DEF Outside, SaneEntry
    <3> QED BY <3>1, <2>2, <2>4, <1>3
  <2>5. CASE c[b + 1] = c[b] + 1 /\ EntryOf(e, blocks[c[b + 1]])
    <3> DEFINE n == c[b]
    <3>1. n \in Nat /\ c[b + 1] = n + 1 /\ n + 1 \in 1 .. Len(blocks) /\ n < Len(blocks)
      <4>1. c[b] \in 0 .. Len(blocks) /\ c[b + 1] \in 0 .. Len(blocks)
        BY <1>1, <2>1
      <4> QED BY <4>1, <2>5, <1>1
    <3>2. IsBlock(blocks[n + 1])
      BY <3>1 DEF Blocked, Numbers
    <3>3. e.start \in Addr /\ e.end \in Addr /\ e.last \in Addr
          /\ NewestSegment(e) = Piece(blocks[n + 1])
      BY <3>1, <3>2, <2>5, BlockTypes DEF EntryOf
    <3>4. SaneEntry(e, start)
      <4>1. e.no = b /\ start <= b /\ b <= blockno
        BY <2>1, <2>3, <1>2 DEF Reported, b
      <4> QED BY <3>3, <4>1 DEF SaneEntry
    <3>5. Shows(list, blocks, k, n)
      BY <2>2
    <3> HIDE DEF n
    <3>6. \E j : Shows(video_segment_add(list, Piece(blocks[n + 1])), blocks, j, n + 1)
      BY <3>1, <3>5, LinkShows
    <3> QED BY <3>1, <3>3, <3>4, <3>6, <1>3, <2>2
  <2> QED BY <2>3, <2>4, <2>5 DEF Reported
<1>7. CASE ~(b < blockno)
  <2>1. start = 0 /\ b = i /\ i >= blockno /\ b \in Nat /\ b < Blocks
    BY <1>1, <1>2, <1>7
  <2>2. b % Blocks = i
    BY <2>1, ModType
  <2>3. ~SaneEntry(e, start)
    BY <2>1, <2>2 DEF Tabled, Outside, SaneEntry
  <2>4. UpTo(c, i) = c[blockno] /\ UpTo(c, i + 1) = c[blockno]
    <3>1. ~(b + 1 <= blockno) /\ (b <= blockno => b = blockno)
      BY <1>1, <2>1
    <3> HIDE DEF b
    <3> QED BY <3>1, <1>4, <1>5
  <2> QED BY <2>3, <2>4, <1>3
<1> QED BY <1>6, <1>7

(* Once all entries are read the list is of the last blocks recorded.      *)
LEMMA AllRead ==
  ASSUME NEW blocks, NEW c, Tabled(blocks, c, sequencer.data, sequencer.blockno)
  PROVE  UpTo(c, Blocks) = Len(blocks)
<1>1. /\ sequencer.blockno \in Nat /\ Blocks \in Nat
      /\ c[sequencer.blockno] = Len(blocks)
  BY BlocksType DEF Tabled
<1>2. /\ OldestBlock + Blocks >= sequencer.blockno
      /\ OldestBlock + Blocks <= sequencer.blockno => OldestBlock + Blocks = sequencer.blockno
  BY <1>1 DEF OldestBlock
<1> QED BY <1>1, <1>2 DEF UpTo

-----------------------------------------------------------------------------
(* The sequencer's block is one more of the blocks.                        *)
ResidueOf(j, size) == IF j < size THEN j ELSE j - size

LEMMA Residue ==
  ASSUME NEW size \in Nat, NEW j \in Nat, size >= 1, j < 2 * size
  PROVE  j % size = ResidueOf(j, size)
<1>1. CASE j < size
  BY <1>1 DEF ResidueOf
<1>2. CASE ~(j < size)
  <2> DEFINE r == j - size
  <2>1. r \in Nat /\ r < size /\ j = r + size
    BY <1>2
  <2>2. (r + size) % size = r
    BY <2>1
  <2> QED BY <1>2, <2>1, <2>2 DEF ResidueOf
<1> QED BY <1>1, <1>2

(* The segment of a block of m frames in the room of size.                 *)
BlockOf(size, m) ==
  LET wp   == sequencer.wp
      used == IF m > size THEN size ELSE m
      end  == RingAdd(wp, used - 1)
      last == RingAdd(wp, (m - 1) % size)
  IN  [start |-> wp, end |-> end, nframes |-> used,
       offset |-> SegmentOffset(wp, end, last), hi |-> sequencer.frames + m]

SequencerOK ==
  /\ sequencer = [frames |-> sequencer.frames, wp |-> sequencer.wp,
                  blockno |-> sequencer.blockno, data |-> sequencer.data]
  /\ sequencer.frames \in Nat /\ sequencer.frames <= MaxRecorded
  /\ sequencer.wp \in Addr
  /\ sequencer.blockno \in Nat
  /\ sequencer.data = [i \in 0 .. Blocks - 1 |-> sequencer.data[i]]
  /\ vram \in [Addr -> Nat]

LEMMA BlockRecorded ==
  ASSUME SequencerOK, NEW size \in Sizes, NEW m \in 1 .. 2 * size, RecordBlock(size, m)
  PROVE  LET seg == BlockOf(size, m) IN
         /\ SequencerOK'
         /\ IsBlock(seg) /\ seg.start = sequencer.wp
         /\ seg.hi = sequencer'.frames /\ sequencer.frames + seg.nframes <= seg.hi
         /\ sequencer'.wp = RingAdd(seg.end, 1)
         /\ Written(vram, vram', seg)
         /\ sequencer'.blockno = sequencer.blockno + 1
         /\ EntryOf(sequencer'.data[sequencer.blockno % Blocks], seg)
         /\ sequencer'.data[sequencer.blockno % Blocks].no = sequencer.blockno
         /\ \A i \in 0 .. Blocks - 1 :
              i # sequencer.blockno % Blocks => sequencer'.data[i] = sequencer.data[i]
<1> DEFINE seg  == BlockOf(size, m)
           wp   == sequencer.wp
           used == IF m > size THEN size ELSE m
           l    == ResidueOf(m - 1, size)
           end  == RingAdd(wp, used - 1)
           last == RingAdd(wp, l)
           e    == [start |-> wp, end |-> end, last |-> last, no |-> sequencer.blockno]
           b    == sequencer.blockno % Blocks
           old  == sequencer.frames
<1>1. /\ wp \in Addr /\ old \in Nat /\ sequencer.blockno \in Nat /\ vram \in [Addr -> Nat]
      /\ b \in 0 .. Blocks - 1
  BY ModType DEF SequencerOK
<1>2. /\ size \in Nat /\ size >= 1 /\ size <= RingSize /\ m \in Nat /\ m >= 1 /\ m <= 2 * size
  BY RecoverAssumption, RegionFacts
<1>3. \A k \in 1 .. m : (k - 1) % size = ResidueOf(k - 1, size)
  BY <1>2, Residue
<1>4. /\ used \in Nat /\ used >= 1 /\ used <= size /\ used <= m
      /\ l \in Nat /\ l < used
      /\ \/ used = m /\ l = used - 1 /\ m <= size
         \/ used = size /\ l = m - size - 1 /\ m > size
  BY <1>2 DEF ResidueOf
<1>5. (m - 1) % size = l
  BY <1>2, <1>3
<1> HIDE DEF used, l
<1>6. /\ end \in Addr /\ last \in Addr
      /\ RingDist(wp, end) = used - 1 /\ RingDist(wp, last) = l
  <2> SUFFICES ASSUME NEW u \in {used - 1, l}
               PROVE  RingAdd(wp, u) \in Addr /\ RingDist(wp, RingAdd(wp, u)) = u
    OBVIOUS
  <2>1. u \in Int /\ 0 <= u /\ u < RingSize /\ u <= RingSize
    BY <1>2, <1>4, RegionFacts
  <2>2. RingAdd(wp, u) \in Addr
    BY <1>1, <2>1, RingAddType
  <2>3. RingDist(wp, RingAdd(wp, u)) = u
    BY <1>1, <2>1, RingDistAdd
  <2> QED BY <2>2, <2>3
<1>7. seg = [start |-> wp, end |-> end, nframes |-> used,
             offset |-> SegmentOffset(wp, end, last), hi |-> old + m]
  BY <1>5 DEF BlockOf, used
<1> HIDE DEF end, last, seg
<1>8. /\ seg.start = wp /\ seg.end = end /\ seg.nframes = used /\ seg.hi = old + m
      /\ seg.offset = IF l = used - 1 THEN 0 ELSE l + 1
  <2>1. SegmentOffset(wp, end, last) = IF l = used - 1 THEN 0 ELSE l + 1
    <3>1. RingDist(wp, last) <= RingDist(wp, end)
      BY <1>4, <1>6
    <3>2. SegmentOffset(wp, end, last) =
           IF RingDist(wp, last) = RingDist(wp, end) THEN 0 ELSE RingDist(wp, last) + 1
      BY <1>1, <1>6, <3>1, OffsetDist
    <3> QED BY <1>6, <3>2
  <2> QED BY <2>1, <1>7
<1>9. IsBlock(seg) /\ old + seg.nframes <= seg.hi
  <2>1. Stretch(seg)
    <3>1. RingDist(wp, end) + 1 = used
      BY <1>4, <1>6
    <3> QED BY <3>1, <1>1, <1>6, <1>8 DEF Stretch
  <2>2. seg.offset \in Nat /\ seg.offset < seg.nframes
    <3>1. CASE l = used - 1
      BY <3>1, <1>4, <1>8
    <3>2. CASE l # used - 1
      <4>1. seg.offset = l + 1
        BY <3>2, <1>8
      <4> QED BY <4>1, <3>2, <1>4, <1>8
    <3> QED BY <3>1, <3>2
  <2>3. seg.hi \in Nat /\ seg.nframes <= seg.hi /\ old + seg.nframes <= seg.hi
    BY <1>1, <1>2, <1>4, <1>8
  <2> QED BY <2>1, <2>2, <2>3 DEF IsBlock
<1>10. /\ sequencer' = [[sequencer EXCEPT !.blockno = @ + 1, !.data[b] = e]
                          EXCEPT !.frames = @ + m, !.wp = RingAdd(end, 1)]
       /\ old + m <= MaxRecorded
       /\ vram' = [a \in Addr |->
                    LET ks == {k \in 1 .. m : RingAdd(wp, (k - 1) % size) = a /\ k + size > m}
                    IN  IF ks = {} THEN vram[a] ELSE old + CHOOSE k \in ks : TRUE]
  BY <1>5 DEF RecordBlock, Post, end, last, used
<1> HIDE DEF e, b
<1>11. /\ sequencer'.blockno = sequencer.blockno + 1
       /\ sequencer'.frames = old + m
       /\ sequencer'.wp = RingAdd(end, 1)
       /\ sequencer'.data = [sequencer.data EXCEPT ![b] = e]
       /\ sequencer' = [frames |-> sequencer'.frames, wp |-> sequencer'.wp,
                        blockno |-> sequencer'.blockno, data |-> sequencer'.data]
  <2>1. sequencer = [frames |-> old, wp |-> wp,
                     blockno |-> sequencer.blockno, data |-> sequencer.data]
    BY DEF SequencerOK
  <2> QED BY <1>10, <2>1
<1>12. /\ sequencer'.data = [i \in 0 .. Blocks - 1 |-> sequencer'.data[i]]
       /\ sequencer'.data[b] = e
       /\ \A i \in 0 .. Blocks - 1 : i # b => sequencer'.data[i] = sequencer.data[i]
  <2>1. sequencer.data = [i \in 0 .. Blocks - 1 |-> sequencer.data[i]]
    BY DEF SequencerOK
  <2> QED BY <1>1, <1>11, <2>1
<1>13. e.no = sequencer.blockno /\ EntryOf(e, seg)
  <2>1. e.start = wp /\ e.end = end /\ e.last = last /\ e.no = sequencer.blockno
    BY DEF e
  <2>2. SegmentLength(wp, end) = used
    BY <1>1, <1>4, <1>6, LengthDist
  <2>3. seg.offset = SegmentOffset(wp, end, last)
    BY <1>7
  <2> QED BY <2>1, <2>2, <2>3, <1>6, <1>8 DEF EntryOf, NewestSegment, Piece
<1>14. ASSUME NEW a \in Addr
       PROVE  /\ vram'[a] = IF InBlock(seg, a) THEN FrameAt(seg, a) ELSE vram[a]
              /\ vram'[a] \in Nat
  <2> DEFINE d == RingDist(wp, a)
             ks == {k \in 1 .. m : RingAdd(wp, (k - 1) % size) = a /\ k + size > m}
             at == IF d + size < m THEN d + size + 1 ELSE d + 1
  <2>1. d \in Nat /\ d < RingSize
    BY <1>1, RingDistType
  <2>2. InBlock(seg, a) <=> d < used
    BY <1>8 DEF InBlock
  <2>3. vram'[a] = IF ks = {} THEN vram[a] ELSE old + CHOOSE k \in ks : TRUE
    BY <1>10
  <2>4. ASSUME NEW k \in 1 .. m, k + size > m
        PROVE  RingAdd(wp, (k - 1) % size) = a <=> d < used /\ k = at
    <3> DEFINE r == ResidueOf(k - 1, size)
    <3>1. r \in Nat /\ r < size /\ r < used /\ k \in Nat
      BY <1>2, <1>4, <2>4 DEF ResidueOf
    <3>2. RingAdd(wp, r) = a <=> r = d
      <4>1. r \in Int /\ 0 <= r /\ r < RingSize
        BY <3>1, <1>2, RegionFacts
      <4>2. RingDist(wp, RingAdd(wp, r)) = r
        BY <1>1, <4>1, RingDistAdd
      <4>3. RingAdd(wp, d) = a
        BY <1>1, RegionFacts DEF RingAdd, RingDist
      <4> QED BY <4>2, <4>3
    <3>3. r = d <=> d < used /\ k = at
      BY <1>2, <1>4, <2>1, <2>4, <3>1 DEF ResidueOf
    <3> QED BY <1>3, <3>2, <3>3
  <2>5. CASE d < used
    <3>1. at \in 1 .. m /\ at + size > m
      BY <1>2, <1>4, <2>1, <2>5
    <3>2. ks = {at}
      BY <3>1, <2>4, <2>5
    <3>3. vram'[a] = old + at
      BY <2>3, <3>2
    <3> HIDE DEF ks, d
    <3>4. FrameAt(seg, a) = IF d >= seg.offset
                        THEN seg.hi - seg.nframes + 1 + (d - seg.offset)
                        ELSE seg.hi + 1 - (seg.offset - d)
      BY <1>8 DEF FrameAt, d
    <3>5. FrameAt(seg, a) = old + at
      <4>1. /\ seg.hi = old + m /\ seg.nframes = used
            /\ seg.offset = IF l = used - 1 THEN 0 ELSE l + 1
            /\ old \in Nat /\ size \in Nat /\ m \in Nat /\ used \in Nat /\ l \in Nat
            /\ m <= 2 * size
        BY <1>1, <1>2, <1>4, <1>8
      <4> HIDE DEF old
      <4>2. CASE used = m /\ l = used - 1 /\ m <= size
        BY ONLY <2>1, <2>5, <3>4, <4>1, <4>2
      <4>3. CASE used = size /\ l = m - size - 1 /\ m > size
        BY ONLY <2>1, <2>5, <3>4, <4>1, <4>3
      <4> QED BY <1>4, <4>2, <4>3
    <3> QED BY <3>1, <3>3, <3>5, <2>2, <2>5, <1>1
  <2>6. CASE ~(d < used)
    <3>1. ks = {}
      BY <2>4, <2>6
    <3> QED BY <3>1, <2>2, <2>3, <2>6, <1>1
  <2> QED BY <2>5, <2>6
<1>15. Written(vram, vram', seg)
  BY <1>14 DEF Written
<1>16. SequencerOK'
  <2>1. vram' \in [Addr -> Nat]
    BY <1>10, <1>14
  <2>2. RingAdd(end, 1) \in Addr
    BY <1>6, RegionFacts, RingAddType
  <2>3. old + m \in Nat /\ sequencer.blockno + 1 \in Nat
    BY <1>1, <1>2
  <2> QED BY <2>1, <2>2, <2>3, <1>10, <1>11, <1>12 DEF SequencerOK
<1>17. seg.hi = sequencer'.frames /\ sequencer'.wp = RingAdd(seg.end, 1)
  BY <1>8, <1>11
<1> QED BY <1>8, <1>9, <1>11, <1>12, <1>13, <1>15, <1>16, <1>17 DEF seg, b

-----------------------------------------------------------------------------
(* The whole region as one segment.                                        *)
LEMMA WholeRegionFrames ==
  ASSUME NEW p \in Nat
  PROVE  /\ LookupSegment(WholeRegion, p) # 0 <=> p <= RingSize
         /\ p < RingSize => video_segment_lookup(WholeRegion, p) = RecStart + p
<1> DEFINE list == WholeRegion
           b == FramesBefore(list)
<1>1. /\ RecStart \in Nat /\ RecStop \in Nat /\ RingSize \in Nat /\ RecStop = RecStart + RingSize
      /\ RingSize >= 1
  BY RegionFacts
<1>2. /\ Len(list) = 1 /\ list[1].start = RecStart
      /\ list[1].nframes = RingSize + 1 /\ list[1].offset = 0
  BY <1>1 DEF WholeRegion, SegmentLength, SegmentOffset
<1> HIDE DEF list
<1>3. Counted(list)
  BY <1>1, <1>2 DEF Counted
<1>4. b[0] = 0 /\ b[1] = RingSize + 1
  <2>1. Adds(b, list, 1)
    BY <1>2, <1>3, FramesBeforeAdds
  <2>2. b[0] = 0 /\ \A i \in 1 .. 1 : b[i] = b[i - 1] + list[i].nframes
    BY <2>1 DEF Adds
  <2>3. b[1] = b[1 - 1] + list[1].nframes
    BY <2>2
  <2> QED BY <1>1, <1>2, <2>2, <2>3
<1> HIDE DEF b
<1> DEFINE holds == {i \in 1 .. 1 : b[i - 1] <= p /\ p < b[i]}
<1>5. LookupSegment(list, p) = IF holds = {} THEN 0 ELSE CHOOSE i \in holds : TRUE
  BY <1>2 DEF LookupSegment, b
<1>6. CASE p <= RingSize
  <2>1. b[1 - 1] <= p /\ p < b[1]
    BY <1>1, <1>4, <1>6
  <2>2. holds = {1}
    BY <2>1
  <2> HIDE DEF holds
  <2>3. LookupSegment(list, p) = 1
    BY <1>5, <2>2
  <2>4. ASSUME p < RingSize
        PROVE  video_segment_lookup(list, p) = RecStart + p
    <3> DEFINE at(i, segframe) ==
                 LET r == list[i].start + ((segframe + list[i].offset) % list[i].nframes)
                 IN  IF r >= RecStop THEN r - (RecStop - RecStart) ELSE r
               k == LookupSegment(list, p)
    <3>1. video_segment_lookup(list, p) = at(k, p - b[k - 1])
      BY DEF video_segment_lookup, b
    <3>2. at(k, p - b[k - 1]) = at(1, p)
      <4> HIDE DEF at, k
      <4>1. k = 1
        BY <2>3 DEF k
      <4>2. p - b[k - 1] = p
        BY <4>1, <1>4
      <4> QED BY <4>1, <4>2
    <3>3. (p + 0) % (RingSize + 1) = p
      BY <1>1, <2>4
    <3>4. at(1, p) = RecStart + p
      <4>1. list[1].start + ((p + list[1].offset) % list[1].nframes) = RecStart + p
        BY <1>2, <3>3
      <4>2. ~(RecStart + p >= RecStop)
        BY <1>1, <2>4
      <4> QED BY <4>1, <4>2
    <3> HIDE DEF at, k
    <3> QED BY <3>1, <3>2, <3>4
  <2> QED BY <1>6, <2>3, <2>4 DEF list
<1>7. CASE ~(p <= RingSize)
  <2>1. ~(p < b[1])
    BY <1>1, <1>4, <1>7
  <2>2. holds = {}
    BY <2>1
  <2> QED BY <1>1, <1>5, <1>7, <2>2 DEF list
<1> QED BY <1>6, <1>7

(* Both headers fit.                                                       *)
LEMMA RecoverTagsSmall ==
  ASSUME NEW color \in BOOLEAN
  PROVE  Small(RecoverTags(color))
<1>1. Within(Baseline(2), 15, 40)
  BY PartsOfTables
<1>2. CASE color = TRUE
  <2>1. Within(CfaTags, 2, 0) /\ Within(BayerTags, 8, 120)
    BY PartsOfTables
  <2>2. Within(Baseline(2) \o CfaTags, 17, 40)
    BY <1>1, <2>1, WithinAdds
  <2>3. Within((Baseline(2) \o CfaTags) \o BayerTags, 25, 160)
    BY <2>1, <2>2, WithinAdds
  <2>4. RecoverTags(color) = (Baseline(2) \o CfaTags) \o BayerTags
    BY <1>2 DEF RecoverTags
  <2>5. Within(RecoverTags(color), 25, 160)
    BY <2>3, <2>4
  <2>6. 25 \in 0 .. 26 /\ 160 \in 0 .. 300
    OBVIOUS
  <2> QED BY ONLY <2>5, <2>6, WithinSmall
<1>3. CASE color = FALSE
  <2>1. Within(GreyTags, 5, 48)
    BY PartsOfTables
  <2>2. Within(Baseline(2) \o GreyTags, 20, 88)
    BY <1>1, <2>1, WithinAdds
  <2>3. RecoverTags(color) = Baseline(2) \o GreyTags
    BY <1>3 DEF RecoverTags
  <2>4. Within(RecoverTags(color), 20, 88)
    BY <2>2, <2>3
  <2>5. 20 \in 0 .. 26 /\ 88 \in 0 .. 300
    OBVIOUS
  <2> QED BY ONLY <2>4, <2>5, WithinSmall
<1> QED BY <1>2, <1>3

-----------------------------------------------------------------------------
(* The recovery.                                                           *)

Segs == [start : Nat, end : Nat, nframes : Nat, offset : Nat, hi : Nat]

TableOK ==
  \E blocks \in Seq(Segs) :
    /\ Blocked(blocks, sequencer.frames, sequencer.wp, vram)
    /\ \E c : Tabled(blocks, c, sequencer.data, sequencer.blockno)

DumpOK ==
  /\ dump = [pc |-> dump.pc, opt |-> dump.opt, list |-> dump.list, found |-> dump.found,
             next |-> dump.next, kept |-> dump.kept, stale |-> dump.stale,
             read |-> dump.read, startblock |-> dump.startblock]
  /\ dest = [exists |-> dest.exists, files |-> dest.files]
  /\ dump.pc \in {"load", "entries", "mkdir", "list", "frames", "exit"}
  /\ dump.opt \in Options
  /\ {dump.found, dump.kept, dump.stale} \subseteq BOOLEAN
  /\ dump.next \in Nat
  /\ dump.pc \in {"load", "entries", "mkdir", "list"} => dump.next = dump.opt.from
  /\ dump.pc = "load" => dump.list = <<>> /\ dump.read = 0 /\ ~dump.stale
  /\ dump.read \in 0 .. Blocks
  /\ hitches \in Nat

(* While the table is read the list is that of the blocks read so far.     *)
EntriesOK ==
  dump.pc = "entries" /\ ~dump.stale =>
    /\ dump.startblock = OldestBlock
    /\ \E blocks \in Seq(Segs) :
         /\ Blocked(blocks, sequencer.frames, sequencer.wp, vram)
         /\ \E c : /\ Tabled(blocks, c, sequencer.data, sequencer.blockno)
                   /\ \E k : Shows(dump.list, blocks, k, UpTo(c, dump.read))

(* The list is that of the blocks recorded, or the whole region.           *)
ListOK ==
  dump.pc \notin {"load", "entries"} =>
    IF dump.found THEN dump.stale \/ InOrder(dump.list, vram, sequencer.frames)
    ELSE dump.list = WholeRegion

(* Each file holds the frame of its number, came late or was cut short, and *)
(* none is missing unless something went wrong.                            *)
FilesWritten ==
  /\ \A f \in dest.files :
       /\ f.n \in Nat /\ f.n < dump.next /\ LookupSegment(dump.list, f.n) # 0
       /\ f.frame \in {Late, Cut, vram[video_segment_lookup(dump.list, f.n)]}
  /\ hitches = 0 => \A n \in Nat : dump.opt.from <= n /\ n < dump.next =>
       \E f \in dest.files : f.n = n /\ f.frame = vram[video_segment_lookup(dump.list, n)]

DumpedOK ==
  ~dump.kept =>
    /\ dump.pc = "list" => dest.files = {}
    /\ dump.pc = "frames" /\ ~dump.stale => FilesWritten

RecoverInv == SequencerOK /\ TableOK /\ DumpOK /\ EntriesOK /\ ListOK /\ DumpedOK

LEMMA RecoverInitInv == RecoverInit => RecoverInv
<1> SUFFICES ASSUME RecoverInit PROVE RecoverInv
  OBVIOUS
<1>1. RecStart \in Addr /\ 0 \notin Addr
  BY RegionFacts, RecoverAssumption
<1> DEFINE none == [start |-> 0, end |-> 0, last |-> 0, no |-> 0]
           data == [i \in 0 .. Blocks - 1 |-> none]
<1>2. sequencer = [frames |-> 0, wp |-> RecStart, blockno |-> 0, data |-> data]
  BY DEF RecoverInit
<1>3. /\ sequencer.frames = 0 /\ sequencer.wp = RecStart /\ sequencer.blockno = 0
      /\ sequencer.data = data
  BY <1>2
<1>4. vram \in [Addr -> Nat]
  BY DEF RecoverInit
<1>5. \A i \in 0 .. Blocks - 1 : data[i] = none
  OBVIOUS
<1>6. data = [i \in 0 .. Blocks - 1 |-> data[i]]
  OBVIOUS
<1> HIDE DEF data
<1>7. SequencerOK
  BY <1>1, <1>2, <1>3, <1>4, <1>6, RecoverAssumption DEF SequencerOK
<1>8. TableOK
  <2> DEFINE c == [b \in 0 .. 0 |-> 0]
  <2>1. <<>> \in Seq(Segs) /\ Len(<<>>) = 0
    OBVIOUS
  <2>2. Blocked(<<>>, sequencer.frames, sequencer.wp, vram)
    BY <2>1 DEF Blocked, Numbers, Adjacent, InMemory
  <2>3. c \in [0 .. 0 -> 0 .. 0] /\ c[0] = 0
    OBVIOUS
  <2>4. \A i \in 0 .. Blocks - 1 : Outside(sequencer.data[i])
    BY <1>1, <1>3, <1>5 DEF Outside
  <2> HIDE DEF c
  <2>5. Tabled(<<>>, c, sequencer.data, sequencer.blockno)
    BY <1>3, <2>1, <2>3, <2>4 DEF Tabled
  <2> QED BY <2>1, <2>2, <2>5 DEF TableOK
<1>9. PICK opt \in Options :
        dump = [pc |-> "load", opt |-> opt, list |-> <<>>, found |-> FALSE,
                next |-> opt.from, kept |-> FALSE, stale |-> FALSE,
                read |-> 0, startblock |-> 0]
  BY DEF RecoverInit
<1>10. opt.from \in Nat
  BY RecoverAssumption
<1>11. /\ dump.pc = "load" /\ dump.opt = opt /\ dump.list = <<>> /\ dump.found = FALSE
       /\ dump.next = opt.from /\ dump.kept = FALSE /\ dump.stale = FALSE
       /\ dump.read = 0 /\ dump.startblock = 0 /\ 0 \in 0 .. Blocks
  BY <1>9, BlocksType
<1>12. DumpOK
  <2>1. dest = [exists |-> dest.exists, files |-> dest.files] /\ hitches \in Nat
    BY DEF RecoverInit
  <2> QED BY <1>9, <1>10, <1>11, <2>1 DEF DumpOK
<1>13. EntriesOK /\ ListOK /\ DumpedOK
  BY <1>11 DEF EntriesOK, ListOK, DumpedOK
<1> QED BY <1>7, <1>8, <1>12, <1>13 DEF RecoverInv

(* A step of the sequencer adds to the table.                              *)
LEMMA TableAdds ==
  ASSUME TableOK, SequencerOK,
         NEW entry, entry.no = sequencer.blockno,
         sequencer'.blockno = sequencer.blockno + 1,
         sequencer'.data[sequencer.blockno % Blocks] = entry,
         \A i \in 0 .. Blocks - 1 :
           i # sequencer.blockno % Blocks => sequencer'.data[i] = sequencer.data[i],
         \/ Outside(entry) /\ UNCHANGED <<sequencer.frames, sequencer.wp, vram>>
         \/ \E seg \in Segs :
              /\ EntryOf(entry, seg) /\ IsBlock(seg) /\ seg.start = sequencer.wp
              /\ seg.hi = sequencer'.frames /\ sequencer.frames + seg.nframes <= seg.hi
              /\ sequencer'.wp = RingAdd(seg.end, 1)
              /\ Written(vram, vram', seg)
  PROVE  TableOK'
<1>a. PICK blocks \in Seq(Segs) :
        /\ Blocked(blocks, sequencer.frames, sequencer.wp, vram)
        /\ \E c : Tabled(blocks, c, sequencer.data, sequencer.blockno)
  BY DEF TableOK
<1>b. PICK c : Tabled(blocks, c, sequencer.data, sequencer.blockno)
  BY <1>a
<1>1. /\ Blocked(blocks, sequencer.frames, sequencer.wp, vram)
      /\ Tabled(blocks, c, sequencer.data, sequencer.blockno)
  BY <1>a, <1>b
<1>2. Len(blocks) \in Nat /\ sequencer.frames \in Nat /\ sequencer.wp \in Addr
  BY DEF SequencerOK
<1>3. ASSUME Outside(entry), UNCHANGED <<sequencer.frames, sequencer.wp, vram>>
      PROVE  TableOK'
  <2>1. Blocked(blocks, sequencer'.frames, sequencer'.wp, vram')
    BY <1>1, <1>3
  <2>2. \E d : Tabled(blocks, d, sequencer'.data, sequencer'.blockno)
    <3>1. Tabled(blocks, Counts(c, sequencer.blockno, Len(blocks)), sequencer'.data, sequencer.blockno + 1)
      BY <1>1, <1>2, <1>3, TableGrows
    <3> QED BY <3>1
  <2> QED BY <2>1, <2>2 DEF TableOK
<1>4. ASSUME NEW seg \in Segs, EntryOf(entry, seg), IsBlock(seg), seg.start = sequencer.wp,
             seg.hi = sequencer'.frames, sequencer.frames + seg.nframes <= seg.hi,
             sequencer'.wp = RingAdd(seg.end, 1), Written(vram, vram', seg)
      PROVE  TableOK'
  <2> DEFINE new == Append(blocks, seg)
  <2>1. new \in Seq(Segs)
    BY <1>1
  <2>2. Grows(blocks, new, seg)
    BY <1>1 DEF Grows
  <2> HIDE DEF new
  <2>3. Blocked(new, seg.hi, RingAdd(seg.end, 1), vram')
    BY <1>1, <1>2, <1>4, <2>2, BlocksGrow
  <2>4. \E d : Tabled(new, d, sequencer'.data, sequencer'.blockno)
    <3>1. Tabled(new, Counts(c, sequencer.blockno, Len(new)), sequencer'.data, sequencer.blockno + 1)
      BY <1>1, <1>2, <1>4, <2>2, TableGrows
    <3> QED BY <3>1
  <2>5. Blocked(new, sequencer'.frames, sequencer'.wp, vram')
    BY <2>3, <1>4
  <2> QED BY <2>1, <2>4, <2>5 DEF TableOK
<1> QED BY <1>3, <1>4

-----------------------------------------------------------------------------
(* What the sequencer does leaves the program where it is; once the table  *)
(* is read, it makes what the program knows stale.                         *)
LEMMA RecordBlockInv ==
  ASSUME RecoverInv, NEW size \in Sizes, NEW m \in 1 .. 2 * size, RecordBlock(size, m)
  PROVE  RecoverInv'
<1>1. SequencerOK /\ TableOK /\ DumpOK /\ EntriesOK /\ ListOK /\ DumpedOK
  BY DEF RecoverInv
<1> DEFINE seg == BlockOf(size, m)
           entry == sequencer'.data[sequencer.blockno % Blocks]
<1>2. /\ SequencerOK'
      /\ IsBlock(seg) /\ seg.start = sequencer.wp
      /\ seg.hi = sequencer'.frames /\ sequencer.frames + seg.nframes <= seg.hi
      /\ sequencer'.wp = RingAdd(seg.end, 1)
      /\ Written(vram, vram', seg)
      /\ sequencer'.blockno = sequencer.blockno + 1
      /\ EntryOf(entry, seg)
      /\ entry.no = sequencer.blockno
      /\ \A i \in 0 .. Blocks - 1 :
           i # sequencer.blockno % Blocks => sequencer'.data[i] = sequencer.data[i]
  BY <1>1, BlockRecorded
<1>3. seg \in Segs
  <2>1. seg = [start |-> seg.start, end |-> seg.end, nframes |-> seg.nframes,
               offset |-> seg.offset, hi |-> seg.hi]
    BY DEF BlockOf
  <2>2. /\ seg.start \in Addr /\ seg.end \in Addr /\ seg.nframes \in Nat /\ seg.offset \in Nat
        /\ seg.hi \in Nat
    BY <1>2, BlockTypes
  <2>3. Addr \subseteq Nat
    BY RegionFacts
  <2> HIDE DEF seg
  <2> QED BY <2>1, <2>2, <2>3 DEF Segs
<1> HIDE DEF seg, entry
<1>4. TableOK'
  BY <1>1, <1>2, <1>3, TableAdds DEF entry
<1>5. /\ dump' = [dump EXCEPT !.stale = dump.pc # "load"] /\ dump.pc # "exit"
      /\ dest' = dest /\ hitches' = hitches
  BY DEF RecordBlock
<1>6. dump = [pc |-> dump.pc, opt |-> dump.opt, list |-> dump.list, found |-> dump.found,
              next |-> dump.next, kept |-> dump.kept, stale |-> dump.stale,
              read |-> dump.read, startblock |-> dump.startblock]
  BY <1>1 DEF DumpOK
<1>7. /\ dump'.pc = dump.pc /\ dump'.opt = dump.opt /\ dump'.list = dump.list
      /\ dump'.found = dump.found /\ dump'.next = dump.next /\ dump'.kept = dump.kept
      /\ dump'.stale = (dump.pc # "load") /\ dump'.read = dump.read
      /\ dump' = [pc |-> dump'.pc, opt |-> dump'.opt, list |-> dump'.list, found |-> dump'.found,
                  next |-> dump'.next, kept |-> dump'.kept, stale |-> dump'.stale,
                  read |-> dump'.read, startblock |-> dump'.startblock]
  BY <1>5, <1>6
<1>8. DumpOK'
  BY <1>1, <1>5, <1>7 DEF DumpOK
<1>9. EntriesOK' /\ ListOK'
  BY <1>1, <1>7 DEF EntriesOK, ListOK
<1>10. DumpedOK'
  BY <1>1, <1>5, <1>7 DEF DumpedOK
<1> QED BY <1>2, <1>4, <1>8, <1>9, <1>10 DEF RecoverInv

LEMMA RecordOutsideInv == RecoverInv /\ RecordOutside => RecoverInv'
<1> SUFFICES ASSUME RecoverInv, RecordOutside PROVE RecoverInv'
  OBVIOUS
<1>1. SequencerOK /\ TableOK /\ DumpOK /\ EntriesOK /\ ListOK /\ DumpedOK
  BY DEF RecoverInv
<1> DEFINE b == sequencer.blockno % Blocks
           e == [start |-> RecStop, end |-> RecStop, last |-> RecStop, no |-> sequencer.blockno]
<1>2. sequencer' = [sequencer EXCEPT !.blockno = @ + 1, !.data[b] = e]
  BY DEF RecordOutside, Post
<1>3. /\ vram' = vram /\ dest' = dest /\ hitches' = hitches /\ dump.pc \in {"load", "entries"}
      /\ dump' = [dump EXCEPT !.stale = dump.pc # "load"]
  BY DEF RecordOutside
<1>4. b \in 0 .. Blocks - 1
  BY <1>1, ModType DEF SequencerOK
<1>5. Outside(e) /\ e.no = sequencer.blockno
  <2>1. RecStop \notin Addr
    BY RegionFacts
  <2> QED BY <2>1 DEF Outside
<1> HIDE DEF b, e
<1>6. /\ sequencer'.blockno = sequencer.blockno + 1
      /\ sequencer'.frames = sequencer.frames /\ sequencer'.wp = sequencer.wp
      /\ sequencer'.data = [sequencer.data EXCEPT ![b] = e]
      /\ sequencer' = [frames |-> sequencer'.frames, wp |-> sequencer'.wp,
                       blockno |-> sequencer'.blockno, data |-> sequencer'.data]
  <2>1. sequencer = [frames |-> sequencer.frames, wp |-> sequencer.wp,
                     blockno |-> sequencer.blockno, data |-> sequencer.data]
    BY <1>1 DEF SequencerOK
  <2> QED BY <1>2, <2>1
<1>7. /\ sequencer'.data = [i \in 0 .. Blocks - 1 |-> sequencer'.data[i]]
      /\ sequencer'.data[b] = e
      /\ \A i \in 0 .. Blocks - 1 : i # b => sequencer'.data[i] = sequencer.data[i]
  <2>1. sequencer.data = [i \in 0 .. Blocks - 1 |-> sequencer.data[i]]
    BY <1>1 DEF SequencerOK
  <2> QED BY <1>4, <1>6, <2>1
<1>8. SequencerOK'
  BY <1>1, <1>3, <1>6, <1>7 DEF SequencerOK
<1>9. TableOK'
  BY <1>1, <1>3, <1>5, <1>6, <1>7, TableAdds DEF b
<1>10. dump = [pc |-> dump.pc, opt |-> dump.opt, list |-> dump.list, found |-> dump.found,
               next |-> dump.next, kept |-> dump.kept, stale |-> dump.stale,
               read |-> dump.read, startblock |-> dump.startblock]
  BY <1>1 DEF DumpOK
<1>11. /\ dump'.pc = dump.pc /\ dump'.opt = dump.opt /\ dump'.list = dump.list
       /\ dump'.found = dump.found /\ dump'.next = dump.next /\ dump'.kept = dump.kept
       /\ dump'.stale = (dump.pc # "load") /\ dump'.read = dump.read
       /\ dump' = [pc |-> dump'.pc, opt |-> dump'.opt, list |-> dump'.list, found |-> dump'.found,
                   next |-> dump'.next, kept |-> dump'.kept, stale |-> dump'.stale,
                   read |-> dump'.read, startblock |-> dump'.startblock]
  BY <1>3, <1>10
<1>12. DumpOK'
  BY <1>1, <1>3, <1>11 DEF DumpOK
<1>13. EntriesOK' /\ ListOK' /\ DumpedOK'
  BY <1>3, <1>11 DEF EntriesOK, ListOK, DumpedOK
<1> QED BY <1>8, <1>9, <1>12, <1>13 DEF RecoverInv

(* The steps of the program leave the memory alone.                        *)
LEMMA MemoryKept ==
  ASSUME SequencerOK, TableOK, UNCHANGED <<sequencer, vram>>
  PROVE  SequencerOK' /\ TableOK'
BY DEF SequencerOK, TableOK

(* The table that is found is empty so far; without it the list is of the  *)
(* whole region.                                                           *)
LEMMA WithListOK ==
  ASSUME SequencerOK, TableOK, DumpOK, dump.pc \in {"load", "entries"},
         UNCHANGED <<sequencer, vram, dest, hitches>>,
         NEW found \in BOOLEAN, NEW list, dump' = WithList(found, list),
         IF found THEN dump.stale \/ InOrder(list, vram, sequencer.frames) ELSE list = WholeRegion
  PROVE  RecoverInv'
<1> DEFINE pc == IF dump.opt.inspect THEN "exit" ELSE "mkdir"
<1>1. dump = [pc |-> dump.pc, opt |-> dump.opt, list |-> dump.list, found |-> dump.found,
              next |-> dump.next, kept |-> dump.kept, stale |-> dump.stale,
              read |-> dump.read, startblock |-> dump.startblock]
  BY DEF DumpOK
<1>2. pc \in {"exit", "mkdir"} /\ dump' = [dump EXCEPT !.found = found, !.list = list, !.pc = pc]
  BY DEF WithList
<1> HIDE DEF pc
<1>3. /\ dump'.pc = pc /\ dump'.opt = dump.opt /\ dump'.list = list
      /\ dump'.found = found /\ dump'.next = dump.next /\ dump'.kept = dump.kept
      /\ dump'.stale = dump.stale /\ dump'.read = dump.read
      /\ dump' = [pc |-> dump'.pc, opt |-> dump'.opt, list |-> dump'.list, found |-> dump'.found,
                  next |-> dump'.next, kept |-> dump'.kept, stale |-> dump'.stale,
                  read |-> dump'.read, startblock |-> dump'.startblock]
  BY <1>1, <1>2
<1>4. SequencerOK' /\ TableOK'
  BY MemoryKept
<1>5. DumpOK'
  BY <1>2, <1>3 DEF DumpOK
<1>6. EntriesOK' /\ DumpedOK'
  BY <1>2, <1>3 DEF EntriesOK, DumpedOK
<1>7. ListOK'
  <2>1. CASE found
    BY <2>1, <1>3 DEF ListOK
  <2>2. CASE ~found
    BY <2>2, <1>3 DEF ListOK
  <2> QED BY <2>1, <2>2
<1> QED BY <1>4, <1>5, <1>6, <1>7 DEF RecoverInv

(* Of no entries the list is empty: the last blocks that it shows are none. *)
LEMMA load_segmentsInv == RecoverInv /\ load_segments => RecoverInv'
<1> SUFFICES ASSUME RecoverInv, load_segments PROVE RecoverInv'
  OBVIOUS
<1>1. SequencerOK /\ TableOK /\ DumpOK
  BY DEF RecoverInv
<1>2. dump.pc = "load" /\ sequencer' = sequencer /\ vram' = vram /\ dest' = dest /\ hitches' = hitches
  BY DEF load_segments
<1>3. CASE dump' = WithList(FALSE, WholeRegion)
  BY <1>1, <1>2, <1>3, WithListOK
<1>4. CASE dump' = [dump EXCEPT !.pc = "entries", !.startblock = OldestBlock]
  <2>1. dump = [pc |-> dump.pc, opt |-> dump.opt, list |-> dump.list, found |-> dump.found,
                next |-> dump.next, kept |-> dump.kept, stale |-> dump.stale,
                read |-> dump.read, startblock |-> dump.startblock]
    BY <1>1 DEF DumpOK
  <2>2. /\ dump'.pc = "entries" /\ dump'.opt = dump.opt /\ dump'.list = dump.list
        /\ dump'.found = dump.found /\ dump'.next = dump.next /\ dump'.kept = dump.kept
        /\ dump'.stale = dump.stale /\ dump'.read = dump.read /\ dump'.startblock = OldestBlock
        /\ dump' = [pc |-> dump'.pc, opt |-> dump'.opt, list |-> dump'.list, found |-> dump'.found,
                    next |-> dump'.next, kept |-> dump'.kept, stale |-> dump'.stale,
                    read |-> dump'.read, startblock |-> dump'.startblock]
    BY <1>4, <2>1
  <2>3. SequencerOK' /\ TableOK'
    BY <1>1, <1>2, MemoryKept
  <2>4. DumpOK'
    BY <1>1, <1>2, <2>2 DEF DumpOK
  <2>5. EntriesOK'
    <3>1. PICK blocks \in Seq(Segs) :
            /\ Blocked(blocks, sequencer.frames, sequencer.wp, vram)
            /\ \E c : Tabled(blocks, c, sequencer.data, sequencer.blockno)
      BY <1>1 DEF TableOK
    <3>2. PICK c : Tabled(blocks, c, sequencer.data, sequencer.blockno)
      BY <3>1
    <3> DEFINE n == UpTo(c, 0)
    <3>3. n \in 0 .. Len(blocks) /\ Len(blocks) \in Nat
      <4>1. /\ sequencer.blockno \in Nat /\ Blocks \in Nat
            /\ c \in [0 .. sequencer.blockno -> 0 .. Len(blocks)]
        BY <3>2, BlocksType DEF Tabled
      <4> QED BY <4>1 DEF UpTo, OldestBlock
    <3> HIDE DEF n
    <3>4. Shows(<<>>, blocks, n, n)
      BY <3>3, EmptyOrdered DEF Shows
    <3>5. dump'.list = <<>> /\ dump'.read = 0
      BY <1>1, <1>2, <2>2 DEF DumpOK
    <3>6. OldestBlock' = OldestBlock /\ UpTo(c, 0)' = UpTo(c, 0)
      BY <1>2 DEF OldestBlock, UpTo
    <3> QED BY <1>2, <2>2, <3>1, <3>2, <3>4, <3>5, <3>6 DEF EntriesOK, n
  <2>6. ListOK' /\ DumpedOK'
    BY <2>2 DEF ListOK, DumpedOK
  <2> QED BY <2>3, <2>4, <2>5, <2>6 DEF RecoverInv
<1> QED BY <1>3, <1>4 DEF load_segments

LEMMA LoadEntryInv == RecoverInv /\ LoadEntry => RecoverInv'
<1> SUFFICES ASSUME RecoverInv, LoadEntry PROVE RecoverInv'
  OBVIOUS
<1>1. SequencerOK /\ TableOK /\ DumpOK /\ EntriesOK
  BY DEF RecoverInv
<1>2. /\ dump.pc = "entries" /\ dump.read < Blocks
      /\ sequencer' = sequencer /\ vram' = vram /\ dest' = dest /\ hitches' = hitches
  BY DEF LoadEntry
<1>3. PICK list :
        /\ dump' = [dump EXCEPT !.read = @ + 1, !.list = list]
        /\ list = LET entry == sequencer.data[TableOrder(dump.startblock, dump.read)]
                  IN  IF SaneEntry(entry, dump.startblock)
                      THEN video_segment_add(dump.list, NewestSegment(entry)) ELSE dump.list
  BY DEF LoadEntry
<1>4. dump = [pc |-> dump.pc, opt |-> dump.opt, list |-> dump.list, found |-> dump.found,
              next |-> dump.next, kept |-> dump.kept, stale |-> dump.stale,
              read |-> dump.read, startblock |-> dump.startblock]
  BY <1>1 DEF DumpOK
<1>5. /\ dump'.pc = "entries" /\ dump'.opt = dump.opt /\ dump'.list = list
      /\ dump'.found = dump.found /\ dump'.next = dump.next /\ dump'.kept = dump.kept
      /\ dump'.stale = dump.stale /\ dump'.read = dump.read + 1
      /\ dump'.startblock = dump.startblock
      /\ dump' = [pc |-> dump'.pc, opt |-> dump'.opt, list |-> dump'.list, found |-> dump'.found,
                  next |-> dump'.next, kept |-> dump'.kept, stale |-> dump'.stale,
                  read |-> dump'.read, startblock |-> dump'.startblock]
  BY <1>2, <1>3, <1>4
<1>6. SequencerOK' /\ TableOK'
  BY <1>1, <1>2, MemoryKept
<1>7. dump.read \in 0 .. Blocks - 1 /\ dump.read + 1 \in 0 .. Blocks
  BY <1>1, <1>2, BlocksType DEF DumpOK
<1>8. DumpOK'
  BY <1>1, <1>2, <1>5, <1>7 DEF DumpOK
<1>9. EntriesOK'
  <2> SUFFICES ASSUME ~dump.stale PROVE EntriesOK'
    BY <1>5 DEF EntriesOK
  <2>1. dump.startblock = OldestBlock
    BY <1>1, <1>2 DEF EntriesOK
  <2>2. PICK blocks \in Seq(Segs) :
          /\ Blocked(blocks, sequencer.frames, sequencer.wp, vram)
          /\ \E c : /\ Tabled(blocks, c, sequencer.data, sequencer.blockno)
                    /\ \E k : Shows(dump.list, blocks, k, UpTo(c, dump.read))
    BY <1>1, <1>2 DEF EntriesOK
  <2>3. PICK c : /\ Tabled(blocks, c, sequencer.data, sequencer.blockno)
                 /\ \E k : Shows(dump.list, blocks, k, UpTo(c, dump.read))
    BY <2>2
  <2>4. PICK k : Shows(dump.list, blocks, k, UpTo(c, dump.read))
    BY <2>3
  <2>5. list = Added(dump.list, dump.read)
    BY <1>3, <2>1 DEF Added
  <2>6. sequencer.frames \in Nat
    BY <1>1 DEF SequencerOK
  <2>7. PICK j : Shows(list, blocks, j, UpTo(c, dump.read + 1))
    BY <1>7, <2>2, <2>3, <2>4, <2>5, <2>6, EntryShows
  <2>8. PICK n : n = dump.read + 1
    OBVIOUS
  <2>9. OldestBlock' = OldestBlock /\ UpTo(c, n)' = UpTo(c, n)
    BY <1>2 DEF OldestBlock, UpTo
  <2>10. \E i : Shows(dump'.list, blocks, i, UpTo(c, n)')
    BY <1>5, <2>7, <2>8, <2>9
  <2>11. Tabled(blocks, c, sequencer'.data, sequencer'.blockno)
    BY <1>2, <2>3
  <2>12. Blocked(blocks, sequencer'.frames, sequencer'.wp, vram')
    BY <1>2, <2>2
  <2>13. dump'.startblock = OldestBlock' /\ dump'.read = n
    BY <1>5, <2>1, <2>8, <2>9
  <2> QED BY <2>10, <2>11, <2>12, <2>13 DEF EntriesOK
<1>10. ListOK' /\ DumpedOK'
  BY <1>5 DEF ListOK, DumpedOK
<1> QED BY <1>6, <1>8, <1>9, <1>10 DEF RecoverInv

LEMMA TableLoadedInv == RecoverInv /\ TableLoaded => RecoverInv'
<1> SUFFICES ASSUME RecoverInv, TableLoaded PROVE RecoverInv'
  OBVIOUS
<1>1. SequencerOK /\ TableOK /\ DumpOK /\ EntriesOK
  BY DEF RecoverInv
<1>2. /\ dump.pc = "entries" /\ dump.read = Blocks
      /\ UNCHANGED <<sequencer, vram, dest, hitches>>
  BY DEF TableLoaded
<1>3. dump.stale \/ InOrder(dump.list, vram, sequencer.frames)
  <2> SUFFICES ASSUME ~dump.stale PROVE InOrder(dump.list, vram, sequencer.frames)
    OBVIOUS
  <2>1. PICK blocks \in Seq(Segs) :
          /\ Blocked(blocks, sequencer.frames, sequencer.wp, vram)
          /\ \E c : /\ Tabled(blocks, c, sequencer.data, sequencer.blockno)
                    /\ \E k : Shows(dump.list, blocks, k, UpTo(c, dump.read))
    BY <1>1, <1>2 DEF EntriesOK
  <2>2. PICK c : /\ Tabled(blocks, c, sequencer.data, sequencer.blockno)
                 /\ \E k : Shows(dump.list, blocks, k, UpTo(c, dump.read))
    BY <2>1
  <2>3. PICK k : Shows(dump.list, blocks, k, Len(blocks))
    BY <1>2, <2>2, AllRead
  <2>4. sequencer.frames \in Nat
    BY <1>1 DEF SequencerOK
  <2> QED BY <2>1, <2>3, <2>4, ShownInOrder
<1>4. CASE dump.list # <<>>
  <2>1. dump' = WithList(TRUE, dump.list)
    BY <1>4 DEF TableLoaded
  <2> QED BY <1>1, <1>2, <1>3, <2>1, WithListOK
<1>5. CASE dump.list = <<>>
  <2>1. dump' = WithList(FALSE, WholeRegion)
    BY <1>5 DEF TableLoaded
  <2> QED BY <1>1, <1>2, <2>1, WithListOK
<1> QED BY <1>4, <1>5

(* A step of the program once it has its list.                             *)
LEMMA ListKept ==
  ASSUME RecoverInv, dump.pc \notin {"load", "entries"}, UNCHANGED <<sequencer, vram>>,
         NEW pc \in {"list", "frames", "exit"}, NEW next \in Nat, NEW kept \in BOOLEAN,
         dump' = [dump EXCEPT !.pc = pc, !.next = next, !.kept = kept],
         pc = "list" => next = dump.opt.from,
         dest' = [exists |-> dest'.exists, files |-> dest'.files],
         hitches' \in Nat
  PROVE  /\ SequencerOK' /\ TableOK' /\ DumpOK' /\ EntriesOK' /\ ListOK'
         /\ dump'.pc = pc /\ dump'.next = next /\ dump'.kept = kept
         /\ dump'.opt = dump.opt /\ dump'.list = dump.list /\ dump'.stale = dump.stale
<1>1. SequencerOK /\ TableOK /\ DumpOK /\ ListOK
  BY DEF RecoverInv
<1>2. dump = [pc |-> dump.pc, opt |-> dump.opt, list |-> dump.list, found |-> dump.found,
              next |-> dump.next, kept |-> dump.kept, stale |-> dump.stale,
              read |-> dump.read, startblock |-> dump.startblock]
  BY <1>1 DEF DumpOK
<1>3. /\ dump'.pc = pc /\ dump'.opt = dump.opt /\ dump'.list = dump.list
      /\ dump'.found = dump.found /\ dump'.next = next /\ dump'.kept = kept
      /\ dump'.stale = dump.stale /\ dump'.read = dump.read
      /\ dump' = [pc |-> dump'.pc, opt |-> dump'.opt, list |-> dump'.list, found |-> dump'.found,
                  next |-> dump'.next, kept |-> dump'.kept, stale |-> dump'.stale,
                  read |-> dump'.read, startblock |-> dump'.startblock]
  BY <1>2
<1>4. SequencerOK' /\ TableOK'
  BY <1>1, MemoryKept
<1>5. DumpOK'
  BY <1>1, <1>3 DEF DumpOK
<1>6. EntriesOK' /\ ListOK'
  BY <1>1, <1>3 DEF EntriesOK, ListOK
<1> QED BY <1>3, <1>4, <1>5, <1>6

LEMMA Hitches ==
  ASSUME hitches \in Nat
  PROVE  /\ Hitch => hitches' \in Nat /\ hitches' # 0
         /\ hitches' = hitches => hitches' \in Nat
BY DEF Hitch

LEMMA MakeDirInv == RecoverInv /\ MakeDir => RecoverInv'
<1> SUFFICES ASSUME RecoverInv, MakeDir PROVE RecoverInv'
  OBVIOUS
<1>1. DumpOK
  BY DEF RecoverInv
<1>2. /\ dump = [pc |-> dump.pc, opt |-> dump.opt, list |-> dump.list, found |-> dump.found,
                 next |-> dump.next, kept |-> dump.kept, stale |-> dump.stale,
                 read |-> dump.read, startblock |-> dump.startblock]
      /\ dest = [exists |-> dest.exists, files |-> dest.files]
      /\ dump.next \in Nat /\ hitches \in Nat /\ dump.kept \in BOOLEAN
  BY <1>1 DEF DumpOK
<1>3. dump.pc = "mkdir" /\ UNCHANGED <<sequencer, vram>>
  BY DEF MakeDir
<1>4. dump.next = dump.opt.from
  BY <1>1, <1>3 DEF DumpOK
<1>5. ASSUME NEW kept \in BOOLEAN, NEW left, ~kept => left = {},
             dump' = [dump EXCEPT !.pc = "list", !.kept = kept],
             dest' = [exists |-> TRUE, files |-> left], hitches' \in Nat
      PROVE  RecoverInv'
  <2>1. dump' = [dump EXCEPT !.pc = "list", !.next = dump.next, !.kept = kept]
    BY <1>2, <1>5
  <2>2. dest' = [exists |-> dest'.exists, files |-> dest'.files] /\ dest'.files = left
    BY <1>5
  <2>3. /\ SequencerOK' /\ TableOK' /\ DumpOK' /\ EntriesOK' /\ ListOK'
        /\ dump'.pc = "list" /\ dump'.kept = kept
    <3>1. "list" \in {"list", "frames", "exit"} /\ dump.pc \notin {"load", "entries"}
      BY <1>3
    <3> QED BY <1>2, <1>3, <1>4, <1>5, <2>1, <2>2, <3>1, ListKept
  <2>4. DumpedOK'
    BY <1>5, <2>2, <2>3 DEF DumpedOK
  <2> QED BY <2>3, <2>4 DEF RecoverInv
<1>6. ASSUME dump' = [dump EXCEPT !.pc = "exit"], dest' = dest, hitches' \in Nat
      PROVE  RecoverInv'
  <2>1. dump' = [dump EXCEPT !.pc = "exit", !.next = dump.next, !.kept = dump.kept]
    BY <1>2, <1>6
  <2>2. dest' = [exists |-> dest'.exists, files |-> dest'.files]
    BY <1>2, <1>6
  <2>3. SequencerOK' /\ TableOK' /\ DumpOK' /\ EntriesOK' /\ ListOK' /\ dump'.pc = "exit"
    <3>1. "exit" \in {"list", "frames", "exit"} /\ dump.pc \notin {"load", "entries"} /\ "exit" # "list"
      BY <1>3
    <3> QED BY <1>2, <1>3, <1>6, <2>1, <2>2, <3>1, ListKept
  <2>4. DumpedOK'
    BY <2>3 DEF DumpedOK
  <2> QED BY <2>3, <2>4 DEF RecoverInv
<1>7. CASE /\ dest' = [exists |-> TRUE, files |-> {}]
           /\ dump' = [dump EXCEPT !.pc = "list", !.kept = FALSE]
           /\ UNCHANGED hitches
  BY <1>2, <1>5, <1>7
<1>8. CASE \E left \in SUBSET dest.files :
             /\ dest' = [exists |-> TRUE, files |-> left]
             /\ IF dump.opt.cwd THEN left = dest.files /\ UNCHANGED hitches
                ELSE IF left = {} THEN UNCHANGED hitches
                ELSE Hitch
             /\ dump' = [dump EXCEPT !.pc = "list", !.kept = left # {}]
  <2>1. PICK left \in SUBSET dest.files :
             /\ dest' = [exists |-> TRUE, files |-> left]
             /\ UNCHANGED hitches \/ Hitch
             /\ dump' = [dump EXCEPT !.pc = "list", !.kept = left # {}]
    BY <1>8
  <2>2. hitches' \in Nat
    BY <1>2, <2>1, Hitches
  <2> DEFINE kept == left # {}
  <2>3. kept \in BOOLEAN /\ (~kept => left = {})
    OBVIOUS
  <2>4. dump' = [dump EXCEPT !.pc = "list", !.kept = kept]
    BY <2>1
  <2> HIDE DEF kept
  <2> QED BY <1>5, <2>1, <2>2, <2>3, <2>4
<1>9. CASE /\ IF ~dump.opt.force /\ dest.exists THEN UNCHANGED hitches ELSE dest.files = {} /\ Hitch
           /\ dump' = [dump EXCEPT !.pc = "exit"]
           /\ UNCHANGED dest
  <2>1. hitches' \in Nat
    BY <1>2, <1>9, Hitches
  <2> QED BY <1>6, <1>9, <2>1
<1> QED BY <1>7, <1>8, <1>9 DEF MakeDir

LEMMA WriteListInv == RecoverInv /\ WriteList => RecoverInv'
<1> SUFFICES ASSUME RecoverInv, WriteList PROVE RecoverInv'
  OBVIOUS
<1>1. DumpOK /\ DumpedOK
  BY DEF RecoverInv
<1>2. /\ dump = [pc |-> dump.pc, opt |-> dump.opt, list |-> dump.list, found |-> dump.found,
                 next |-> dump.next, kept |-> dump.kept, stale |-> dump.stale,
                 read |-> dump.read, startblock |-> dump.startblock]
      /\ dest = [exists |-> dest.exists, files |-> dest.files]
      /\ dump.next \in Nat /\ hitches \in Nat /\ dump.kept \in BOOLEAN
  BY <1>1 DEF DumpOK
<1>3. dump.pc = "list" /\ sequencer' = sequencer /\ vram' = vram /\ dest' = dest
  BY DEF WriteList
<1>4. dump.next = dump.opt.from /\ dump.opt.from \in Nat
  BY <1>1, <1>2, <1>3 DEF DumpOK
<1>5. PICK pc \in {"frames", "exit"} :
        dump' = [dump EXCEPT !.pc = pc] /\ (Hitch \/ UNCHANGED hitches)
  BY DEF WriteList
<1>6. hitches' \in Nat
  BY <1>2, <1>5, Hitches
<1>7. dump' = [dump EXCEPT !.pc = pc, !.next = dump.next, !.kept = dump.kept]
  BY <1>2, <1>5
<1>8. /\ SequencerOK' /\ TableOK' /\ DumpOK' /\ EntriesOK' /\ ListOK'
      /\ dump'.pc = pc /\ dump'.next = dump.next /\ dump'.kept = dump.kept
      /\ dump'.opt = dump.opt /\ dump'.list = dump.list
  <2>1. pc \in {"list", "frames", "exit"} /\ dump.pc \notin {"load", "entries"} /\ pc # "list"
    BY <1>3, <1>5
  <2> QED BY <1>2, <1>3, <1>6, <1>7, <2>1, ListKept
<1>9. DumpedOK'
  <2> SUFFICES ASSUME ~dump.kept PROVE FilesWritten'
    BY <1>5, <1>8 DEF DumpedOK
  <2>1. dest'.files = {}
    BY <1>1, <1>3 DEF DumpedOK
  <2>2. \A n \in Nat : ~(dump.opt.from <= n /\ n < dump.opt.from)
    BY <1>4
  <2> QED BY <1>4, <1>8, <2>1, <2>2 DEF FilesWritten
<1> QED BY <1>8, <1>9 DEF RecoverInv

(* A frame that has its segment is written, or not, and the next one is    *)
(* due.                                                                    *)
LEMMA write_frameInv == RecoverInv /\ (write_frame \/ NoFrameFile) => RecoverInv'
<1> SUFFICES ASSUME RecoverInv, write_frame \/ NoFrameFile PROVE RecoverInv'
  OBVIOUS
<1> DEFINE n == dump.next
           at(p) == vram[video_segment_lookup(dump.list, p)]
<1>1. DumpOK /\ DumpedOK
  BY DEF RecoverInv
<1>2. /\ dump = [pc |-> dump.pc, opt |-> dump.opt, list |-> dump.list, found |-> dump.found,
                 next |-> dump.next, kept |-> dump.kept, stale |-> dump.stale,
                 read |-> dump.read, startblock |-> dump.startblock]
      /\ dest = [exists |-> dest.exists, files |-> dest.files]
      /\ n \in Nat /\ hitches \in Nat /\ dump.kept \in BOOLEAN
  BY <1>1 DEF DumpOK
<1>3. /\ dump.pc = "frames" /\ LookupSegment(dump.list, n) # 0
      /\ dump' = [dump EXCEPT !.next = @ + 1]
      /\ sequencer' = sequencer /\ vram' = vram
  BY DEF write_frame, NoFrameFile
<1>4. \/ dest' = dest /\ Hitch
      \/ \E frame \in {at(n), Late, Cut} :
           /\ dest' = [dest EXCEPT !.files = {f \in @ : f.n # n} \cup {[n |-> n, frame |-> frame]}]
           /\ IF frame \in {Late, Cut} THEN Hitch ELSE hitches' = hitches
  BY DEF write_frame, NoFrameFile
<1>5. hitches' \in Nat /\ dest' = [exists |-> dest'.exists, files |-> dest'.files]
  <2>1. CASE dest' = dest /\ Hitch
    BY <2>1, <1>2, Hitches
  <2>2. CASE \E frame \in {at(n), Late, Cut} :
           /\ dest' = [dest EXCEPT !.files = {f \in @ : f.n # n} \cup {[n |-> n, frame |-> frame]}]
           /\ IF frame \in {Late, Cut} THEN Hitch ELSE hitches' = hitches
    BY <2>2, <1>2, Hitches
  <2> QED BY <1>4, <2>1, <2>2
<1>6. dump' = [dump EXCEPT !.pc = "frames", !.next = n + 1, !.kept = dump.kept]
  BY <1>2, <1>3
<1>7. /\ SequencerOK' /\ TableOK' /\ DumpOK' /\ EntriesOK' /\ ListOK'
      /\ dump'.pc = "frames" /\ dump'.next = n + 1 /\ dump'.kept = dump.kept
      /\ dump'.opt = dump.opt /\ dump'.list = dump.list /\ dump'.stale = dump.stale
  <2>1. "frames" \in {"list", "frames", "exit"} /\ dump.pc \notin {"load", "entries"} /\ "frames" # "list" /\ n + 1 \in Nat
    BY <1>2, <1>3
  <2> QED BY <1>2, <1>3, <1>5, <1>6, <2>1, ListKept
<1>8. DumpedOK'
  <2> SUFFICES ASSUME ~dump.kept, ~dump.stale PROVE FilesWritten'
    BY <1>7 DEF DumpedOK
  <2>1. FilesWritten
    BY <1>1, <1>3 DEF DumpedOK
  <2>2. \A f \in dest.files :
          /\ f.n \in Nat /\ f.n < n /\ LookupSegment(dump.list, f.n) # 0
          /\ f.frame \in {Late, Cut, at(f.n)}
    BY <2>1 DEF FilesWritten
  <2>3. hitches = 0 => \A p \in Nat : dump.opt.from <= p /\ p < n =>
          \E f \in dest.files : f.n = p /\ f.frame = at(p)
    BY <2>1 DEF FilesWritten
  <2>4. FilesWritten' <=>
          /\ \A f \in dest'.files :
               /\ f.n \in Nat /\ f.n < n + 1 /\ LookupSegment(dump.list, f.n) # 0
               /\ f.frame \in {Late, Cut, at(f.n)}
          /\ hitches' = 0 => \A p \in Nat : dump.opt.from <= p /\ p < n + 1 =>
               \E f \in dest'.files : f.n = p /\ f.frame = at(p)
    BY <1>3, <1>7 DEF FilesWritten
  <2> HIDE DEF at
  <2>5. CASE dest' = dest /\ Hitch
    <3>1. hitches' # 0
      BY <2>5, <1>2, Hitches
    <3>2. \A f \in dest.files : f.n < n + 1
      BY <2>2, <1>2
    <3> QED BY <2>2, <2>4, <2>5, <3>1, <3>2
  <2>6. CASE \E frame \in {at(n), Late, Cut} :
           /\ dest' = [dest EXCEPT !.files = {f \in @ : f.n # n} \cup {[n |-> n, frame |-> frame]}]
           /\ IF frame \in {Late, Cut} THEN Hitch ELSE hitches' = hitches
    <3>1. PICK frame \in {at(n), Late, Cut} :
           /\ dest' = [dest EXCEPT !.files = {f \in @ : f.n # n} \cup {[n |-> n, frame |-> frame]}]
           /\ IF frame \in {Late, Cut} THEN Hitch ELSE hitches' = hitches
      BY <2>6
    <3> DEFINE new == [n |-> n, frame |-> frame]
    <3>2. dest'.files = {f \in dest.files : f.n # n} \cup {new}
      BY <1>2, <3>1
    <3>3. new.n = n /\ new.frame = frame
      OBVIOUS
    <3> HIDE DEF new
    <3>4. ASSUME NEW f \in dest'.files
          PROVE  /\ f.n \in Nat /\ f.n < n + 1 /\ LookupSegment(dump.list, f.n) # 0
                 /\ f.frame \in {Late, Cut, at(f.n)}
      <4>1. CASE f = new
        BY <4>1, <3>1, <3>3, <1>2, <1>3
      <4>2. CASE f \in dest.files
        <5>1. /\ f.n \in Nat /\ f.n < n /\ LookupSegment(dump.list, f.n) # 0
              /\ f.frame \in {Late, Cut, at(f.n)}
          BY <4>2, <2>2
        <5>2. f.n < n + 1
          BY <5>1, <1>2
        <5> QED BY <5>1, <5>2
      <4> QED BY <3>2, <4>1, <4>2
    <3>5. ASSUME hitches' = 0, NEW p \in Nat, dump.opt.from <= p, p < n + 1
          PROVE  \E f \in dest'.files : f.n = p /\ f.frame = at(p)
      <4>1. frame \notin {Late, Cut} /\ hitches = 0
        BY <3>1, <3>5, <1>2, Hitches
      <4>2. CASE p = n
        BY <4>1, <4>2, <3>1, <3>2, <3>3
      <4>3. CASE p # n
        <5>1. p < n
          BY <4>3, <3>5, <1>2
        <5>2. PICK f \in dest.files : f.n = p /\ f.frame = at(p)
          BY <4>1, <5>1, <3>5, <2>3
        <5>3. f \in dest'.files
          BY <3>2, <4>3, <5>2
        <5> QED BY <5>2, <5>3
      <4> QED BY <4>2, <4>3
    <3> QED BY <2>4, <3>4, <3>5
  <2> QED BY <1>4, <2>5, <2>6 DEF at
<1> QED BY <1>7, <1>8 DEF RecoverInv

LEMMA DumpDoneInv == RecoverInv /\ DumpDone => RecoverInv'
<1> SUFFICES ASSUME RecoverInv, DumpDone PROVE RecoverInv'
  OBVIOUS
<1>1. DumpOK
  BY DEF RecoverInv
<1>2. /\ dump = [pc |-> dump.pc, opt |-> dump.opt, list |-> dump.list, found |-> dump.found,
                 next |-> dump.next, kept |-> dump.kept, stale |-> dump.stale,
                 read |-> dump.read, startblock |-> dump.startblock]
      /\ dest = [exists |-> dest.exists, files |-> dest.files]
      /\ dump.next \in Nat /\ hitches \in Nat /\ dump.kept \in BOOLEAN
  BY <1>1 DEF DumpOK
<1>3. /\ dump.pc = "frames" /\ sequencer' = sequencer /\ vram' = vram /\ dest' = dest
      /\ hitches' = hitches /\ dump' = [dump EXCEPT !.pc = "exit"]
  BY DEF DumpDone
<1>4. /\ dump' = [dump EXCEPT !.pc = "exit", !.next = dump.next, !.kept = dump.kept]
      /\ dest' = [exists |-> dest'.exists, files |-> dest'.files]
  BY <1>2, <1>3
<1>5. SequencerOK' /\ TableOK' /\ DumpOK' /\ EntriesOK' /\ ListOK' /\ dump'.pc = "exit"
  <2>1. "exit" \in {"list", "frames", "exit"} /\ dump.pc \notin {"load", "entries"} /\ "exit" # "list"
    BY <1>3
  <2> QED BY <1>2, <1>3, <1>4, <2>1, ListKept
<1>6. DumpedOK'
  BY <1>5 DEF DumpedOK
<1> QED BY <1>5, <1>6 DEF RecoverInv

LEMMA RecoverInvInOrder == RecoverInv => RecoveredInOrder
<1> SUFFICES ASSUME RecoverInv, dump.pc = "frames", ~dump.stale, ~dump.kept
             PROVE  /\ dump.found => \A f, g \in Sound : f.n < g.n => f.frame < g.frame
                    /\ dump.found /\ LookupSegment(dump.list, dump.next) = 0 =>
                         \A f \in Sound : f.n = dump.next - 1 => f.frame = sequencer.frames
                    /\ ~dump.found /\ hitches = 0 /\ dump.opt.from = 0
                         /\ LookupSegment(dump.list, dump.next) = 0 =>
                         \A a \in Addr : \E f \in dest.files : f.frame = vram[a]
                    /\ \A color \in BOOLEAN :
                         Readable(tiff_build_header(1024, RecoverTags(color)), RecoverTags(color))
  BY DEF RecoveredInOrder
<1>1. DumpOK /\ ListOK /\ DumpedOK
  BY DEF RecoverInv
<1>2. dump.next \in Nat /\ FilesWritten
  BY <1>1 DEF DumpOK, DumpedOK
<1>3. \A f \in Sound : /\ f.n \in Nat /\ f.n < dump.next /\ LookupSegment(dump.list, f.n) # 0
                       /\ f.frame = vram[video_segment_lookup(dump.list, f.n)]
  BY <1>2 DEF FilesWritten, Sound
<1>4. ASSUME dump.found
      PROVE  /\ \A f, g \in Sound : f.n < g.n => f.frame < g.frame
             /\ LookupSegment(dump.list, dump.next) = 0 =>
                  \A f \in Sound : f.n = dump.next - 1 => f.frame = sequencer.frames
  <2>1. InOrder(dump.list, vram, sequencer.frames)
    BY <1>1, <1>4 DEF ListOK
  <2>2. PICK total \in Nat :
         /\ \A p \in Nat : LookupSegment(dump.list, p) # 0 <=> p < total
         /\ \A p, q \in Nat : p < q /\ q < total =>
              vram[video_segment_lookup(dump.list, p)] < vram[video_segment_lookup(dump.list, q)]
         /\ \A p \in Nat : p + 1 = total =>
              vram[video_segment_lookup(dump.list, p)] = sequencer.frames
    BY <2>1 DEF InOrder
  <2>3. ASSUME NEW f \in Sound, NEW g \in Sound, f.n < g.n
        PROVE  f.frame < g.frame
    <3>1. f.n \in Nat /\ g.n \in Nat /\ g.n < total
      BY <1>3, <2>2
    <3> QED BY <1>3, <2>2, <2>3, <3>1
  <2>4. ASSUME LookupSegment(dump.list, dump.next) = 0, NEW f \in Sound, f.n = dump.next - 1
        PROVE  f.frame = sequencer.frames
    <3>1. f.n \in Nat /\ f.n < total
      BY <1>3, <2>2
    <3>2. ~(dump.next < total)
      BY <1>2, <2>2, <2>4
    <3>3. f.n + 1 = total
      BY <1>2, <2>4, <3>1, <3>2
    <3> QED BY <1>3, <2>2, <3>1, <3>3
  <2> QED BY <2>3, <2>4
<1>5. ASSUME ~dump.found, hitches = 0, dump.opt.from = 0,
             LookupSegment(dump.list, dump.next) = 0, NEW a \in Addr
      PROVE  \E f \in dest.files : f.frame = vram[a]
  <2> DEFINE p == a - RecStart
  <2>1. dump.list = WholeRegion
    BY <1>1, <1>5 DEF ListOK
  <2>2. p \in Nat /\ p < RingSize /\ RecStart + p = a /\ RingSize \in Nat
    BY RegionFacts
  <2> HIDE DEF p
  <2>3. ~(dump.next <= RingSize)
    BY <1>2, <1>5, <2>1, WholeRegionFrames
  <2>4. 0 <= p /\ p < dump.next
    BY <1>2, <2>2, <2>3
  <2>5. \E f \in dest.files : f.n = p /\ f.frame = vram[video_segment_lookup(dump.list, p)]
    BY <1>2, <1>5, <2>2, <2>4 DEF FilesWritten
  <2>6. video_segment_lookup(dump.list, p) = a
    BY <2>1, <2>2, WholeRegionFrames
  <2> QED BY <2>5, <2>6
<1>6. ASSUME NEW color \in BOOLEAN
      PROVE  Readable(tiff_build_header(1024, RecoverTags(color)), RecoverTags(color))
  <2>1. 1024 \in Nat /\ 1024 >= 1024
    OBVIOUS
  <2> QED BY ONLY <2>1, RecoverTagsSmall, SmallFits
<1> QED BY <1>4, <1>5, <1>6

(* Whatever was recorded, wherever it lies in memory and however often the *)
(* table and the region have been lapped: while nothing new is recorded    *)
(* from the reading of the table on, the files of a recovery, but for      *)
(* those that came late or that their own failed write cut short, hold     *)
(* frames in the order of recording, none twice, up to the newest; a dump  *)
(* of all memory in which nothing fails leaves out no frame; the header    *)
(* that is built for a file can be read.  The table is read from its       *)
(* oldest entry on (cam-recover.c:363-395), the list that grows from it    *)
(* holds whole blocks only (segment.c:116-165), and main looks each number *)
(* up in that list (cam-recover.c:604-614).                                *)
THEOREM RecoveredFrames ==
  RecoverInit /\ [][RecoverNext]_recoverVars => []RecoveredInOrder
<1>1. RecoverInit => RecoverInv
  BY RecoverInitInv
<1>2. RecoverInv /\ [RecoverNext]_recoverVars => RecoverInv'
  <2> SUFFICES ASSUME RecoverInv, [RecoverNext]_recoverVars PROVE RecoverInv'
    OBVIOUS
  <2>1. ASSUME NEW size \in Sizes, NEW m \in 1 .. 2 * size, RecordBlock(size, m)
        PROVE  RecoverInv'
    BY <2>1, RecordBlockInv
  <2>2. CASE RecordOutside
    BY <2>2, RecordOutsideInv
  <2>3. CASE load_segments
    BY <2>3, load_segmentsInv
  <2>9. CASE LoadEntry
    BY <2>9, LoadEntryInv
  <2>10. CASE TableLoaded
    BY <2>10, TableLoadedInv
  <2>4. CASE MakeDir
    BY <2>4, MakeDirInv
  <2>5. CASE WriteList
    BY <2>5, WriteListInv
  <2>6. CASE write_frame \/ NoFrameFile
    BY <2>6, write_frameInv
  <2>7. CASE DumpDone
    BY <2>7, DumpDoneInv
  <2>8. CASE UNCHANGED recoverVars
    BY <2>8 DEF recoverVars, RecoverInv, SequencerOK, TableOK, DumpOK, EntriesOK, ListOK, DumpedOK,
         FilesWritten, OldestBlock, UpTo
  <2> QED BY <2>1, <2>2, <2>3, <2>4, <2>5, <2>6, <2>7, <2>8, <2>9, <2>10 DEF RecoverNext
<1> QED BY <1>1, <1>2, RecoverInvInOrder, PTL
=============================================================================
