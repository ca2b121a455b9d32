-------------------------- MODULE Functions_proofs --------------------------
(***************************************************************************)
(* The functions without state, for inputs of any size: the file system    *)
(* finds, reads and splits what it should, the memory and string functions *)
(* and printf of the C library do what their comments promise, and grep    *)
(* prints the lines that contain a text.                                   *)
(***************************************************************************)
EXTENDS FileSystemInputs, CLibraryInputs, GrepInputs, SequenceTheorems, WellFoundedInduction, TLAPS

-----------------------------------------------------------------------------
(***************************************************************************)
(* Finding a directory entry: the two strings agree up to the length that  *)
(* is compared only if they are the same, since that length is at least    *)
(* the one of either.                                                      *)
(***************************************************************************)
LEMMA SeqOfIsSeq ==
  ASSUME NEW T, NEW n \in Nat, NEW s \in SeqOf(T, n)
  PROVE  s \in Seq(T) /\ Len(s) \in Nat /\ Len(s) <= n /\ DOMAIN s = 1 .. Len(s)
<1>1. PICK m \in 0 .. n : s \in [1 .. m -> T]
  BY DEF SeqOf
<1>2. s \in Seq(T) /\ Len(s) = m
  BY <1>1
<1>. QED  BY <1>1, <1>2

LEMMA StrncmpIsEquality ==
  ASSUME NEW a \in Seq(Letters), NEW b \in Seq(Letters),
         NEW n \in Nat, Len(a) <= n, Len(b) <= n
  PROVE  StrncmpEqual(a, b, n) <=> a = b
<1>. DEFINE l == Len(a)
            m == Len(b)
<1>1. /\ l \in Nat /\ m \in Nat
      /\ \A i \in 1 .. l : a[i] # NUL
      /\ \A i \in 1 .. m : b[i] # NUL
      /\ \A i \in 1 .. n : CharAt(a, i) = IF i <= l THEN a[i] ELSE NUL
      /\ \A i \in 1 .. n : CharAt(b, i) = IF i <= m THEN b[i] ELSE NUL
  BY LettersAssumption DEF CharAt
<1>2. a = b => StrncmpEqual(a, b, n)
  BY DEF StrncmpEqual
<1>3. ASSUME StrncmpEqual(a, b, n) PROVE a = b
  <2>1. ASSUME NEW i \in 1 .. n, i <= l + 1 PROVE CharAt(a, i) = CharAt(b, i)
    <3>1. \A j \in 1 .. i - 1 : j \in 1 .. n /\ j <= l /\ j \in 1 .. l
      BY <1>1, <2>1
    <3>2. \A j \in 1 .. i - 1 : CharAt(a, j) # NUL
      BY <1>1, <3>1
    <3>. QED  BY <1>3, <3>2 DEF StrncmpEqual
  <2>2. ASSUME NEW i \in 1 .. l PROVE i <= m /\ a[i] = b[i]
    <3>1. i \in 1 .. n /\ i <= l + 1 /\ i <= l
      BY <1>1
    <3>. QED  BY <1>1, <2>1, <3>1
  <2>3. m <= l
    <3>. SUFFICES ASSUME m > l PROVE FALSE
      BY <1>1
    <3>1. l + 1 \in 1 .. n /\ l + 1 \in 1 .. m /\ ~(l + 1 <= l)
      BY <1>1
    <3>. QED  BY <1>1, <2>1, <3>1
  <2>4. l <= m
    <3>1. CASE l = 0
      BY <1>1, <3>1
    <3>2. CASE l # 0
      BY <1>1, <2>2, <3>2
    <3>. QED  BY <3>1, <3>2
  <2>. QED  BY <1>1, <2>2, <2>3, <2>4
<1>. QED  BY <1>2, <1>3

LEMMA LookupFacts ==
  ASSUME NEW fname \in SeqOf(Letters, FILENAME_LEN + 1), NEW entry \in Entries,
         Len(fname) <= FILENAME_LEN
  PROVE  StrncmpEqual(entry.filename, fname, ComparedLength(fname, entry))
           <=> entry.filename = fname
<1>1. FILENAME_LEN \in Nat \ {0} /\ FILENAME_LEN + 1 \in Nat
  BY FilenameLenAssumption
<1>2. entry.filename \in SeqOf(Letters, FILENAME_LEN)
  BY DEF Entries
<1>3. /\ fname \in Seq(Letters) /\ Len(fname) \in Nat
      /\ entry.filename \in Seq(Letters) /\ Len(entry.filename) \in Nat
      /\ Len(entry.filename) <= FILENAME_LEN
  BY <1>1, <1>2, SeqOfIsSeq
<1>4. StoredLen(entry) \in Nat /\ StoredLen(entry) >= Len(entry.filename)
  BY <1>1, <1>3 DEF StoredLen
<1>5. Min({StoredLen(entry), FILENAME_LEN})
        = IF StoredLen(entry) <= FILENAME_LEN THEN StoredLen(entry) ELSE FILENAME_LEN
  BY <1>1, <1>4 DEF Min
<1>6. /\ ComparedLength(fname, entry) \in Nat
      /\ Len(entry.filename) <= ComparedLength(fname, entry)
      /\ Len(fname) <= ComparedLength(fname, entry)
  BY <1>1, <1>3, <1>4, <1>5 DEF ComparedLength
<1>. QED  BY <1>3, <1>6, StrncmpIsEquality

LEMMA LookupHolds == FileInput => LookupIsExact
<1>. SUFFICES ASSUME input \in Lookups PROVE LookupIsExact
  BY DEF FileInput, LookupIsExact, Reads, Commands
<1>1. PICK fname, entries : fname = input.fname /\ entries = input.direntries
  OBVIOUS
<1>. DEFINE named == {i \in DOMAIN entries : entries[i].filename = fname}
<1>2. /\ fname \in SeqOf(Letters, FILENAME_LEN + 1)
      /\ entries \in SeqOf(Entries, MaxEntries)
  BY <1>1 DEF Lookups
<1>3. FILENAME_LEN \in Nat \ {0} /\ FILENAME_LEN + 1 \in Nat /\ MaxEntries \in Nat
  BY FilenameLenAssumption, InputsAssumption
<1>4. \A i \in DOMAIN entries : entries[i] \in Entries
  BY <1>2, <1>3 DEF SeqOf
<1>5. fname \in Seq(Letters) /\ Len(fname) \in Nat
  BY <1>2, <1>3, SeqOfIsSeq
<1>6. CASE Len(fname) <= FILENAME_LEN
  <2>1. Matches(fname, entries) = named
    BY <1>2, <1>4, <1>6, LookupFacts DEF Matches
  <2>. QED  BY <1>1, <1>3, <1>5, <1>6, <2>1 DEF LookupIsExact, read_dentry_by_name
<1>7. CASE Len(fname) > FILENAME_LEN
  <2>1. named = {}
    <3>1. ASSUME NEW i \in DOMAIN entries PROVE entries[i].filename # fname
      <4>1. entries[i].filename \in SeqOf(Letters, FILENAME_LEN)
        BY <1>4 DEF Entries
      <4>. QED  BY <1>3, <1>5, <1>7, <4>1, SeqOfIsSeq
    <3>. QED  BY <3>1
  <2>. QED  BY <1>1, <1>7, <2>1 DEF LookupIsExact, read_dentry_by_name
<1>. QED  BY <1>3, <1>5, <1>6, <1>7

(***************************************************************************)
(* A file is found under its own name only, in a directory of any size and *)
(* for any names, also those that fill their field.                        *)
(***************************************************************************)
THEOREM LookupExact == FileInputs => []LookupIsExact
<1>1. FileInput => LookupIsExact
  BY LookupHolds
<1>2. LookupIsExact /\ [SameInput]_input => LookupIsExact'
  BY DEF SameInput, LookupIsExact
<1>. QED  BY <1>1, <1>2, PTL DEF FileInputs

-----------------------------------------------------------------------------
(***************************************************************************)
(* Reading a file: the place the loop has reached after i bytes is that of *)
(* the byte offset + i, counted in blocks.                                 *)
(***************************************************************************)
B == BYTES_PER_BLOCK
Ordered == {p \in Nat \X Nat : p[1] < p[2]}

\* A set of numbers that is not empty has a least one.
LEMMA LeastOf ==
  ASSUME NEW T, T \subseteq Nat, T # {}
  PROVE  \E m \in T : \A k \in T : m <= k
<1>1. IsWellFoundedOn(Ordered, Nat)
  BY NatLessThanWellFounded DEF OpToRel, Ordered
<1>2. ASSUME NEW x \in Nat, NEW y \in Nat, x < y PROVE <<x, y>> \in Ordered
  BY <1>2 DEF Ordered
<1>3. PICK m \in T : \A k \in T : ~ (<<k, m>> \in Ordered)
  BY <1>1, WFMin
<1>4. ASSUME NEW k \in T PROVE m <= k
  <2>1. k \in Nat /\ m \in Nat
    OBVIOUS
  <2>2. k < m => <<k, m>> \in Ordered
    BY <1>2, <2>1
  <2>. QED  BY <2>1, <2>2, <1>3
<1>. QED  BY <1>4

LEMMA TimesB ==
  ASSUME NEW a \in Int, NEW b \in Int, a <= b
  PROVE  a * B <= b * B /\ (a + 1) * B = a * B + B
BY BlockAssumption DEF B

LEMMA DivModB ==
  ASSUME NEW k \in Nat
  PROVE  /\ k \div B \in Nat /\ k % B \in 0 .. B - 1
         /\ k = (k \div B) * B + (k % B)
BY BlockAssumption DEF B

LEMMA UniqueB ==
  ASSUME NEW y \in Int, NEW x \in 0 .. B - 1, NEW v \in Int, NEW u \in 0 .. B - 1,
         y * B + x = v * B + u
  PROVE  y = v /\ x = u
<1>0. B \in Nat \ {0} /\ y * B \in Int /\ v * B \in Int
  BY BlockAssumption DEF B
<1>1. ~ (y < v)
  <2>. SUFFICES ASSUME y < v PROVE FALSE
    OBVIOUS
  <2>1. (y + 1) * B <= v * B
    BY TimesB
  <2>2. (y + 1) * B = y * B + B
    BY TimesB
  <2>. QED  BY <1>0, <2>1, <2>2
<1>2. ~ (v < y)
  <2>. SUFFICES ASSUME v < y PROVE FALSE
    OBVIOUS
  <2>1. (v + 1) * B <= y * B
    BY TimesB
  <2>2. (v + 1) * B = v * B + B
    BY TimesB
  <2>. QED  BY <1>0, <2>1, <2>2
<1>3. y = v
  BY <1>1, <1>2
<1>. QED  BY <1>0, <1>3

PlaceAt(k) == [block |-> k \div B, byte |-> k % B]

LEMMA NextPlaceAt ==
  ASSUME NEW k \in Nat
  PROVE  NextPlace(PlaceAt(k)) = PlaceAt(k + 1)
<1>. DEFINE q == k \div B
            r == k % B
            v == (k + 1) \div B
            u == (k + 1) % B
<1>1. /\ B \in Nat \ {0} /\ B = BYTES_PER_BLOCK
      /\ q \in Nat /\ r \in 0 .. B - 1 /\ k = q * B + r /\ q * B \in Int
  BY BlockAssumption, DivModB DEF B
<1>2. v \in Nat /\ u \in 0 .. B - 1 /\ k + 1 = v * B + u /\ v * B \in Int
  BY <1>1, DivModB
<1>3. PlaceAt(k) = [block |-> q, byte |-> r] /\ PlaceAt(k + 1) = [block |-> v, byte |-> u]
  BY DEF PlaceAt
<1>. HIDE DEF q, r, v, u
<1>4. CASE r + 1 >= B
  <2>1. r + 1 = B /\ (q + 1) * B = q * B + B
    BY <1>1, <1>4, TimesB
  <2>2. (q + 1) * B + 0 = v * B + u
    BY <1>1, <1>2, <2>1
  <2>3. v = q + 1 /\ u = 0
    <3>1. q + 1 \in Int /\ 0 \in 0 .. B - 1 /\ v \in Int
      BY <1>1, <1>2
    <3>. QED  BY <1>2, <2>2, <3>1, UniqueB
  <2>. QED  BY <1>1, <1>3, <1>4, <2>3 DEF NextPlace
<1>5. CASE ~(r + 1 >= B)
  <2>1. r + 1 \in 0 .. B - 1 /\ q * B + (r + 1) = v * B + u
    BY <1>1, <1>2, <1>5
  <2>2. v = q /\ u = r + 1
    <3>1. q \in Int /\ v \in Int
      BY <1>1, <1>2
    <3>. QED  BY <1>2, <2>1, <3>1, UniqueB
  <2>. QED  BY <1>1, <1>3, <1>5, <2>2 DEF NextPlace
<1>. QED  BY <1>4, <1>5

LEMMA PlacesAre ==
  ASSUME NEW offset \in Nat, NEW count \in Nat
  PROVE  \A i \in 1 .. count : Places(offset, count)[i] = PlaceAt(offset + i - 1)
<1>. DEFINE Is(f) == f = [i \in 1 .. count |->
                            IF i = 1 THEN PlaceAt(offset) ELSE NextPlace(f[i - 1])]
            place == CHOOSE f : Is(f)
            g == [i \in 1 .. count |-> PlaceAt(offset + i - 1)]
<1>1. Places(offset, count) = place
  BY DEF Places, PlaceAt, B
<1>2. Is(g)
  <2>1. \A i \in 1 .. count : g[i] = IF i = 1 THEN PlaceAt(offset) ELSE NextPlace(g[i - 1])
    <3>. SUFFICES ASSUME NEW i \in 1 .. count
                  PROVE  g[i] = IF i = 1 THEN PlaceAt(offset) ELSE NextPlace(g[i - 1])
      OBVIOUS
    <3>1. CASE i = 1
      <4>1. offset + i - 1 = offset
        BY <3>1
      <4>. QED  BY <3>1, <4>1
    <3>2. CASE i # 1
      <4>1. /\ i - 1 \in 1 .. count
            /\ offset + (i - 1) - 1 \in Nat
            /\ offset + (i - 1) - 1 + 1 = offset + i - 1
        BY <3>2
      <4>2. g[i - 1] = PlaceAt(offset + (i - 1) - 1)
        BY <4>1
      <4>3. NextPlace(g[i - 1]) = PlaceAt(offset + (i - 1) - 1 + 1)
        BY <4>1, <4>2, NextPlaceAt
      <4>. QED  BY <3>2, <4>1, <4>3
    <3>. QED  BY <3>1, <3>2
  <2>. QED  BY <2>1
<1>3. Is(place)
  <2>. HIDE DEF Is, g
  <2>. QED  BY <1>2, Zenon
<1>. HIDE DEF place
<1>4. \A i \in 1 .. count : place[i] = IF i = 1 THEN PlaceAt(offset) ELSE NextPlace(place[i - 1])
  BY <1>3
<1>5. \A i \in 1 .. count : g[i] = IF i = 1 THEN PlaceAt(offset) ELSE NextPlace(g[i - 1])
  BY <1>2
<1>6. \A i \in 1 .. count : g[i] = PlaceAt(offset + i - 1)
  OBVIOUS
<1>. DEFINE T == {i \in 1 .. count : place[i] # g[i]}
<1>. HIDE DEF Is, g
<1>7. T = {}
  <2>. SUFFICES ASSUME T # {} PROVE FALSE
    OBVIOUS
  <2>1. T \subseteq Nat
    OBVIOUS
  <2>2. PICK m \in T : \A i \in T : m <= i
    <3>. HIDE DEF T
    <3>. QED  BY <2>1, LeastOf
  <2>3. m # 1
    BY <1>4, <1>5
  <2>4. m \in 1 .. count /\ m - 1 \in 1 .. count /\ m - 1 \notin T
    BY <2>2, <2>3
  <2>5. place[m - 1] = g[m - 1]
    BY <2>4
  <2>. QED  BY <1>4, <1>5, <2>3, <2>4, <2>5
<1>. QED  BY <1>1, <1>6, <1>7

-----------------------------------------------------------------------------
(***************************************************************************)
(* Each byte of a file lies in one of its blocks.                          *)
(***************************************************************************)
LEMMA InBlocks ==
  ASSUME NEW size \in Nat, NEW k \in Nat, k < size
  PROVE  BlocksOf(size) \in Nat /\ k \div B + 1 \in 1 .. BlocksOf(size)
<1>. DEFINE q == k \div B
            r == k % B
            n == size + B - 1
            v == n \div B
            u == n % B
<1>1. B \in Nat \ {0} /\ n \in Nat /\ n >= k + B
  BY BlockAssumption DEF B
<1>2. BlocksOf(size) = v
  BY DEF BlocksOf, B
<1>3. q \in Nat /\ r \in 0 .. B - 1 /\ k = q * B + r /\ q * B \in Int
  BY <1>1, DivModB
<1>4. v \in Nat /\ u \in 0 .. B - 1 /\ n = v * B + u /\ v * B \in Int
  <2>. HIDE DEF n
  <2>. QED  BY <1>1, DivModB
<1>. HIDE DEF q, r, n, v, u
<1>5. ~ (v < q + 1)
  <2>. SUFFICES ASSUME v < q + 1 PROVE FALSE
    OBVIOUS
  <2>1. v \in Int /\ q \in Int /\ v <= q
    BY <1>3, <1>4
  <2>2. v * B <= q * B
    BY <2>1, TimesB
  <2>. QED  BY <1>1, <1>3, <1>4, <2>2
<1>6. q + 1 \in 1 .. v
  BY <1>3, <1>4, <1>5
<1>. QED  BY <1>2, <1>4, <1>6 DEF q

\* Where the request ends, when offset + length does not wrap around.
LEMMA ClippedAtEnd ==
  ASSUME NEW offset \in Nat, NEW length \in Nat, NEW size \in Nat,
         offset + length < UintValues
  PROVE  LET count == Clipped(offset, length, size)
             end == Min({offset + length, size})
         IN /\ count \in Nat /\ end \in Nat /\ end <= size
            /\ IF offset < end THEN count = end - offset ELSE count = 0
<1>1. (offset + length) % UintValues = offset + length
  BY UintAssumption
<1>2. Min({offset + length, size}) = IF offset + length <= size THEN offset + length ELSE size
  BY DEF Min
<1>3. Clipped(offset, length, size)
        = CASE offset >= size -> 0
            [] offset < size /\ offset + length > size -> size - offset
            [] OTHER -> length
  BY <1>1 DEF Clipped
<1>4. CASE offset >= size
  BY <1>2, <1>3, <1>4
<1>5. CASE offset < size /\ offset + length > size
  BY <1>2, <1>3, <1>5
<1>6. CASE offset < size /\ ~(offset + length > size)
  BY <1>2, <1>3, <1>6
<1>. QED  BY <1>4, <1>5, <1>6

LEMMA ReadHolds == FileInput => ReadIsSlice
<1>. SUFFICES ASSUME input \in Reads PROVE ReadIsSlice
  BY DEF FileInput, ReadIsSlice, Lookups, Commands
<1>1. PICK inode, offset, length :
        inode = input.inode /\ offset = input.offset /\ length = input.length
  OBVIOUS
<1>2. MaxFile \in Nat /\ UintValues \in Nat
  BY InputsAssumption, UintAssumption
<1>3. /\ inode \in Inodes /\ offset \in Nat /\ length \in Nat
      /\ offset + length < UintValues
  <2>1. inode \in Inodes /\ offset \in 0 .. MaxFile + 1 /\ length \in 0 .. UintValues - 1
        /\ offset + length < UintValues
    BY <1>1 DEF Reads
  <2>. QED  BY <1>2, <2>1
<1>4. PICK size \in 0 .. MaxFile :
        inode \in [length : {size}, data_block_num : Injection(1 .. BlocksOf(size), Blocks)]
  BY <1>3 DEF Inodes
<1>5. size \in Nat /\ inode.length = size
  BY <1>2, <1>4
<1>6. PICK blocks : blocks = inode.data_block_num
  OBVIOUS
<1>7. blocks \in [1 .. BlocksOf(size) -> Blocks]
  BY <1>4, <1>6 DEF Injection
<1>. DEFINE end == Min({offset + length, size})
            count == Clipped(offset, length, size)
            contents == [k \in 1 .. size |->
              <<blocks[(k - 1) \div BYTES_PER_BLOCK + 1], (k - 1) % BYTES_PER_BLOCK>>]
            slice == SubSeq(contents, offset + 1, end)
            read == BytesRead(inode, offset, length)
<1>8. /\ count \in Nat /\ end \in Nat /\ end <= size
      /\ IF offset < end THEN count = end - offset ELSE count = 0
  BY <1>3, <1>5, ClippedAtEnd
<1>9. read = [i \in 1 .. count |->
        <<CharAt(blocks, Places(offset, count)[i].block + 1), Places(offset, count)[i].byte>>]
  BY <1>5, <1>6 DEF BytesRead
<1>. HIDE DEF end, count, read
<1>10. ASSUME NEW i \in 1 .. count
       PROVE  /\ offset + i \in 1 .. size
              /\ read[i] = <<blocks[(offset + i - 1) \div B + 1], (offset + i - 1) % B>>
  <2>1. i \in Nat /\ offset + i - 1 \in Nat /\ offset + i - 1 < size
    BY <1>3, <1>5, <1>8
  <2>2. Places(offset, count)[i] = PlaceAt(offset + i - 1)
    BY <1>3, <1>8, PlacesAre
  <2>3. /\ BlocksOf(size) \in Nat
        /\ (offset + i - 1) \div B + 1 \in 1 .. BlocksOf(size)
    BY <1>5, <2>1, InBlocks
  <2>4. CharAt(blocks, (offset + i - 1) \div B + 1) = blocks[(offset + i - 1) \div B + 1]
    <3>1. PICK b : b = (offset + i - 1) \div B + 1
      OBVIOUS
    <3>2. b \in 1 .. BlocksOf(size) /\ BlocksOf(size) \in Nat
      BY <2>3, <3>1
    <3>3. Len(blocks) = BlocksOf(size)
      BY <1>7, <3>2
    <3>4. CharAt(blocks, b) = blocks[b]
      BY <3>2, <3>3 DEF CharAt
    <3>. QED  BY <3>1, <3>4
  <2>5. read[i] = <<CharAt(blocks, (offset + i - 1) \div B + 1), (offset + i - 1) % B>>
    BY <1>9, <2>2 DEF PlaceAt
  <2>6. offset + i \in 1 .. size
    BY <1>3, <1>5, <2>1
  <2>. QED  BY <2>4, <2>5, <2>6
<1>. DEFINE T == Blocks \X (0 .. B - 1)
<1>11. ASSUME NEW k \in 1 .. size
       PROVE  /\ contents[k] = <<blocks[(k - 1) \div B + 1], (k - 1) % B>>
              /\ contents[k] \in T
  <2>1. k - 1 \in Nat /\ k - 1 < size
    BY <1>5
  <2>2. (k - 1) \div B + 1 \in 1 .. BlocksOf(size) /\ (k - 1) % B \in 0 .. B - 1
    BY <1>5, <2>1, InBlocks, DivModB
  <2>3. contents[k] = <<blocks[(k - 1) \div B + 1], (k - 1) % B>>
    BY DEF B
  <2>4. blocks[(k - 1) \div B + 1] \in Blocks
    BY <1>7, <2>2
  <2>. QED  BY <2>2, <2>3, <2>4
<1>. HIDE DEF contents
<1>12. read = slice
  <2>1. CASE offset < end
    <3>. HIDE DEF T
    <3>1. offset + 1 \in Int /\ end \in Int /\ offset + 1 <= end /\ end - (offset + 1) + 1 = count
      BY <1>3, <1>8, <2>1
    <3>2. \A i \in offset + 1 .. end : contents[i] \in T
      <4>. SUFFICES ASSUME NEW i \in offset + 1 .. end PROVE contents[i] \in T
        OBVIOUS
      <4>1. i \in 1 .. size
        BY <1>3, <1>5, <1>8
      <4>. QED  BY <4>1, <1>11
    <3>3. /\ slice \in Seq(T) /\ Len(slice) = count
          /\ \A i \in 1 .. count : slice[i] = contents[offset + 1 + i - 1]
      BY <3>1, <3>2, SubSeqProperties
    <3>4. ASSUME NEW i \in 1 .. count PROVE slice[i] = read[i]
      <4>1. offset + 1 + i - 1 = offset + i /\ offset + i \in 1 .. size
        BY <1>3, <1>8, <1>10
      <4>2. slice[i] = contents[offset + i]
        BY <3>3, <4>1
      <4>3. contents[offset + i] = <<blocks[(offset + i - 1) \div B + 1], (offset + i - 1) % B>>
        <5>1. PICK k \in 1 .. size : k = offset + i
          BY <4>1
        <5>2. k - 1 = offset + i - 1
          BY <1>3, <1>8, <5>1
        <5>3. contents[k] = <<blocks[(k - 1) \div B + 1], (k - 1) % B>>
          BY <1>11
        <5>. QED  BY <5>1, <5>2, <5>3, Zenon
      <4>4. read[i] = <<blocks[(offset + i - 1) \div B + 1], (offset + i - 1) % B>>
        BY <1>10
      <4>. QED  BY <4>2, <4>3, <4>4, Zenon
    <3>5. DOMAIN slice = 1 .. count /\ slice = [i \in 1 .. count |-> slice[i]]
      BY <3>3
    <3>6. read = [i \in 1 .. count |-> read[i]]
      BY <1>9
    <3>. HIDE DEF slice
    <3>. QED  BY <3>4, <3>5, <3>6
  <2>2. CASE ~(offset < end)
    <3>1. slice = <<>>
      <4>1. offset + 1 \in Int /\ end \in Int /\ end < offset + 1
        BY <1>3, <1>8, <2>2
      <4>. QED  BY <4>1, SubSeqEmpty
    <3>2. count = 0
      BY <1>8, <2>2
    <3>3. read = <<>>
      BY <1>9, <3>2
    <3>. QED  BY <3>1, <3>3
  <2>. QED  BY <2>1, <2>2
<1>13. ReadIsSlice <=> read = slice
  BY <1>1, <1>5, <1>6 DEF ReadIsSlice, read, end, contents, Reads
<1>. QED  BY <1>12, <1>13

(***************************************************************************)
(* A read returns the slice of the file it asks for, for any size of file, *)
(* block and request that does not wrap around, wherever the blocks lie.   *)
(***************************************************************************)
THEOREM ReadSlice == FileInputs => []ReadIsSlice
<1>1. FileInput => ReadIsSlice
  BY ReadHolds
<1>2. ReadIsSlice /\ [SameInput]_input => ReadIsSlice'
  BY DEF SameInput, ReadIsSlice
<1>. QED  BY <1>1, <1>2, PTL DEF FileInputs

-----------------------------------------------------------------------------
(***************************************************************************)
(* The command line: the loops of system_execute cut it into five pieces.  *)
(***************************************************************************)
Characters == Letters \cup {SPACE}
Blank(text, from, to) == \A i \in from .. to : text[i] = SPACE

\* The name is text[a .. e-1], the arguments are text[g .. z].
Cut(text, a, e, g, z) ==
  /\ 1 <= a /\ a <= e /\ e <= g /\ g <= z + 1 /\ z <= Len(text)
  /\ Blank(text, 1, a - 1) /\ Blank(text, e, g - 1) /\ Blank(text, z + 1, Len(text))
  /\ \A i \in a .. e - 1 : text[i] # SPACE
  /\ g <= z => a < e /\ e < g /\ text[g] # SPACE /\ text[z] # SPACE

IsWholeOf(text, a, e, g, z) ==
  text = Spaces(a - 1) \o SubSeq(text, a, e - 1) \o Spaces(g - e)
           \o SubSeq(text, g, z) \o Spaces(Len(text) - z)

LEMMA MinIs ==
  ASSUME NEW T, T \subseteq Nat, T # {}
  PROVE  Min(T) \in T /\ \A k \in T : Min(T) <= k
<1>1. \E m \in T : \A k \in T : m <= k
  BY LeastOf
<1>. QED  BY <1>1 DEF Min

\* The greatest number of a set that is bounded.
LEMMA MaxIs ==
  ASSUME NEW T, NEW n \in Nat, T \subseteq 0 .. n, T # {}
  PROVE  Max(T) \in T /\ \A k \in T : Max(T) >= k
<1>. DEFINE D == {n - k : k \in T}
<1>1. D \subseteq Nat /\ D # {}
  OBVIOUS
<1>2. PICK d \in D : \A k \in D : d <= k
  <2>. HIDE DEF D
  <2>. QED  BY <1>1, LeastOf
<1>3. PICK m \in T : d = n - m
  BY <1>2
<1>4. ASSUME NEW k \in T PROVE m >= k
  <2>1. n - k \in D
    OBVIOUS
  <2>2. n - m <= n - k
    BY <1>2, <1>3, <2>1
  <2>3. m \in 0 .. n /\ k \in 0 .. n
    OBVIOUS
  <2>. QED  BY <2>2, <2>3
<1>5. \E x \in T : \A y \in T : x >= y
  BY <1>4
<1>. QED  BY <1>5 DEF Max

LEMMA CharactersAre ==
  ASSUME NEW text \in Seq(Characters)
  PROVE  /\ Len(text) \in Nat
         /\ NUL # SPACE
         /\ \A i \in 1 .. Len(text) : text[i] \in Characters /\ text[i] # NUL /\ CharAt(text, i) = text[i]
         /\ CharAt(text, Len(text) + 1) = NUL
<1>1. NUL # SPACE
  BY DEF NUL, SPACE
<1>2. Len(text) \in Nat /\ \A i \in 1 .. Len(text) : text[i] \in Characters
  OBVIOUS
<1>3. NUL \notin Characters
  BY <1>1, LettersAssumption DEF Characters
<1>. QED  BY <1>1, <1>2, <1>3 DEF CharAt

LEMMA SkipSpacesIs ==
  ASSUME NEW text \in Seq(Characters), NEW i \in 1 .. Len(text) + 1
  PROVE  /\ SkipSpaces(text, i) \in i .. Len(text) + 1
         /\ CharAt(text, SkipSpaces(text, i)) # SPACE
         /\ Blank(text, i, SkipSpaces(text, i) - 1)
<1>. DEFINE T == {j \in i .. Len(text) + 1 : CharAt(text, j) # SPACE}
            s == Min(T)
<1>1. Len(text) \in Nat
  OBVIOUS
<1>2. T \subseteq Nat /\ Len(text) + 1 \in T
  BY CharactersAre
<1>3. s \in T /\ \A k \in T : s <= k
  <2>. HIDE DEF T
  <2>. QED  BY <1>2, MinIs
<1>4. SkipSpaces(text, i) = s
  BY DEF SkipSpaces
<1>. HIDE DEF s
<1>5. ASSUME NEW j \in i .. s - 1 PROVE text[j] = SPACE
  <2>1. j \in i .. Len(text) + 1 /\ j \notin T /\ j \in 1 .. Len(text)
    BY <1>1, <1>3
  <2>2. CharAt(text, j) = SPACE
    BY <2>1
  <2>. QED  BY <2>1, <2>2, CharactersAre
<1>. QED  BY <1>3, <1>4, <1>5 DEF Blank

LEMMA EndOfNameIs ==
  ASSUME NEW text \in Seq(Characters)
  PROVE  LET a == SkipSpaces(text, 1)
             e == EndOfName(text)
         IN /\ e \in a .. Len(text) + 1
            /\ e > FILENAME_LEN \/ CharAt(text, e) \in {NUL, SPACE}
            /\ \A i \in a .. e - 1 : text[i] # SPACE
<1>1. PICK a : a = SkipSpaces(text, 1)
  OBVIOUS
<1>2. Len(text) \in Nat /\ a \in 1 .. Len(text) + 1
  <2>1. 1 \in 1 .. Len(text) + 1
    OBVIOUS
  <2>. QED  BY <1>1, <2>1, SkipSpacesIs
<1>. DEFINE T == {j \in a .. Len(text) + 1 :
                    j > FILENAME_LEN \/ CharAt(text, j) \in {NUL, SPACE}}
            e == Min(T)
<1>3. T \subseteq Nat /\ Len(text) + 1 \in T
  BY <1>2, CharactersAre
<1>4. e \in T /\ \A k \in T : e <= k
  <2>. HIDE DEF T
  <2>. QED  BY <1>3, MinIs
<1>5. EndOfName(text) = e
  BY <1>1 DEF EndOfName
<1>. HIDE DEF e
<1>6. ASSUME NEW i \in a .. e - 1 PROVE text[i] # SPACE
  <2>1. i \in a .. Len(text) + 1 /\ i \notin T /\ i \in 1 .. Len(text)
    BY <1>2, <1>4
  <2>2. CharAt(text, i) # SPACE
    BY <2>1
  <2>. QED  BY <2>1, <2>2, CharactersAre
<1>. QED  BY <1>1, <1>4, <1>5, <1>6

LEMMA EndOfArgsIs ==
  ASSUME NEW text \in Seq(Characters)
  PROVE  LET z == EndOfArgs(text)
         IN /\ z \in 0 .. Len(text)
            /\ z = 0 \/ text[z] # SPACE
            /\ \A i \in 1 .. Len(text) : text[i] # SPACE => i <= z
            /\ Blank(text, z + 1, Len(text))
<1>. DEFINE T == {0} \cup {j \in DOMAIN text : text[j] # SPACE}
            z == Max(T)
<1>1. Len(text) \in Nat /\ DOMAIN text = 1 .. Len(text)
  OBVIOUS
<1>2. T \subseteq 0 .. Len(text) /\ T # {}
  BY <1>1
<1>3. z \in T /\ \A k \in T : z >= k
  <2>. HIDE DEF T
  <2>. QED  BY <1>1, <1>2, MaxIs
<1>4. EndOfArgs(text) = z
  BY DEF EndOfArgs
<1>. HIDE DEF z
<1>5. z \in 0 .. Len(text) /\ (z = 0 \/ text[z] # SPACE)
  BY <1>2, <1>3
<1>6. \A i \in 1 .. Len(text) : text[i] # SPACE => i <= z
  BY <1>1, <1>3, <1>5
<1>7. Blank(text, z + 1, Len(text))
  BY <1>1, <1>5, <1>6 DEF Blank
<1>. QED  BY <1>4, <1>5, <1>6, <1>7

LEMMA CommandIsCut ==
  ASSUME NEW text \in Seq(Characters), EndOfName(text) <= FILENAME_LEN
  PROVE  \E a, e, g, z \in Nat :
           /\ Cut(text, a, e, g, z)
           /\ CommandName(text) = SubSeq(text, a, e - 1)
           /\ CommandArgs(text) = SubSeq(text, g, z)
<1>1. PICK n, a, e : n = Len(text) /\ a = SkipSpaces(text, 1) /\ e = EndOfName(text)
  OBVIOUS
<1>2. /\ n \in Nat /\ FILENAME_LEN \in Nat /\ NUL # SPACE
      /\ \A i \in 1 .. n : text[i] # NUL /\ CharAt(text, i) = text[i]
      /\ CharAt(text, n + 1) = NUL
  BY <1>1, CharactersAre, FilenameLenAssumption
<1>3. a \in 1 .. n + 1 /\ CharAt(text, a) # SPACE /\ Blank(text, 1, a - 1)
  <2>1. 1 \in 1 .. Len(text) + 1
    OBVIOUS
  <2>. QED  BY <1>1, <2>1, SkipSpacesIs
<1>4. e \in a .. n + 1 /\ CharAt(text, e) \in {NUL, SPACE} /\ \A i \in a .. e - 1 : text[i] # SPACE
  <2>1. e \in a .. n + 1 /\ (e > FILENAME_LEN \/ CharAt(text, e) \in {NUL, SPACE})
        /\ \A i \in a .. e - 1 : text[i] # SPACE
    BY <1>1, EndOfNameIs
  <2>2. e \in Nat /\ ~(e > FILENAME_LEN)
    BY <1>1, <1>2, <1>3, <2>1
  <2>. QED  BY <2>1, <2>2
<1>5. CommandName(text) = SubSeq(text, a, e - 1)
  BY <1>1 DEF CommandName
<1>6. CASE CharAt(text, e) = NUL
  <2>1. e = n + 1
    BY <1>2, <1>3, <1>4, <1>6
  <2>2. CommandArgs(text) = <<>>
    BY <1>1, <1>2, <1>6 DEF CommandArgs
  <2>3. SubSeq(text, e, n) = <<>>
    <3>1. e \in Int /\ n \in Int /\ n < e
      BY <1>2, <2>1
    <3>. QED  BY <3>1, SubSeqEmpty
  <2>4. Cut(text, a, e, e, n)
    BY <1>1, <1>2, <1>3, <1>4, <2>1 DEF Cut, Blank
  <2>5. a \in Nat /\ e \in Nat /\ n \in Nat
    BY <1>2, <1>3, <1>4
  <2>. QED  BY <1>5, <2>2, <2>3, <2>4, <2>5
<1>7. CASE CharAt(text, e) = SPACE
  <2>1. a \in Nat /\ e \in Nat /\ e \in 1 .. n /\ a < e /\ text[e] = SPACE
    BY <1>2, <1>3, <1>4, <1>7
  <2>2. PICK g, z : g = SkipSpaces(text, e) /\ z = EndOfArgs(text)
    OBVIOUS
  <2>3. g \in e .. n + 1 /\ CharAt(text, g) # SPACE /\ Blank(text, e, g - 1)
    <3>1. e \in 1 .. Len(text) + 1
      BY <1>1, <1>2, <2>1
    <3>. QED  BY <1>1, <2>2, <3>1, SkipSpacesIs
  <2>4. /\ z \in 0 .. n /\ (z = 0 \/ text[z] # SPACE)
        /\ \A i \in 1 .. n : text[i] # SPACE => i <= z
        /\ Blank(text, z + 1, n)
    BY <1>1, <2>2, EndOfArgsIs
  <2>5. g \in Nat /\ z \in Nat /\ e < g
    BY <1>2, <1>7, <2>1, <2>3, <2>4
  <2>6. CommandArgs(text) = SubSeq(text, g, z)
    BY <1>1, <1>7, <2>2 DEF CommandArgs
  <2>7. CASE g <= n
    <3>1. g \in 1 .. n /\ text[g] # SPACE
      BY <1>2, <2>1, <2>3, <2>5, <2>7
    <3>2. g <= z /\ z # 0
      BY <2>4, <2>5, <3>1
    <3>3. Cut(text, a, e, g, z)
      BY <1>1, <1>2, <1>3, <1>4, <2>1, <2>3, <2>4, <2>5, <3>1, <3>2 DEF Cut
    <3>. QED  BY <1>5, <2>1, <2>5, <2>6, <3>3
  <2>8. CASE ~(g <= n)
    <3>1. g = n + 1
      BY <1>2, <2>3, <2>5, <2>8
    <3>2. z < e
      <4>. SUFFICES ASSUME z >= e PROVE FALSE
        BY <2>1, <2>5
      <4>1. z \in e .. g - 1 /\ z # 0
        BY <1>2, <2>1, <2>4, <2>5, <3>1
      <4>. QED  BY <2>3, <2>4, <4>1 DEF Blank
    <3>3. SubSeq(text, g, z) = <<>> /\ SubSeq(text, g, n) = <<>>
      <4>1. g \in Int /\ z \in Int /\ n \in Int /\ z < g /\ n < g
        BY <1>2, <2>1, <2>5, <3>1, <3>2
      <4>. QED  BY <4>1, SubSeqEmpty
    <3>4. Cut(text, a, e, g, n)
      BY <1>1, <1>2, <1>3, <1>4, <2>1, <2>3, <2>5, <3>1 DEF Cut, Blank
    <3>. QED  BY <1>2, <1>5, <2>1, <2>5, <2>6, <3>3, <3>4
  <2>. QED  BY <2>7, <2>8
<1>. QED  BY <1>4, <1>6, <1>7

LEMMA BlankIsSpaces ==
  ASSUME NEW text \in Seq(Characters), NEW m \in Nat \ {0}, NEW n \in Nat,
         m <= n + 1, n <= Len(text), Blank(text, m, n)
  PROVE  SubSeq(text, m, n) = Spaces(n - m + 1)
<1>. DEFINE piece == SubSeq(text, m, n)
<1>1. \A i \in m .. n : text[i] \in Characters
  BY CharactersAre
<1>2. /\ piece \in Seq(Characters)
      /\ Len(piece) = IF m <= n THEN n - m + 1 ELSE 0
      /\ \A i \in 1 .. n - m + 1 : piece[i] = text[m + i - 1]
  <2>1. m \in Int /\ n \in Int
    OBVIOUS
  <2>. QED  BY <1>1, <2>1, SubSeqProperties
<1>. HIDE DEF piece
<1>3. Len(piece) = n - m + 1
  BY <1>2
<1>4. ASSUME NEW i \in 1 .. n - m + 1 PROVE piece[i] = SPACE
  <2>1. m + i - 1 \in m .. n
    OBVIOUS
  <2>. QED  BY <1>2, <2>1 DEF Blank
<1>5. DOMAIN piece = 1 .. n - m + 1 /\ piece = [i \in 1 .. n - m + 1 |-> piece[i]]
  BY <1>2, <1>3
<1>6. piece = Spaces(n - m + 1)
  BY <1>4, <1>5 DEF Spaces
<1>. QED  BY <1>6 DEF piece

LEMMA CutJoins ==
  ASSUME NEW text \in Seq(Characters),
         NEW a \in Nat, NEW e \in Nat, NEW g \in Nat, NEW z \in Nat, Cut(text, a, e, g, z)
  PROVE  IsWholeOf(text, a, e, g, z)
<1>1. PICK n \in Nat : n = Len(text)
  OBVIOUS
<1>2. 1 <= a /\ a <= e /\ e <= g /\ g <= z + 1 /\ z <= n
  BY <1>1 DEF Cut
<1>3. SubSeq(text, 1, a - 1) = Spaces(a - 1)
  <2>1. 1 \in Nat \ {0} /\ a - 1 \in Nat /\ 1 <= a - 1 + 1 /\ a - 1 <= n /\ a - 1 - 1 + 1 = a - 1
    BY <1>2
  <2>. QED  BY <1>1, <2>1, BlankIsSpaces DEF Cut
<1>4. SubSeq(text, e, g - 1) = Spaces(g - e)
  <2>1. e \in Nat \ {0} /\ g - 1 \in Nat /\ e <= g - 1 + 1 /\ g - 1 <= n /\ g - 1 - e + 1 = g - e
    BY <1>2
  <2>. QED  BY <1>1, <2>1, BlankIsSpaces DEF Cut
<1>5. SubSeq(text, z + 1, n) = Spaces(n - z)
  <2>1. z + 1 \in Nat \ {0} /\ z + 1 <= n + 1 /\ n <= Len(text) /\ n - (z + 1) + 1 = n - z
    BY <1>1, <1>2
  <2>2. Blank(text, z + 1, n)
    BY <1>1 DEF Cut
  <2>3. SubSeq(text, z + 1, n) = Spaces(n - (z + 1) + 1)
    BY <2>1, <2>2, BlankIsSpaces
  <2>. QED  BY <2>1, <2>3
<1>6. SubSeq(text, 1, a - 1) \o SubSeq(text, a, e - 1) = SubSeq(text, 1, e - 1)
  <2>1. 1 \in 1 .. Len(text) + 1 /\ a - 1 \in 1 - 1 .. Len(text) /\ e - 1 \in a - 1 .. Len(text)
        /\ a - 1 + 1 = a
    BY <1>1, <1>2
  <2>. QED  BY <2>1, ConcatAdjacentSubSeq
<1>7. SubSeq(text, 1, e - 1) \o SubSeq(text, e, g - 1) = SubSeq(text, 1, g - 1)
  <2>1. 1 \in 1 .. Len(text) + 1 /\ e - 1 \in 1 - 1 .. Len(text) /\ g - 1 \in e - 1 .. Len(text)
        /\ e - 1 + 1 = e
    BY <1>1, <1>2
  <2>. QED  BY <2>1, ConcatAdjacentSubSeq
<1>8. SubSeq(text, 1, g - 1) \o SubSeq(text, g, z) = SubSeq(text, 1, z)
  <2>1. 1 \in 1 .. Len(text) + 1 /\ g - 1 \in 1 - 1 .. Len(text) /\ z \in g - 1 .. Len(text)
        /\ g - 1 + 1 = g
    BY <1>1, <1>2
  <2>. QED  BY <2>1, ConcatAdjacentSubSeq
<1>9. SubSeq(text, 1, z) \o SubSeq(text, z + 1, n) = SubSeq(text, 1, n)
  <2>1. 1 \in 1 .. Len(text) + 1 /\ z \in 1 - 1 .. Len(text) /\ n \in z .. Len(text)
    BY <1>1, <1>2
  <2>. QED  BY <2>1, ConcatAdjacentSubSeq
<1>10. SubSeq(text, 1, n) = text
  BY <1>1, SubSeqFull
<1>. QED  BY <1>1, <1>3, <1>4, <1>5, <1>6, <1>7, <1>8, <1>9, <1>10, Zenon DEF IsWholeOf

LEMMA CutIsWhole ==
  ASSUME NEW text \in Seq(Characters)
  PROVE  IsNameAndArgs(text)
<1>. DEFINE name == CommandName(text)
            args == CommandArgs(text)
<1>2. text \in Seq(Characters)
  OBVIOUS
<1>. DEFINE blanks == Len(text) - Len(name) - Len(args)
            Whole ==
              /\ \A i \in DOMAIN name : name[i] # SPACE
              /\ args # <<>> => args[1] # SPACE /\ args[Len(args)] # SPACE
              /\ \E before, between, after \in 0 .. blanks :
                   /\ text = Spaces(before) \o name \o Spaces(between) \o args \o Spaces(after)
                   /\ args # <<>> => name # <<>> /\ between > 0
<1>. HIDE DEF name, args
<1>3. ASSUME EndOfName(text) <= FILENAME_LEN PROVE Whole
  <2>1. PICK a, e, g, z \in Nat :
           /\ Cut(text, a, e, g, z)
           /\ name = SubSeq(text, a, e - 1)
           /\ args = SubSeq(text, g, z)
    <3>1. \E a, e, g, z \in Nat :
             /\ Cut(text, a, e, g, z)
             /\ CommandName(text) = SubSeq(text, a, e - 1)
             /\ CommandArgs(text) = SubSeq(text, g, z)
      BY <1>2, <1>3, CommandIsCut
    <3>. QED  BY <3>1 DEF name, args
  <2>2. /\ Len(text) \in Nat
        /\ 1 <= a /\ a <= e /\ e <= g /\ g <= z + 1 /\ z <= Len(text)
        /\ \A i \in a .. e - 1 : text[i] # SPACE
        /\ g <= z => a < e /\ e < g /\ text[g] # SPACE /\ text[z] # SPACE
    BY <1>2, <2>1 DEF Cut
  <2>3. /\ name \in Seq(Characters) /\ Len(name) = e - a
        /\ \A i \in 1 .. e - a : name[i] = text[a + i - 1]
    <3>1. a \in Int /\ e - 1 \in Int /\ e - 1 - a + 1 = e - a
          /\ \A i \in a .. e - 1 : text[i] \in Characters
      BY <1>2, <2>2
    <3>2. /\ name \in Seq(Characters)
          /\ Len(name) = IF a <= e - 1 THEN e - 1 - a + 1 ELSE 0
          /\ \A i \in 1 .. e - 1 - a + 1 : name[i] = text[a + i - 1]
      BY <2>1, <3>1, SubSeqProperties
    <3>. QED  BY <2>2, <3>1, <3>2
  <2>4. /\ args \in Seq(Characters) /\ Len(args) = z - g + 1
        /\ \A i \in 1 .. z - g + 1 : args[i] = text[g + i - 1]
    <3>1. g \in Int /\ z \in Int /\ \A i \in g .. z : text[i] \in Characters
      BY <1>2, <2>2
    <3>2. /\ args \in Seq(Characters)
          /\ Len(args) = IF g <= z THEN z - g + 1 ELSE 0
          /\ \A i \in 1 .. z - g + 1 : args[i] = text[g + i - 1]
      BY <2>1, <3>1, SubSeqProperties
    <3>. QED  BY <2>2, <3>2
  <2>5. \A i \in DOMAIN name : name[i] # SPACE
    <3>. SUFFICES ASSUME NEW i \in DOMAIN name PROVE name[i] # SPACE
      OBVIOUS
    <3>1. i \in 1 .. e - a /\ a + i - 1 \in a .. e - 1
      BY <2>2, <2>3
    <3>. QED  BY <2>2, <2>3, <3>1
  <2>6. ASSUME args # <<>>
        PROVE  /\ args[1] # SPACE /\ args[Len(args)] # SPACE
               /\ name # <<>> /\ g - e > 0
    <3>1. Len(args) # 0
      BY <2>4, <2>6
    <3>2. g <= z /\ a < e /\ e < g
      BY <2>2, <2>4, <3>1
    <3>3. /\ 1 \in 1 .. z - g + 1 /\ z - g + 1 \in 1 .. z - g + 1
          /\ g + 1 - 1 = g /\ g + (z - g + 1) - 1 = z
      BY <3>2
    <3>4. args[1] = text[g] /\ args[Len(args)] = text[z]
      BY <2>4, <3>3
    <3>5. Len(name) # 0
      BY <2>3, <3>2
    <3>. QED  BY <2>2, <3>2, <3>4, <3>5
  <2>7. /\ blanks = (a - 1) + (g - e) + (Len(text) - z)
        /\ a - 1 \in 0 .. blanks /\ g - e \in 0 .. blanks /\ Len(text) - z \in 0 .. blanks
    BY <2>2, <2>3, <2>4
  <2>8. text = Spaces(a - 1) \o name \o Spaces(g - e) \o args \o Spaces(Len(text) - z)
    <3>1. Cut(text, a, e, g, z)
      BY <2>1
    <3>2. IsWholeOf(text, a, e, g, z)
      BY <3>1, CutJoins
    <3>. QED  BY <2>1, <3>2, Zenon DEF IsWholeOf
  <2>. HIDE DEF blanks
  <2>. QED  BY <2>5, <2>6, <2>7, <2>8
<1>. QED  BY <1>3 DEF IsNameAndArgs, name, args

LEMMA CommandHolds == FileInput => CommandIsNameAndArgs
<1>. SUFFICES ASSUME input \in Commands PROVE CommandIsNameAndArgs
  BY DEF FileInput, CommandIsNameAndArgs, Lookups, Reads
<1>1. PICK text : text = input.text
  OBVIOUS
<1>2. text \in Seq(Characters)
  <2>1. text \in SeqOf(Letters \cup {SPACE}, MaxCommand) /\ MaxCommand \in Nat
    BY <1>1, InputsAssumption DEF Commands
  <2>. QED  BY <2>1, SeqOfIsSeq DEF Characters
<1>3. IsNameAndArgs(text)
  BY <1>2, CutIsWhole
<1>. QED  BY <1>1, <1>3 DEF CommandIsNameAndArgs

(***************************************************************************)
(* A command line of any length is cut into its name and its arguments,    *)
(* and nothing of it is lost or given twice.                               *)
(***************************************************************************)
THEOREM CommandSplit == FileInputs => []CommandIsNameAndArgs
<1>1. FileInput => CommandIsNameAndArgs
  BY CommandHolds
<1>2. CommandIsNameAndArgs /\ [SameInput]_input => CommandIsNameAndArgs'
  BY DEF SameInput, CommandIsNameAndArgs
<1>. QED  BY <1>1, <1>2, PTL DEF FileInputs

-----------------------------------------------------------------------------
\* Two functions that begin alike, and agree on each number up to k if on the
\* one before it, agree on k.
LEMMA Agree ==
  ASSUME NEW k \in Nat, NEW f, NEW g, f[0] = g[0],
         \A i \in 1 .. k : f[i - 1] = g[i - 1] => f[i] = g[i]
  PROVE  f[k] = g[k]
<1>. DEFINE D == {i \in 0 .. k : f[i] # g[i]}
<1>1. ASSUME D # {} PROVE FALSE
  <2>1. D \subseteq Nat
    OBVIOUS
  <2>2. PICK m \in D : \A i \in D : m <= i
    <3>. HIDE DEF D
    <3>. QED  BY <1>1, <2>1, LeastOf
  <2>3. m \in 0 .. k /\ m # 0 /\ f[m] # g[m]
    OBVIOUS
  <2>4. m \in 1 .. k /\ m - 1 \in 0 .. k /\ m - 1 \notin D
    BY <2>2, <2>3
  <2>. QED  BY <2>3, <2>4
<1>2. k \in 0 .. k
  OBVIOUS
<1>. QED  BY <1>1, <1>2

(***************************************************************************)
(* Writes one after the other: any sequence g of memories that follows     *)
(* from mem write by write ends in what StoreAll and CopyAll return.       *)
(***************************************************************************)
LEMMA StoreAllIs ==
  ASSUME NEW mem, NEW writes, NEW k \in Nat, Len(writes) = k, NEW g, g[0] = mem,
         \A i \in 1 .. k : g[i] = Store(g[i - 1], writes[i].at, writes[i].bytes)
  PROVE  StoreAll(mem, writes) = g[k]
<1>. DEFINE Is(f) == f = [i \in 0 .. k |->
                            IF i = 0 THEN mem
                            ELSE Store(f[i - 1], writes[i].at, writes[i].bytes)]
            after == CHOOSE f : Is(f)
            h == [i \in 0 .. k |-> g[i]]
<1>1. StoreAll(mem, writes) = after[k]
  BY DEF StoreAll
<1>2. Is(h)
  <2>1. \A i \in 0 .. k : h[i] = IF i = 0 THEN mem
                                 ELSE Store(h[i - 1], writes[i].at, writes[i].bytes)
    OBVIOUS
  <2>. QED  BY <2>1
<1>3. Is(after)
  <2>. HIDE DEF Is, h
  <2>. QED  BY <1>2, Zenon
<1>. HIDE DEF after
<1>4. \A i \in 0 .. k : after[i] = IF i = 0 THEN mem
                                   ELSE Store(after[i - 1], writes[i].at, writes[i].bytes)
  BY <1>3
<1>5. after[0] = g[0]
  BY <1>4
<1>6. \A i \in 1 .. k : after[i - 1] = g[i - 1] => after[i] = g[i]
  BY <1>4
<1>7. after[k] = g[k]
  BY <1>5, <1>6, Agree
<1>. QED  BY <1>1, <1>7

LEMMA CopyAllIs ==
  ASSUME NEW mem, NEW dest, NEW src, NEW accesses, NEW k \in Nat, Len(accesses) = k,
         NEW g, g[0] = mem,
         \A i \in 1 .. k :
           g[i] = Copy(g[i - 1], accesses[i].at, src + (accesses[i].at - dest), accesses[i].size)
  PROVE  CopyAll(mem, dest, src, accesses) = g[k]
<1>. DEFINE Step(m, a) == Copy(m, a.at, src + (a.at - dest), a.size)
            Is(f) == f = [i \in 0 .. k |-> IF i = 0 THEN mem ELSE Step(f[i - 1], accesses[i])]
            after == CHOOSE f : Is(f)
            h == [i \in 0 .. k |-> g[i]]
<1>1. CopyAll(mem, dest, src, accesses) = after[k]
  BY DEF CopyAll
<1>0. \A i \in 1 .. k : g[i] = Step(g[i - 1], accesses[i])
  OBVIOUS
<1>. HIDE DEF Step
<1>2. Is(h)
  <2>1. \A i \in 0 .. k : h[i] = IF i = 0 THEN mem ELSE Step(h[i - 1], accesses[i])
    BY <1>0
  <2>. QED  BY <2>1
<1>3. Is(after)
  <2>. HIDE DEF Is, h
  <2>. QED  BY <1>2, Zenon
<1>. HIDE DEF after
<1>4. \A i \in 0 .. k : after[i] = IF i = 0 THEN mem ELSE Step(after[i - 1], accesses[i])
  BY <1>3
<1>5. after[0] = g[0]
  BY <1>4
<1>6. \A i \in 1 .. k : after[i - 1] = g[i - 1] => after[i] = g[i]
  BY <1>4, <1>0
<1>7. after[k] = g[k]
  BY <1>5, <1>6, Agree
<1>. QED  BY <1>1, <1>7

LEMMA ReversedIs ==
  ASSUME NEW mem, NEW beg, NEW end, NEW k \in Nat, NEW g, g[0] = mem,
         \A i \in 1 .. k :
           g[i] = Swapped(g[i - 1], beg + i - 1, end - i + 1)
  PROVE  Reversed(mem, beg, end, k) = g[k]
<1>. DEFINE Step(m, i) == Swapped(m, beg + i - 1, end - i + 1)
            Is(f) == f = [i \in 0 .. k |-> IF i = 0 THEN mem ELSE Step(f[i - 1], i)]
            after == CHOOSE f : Is(f)
            h == [i \in 0 .. k |-> g[i]]
<1>1. Reversed(mem, beg, end, k) = after[k]
  BY DEF Reversed
<1>0. \A i \in 1 .. k : g[i] = Step(g[i - 1], i)
  OBVIOUS
<1>. HIDE DEF Step
<1>2. Is(h)
  <2>1. \A i \in 0 .. k : h[i] = IF i = 0 THEN mem ELSE Step(h[i - 1], i)
    BY <1>0
  <2>. QED  BY <2>1
<1>3. Is(after)
  <2>. HIDE DEF Is, h
  <2>. QED  BY <1>2, Zenon
<1>. HIDE DEF after
<1>4. \A i \in 0 .. k : after[i] = IF i = 0 THEN mem ELSE Step(after[i - 1], i)
  BY <1>3
<1>5. after[0] = g[0]
  BY <1>4
<1>6. \A i \in 1 .. k : after[i - 1] = g[i - 1] => after[i] = g[i]
  BY <1>4, <1>0
<1>7. after[k] = g[k]
  BY <1>5, <1>6, Agree
<1>. QED  BY <1>1, <1>7

(***************************************************************************)
(* The bytes from p up to q, exclusive, replaced by those of v.            *)
(***************************************************************************)
Filled(mem, v, p, q) == [a \in DOMAIN mem |-> IF a \in p .. q - 1 THEN v[a] ELSE mem[a]]

LEMMA FilledAt ==
  ASSUME NEW mem, NEW v, NEW p, NEW q, NEW a \in DOMAIN mem
  PROVE  Filled(mem, v, p, q)[a] = IF a \in p .. q - 1 THEN v[a] ELSE mem[a]
BY DEF Filled

\* Memory is a function of addresses.
IsMemory(mem) == DOMAIN mem \subseteq Int /\ mem = [a \in DOMAIN mem |-> mem[a]]

\* A write of those of v from q up to r.
Covers(write, v, q, r) ==
  /\ write.at = q /\ Len(write.bytes) = r - q
  /\ \A j \in 1 .. r - q : write.bytes[j] = v[q + j - 1]

\* A store that begins where the replaced bytes end.
LEMMA StoreBehind ==
  ASSUME NEW mem, IsMemory(mem), NEW v, NEW p \in Int, NEW q \in Int, NEW r \in Int,
         p <= q, q <= r, NEW write, Covers(write, v, q, r)
  PROVE  Store(Filled(mem, v, p, q), write.at, write.bytes) = Filled(mem, v, p, r)
<1>. DEFINE m == Filled(mem, v, p, q)
<1>1. PICK n \in Nat : n = r - q
  OBVIOUS
<1>2. PICK bytes : bytes = write.bytes
  OBVIOUS
<1>3. /\ q + n = r /\ write.at = q /\ Len(bytes) = n
      /\ \A j \in 1 .. n : bytes[j] = v[q + j - 1]
  BY <1>1, <1>2 DEF Covers
<1>4. DOMAIN m = DOMAIN mem
      /\ \A a \in DOMAIN mem : m[a] = IF a \in p .. q - 1 THEN v[a] ELSE mem[a]
  BY DEF Filled
<1>. HIDE DEF m
<1>5. DOMAIN mem \subseteq Int
  BY DEF IsMemory
<1>6. ASSUME NEW a \in DOMAIN mem
      PROVE  (IF a \in q .. q + n - 1 THEN bytes[a - q + 1] ELSE m[a])
               = IF a \in p .. q + n - 1 THEN v[a] ELSE mem[a]
  <2>1. a \in Int
    BY <1>5
  <2>2. CASE a \in q .. q + n - 1
    <3>1. a - q + 1 \in 1 .. n /\ q + (a - q + 1) - 1 = a /\ a \in p .. q + n - 1
      BY <1>3, <2>1, <2>2
    <3>2. bytes[a - q + 1] = v[a]
      BY <1>3, <3>1
    <3>. QED  BY <2>2, <3>1, <3>2
  <2>3. CASE a \notin q .. q + n - 1
    <3>1. a \in p .. q + n - 1 <=> a \in p .. q - 1
      BY <1>3, <2>1, <2>3
    <3>. QED  BY <1>4, <2>3, <3>1
  <2>. QED  BY <2>2, <2>3
<1>7. Store(m, q, bytes) = [a \in DOMAIN mem |-> IF a \in q .. q + n - 1 THEN bytes[a - q + 1] ELSE m[a]]
  BY <1>3, <1>4 DEF Store
<1>8. Store(m, q, bytes) = Filled(mem, v, p, q + n)
  <2>1. Filled(mem, v, p, q + n) = [a \in DOMAIN mem |-> IF a \in p .. q + n - 1 THEN v[a] ELSE mem[a]]
    BY DEF Filled
  <2>. QED  BY <1>6, <1>7, <2>1
<1>. QED  BY <1>1, <1>2, <1>3, <1>8 DEF m

\* Stores that follow one another without a gap: the i-th ends at end[i].
Consecutive(end, k) ==
  /\ end \in [0 .. k -> Int]
  /\ \A i \in 1 .. k : end[i - 1] <= end[i] /\ end[0] <= end[i - 1] /\ end[i] <= end[k]

CoversAll(writes, v, end, k) ==
  Len(writes) = k /\ \A i \in 1 .. k : Covers(writes[i], v, end[i - 1], end[i])

LEMMA StoreAllFills ==
  ASSUME NEW mem, IsMemory(mem), NEW v, NEW k \in Nat, NEW end, Consecutive(end, k),
         NEW writes, CoversAll(writes, v, end, k)
  PROVE  StoreAll(mem, writes) = Filled(mem, v, end[0], end[k])
<1>. DEFINE g == [i \in 0 .. k |-> Filled(mem, v, end[0], end[i])]
<1>0. (\A i \in 0 .. k : end[i] \in Int) /\ 0 \in 0 .. k
  BY DEF Consecutive
<1>1. g[0] = mem
  <2>1. \A a \in DOMAIN mem : a \notin end[0] .. end[0] - 1
    BY <1>0
  <2>2. Filled(mem, v, end[0], end[0]) = [a \in DOMAIN mem |-> mem[a]]
    BY <2>1 DEF Filled
  <2>3. g[0] = Filled(mem, v, end[0], end[0])
    BY <1>0
  <2>. HIDE DEF g
  <2>. QED  BY <2>2, <2>3 DEF IsMemory
<1>2. ASSUME NEW i \in 1 .. k
      PROVE  g[i] = Store(g[i - 1], writes[i].at, writes[i].bytes)
  <2>0. i - 1 \in 0 .. k /\ i \in 0 .. k
    OBVIOUS
  <2>1. /\ end[0] \in Int /\ end[i - 1] \in Int /\ end[i] \in Int
        /\ end[0] <= end[i - 1] /\ end[i - 1] <= end[i]
    BY <1>0, <2>0 DEF Consecutive
  <2>3. Covers(writes[i], v, end[i - 1], end[i])
    BY DEF CoversAll
  <2>2. Store(Filled(mem, v, end[0], end[i - 1]), writes[i].at, writes[i].bytes)
          = Filled(mem, v, end[0], end[i])
    BY <2>1, <2>3, StoreBehind
  <2>. QED  BY <2>0, <2>1, <2>2
<1>3. k \in 0 .. k
  OBVIOUS
<1>4. g[k] = Filled(mem, v, end[0], end[k])
  BY <1>3
<1>. HIDE DEF g
<1>6. StoreAll(mem, writes) = g[k]
  BY <1>1, <1>2, StoreAllIs DEF CoversAll
<1>. QED  BY <1>4, <1>6

\* What lies by addresses further on.
Shifted(mem, by) == [a \in Int |-> mem[a + by]]

\* The bytes from q up to r are still those of mem when those from p up to o
\* have been replaced.
Unchanged(mem, q, r, p, o) == \A x \in q .. r - 1 : x \in DOMAIN mem /\ x \notin p .. o - 1

LEMMA LoadOriginal ==
  ASSUME NEW mem, NEW v, NEW p \in Int, NEW o \in Int, NEW at \in Int, NEW size \in Nat,
         Unchanged(mem, at, at + size, p, o)
  PROVE  /\ Len(Load(Filled(mem, v, p, o), at, size)) = size
         /\ \A j \in 1 .. size : Load(Filled(mem, v, p, o), at, size)[j] = mem[at + j - 1]
<1>1. ASSUME NEW j \in 1 .. size
      PROVE  Filled(mem, v, p, o)[at + j - 1] = mem[at + j - 1]
  <2>1. at + j - 1 \in at .. at + size - 1
    OBVIOUS
  <2>2. at + j - 1 \in DOMAIN mem /\ at + j - 1 \notin p .. o - 1
    BY <2>1 DEF Unchanged
  <2>. QED  BY <2>2 DEF Filled
<1>2. Load(Filled(mem, v, p, o), at, size) = [j \in 1 .. size |-> Filled(mem, v, p, o)[at + j - 1]]
  BY DEF Load
<1>. QED  BY <1>1, <1>2

\* Copying forward: behind what has been copied.
LEMMA CopyBehind ==
  ASSUME NEW mem, IsMemory(mem), NEW by \in Int, NEW p \in Int, NEW q \in Int, NEW r \in Int,
         p <= q, q <= r, Unchanged(mem, q + by, r + by, p, q)
  PROVE  Copy(Filled(mem, Shifted(mem, by), p, q), q, q + by, r - q)
           = Filled(mem, Shifted(mem, by), p, r)
<1>. DEFINE m == Filled(mem, Shifted(mem, by), p, q)
<1>1. PICK n \in Nat, from \in Int : n = r - q /\ from = q + by /\ r + by = from + n
  OBVIOUS
<1>2. PICK write : write = [at |-> q, bytes |-> Load(m, from, n)]
  OBVIOUS
<1>3. Unchanged(mem, from, from + n, p, q)
  BY <1>1
<1>4. Len(write.bytes) = n /\ \A j \in 1 .. n : write.bytes[j] = mem[from + j - 1]
  BY <1>2, <1>3, LoadOriginal
<1>5. \A j \in 1 .. n : Shifted(mem, by)[q + j - 1] = mem[from + j - 1]
  <2>. SUFFICES ASSUME NEW j \in 1 .. n PROVE Shifted(mem, by)[q + j - 1] = mem[from + j - 1]
    OBVIOUS
  <2>1. q + j - 1 \in Int /\ (q + j - 1) + by = from + j - 1
    BY <1>1
  <2>. QED  BY <2>1 DEF Shifted
<1>6. Covers(write, Shifted(mem, by), q, r)
  BY <1>1, <1>2, <1>4, <1>5 DEF Covers
<1>7. Store(m, write.at, write.bytes) = Filled(mem, Shifted(mem, by), p, r)
  BY <1>6, StoreBehind
<1>8. Copy(m, q, from, n) = Store(m, write.at, write.bytes)
  BY <1>2 DEF Copy
<1>. QED  BY <1>1, <1>7, <1>8

\* Copying backward, a byte at a time: before what has been copied.
LEMMA CopyBefore ==
  ASSUME NEW mem, IsMemory(mem), NEW by \in Int, NEW q \in Int, NEW r \in Int, q < r,
         Unchanged(mem, q + by, q + by + 1, q + 1, r)
  PROVE  Copy(Filled(mem, Shifted(mem, by), q + 1, r), q, q + by, 1)
           = Filled(mem, Shifted(mem, by), q, r)
<1>. DEFINE v == Shifted(mem, by)
            m == Filled(mem, v, q + 1, r)
<1>1. PICK from \in Int, p \in Int : from = q + by /\ p = q + 1
  OBVIOUS
<1>2. PICK bytes : bytes = Load(m, from, 1)
  OBVIOUS
<1>3. Len(bytes) = 1 /\ bytes[1] = mem[from]
  <2>1. /\ Len(Load(Filled(mem, v, p, r), from, 1)) = 1
        /\ \A j \in 1 .. 1 : Load(Filled(mem, v, p, r), from, 1)[j] = mem[from + j - 1]
    <3>1. PICK one \in Nat : one = 1
      OBVIOUS
    <3>2. Unchanged(mem, from, from + one, p, r)
      BY <1>1, <3>1
    <3>. HIDE DEF v
    <3>3. /\ Len(Load(Filled(mem, v, p, r), from, one)) = one
          /\ \A j \in 1 .. one : Load(Filled(mem, v, p, r), from, one)[j] = mem[from + j - 1]
      BY <3>2, LoadOriginal
    <3>. QED  BY <3>1, <3>3
  <2>2. from + 1 - 1 = from /\ 1 \in 1 .. 1
    OBVIOUS
  <2>. QED  BY <1>1, <1>2, <2>1, <2>2
<1>4. v[q] = mem[from]
  BY <1>1 DEF Shifted
<1>5. DOMAIN m = DOMAIN mem
      /\ \A a \in DOMAIN mem : m[a] = IF a \in q + 1 .. r - 1 THEN v[a] ELSE mem[a]
  BY DEF Filled
<1>6. Copy(m, q, from, 1) = Store(m, q, bytes)
  BY <1>2 DEF Copy
<1>. HIDE DEF m, v
<1>7. Store(m, q, bytes) = [a \in DOMAIN mem |-> IF a \in q .. q + 1 - 1 THEN bytes[a - q + 1] ELSE m[a]]
  BY <1>3, <1>5 DEF Store
<1>8. ASSUME NEW a \in DOMAIN mem
      PROVE  (IF a \in q .. q + 1 - 1 THEN bytes[a - q + 1] ELSE m[a])
               = IF a \in q .. r - 1 THEN v[a] ELSE mem[a]
  <2>1. a \in Int
    BY DEF IsMemory
  <2>2. CASE a = q
    BY <2>2, <1>3, <1>4
  <2>3. CASE a # q
    BY <2>1, <2>3, <1>5
  <2>. QED  BY <2>2, <2>3
<1>9. Store(m, q, bytes) = Filled(mem, v, q, r)
  BY <1>7, <1>8 DEF Filled
<1>. QED  BY <1>1, <1>6, <1>9 DEF m, v

\* Accesses that follow one another without a gap.
Ends(accesses, end, k) ==
  /\ Len(accesses) = k /\ DOMAIN accesses = 1 .. k
  /\ \A i \in 1 .. k :
       accesses[i].at = end[i - 1] /\ accesses[i].size = end[i] - end[i - 1]

\* Each access of a copy reads what nothing has been copied to yet.
ReadsOriginal(mem, dest, by, end, k) ==
  \A i \in 1 .. k : Unchanged(mem, end[i - 1] + by, end[i] + by, dest, end[i - 1])

LEMMA CopyAllFills ==
  ASSUME NEW mem, IsMemory(mem), NEW src \in Int, NEW dest \in Int,
         NEW k \in Nat, NEW end, Consecutive(end, k), end[0] = dest,
         NEW accesses, Ends(accesses, end, k), ReadsOriginal(mem, dest, src - dest, end, k)
  PROVE  CopyAll(mem, dest, src, accesses) = Filled(mem, Shifted(mem, src - dest), dest, end[k])
<1>. DEFINE v == Shifted(mem, src - dest)
            g == [i \in 0 .. k |-> Filled(mem, v, dest, end[i])]
<1>0. (\A i \in 0 .. k : end[i] \in Int) /\ 0 \in 0 .. k /\ k \in 0 .. k
  BY DEF Consecutive
<1>1. g[0] = mem
  <2>1. \A a \in DOMAIN mem : a \notin dest .. dest - 1
    BY <1>0
  <2>2. Filled(mem, v, dest, dest) = [a \in DOMAIN mem |-> mem[a]]
    BY <2>1 DEF Filled
  <2>3. g[0] = Filled(mem, v, dest, dest)
    BY <1>0
  <2>. HIDE DEF g
  <2>. QED  BY <2>2, <2>3 DEF IsMemory
<1>2. ASSUME NEW i \in 1 .. k
      PROVE  g[i] = Copy(g[i - 1], accesses[i].at, src + (accesses[i].at - dest), accesses[i].size)
  <2>0. i - 1 \in 0 .. k /\ i \in 0 .. k
    OBVIOUS
  <2>1. PICK by \in Int, q \in Int, r \in Int : by = src - dest /\ q = end[i - 1] /\ r = end[i]
    <3>1. end[i - 1] \in Int /\ end[i] \in Int /\ src - dest \in Int
      BY <1>0, <2>0
    <3>. QED  BY <3>1, Zenon
  <2>2. dest <= q /\ q <= r
    BY <2>0, <2>1 DEF Consecutive
  <2>3. /\ accesses[i].at = q /\ accesses[i].size = r - q /\ src + (q - dest) = q + by
        /\ Unchanged(mem, q + by, r + by, dest, q)
    <3>1. /\ accesses[i].at = end[i - 1] /\ accesses[i].size = end[i] - end[i - 1]
          /\ Unchanged(mem, end[i - 1] + (src - dest), end[i] + (src - dest), dest, end[i - 1])
      BY DEF Ends, ReadsOriginal
    <3>2. accesses[i].at = q /\ accesses[i].size = r - q /\ Unchanged(mem, q + by, r + by, dest, q)
      BY <2>1, <3>1
    <3>3. src + (q - dest) = q + by
      BY <2>1
    <3>. QED  BY <3>2, <3>3
  <2>4. Copy(Filled(mem, Shifted(mem, by), dest, q), q, q + by, r - q)
          = Filled(mem, Shifted(mem, by), dest, r)
    BY <2>2, <2>3, CopyBehind
  <2>5. g[i - 1] = Filled(mem, Shifted(mem, by), dest, q)
        /\ g[i] = Filled(mem, Shifted(mem, by), dest, r)
    BY <2>0, <2>1
  <2>. HIDE DEF g
  <2>. QED  BY <2>3, <2>4, <2>5
<1>4. g[k] = Filled(mem, v, dest, end[k])
  BY <1>0
<1>. HIDE DEF g, v
<1>5. CopyAll(mem, dest, src, accesses) = g[k]
  <2>1. Len(accesses) = k
    BY DEF Ends
  <2>. QED  BY <1>1, <1>2, <2>1, CopyAllIs
<1>. QED  BY <1>4, <1>5 DEF v

\* e consists of a, b and c, of lengths l, m and n.
Joins(e, a, b, c, l, m, n) ==
  /\ Len(e) = l + m + n /\ DOMAIN e = 1 .. l + m + n
  /\ \A i \in 1 .. l + m + n :
       e[i] = IF i <= l THEN a[i] ELSE IF i <= l + m THEN b[i - l] ELSE c[i - l - m]

LEMMA ThreePieces ==
  ASSUME NEW S, NEW a \in Seq(S), NEW b \in Seq(S), NEW c \in Seq(S),
         NEW l \in Nat, NEW m \in Nat, NEW n \in Nat, Len(a) = l, Len(b) = m, Len(c) = n
  PROVE  Joins(a \o b \o c, a, b, c, l, m, n)
<1>1. PICK d \in Seq(S) : d = a \o b
  BY ConcatProperties, Zenon
<1>2. Len(d) = l + m /\ \A i \in 1 .. l + m : d[i] = IF i <= l THEN a[i] ELSE b[i - l]
  BY <1>1
<1>6. /\ Len(d \o c) = Len(d) + Len(c) /\ d \o c \in Seq(S)
      /\ \A i \in 1 .. Len(d) + Len(c) : (d \o c)[i] = IF i <= Len(d) THEN d[i] ELSE c[i - Len(d)]
  BY ConcatProperties, Zenon
<1>3. /\ Len(d \o c) = l + m + n /\ d \o c \in Seq(S)
      /\ \A i \in 1 .. l + m + n : (d \o c)[i] = IF i <= l + m THEN d[i] ELSE c[i - (l + m)]
  BY <1>2, <1>6
<1>4. \A i \in 1 .. l + m + n : i > l + m => i - (l + m) = i - l - m
  OBVIOUS
<1>5. DOMAIN (d \o c) = 1 .. l + m + n
  BY <1>3
<1>. QED  BY <1>1, <1>2, <1>3, <1>4, <1>5 DEF Joins

(***************************************************************************)
(* The accesses of memset and memcpy: bytes up to a double word, double    *)
(* words, and the bytes that remain, without a gap from s up to s + n.     *)
(***************************************************************************)
LEMMA AccessesAre ==
  ASSUME NEW s \in Nat, NEW n \in Nat
  PROVE  \E k, end :
           k \in Nat /\ Consecutive(end, k) /\ end[0] = s /\ end[k] = s + n /\ Ends(Accesses(s, n), end, k)
<1>1. PICK head \in Nat : head = HeadLen(s, n) /\ head <= n
  <2>1. {n, (4 - (s % 4)) % 4} \subseteq Nat /\ {n, (4 - (s % 4)) % 4} # {}
    OBVIOUS
  <2>2. HeadLen(s, n) \in {n, (4 - (s % 4)) % 4}
        /\ \A k \in {n, (4 - (s % 4)) % 4} : HeadLen(s, n) <= k
    BY <2>1, MinIs DEF HeadLen
  <2>. QED  BY <2>1, <2>2
<1>2. PICK dwords \in Nat : dwords = (n - head) \div 4
  BY <1>1
<1>3. PICK tail \in Nat : tail = TailLen(s, n) /\ head + 4 * dwords + tail = n
  BY <1>1, <1>2 DEF TailLen
<1>. DEFINE Run(first, size, k) == [i \in 1 .. k |-> [at |-> first + size * (i - 1), size |-> size]]
            a == Run(s, 1, head)
            b == Run(s + head, 4, dwords)
            c == Run(s + head + 4 * dwords, 1, tail)
            k == head + dwords + tail
            end == [i \in 0 .. k |-> IF i <= head THEN s + i
                                     ELSE IF i <= head + dwords THEN s + head + 4 * (i - head)
                                     ELSE s + head + 4 * dwords + (i - head - dwords)]
<1>4. Accesses(s, n) = a \o b \o c
  BY <1>1, <1>2, <1>3 DEF Accesses
<1>7. PICK S : S = [at : Int, size : Int]
  OBVIOUS
<1>5. /\ a \in Seq(S) /\ Len(a) = head
      /\ b \in Seq(S) /\ Len(b) = dwords
      /\ c \in Seq(S) /\ Len(c) = tail
  BY <1>7
<1>6. /\ Len(a \o b \o c) = k /\ DOMAIN (a \o b \o c) = 1 .. k
      /\ \A i \in 1 .. k : (a \o b \o c)[i] = IF i <= head THEN a[i]
                                             ELSE IF i <= head + dwords THEN b[i - head]
                                             ELSE c[i - head - dwords]
  <2>. HIDE DEF a, b, c
  <2>1. Joins(a \o b \o c, a, b, c, head, dwords, tail)
    BY <1>5, ThreePieces, Zenon
  <2>. QED  BY <2>1 DEF Joins
<1>8. ASSUME NEW i \in 1 .. k
      PROVE  (a \o b \o c)[i].at = end[i - 1] /\ (a \o b \o c)[i].size = end[i] - end[i - 1]
  <2>1. i \in 0 .. k /\ i - 1 \in 0 .. k
    OBVIOUS
  <2>2. CASE i <= head
    <3>1. (a \o b \o c)[i] = [at |-> s + 1 * (i - 1), size |-> 1]
      BY <1>6, <2>2
    <3>2. end[i - 1] = s + (i - 1) /\ end[i] = s + i
      BY <2>1, <2>2
    <3>. QED  BY <3>1, <3>2
  <2>3. CASE head < i /\ i <= head + dwords
    <3>1. (a \o b \o c)[i] = [at |-> s + head + 4 * (i - head - 1), size |-> 4]
      BY <1>6, <2>3
    <3>2. end[i - 1] = s + head + 4 * (i - 1 - head) /\ end[i] = s + head + 4 * (i - head)
      BY <2>1, <2>3
    <3>. QED  BY <3>1, <3>2
  <2>4. CASE head + dwords < i
    <3>1. (a \o b \o c)[i] = [at |-> s + head + 4 * dwords + 1 * (i - head - dwords - 1), size |-> 1]
      BY <1>6, <2>4
    <3>2. /\ end[i - 1] = s + head + 4 * dwords + (i - 1 - head - dwords)
          /\ end[i] = s + head + 4 * dwords + (i - head - dwords)
      BY <2>1, <2>4
    <3>. QED  BY <3>1, <3>2
  <2>. QED  BY <2>2, <2>3, <2>4
<1>9. Consecutive(end, k) /\ end[0] = s /\ end[k] = s + n
  <2>1. end \in [0 .. k -> Int]
    OBVIOUS
  <2>2. end[0] = s
    <3>1. 0 \in 0 .. k /\ 0 <= head
      OBVIOUS
    <3>. QED  BY <3>1
  <2>4. end[k] = s + n
    <3>1. k \in 0 .. k
      OBVIOUS
    <3>2. end[k] = IF k <= head THEN s + k
                   ELSE IF k <= head + dwords THEN s + head + 4 * (k - head)
                   ELSE s + head + 4 * dwords + (k - head - dwords)
      BY <3>1
    <3>3. head + 4 * dwords + tail = n
      BY <1>3
    <3>5. k <= head => s + k = s + n
      BY <3>3
    <3>6. k <= head + dwords => s + head + 4 * (k - head) = s + n
      BY <3>3
    <3>7. s + head + 4 * dwords + (k - head - dwords) = s + n
      BY <3>3
    <3>. HIDE DEF end, k
    <3>4. k \in Nat
      BY DEF k
    <3>. QED  BY <3>2, <3>4, <3>5, <3>6, <3>7
  <2>3. \A i \in 1 .. k : end[i - 1] <= end[i] /\ end[0] <= end[i - 1] /\ end[i] <= end[k]
    OBVIOUS
  <2>. QED  BY <2>1, <2>2, <2>3, <2>4 DEF Consecutive
<1>10. k \in Nat
  OBVIOUS
<1>. HIDE DEF a, b, c, end, k
<1>11. Ends(Accesses(s, n), end, k)
  BY <1>4, <1>6, <1>8 DEF Ends
<1>. QED  BY <1>9, <1>10, <1>11

(***************************************************************************)
(* Each function of lib.c on any memory.                                   *)
(***************************************************************************)
\* The values c, repeated from address s on.
Repeated(c, s, unit) == [a \in Int |-> c[((a - s) % unit) + 1]]

LEMMA MemsetFills ==
  ASSUME NEW mem, IsMemory(mem), NEW s \in Nat, NEW n \in Nat, NEW c
  PROVE  memset(mem, s, c, n) = Filled(mem, Repeated(c, s, 1), s, s + n)
<1>1. PICK k, end :
        k \in Nat /\ Consecutive(end, k) /\ end[0] = s /\ end[k] = s + n /\ Ends(Accesses(s, n), end, k)
  BY AccessesAre
<1>2. PICK writes : writes = [i \in 1 .. k |-> [at |-> Accesses(s, n)[i].at,
                                bytes |-> [j \in 1 .. Accesses(s, n)[i].size |-> c[1]]]]
  OBVIOUS
<1>3. memset(mem, s, c, n) = StoreAll(mem, writes) /\ Len(writes) = k
  BY <1>1, <1>2 DEF memset, Ends
<1>4. ASSUME NEW i \in 1 .. k
      PROVE  Covers(writes[i], Repeated(c, s, 1), end[i - 1], end[i])
  <2>1. PICK q \in Int, r \in Int : q = end[i - 1] /\ r = end[i] /\ r - q \in Nat
    <3>1. i - 1 \in 0 .. k /\ i \in 0 .. k
      BY <1>1
    <3>2. end[i - 1] \in Int /\ end[i] \in Int /\ end[i - 1] <= end[i]
      BY <1>1, <3>1 DEF Consecutive
    <3>3. end[i] - end[i - 1] \in Nat
      BY <3>2
    <3>. QED  BY <3>2, <3>3, Zenon
  <2>2. writes[i].at = q /\ writes[i].bytes = [j \in 1 .. r - q |-> c[1]]
    BY <1>1, <1>2, <2>1 DEF Ends
  <2>3. ASSUME NEW j \in 1 .. r - q
        PROVE  Repeated(c, s, 1)[q + j - 1] = c[1]
    <3>1. q + j - 1 \in Int /\ (q + j - 1 - s) % 1 = 0
      OBVIOUS
    <3>. QED  BY <3>1 DEF Repeated
  <2>. QED  BY <2>1, <2>2, <2>3 DEF Covers
<1>5. StoreAll(mem, writes) = Filled(mem, Repeated(c, s, 1), end[0], end[k])
  <2>1. CoversAll(writes, Repeated(c, s, 1), end, k)
    BY <1>3, <1>4 DEF CoversAll
  <2>. QED  BY <1>1, <2>1, StoreAllFills
<1>. QED  BY <1>1, <1>3, <1>5

\* n writes of unit bytes each from s on.
Units(s, unit, bytes, n) == [i \in 1 .. n |-> [at |-> s + unit * (i - 1), bytes |-> bytes]]

Begins(bytes, c, unit) == Len(bytes) = unit /\ \A j \in 1 .. unit : bytes[j] = c[j]

LEMMA UnitsFill ==
  ASSUME NEW mem, IsMemory(mem), NEW s \in Nat, NEW n \in Nat, NEW c,
         NEW unit \in {2, 4}, NEW bytes, Begins(bytes, c, unit)
  PROVE  StoreAll(mem, Units(s, unit, bytes, n))
           = Filled(mem, Repeated(c, s, unit), s, s + unit * n)
<1>1. PICK end : end = [i \in 0 .. n |-> s + unit * i]
  OBVIOUS
<1>2. PICK writes : writes = Units(s, unit, bytes, n)
  OBVIOUS
<1>3. ASSUME NEW i \in 0 .. n
      PROVE  unit * i \in Nat /\ unit * i <= unit * n /\ end[i] = s + unit * i /\ end[i] \in Int
  <2>1. CASE unit = 2
    BY <1>1, <2>1
  <2>2. CASE unit = 4
    BY <1>1, <2>2
  <2>. QED  BY <2>1, <2>2
<1>4. ASSUME NEW i \in 1 .. n
      PROVE  i - 1 \in 0 .. n /\ i \in 0 .. n /\ unit * (i - 1) + unit = unit * i
  <2>1. CASE unit = 2
    BY <2>1
  <2>2. CASE unit = 4
    BY <2>2
  <2>. QED  BY <2>1, <2>2
<1>5. Consecutive(end, n) /\ end[0] = s /\ end[n] = s + unit * n
  <2>1. 0 \in 0 .. n /\ n \in 0 .. n /\ unit * 0 = 0
    OBVIOUS
  <2>2. end[0] = s /\ end[n] = s + unit * n
    BY <1>3, <2>1
  <2>3. end \in [0 .. n -> Int]
    BY <1>1, <1>3
  <2>4. ASSUME NEW i \in 1 .. n
        PROVE  end[i - 1] <= end[i] /\ end[0] <= end[i - 1] /\ end[i] <= end[n]
    BY <1>3, <1>4, <2>2
  <2>. QED  BY <2>2, <2>3, <2>4 DEF Consecutive
<1>9. Len(bytes) = unit /\ \A j \in 1 .. unit : bytes[j] = c[j]
  BY DEF Begins
<1>6. ASSUME NEW i \in 1 .. n
      PROVE  Covers(writes[i], Repeated(c, s, unit), end[i - 1], end[i])
  <2>1. PICK q \in Int : q = end[i - 1] /\ q = s + unit * (i - 1)
    BY <1>3, <1>4
  <2>2. end[i] - q = unit
    <3>1. end[i] = s + unit * i /\ unit * (i - 1) + unit = unit * i /\ unit \in Int
      BY <1>3, <1>4
    <3>2. unit * (i - 1) \in Int
      BY <1>3, <1>4
    <3>3. PICK x \in Int, y \in Int : x = unit * (i - 1) /\ y = unit * i
      BY <1>3, <1>4
    <3>. QED  BY <2>1, <3>1, <3>3
  <2>3. writes[i].at = q /\ writes[i].bytes = bytes
    BY <1>2, <2>1 DEF Units
  <2>4. ASSUME NEW j \in 1 .. unit
        PROVE  Repeated(c, s, unit)[q + j - 1] = bytes[j]
    <3>1. q + j - 1 \in Int /\ (q + j - 1 - s) % unit = j - 1
      <4>1. q + j - 1 \in Int /\ q + j - 1 - s = unit * (i - 1) + (j - 1)
        BY <2>1
      <4>2. CASE unit = 2
        BY <4>1, <4>2
      <4>3. CASE unit = 4
        BY <4>1, <4>3
      <4>. QED  BY <4>2, <4>3
    <3>2. Repeated(c, s, unit)[q + j - 1] = c[j - 1 + 1]
      BY <3>1 DEF Repeated
    <3>3. j - 1 + 1 = j
      OBVIOUS
    <3>. QED  BY <1>9, <3>2, <3>3
  <2>. QED  BY <1>9, <2>1, <2>2, <2>3, <2>4 DEF Covers
<1>7. Len(writes) = n
  BY <1>2 DEF Units
<1>8. StoreAll(mem, writes) = Filled(mem, Repeated(c, s, unit), end[0], end[n])
  <2>1. CoversAll(writes, Repeated(c, s, unit), end, n)
    BY <1>6, <1>7 DEF CoversAll
  <2>. QED  BY <1>5, <2>1, StoreAllFills
<1>. QED  BY <1>2, <1>5, <1>8

LEMMA MemsetUnitsFill ==
  ASSUME NEW mem, IsMemory(mem), NEW s \in Nat, NEW n \in Nat, NEW c \in Seq(Int), Len(c) = 4
  PROVE  /\ memset_word(mem, s, c, n) = Filled(mem, Repeated(c, s, 2), s, s + 2 * n)
         /\ memset_dword(mem, s, c, n) = Filled(mem, Repeated(c, s, 4), s, s + 4 * n)
<1>1. PICK low : low = SubSeq(c, 1, 2)
  OBVIOUS
<1>2. Begins(low, c, 2) /\ Begins(c, c, 4)
  BY <1>1 DEF Begins
<1>3. StoreAll(mem, Units(s, 2, low, n)) = Filled(mem, Repeated(c, s, 2), s, s + 2 * n)
  BY <1>2, UnitsFill
<1>4. StoreAll(mem, Units(s, 4, c, n)) = Filled(mem, Repeated(c, s, 4), s, s + 4 * n)
  BY <1>2, UnitsFill
<1>. QED  BY <1>1, <1>3, <1>4 DEF memset_word, memset_dword, Units

\* Two pieces of memory of n bytes that do not overlap.
LEMMA MemcpyFills ==
  ASSUME NEW mem, IsMemory(mem), NEW dest \in Nat, NEW src \in Nat, NEW n \in Nat,
         src .. src + n - 1 \subseteq DOMAIN mem, src + n <= dest \/ dest + n <= src
  PROVE  memcpy(mem, dest, src, n) = Filled(mem, Shifted(mem, src - dest), dest, dest + n)
<1>1. PICK k, end :
        k \in Nat /\ Consecutive(end, k) /\ end[0] = dest /\ end[k] = dest + n /\ Ends(Accesses(dest, n), end, k)
  BY AccessesAre
<1>2. ASSUME NEW i \in 1 .. k
      PROVE  Unchanged(mem, end[i - 1] + (src - dest), end[i] + (src - dest), dest, end[i - 1])
  <2>1. PICK q \in Int, r \in Int : q = end[i - 1] /\ r = end[i]
    <3>1. i - 1 \in 0 .. k /\ i \in 0 .. k
      BY <1>1
    <3>2. end[i - 1] \in Int /\ end[i] \in Int
      BY <1>1, <3>1 DEF Consecutive
    <3>. QED  BY <3>2, Zenon
  <2>2. dest <= q /\ q <= r /\ r <= dest + n
    BY <1>1, <2>1 DEF Consecutive
  <2>3. ASSUME NEW x \in q + (src - dest) .. r + (src - dest) - 1
        PROVE  x \in src .. src + n - 1 /\ x \notin dest .. q - 1
    BY <2>2
  <2>. QED  BY <2>1, <2>3 DEF Unchanged
<1>3. CopyAll(mem, dest, src, Accesses(dest, n)) = Filled(mem, Shifted(mem, src - dest), dest, end[k])
  <2>1. ReadsOriginal(mem, dest, src - dest, end, k)
    BY <1>2 DEF ReadsOriginal
  <2>. QED  BY <1>1, <2>1, CopyAllFills
<1>. QED  BY <1>1, <1>3 DEF memcpy

\* Any two pieces of memory of n bytes.
LEMMA MemmoveFills ==
  ASSUME NEW mem, IsMemory(mem), NEW dest \in Nat, NEW src \in Nat, NEW n \in Nat,
         src .. src + n - 1 \subseteq DOMAIN mem
  PROVE  memmove(mem, dest, src, n) = Filled(mem, Shifted(mem, src - dest), dest, dest + n)
<1>. DEFINE accesses == [i \in 1 .. n |-> [at |-> dest + (IF src >= dest THEN i - 1 ELSE n - i), size |-> 1]]
<1>1. memmove(mem, dest, src, n) = CopyAll(mem, dest, src, accesses) /\ Len(accesses) = n
      /\ DOMAIN accesses = 1 .. n
  BY DEF memmove
<1>2. CASE src >= dest
  <2>1. PICK end : end = [i \in 0 .. n |-> dest + i]
    OBVIOUS
  <2>2. Consecutive(end, n) /\ end[0] = dest /\ end[n] = dest + n
    BY <2>1 DEF Consecutive
  <2>3. Ends(accesses, end, n)
    BY <1>1, <1>2, <2>1 DEF Ends
  <2>4. ASSUME NEW i \in 1 .. n
        PROVE  Unchanged(mem, end[i - 1] + (src - dest), end[i] + (src - dest), dest, end[i - 1])
    <3>1. PICK q \in Int, r \in Int : q = end[i - 1] /\ r = end[i] /\ q = dest + (i - 1) /\ r = dest + i
      <4>1. i - 1 \in 0 .. n /\ i \in 0 .. n /\ dest + (i - 1) \in Int /\ dest + i \in Int
        OBVIOUS
      <4>2. end[i - 1] = dest + (i - 1) /\ end[i] = dest + i
        BY <2>1, <4>1
      <4>. QED  BY <4>1, <4>2, Zenon
    <3>2. ASSUME NEW x \in q + (src - dest) .. r + (src - dest) - 1
          PROVE  x \in src .. src + n - 1 /\ x \notin dest .. q - 1
      BY <1>2, <3>1
    <3>. QED  BY <3>1, <3>2 DEF Unchanged
  <2>5. ReadsOriginal(mem, dest, src - dest, end, n)
    BY <2>4 DEF ReadsOriginal
  <2>. HIDE DEF accesses
  <2>6. CopyAll(mem, dest, src, accesses) = Filled(mem, Shifted(mem, src - dest), dest, end[n])
    BY <2>2, <2>3, <2>5, CopyAllFills
  <2>. QED  BY <1>1, <2>2, <2>6
<1>3. CASE ~ (src >= dest)
  <2>1. PICK by \in Int, last \in Int : by = src - dest /\ last = dest + n
    OBVIOUS
  <2>. DEFINE g == [i \in 0 .. n |-> Filled(mem, Shifted(mem, by), last - i, last)]
  <2>2. g[0] = mem
    <3>1. \A a \in DOMAIN mem : a \notin last .. last - 1
      OBVIOUS
    <3>2. Filled(mem, Shifted(mem, by), last, last) = [a \in DOMAIN mem |-> mem[a]]
      BY <3>1 DEF Filled
    <3>3. last - 0 = last /\ 0 \in 0 .. n
      OBVIOUS
    <3>4. g[0] = Filled(mem, Shifted(mem, by), last, last)
      BY <3>3
    <3>. HIDE DEF g
    <3>. QED  BY <3>2, <3>4 DEF IsMemory
  <2>3. ASSUME NEW i \in 1 .. n
        PROVE  g[i] = Copy(g[i - 1], accesses[i].at, src + (accesses[i].at - dest), accesses[i].size)
    <3>1. PICK q \in Int : q = last - i
      OBVIOUS
    <3>2. /\ accesses[i].at = q /\ accesses[i].size = 1 /\ src + (q - dest) = q + by
      BY <1>3, <2>1, <3>1
    <3>3. q < last
      BY <3>1
    <3>4. ASSUME NEW x \in q + by .. q + by + 1 - 1
          PROVE  x \in src .. src + n - 1 /\ x \notin q + 1 .. last - 1
      BY <1>3, <2>1, <3>1
    <3>5. Unchanged(mem, q + by, q + by + 1, q + 1, last)
      BY <3>4 DEF Unchanged
    <3>6. Copy(Filled(mem, Shifted(mem, by), q + 1, last), q, q + by, 1)
            = Filled(mem, Shifted(mem, by), q, last)
      BY <3>3, <3>5, CopyBefore
    <3>7. g[i] = Filled(mem, Shifted(mem, by), q, last)
          /\ g[i - 1] = Filled(mem, Shifted(mem, by), q + 1, last)
      <4>1. i \in 0 .. n /\ i - 1 \in 0 .. n /\ last - (i - 1) = q + 1
        BY <3>1
      <4>. QED  BY <3>1, <4>1
    <3>. HIDE DEF g, accesses
    <3>. QED  BY <3>2, <3>6, <3>7
  <2>4. g[n] = Filled(mem, Shifted(mem, by), dest, last)
    <3>1. n \in 0 .. n /\ last - n = dest
      BY <2>1
    <3>. QED  BY <3>1
  <2>. HIDE DEF g, accesses
  <2>5. CopyAll(mem, dest, src, accesses) = g[n]
    BY <1>1, <2>2, <2>3, CopyAllIs
  <2>. QED  BY <1>1, <2>1, <2>4, <2>5
<1>. QED  BY <1>2, <1>3

LEMMA MemoryHolds == MemoryOrString => MemoryExact
<1>. SUFFICES ASSUME input \in MemoryCalls PROVE MemoryExact
  BY DEF MemoryOrString, MemoryExact, StringCalls
<1>1. PICK f, dest, src, n :
        /\ f = input.function /\ dest = input.dest /\ src = input.src /\ n = input.n
  OBVIOUS
<1>2. /\ f \in {"memset", "memset_word", "memset_dword", "memcpy", "memmove"}
      /\ dest \in 4 .. MaxBlock + 7 /\ src \in 4 .. MaxBlock + 7 /\ n \in 0 .. MaxBlock
      /\ f = "memcpy" => src + n <= dest \/ dest + n <= src
  BY <1>1 DEF MemoryCalls
<1>3. /\ dest \in Nat /\ src \in Nat /\ n \in Nat
      /\ src .. src + n - 1 \subseteq DOMAIN Memory
  BY <1>2, SizesAssumption DEF Memory
<1>4. IsMemory(Memory) /\ DOMAIN Memory \subseteq Int /\ \A a \in DOMAIN Memory : Memory[a] = a
  BY DEF IsMemory, Memory
<1>5. PICK unit \in {1, 2, 4} :
        unit = CASE f = "memset_word" -> 2 [] f = "memset_dword" -> 4 [] OTHER -> 1
  OBVIOUS
<1>6. PICK result :
        result = CASE f = "memset" -> memset(Memory, dest, Filling, n)
                   [] f = "memset_word" -> memset_word(Memory, dest, Filling, n)
                   [] f = "memset_dword" -> memset_dword(Memory, dest, Filling, n)
                   [] f = "memcpy" -> memcpy(Memory, dest, src, n)
                   [] f = "memmove" -> memmove(Memory, dest, src, n)
  OBVIOUS
<1>. DEFINE Right(a) == result[a] = IF a - dest \notin 0 .. unit * n - 1
                                      THEN a
                                      ELSE IF f \in {"memcpy", "memmove"}
                                        THEN src + (a - dest)
                                        ELSE Filling[((a - dest) % unit) + 1]
<1>7. ASSUME NEW a \in DOMAIN Memory PROVE Right(a)
  <2>1. CASE f \in {"memset", "memset_word", "memset_dword"}
    <3>1. result = Filled(Memory, Repeated(Filling, dest, unit), dest, dest + unit * n)
      <4>1. CASE f = "memset"
        <5>1. unit = 1 /\ 1 * n = n /\ result = memset(Memory, dest, Filling, n)
          BY <1>3, <1>5, <1>6, <4>1
        <5>. QED  BY <1>3, <1>4, <5>1, MemsetFills
      <4>2. Filling \in Seq(Int) /\ Len(Filling) = 4
        BY DEF Filling
      <4>3. CASE f = "memset_word"
        <5>1. unit = 2 /\ result = memset_word(Memory, dest, Filling, n)
          BY <1>5, <1>6, <4>3
        <5>. QED  BY <1>3, <1>4, <4>2, <5>1, MemsetUnitsFill
      <4>4. CASE f = "memset_dword"
        <5>1. unit = 4 /\ result = memset_dword(Memory, dest, Filling, n)
          BY <1>5, <1>6, <4>4
        <5>. QED  BY <1>3, <1>4, <4>2, <5>1, MemsetUnitsFill
      <4>. QED  BY <2>1, <4>1, <4>3, <4>4
    <3>2. unit * n \in Nat
      BY <1>3
    <3>3. a \in dest .. dest + unit * n - 1 <=> a - dest \in 0 .. unit * n - 1
      BY <1>3, <1>4, <3>2
    <3>4. result[a] = IF a \in dest .. dest + unit * n - 1
                        THEN Repeated(Filling, dest, unit)[a] ELSE Memory[a]
      BY <1>3, <3>1, <3>2, FilledAt
    <3>5. Repeated(Filling, dest, unit)[a] = Filling[((a - dest) % unit) + 1] /\ Memory[a] = a
      BY <1>4 DEF Repeated
    <3>. QED  BY <2>1, <3>3, <3>4, <3>5
  <2>2. CASE f \in {"memcpy", "memmove"}
    <3>1. unit = 1 /\ 1 * n = n
      BY <1>3, <1>5, <2>2
    <3>2. result = Filled(Memory, Shifted(Memory, src - dest), dest, dest + n)
      <4>1. CASE f = "memcpy"
        BY <1>2, <1>3, <1>4, <1>6, <4>1, MemcpyFills
      <4>2. CASE f = "memmove"
        BY <1>3, <1>4, <1>6, <4>2, MemmoveFills
      <4>. QED  BY <2>2, <4>1, <4>2
    <3>3. a \in dest .. dest + n - 1 <=> a - dest \in 0 .. n - 1
      BY <1>3, <1>4
    <3>4. result[a] = IF a \in dest .. dest + n - 1
                        THEN Shifted(Memory, src - dest)[a] ELSE Memory[a]
      BY <1>3, <3>2, FilledAt
    <3>5. a \in dest .. dest + n - 1 => Shifted(Memory, src - dest)[a] = src + (a - dest)
      <4>. SUFFICES ASSUME a \in dest .. dest + n - 1
                    PROVE  Shifted(Memory, src - dest)[a] = src + (a - dest)
        OBVIOUS
      <4>1. /\ a \in Int /\ a + (src - dest) = src + (a - dest)
            /\ src + (a - dest) \in src .. src + n - 1
        BY <1>3
      <4>2. Shifted(Memory, src - dest)[a] = Memory[src + (a - dest)]
        BY <4>1 DEF Shifted
      <4>. QED  BY <1>3, <1>4, <4>1, <4>2
    <3>. QED  BY <1>4, <2>2, <3>1, <3>3, <3>4, <3>5
  <2>. QED  BY <1>2, <2>1, <2>2
<1>. QED  BY <1>1, <1>5, <1>6, <1>7 DEF MemoryExact

-----------------------------------------------------------------------------
(***************************************************************************)
(* Strings in memory.                                                      *)
(***************************************************************************)
Texts == Seq(Nat \ {EndOfString})

Holds(mem, s, text) ==
  /\ s .. s + Len(text) \subseteq DOMAIN mem
  /\ mem[s + Len(text)] = EndOfString
  /\ \A i \in 1 .. Len(text) : mem[s + i - 1] = text[i]

LEMMA TextFacts ==
  ASSUME NEW text \in Texts
  PROVE  /\ Len(text) \in Nat /\ DOMAIN text = 1 .. Len(text)
         /\ text = [i \in 1 .. Len(text) |-> text[i]]
         /\ \A i \in 1 .. Len(text) : text[i] \in Nat /\ text[i] # EndOfString
BY DEF Texts

LEMMA StrlenIs ==
  ASSUME NEW mem, IsMemory(mem), NEW s \in Nat, NEW text \in Texts, Holds(mem, s, text)
  PROVE  strlen(mem, s) = Len(text) /\ StringAt(mem, s) = text
<1>. DEFINE T == {a \in DOMAIN mem : a >= s /\ mem[a] = EndOfString}
<1>1. PICK n \in Nat : n = Len(text)
  BY TextFacts
<1>2. /\ s .. s + n \subseteq DOMAIN mem /\ mem[s + n] = EndOfString
      /\ \A i \in 1 .. n : mem[s + i - 1] = text[i] /\ text[i] # EndOfString
  BY <1>1, TextFacts DEF Holds
<1>3. T \subseteq Nat /\ s + n \in T
  BY <1>2 DEF IsMemory
<1>4. ASSUME NEW a \in T PROVE s + n <= a
  <2>. SUFFICES ASSUME a < s + n PROVE FALSE
    BY <1>3
  <2>1. a - s + 1 \in 1 .. n /\ s + (a - s + 1) - 1 = a
    BY <1>3
  <2>2. mem[a] # EndOfString
    BY <1>2, <2>1
  <2>. QED  BY <2>2
<1>5. Min(T) = s + n
  <2>. HIDE DEF T
  <2>1. Min(T) \in T /\ \A k \in T : Min(T) <= k
    BY <1>3, MinIs
  <2>2. Min(T) \in Nat /\ s + n \in Nat /\ Min(T) <= s + n /\ s + n <= Min(T)
    BY <1>3, <1>4, <2>1
  <2>. QED  BY <2>2
<1>6. strlen(mem, s) = n
  BY <1>5 DEF strlen
<1>7. StringAt(mem, s) = [i \in 1 .. n |-> mem[s + i - 1]]
  BY <1>6 DEF StringAt, Load
<1>8. StringAt(mem, s) = [i \in 1 .. n |-> text[i]]
  BY <1>2, <1>7
<1>. QED  BY <1>1, <1>6, <1>8, TextFacts

\* A string that is stored is there, and all around it is as before.
LEMMA StoreText ==
  ASSUME NEW mem, IsMemory(mem), NEW s \in Nat, NEW text \in Texts,
         s .. s + Len(text) \subseteq DOMAIN mem
  PROVE  LET m == Store(mem, s, Append(text, EndOfString))
         IN /\ IsMemory(m) /\ DOMAIN m = DOMAIN mem /\ Holds(m, s, text)
            /\ \A a \in DOMAIN mem : a \notin s .. s + Len(text) => m[a] = mem[a]
<1>. DEFINE m == Store(mem, s, Append(text, EndOfString))
<1>1. PICK n \in Nat : n = Len(text)
  BY TextFacts
<1>2. PICK bytes : bytes = Append(text, EndOfString)
  OBVIOUS
<1>3. /\ Len(bytes) = n + 1 /\ bytes[n + 1] = EndOfString
      /\ \A i \in 1 .. n : bytes[i] = text[i]
  <2>1. text \in Seq(Nat) /\ EndOfString \in Nat
    BY DEF Texts, EndOfString
  <2>. QED  BY <1>1, <1>2, <2>1, AppendProperties
<1>4. m = [a \in DOMAIN mem |-> IF a \in s .. s + n THEN bytes[a - s + 1] ELSE mem[a]]
  BY <1>2, <1>3 DEF Store
<1>. HIDE DEF m
<1>5. IsMemory(m) /\ DOMAIN m = DOMAIN mem
  BY <1>4 DEF IsMemory
<1>6. \A a \in DOMAIN mem : a \notin s .. s + Len(text) => m[a] = mem[a]
  BY <1>1, <1>4
<1>7. m[s + n] = EndOfString
  <2>1. s + n \in DOMAIN mem /\ s + n \in s .. s + n /\ s + n - s + 1 = n + 1
    BY <1>1
  <2>. QED  BY <1>3, <1>4, <2>1
<1>8. ASSUME NEW i \in 1 .. n PROVE m[s + i - 1] = text[i]
  <2>1. s + i - 1 \in s .. s + n /\ s + i - 1 - s + 1 = i
    OBVIOUS
  <2>2. s + i - 1 \in DOMAIN mem
    BY <1>1, <2>1
  <2>. QED  BY <1>3, <1>4, <2>1, <2>2
<1>9. Holds(m, s, text)
  BY <1>1, <1>5, <1>7, <1>8 DEF Holds
<1>. QED  BY <1>5, <1>6, <1>9 DEF m

LEMMA ReverseText ==
  ASSUME NEW text \in Texts
  PROVE  /\ Reverse(text) \in Texts /\ Len(Reverse(text)) = Len(text)
         /\ \A i \in 1 .. Len(text) : Reverse(text)[i] = text[Len(text) - i + 1]
<1>1. PICK n \in Nat : n = Len(text)
  BY TextFacts
<1>2. Reverse(text) = [i \in 1 .. n |-> text[(n - i) + 1]]
  BY <1>1 DEF Reverse
<1>3. \A i \in 1 .. n : text[(n - i) + 1] \in Nat \ {EndOfString}
  <2>. SUFFICES ASSUME NEW i \in 1 .. n PROVE text[(n - i) + 1] \in Nat \ {EndOfString}
    OBVIOUS
  <2>1. (n - i) + 1 \in 1 .. n
    OBVIOUS
  <2>. QED  BY <1>1, <2>1, TextFacts
<1>. QED  BY <1>1, <1>2, <1>3 DEF Texts

\* The first i characters and the last i characters swapped.
SwappedTo(mem, s, end, i) ==
  [a \in DOMAIN mem |-> IF a \in s .. s + i - 1 \/ a \in end - i + 1 .. end
                          THEN mem[s + end - a] ELSE mem[a]]

LEMMA SwapStep ==
  ASSUME NEW mem, NEW s \in Int, NEW end \in Int, s .. end \subseteq DOMAIN mem, DOMAIN mem \subseteq Int,
         NEW i \in Nat \ {0}, 2 * i <= end - s + 1
  PROVE  SwappedTo(mem, s, end, i)
           = Swapped(SwappedTo(mem, s, end, i - 1), s + i - 1, end - i + 1)
<1>1. PICK x \in Int, y \in Int : x = s + i - 1 /\ y = end - i + 1
  OBVIOUS
<1>2. x \in DOMAIN mem /\ y \in DOMAIN mem /\ x < y /\ s + end - x = y /\ s + end - y = x
  BY <1>1
<1>3. PICK m : m = SwappedTo(mem, s, end, i - 1)
  OBVIOUS
<1>4. m = [a \in DOMAIN mem |-> IF a \in s .. x - 1 \/ a \in y + 1 .. end
                                  THEN mem[s + end - a] ELSE mem[a]]
  BY <1>1, <1>3 DEF SwappedTo
<1>5. m[x] = mem[x] /\ m[y] = mem[y]
  BY <1>1, <1>2, <1>4
<1>6. [m EXCEPT ![x] = m[y], ![y] = m[x]]
        = [a \in DOMAIN mem |-> IF a = y THEN mem[x] ELSE IF a = x THEN mem[y] ELSE m[a]]
  BY <1>2, <1>4, <1>5
<1>7. ASSUME NEW a \in DOMAIN mem
      PROVE  (IF a = y THEN mem[x] ELSE IF a = x THEN mem[y] ELSE m[a])
               = IF a \in s .. s + i - 1 \/ a \in end - i + 1 .. end THEN mem[s + end - a] ELSE mem[a]
  <2>0. a \in Int
    OBVIOUS
  <2>1. CASE a = y
    BY <1>1, <1>2, <2>1
  <2>2. CASE a = x
    BY <1>1, <1>2, <2>2
  <2>3. CASE a # x /\ a # y
    <3>1. m[a] = IF a \in s .. x - 1 \/ a \in y + 1 .. end THEN mem[s + end - a] ELSE mem[a]
      BY <1>4
    <3>2. a \in s .. x - 1 \/ a \in y + 1 .. end
            <=> a \in s .. s + i - 1 \/ a \in end - i + 1 .. end
      BY <1>1, <2>0, <2>3
    <3>. QED  BY <2>3, <3>1, <3>2
  <2>. QED  BY <2>1, <2>2, <2>3
<1>8. [m EXCEPT ![x] = m[y], ![y] = m[x]] = SwappedTo(mem, s, end, i)
  BY <1>6, <1>7 DEF SwappedTo
<1>. QED  BY <1>1, <1>3, <1>8 DEF Swapped

LEMMA StrrevHolds ==
  ASSUME NEW mem, IsMemory(mem), NEW s \in Nat, NEW text \in Texts, Holds(mem, s, text)
  PROVE  Holds(strrev(mem, s), s, Reverse(text)) /\ DOMAIN strrev(mem, s) = DOMAIN mem
         /\ IsMemory(strrev(mem, s))
         /\ \A a \in DOMAIN mem : a \notin s .. s + Len(text) => strrev(mem, s)[a] = mem[a]
<1>1. PICK n \in Nat, half \in Nat, end \in Int :
        n = Len(text) /\ half = n \div 2 /\ end = s + n - 1
  BY TextFacts
<1>2. /\ s .. s + n \subseteq DOMAIN mem /\ mem[s + n] = EndOfString
      /\ \A i \in 1 .. n : mem[s + i - 1] = text[i]
      /\ DOMAIN mem \subseteq Int
  BY <1>1 DEF Holds, IsMemory
<1>3. strrev(mem, s) = Reversed(mem, s, end, half)
  BY <1>1, StrlenIs DEF strrev
<1>. DEFINE g == [i \in 0 .. half |-> SwappedTo(mem, s, end, i)]
<1>4. g[0] = mem
  <2>1. SwappedTo(mem, s, end, 0) = [a \in DOMAIN mem |-> mem[a]]
    <3>1. \A a \in DOMAIN mem : ~ (a \in s .. s + 0 - 1 \/ a \in end - 0 + 1 .. end)
      BY <1>2
    <3>. QED  BY <3>1 DEF SwappedTo
  <2>2. g[0] = SwappedTo(mem, s, end, 0)
    OBVIOUS
  <2>. HIDE DEF g
  <2>. QED  BY <2>1, <2>2 DEF IsMemory
<1>5. ASSUME NEW i \in 1 .. half
      PROVE  g[i] = Swapped(g[i - 1], s + i - 1, end - i + 1)
  <2>1. i \in Nat \ {0} /\ 2 * i <= end - s + 1 /\ s .. end \subseteq DOMAIN mem
    BY <1>1, <1>2
  <2>2. g[i] = SwappedTo(mem, s, end, i) /\ g[i - 1] = SwappedTo(mem, s, end, i - 1)
    OBVIOUS
  <2>. HIDE DEF g
  <2>. QED  BY <1>2, <2>1, <2>2, SwapStep
<1>6. strrev(mem, s) = SwappedTo(mem, s, end, half)
  <2>1. g[half] = SwappedTo(mem, s, end, half)
    OBVIOUS
  <2>. HIDE DEF g
  <2>2. Reversed(mem, s, end, half) = g[half]
    BY <1>4, <1>5, ReversedIs
  <2>. QED  BY <1>3, <2>1, <2>2
<1>7. PICK m : m = strrev(mem, s)
  OBVIOUS
<1>8. m = [a \in DOMAIN mem |-> IF a \in s .. s + half - 1 \/ a \in end - half + 1 .. end
                                   THEN mem[s + end - a] ELSE mem[a]]
  BY <1>6, <1>7 DEF SwappedTo
<1>9. ASSUME NEW i \in 1 .. n PROVE m[s + i - 1] = text[n - i + 1]
  <2>1. s + i - 1 \in DOMAIN mem /\ s + end - (s + i - 1) = s + (n - i + 1) - 1 /\ n - i + 1 \in 1 .. n
    BY <1>1, <1>2
  <2>2. CASE s + i - 1 \in s .. s + half - 1 \/ s + i - 1 \in end - half + 1 .. end
    BY <1>2, <1>8, <2>1, <2>2
  <2>3. CASE ~ (s + i - 1 \in s .. s + half - 1 \/ s + i - 1 \in end - half + 1 .. end)
    <3>1. n - i + 1 = i
      BY <1>1, <2>3
    <3>. QED  BY <1>2, <1>8, <2>1, <2>3, <3>1
  <2>. QED  BY <2>2, <2>3
<1>10. /\ DOMAIN m = DOMAIN mem /\ IsMemory(m)
       /\ \A a \in DOMAIN mem : a \notin s .. s + n - 1 => m[a] = mem[a]
  <2>1. DOMAIN m = DOMAIN mem /\ IsMemory(m)
    BY <1>2, <1>8 DEF IsMemory
  <2>2. ASSUME NEW a \in DOMAIN mem, a \notin s .. s + n - 1
        PROVE  ~ (a \in s .. s + half - 1 \/ a \in end - half + 1 .. end)
    BY <1>1, <1>2, <2>2
  <2>. QED  BY <1>8, <2>1, <2>2
<1>11. m[s + n] = EndOfString
  <2>1. s + n \in DOMAIN mem /\ s + n \notin s .. s + n - 1
    BY <1>1, <1>2
  <2>. QED  BY <1>2, <1>10, <2>1
<1>12. Holds(m, s, Reverse(text))
  <2>1. Len(Reverse(text)) = n /\ \A i \in 1 .. n : Reverse(text)[i] = text[n - i + 1]
    BY <1>1, ReverseText
  <2>. QED  BY <1>2, <1>9, <1>10, <1>11, <2>1 DEF Holds
<1>13. \A a \in DOMAIN mem : a \notin s .. s + n => m[a] = mem[a]
  BY <1>2, <1>10
<1>. QED  BY <1>1, <1>7, <1>10, <1>12, <1>13

(***************************************************************************)
(* strncmp compares what is left of two strings after n characters.        *)
(***************************************************************************)
LEMMA FirstIs ==
  ASSUME NEW text \in Texts, NEW n \in Nat
  PROVE  /\ First(text, n) \in Texts /\ Len(First(text, n)) <= n
         /\ Len(First(text, n)) = IF n <= Len(text) THEN n ELSE Len(text)
         /\ \A i \in 1 .. Len(First(text, n)) : First(text, n)[i] = text[i]
         /\ \A i \in 1 .. n : CharOf(text, i) = CharOf(First(text, n), i)
<1>1. PICK l \in Nat : l = Len(text)
  BY TextFacts
<1>2. PICK m \in Nat : m = Min({n, l}) /\ m = IF n <= l THEN n ELSE l
  <2>1. {n, l} \subseteq Nat /\ {n, l} # {}
    OBVIOUS
  <2>2. Min({n, l}) \in {n, l} /\ \A k \in {n, l} : Min({n, l}) <= k
    BY <2>1, MinIs
  <2>. QED  BY <2>2
<1>3. PICK f : f = First(text, n)
  OBVIOUS
<1>4. f = SubSeq(text, 1, m)
  BY <1>1, <1>2, <1>3 DEF First
<1>5. f \in Texts /\ Len(f) = m /\ \A i \in 1 .. m : f[i] = text[i]
  <2>1. PICK S : S = Nat \ {EndOfString}
    OBVIOUS
  <2>2. \A i \in 1 .. m : text[i] \in S
    BY <1>1, <1>2, <2>1, TextFacts
  <2>3. /\ SubSeq(text, 1, m) \in Seq(S)
        /\ Len(SubSeq(text, 1, m)) = IF 1 <= m THEN m - 1 + 1 ELSE 0
        /\ \A i \in 1 .. m - 1 + 1 : SubSeq(text, 1, m)[i] = text[1 + i - 1]
    BY <2>2, SubSeqProperties
  <2>4. m - 1 + 1 = m /\ \A i \in 1 .. m : 1 + i - 1 = i
    OBVIOUS
  <2>. QED  BY <1>4, <2>1, <2>3, <2>4 DEF Texts
<1>6. \A i \in 1 .. n : CharOf(text, i) = CharOf(f, i)
  BY <1>1, <1>2, <1>5 DEF CharOf
<1>7. Len(f) <= n /\ Len(f) = IF n <= Len(text) THEN n ELSE Len(text)
  BY <1>1, <1>2, <1>5
<1>8. \A i \in 1 .. Len(f) : f[i] = text[i]
  BY <1>5
<1>. QED  BY <1>3, <1>5, <1>6, <1>7, <1>8

LEMMA SamePrefix ==
  ASSUME NEW s \in Texts, NEW t \in Texts, NEW k \in Nat, k <= Len(s), k <= Len(t)
  PROVE  SubSeq(s, 1, k) = SubSeq(t, 1, k) <=> \A i \in 1 .. k : s[i] = t[i]
<1>1. /\ SubSeq(s, 1, k) = [i \in 1 .. k |-> s[i]]
      /\ SubSeq(t, 1, k) = [i \in 1 .. k |-> t[i]]
  BY DEF Texts
<1>2. ASSUME NEW i \in 1 .. k PROVE SubSeq(s, 1, k)[i] = s[i] /\ SubSeq(t, 1, k)[i] = t[i]
  BY <1>1
<1>3. (\A i \in 1 .. k : s[i] = t[i]) => SubSeq(s, 1, k) = SubSeq(t, 1, k)
  BY <1>1
<1>. QED  BY <1>2, <1>3

LEMMA SameText ==
  ASSUME NEW s \in Texts, NEW t \in Texts, Len(s) = Len(t), \A i \in 1 .. Len(s) : s[i] = t[i]
  PROVE  s = t
<1>1. PICK n \in Nat : n = Len(s)
  BY TextFacts
<1>2. s = [i \in 1 .. n |-> s[i]] /\ t = [i \in 1 .. n |-> t[i]]
  BY <1>1, TextFacts
<1>3. \A i \in 1 .. n : s[i] = t[i]
  BY <1>1
<1>. QED  BY <1>2, <1>3

\* The characters up to n decide.
LEMMA StrncmpDecides ==
  ASSUME NEW s \in Texts, NEW t \in Texts, NEW n \in Nat, Len(s) <= n, Len(t) <= n
  PROVE  (strncmp(s, t, n) = 0 <=> s = t) /\ (strncmp(s, t, n) < 0 <=> Before(s, t))
<1>. DEFINE stops == {i \in 1 .. n : CharOf(s, i) # CharOf(t, i) \/ CharOf(s, i) = EndOfString}
<1>1. PICK l \in Nat, m \in Nat : l = Len(s) /\ m = Len(t) /\ l <= n /\ m <= n
  BY TextFacts
<1>2. /\ \A i \in 1 .. l : s[i] \in Nat /\ s[i] # 0
      /\ \A i \in 1 .. m : t[i] \in Nat /\ t[i] # 0
  BY <1>1, TextFacts DEF EndOfString
<1>3. /\ \A i \in 1 .. n : CharOf(s, i) = IF i <= l THEN s[i] ELSE 0
      /\ \A i \in 1 .. n : CharOf(t, i) = IF i <= m THEN t[i] ELSE 0
  BY <1>1 DEF CharOf, EndOfString
<1>4. strncmp(s, t, n) = IF stops = {} THEN 0 ELSE CharOf(s, Min(stops)) - CharOf(t, Min(stops))
  BY DEF strncmp
<1>5. Before(s, t) <=> \E k \in 0 .. l : /\ k < m /\ \A i \in 1 .. k : s[i] = t[i]
                                         /\ k < l => s[k + 1] < t[k + 1]
  <2>1. ASSUME NEW k \in 0 .. l, k < m
        PROVE  SubSeq(s, 1, k) = SubSeq(t, 1, k) <=> \A i \in 1 .. k : s[i] = t[i]
    <3>1. k \in Nat /\ k <= Len(s) /\ k <= Len(t)
      BY <1>1, <2>1
    <3>. QED  BY <3>1, SamePrefix
  <2>2. Before(s, t) <=> \E k \in 0 .. l : /\ k < m /\ SubSeq(s, 1, k) = SubSeq(t, 1, k)
                                           /\ k < l => s[k + 1] < t[k + 1]
    BY <1>1 DEF Before
  <2>. QED  BY <2>1, <2>2
<1>6. CASE stops = {}
  <2>1. \A i \in 1 .. n : CharOf(s, i) = CharOf(t, i) /\ CharOf(s, i) # 0
    BY <1>6 DEF EndOfString
  <2>2. l = n /\ m = n
    <3>1. n = 0 => l = n /\ m = n
      BY <1>1
    <3>2. n # 0 => n \in 1 .. n
      OBVIOUS
    <3>. QED  BY <1>1, <1>3, <2>1, <3>1, <3>2
  <2>3. \A i \in 1 .. n : s[i] = t[i]
    BY <1>3, <2>1, <2>2
  <2>4. s = t
    BY <1>1, <2>2, <2>3, SameText
  <2>5. ~ Before(s, t)
    BY <1>1, <1>2, <1>5, <2>2, <2>3
  <2>. QED  BY <1>4, <1>6, <2>4, <2>5
<1>7. CASE stops # {}
  <2>1. PICK c \in 1 .. n : c = Min(stops) /\ c \in stops /\ \A i \in stops : c <= i
    <3>1. stops \subseteq Nat /\ stops \subseteq 1 .. n
      OBVIOUS
    <3>. HIDE DEF stops
    <3>2. Min(stops) \in stops /\ \A i \in stops : Min(stops) <= i
      BY <1>7, <3>1, MinIs
    <3>. QED  BY <3>1, <3>2
  <2>2. \A i \in 1 .. c - 1 : CharOf(s, i) = CharOf(t, i) /\ CharOf(s, i) # 0
    <3>1. \A i \in 1 .. c - 1 : i \in 1 .. n /\ i \notin stops
      BY <2>1
    <3>. QED  BY <3>1 DEF EndOfString
  <2>3. c - 1 <= l /\ c - 1 <= m
    <3>1. c - 1 # 0 => c - 1 \in 1 .. c - 1 /\ c - 1 \in 1 .. n
      OBVIOUS
    <3>. QED  BY <1>3, <2>2, <3>1
  <2>4. \A i \in 1 .. c - 1 : s[i] = t[i]
    BY <1>3, <2>2, <2>3
  <2>5. strncmp(s, t, n) = CharOf(s, c) - CharOf(t, c)
    BY <1>4, <1>7, <2>1
  <2>6. /\ CharOf(s, c) = IF c <= l THEN s[c] ELSE 0
        /\ CharOf(t, c) = IF c <= m THEN t[c] ELSE 0
        /\ c <= l => s[c] \in Nat \ {0}
        /\ c <= m => t[c] \in Nat \ {0}
    BY <1>2, <1>3
  <2>7. CharOf(s, c) \in Nat /\ CharOf(t, c) \in Nat
    BY <2>6
  <2>8. CharOf(s, c) # CharOf(t, c) \/ CharOf(s, c) = 0
    BY <2>1 DEF EndOfString
  <2>9. strncmp(s, t, n) = 0 <=> s = t
    <3>1. CASE CharOf(s, c) = CharOf(t, c)
      <4>1. l = c - 1 /\ m = c - 1
        BY <2>3, <2>6, <2>8, <3>1
      <4>2. s = t
        BY <1>1, <2>4, <4>1, SameText
      <4>. QED  BY <2>5, <2>7, <3>1, <4>2
    <3>2. CASE CharOf(s, c) # CharOf(t, c)
      BY <2>5, <2>7, <3>2
    <3>. QED  BY <3>1, <3>2
  <2>10. ASSUME CharOf(s, c) < CharOf(t, c) PROVE Before(s, t)
    <3>1. c - 1 \in 0 .. l /\ c - 1 < m /\ (c - 1 < l => s[c - 1 + 1] < t[c - 1 + 1])
      BY <2>3, <2>6, <2>10
    <3>. QED  BY <1>5, <2>4, <3>1
  <2>11. ASSUME Before(s, t) PROVE CharOf(s, c) < CharOf(t, c)
    <3>1. PICK k \in 0 .. l : /\ k < m /\ \A i \in 1 .. k : s[i] = t[i]
                              /\ k < l => s[k + 1] < t[k + 1]
      BY <1>5, <2>11
    <3>2. ~ (k > c - 1)
      <4>. SUFFICES ASSUME k > c - 1 PROVE FALSE
        OBVIOUS
      <4>1. c \in 1 .. k /\ c <= l /\ c <= m
        BY <3>1
      <4>2. s[c] = t[c]
        BY <3>1, <4>1
      <4>. QED  BY <2>6, <2>8, <4>1, <4>2
    <3>3. ~ (k < c - 1)
      <4>. SUFFICES ASSUME k < c - 1 PROVE FALSE
        OBVIOUS
      <4>1. k < l /\ k + 1 \in 1 .. c - 1 /\ k + 1 \in 1 .. l
        BY <2>3
      <4>2. s[k + 1] = t[k + 1] /\ s[k + 1] < t[k + 1] /\ s[k + 1] \in Nat
        BY <1>2, <2>4, <3>1, <4>1
      <4>. QED  BY <4>2
    <3>4. k = c - 1
      BY <3>2, <3>3
    <3>. QED  BY <2>6, <3>1, <3>4
  <2>12. strncmp(s, t, n) < 0 <=> CharOf(s, c) < CharOf(t, c)
    BY <2>5, <2>7
  <2>. QED  BY <2>9, <2>10, <2>11, <2>12
<1>. QED  BY <1>6, <1>7

LEMMA StringsHold == MemoryOrString => StringsExact
<1>. SUFFICES ASSUME input \in StringCalls PROVE StringsExact
  BY DEF MemoryOrString, StringsExact, MemoryCalls
<1>1. PICK a, b, n : a = input.s1 /\ b = input.s2 /\ n = input.n
  OBVIOUS
<1>2. a \in Texts /\ b \in Texts /\ n \in Nat /\ Len(a) <= MaxString /\ n <= MaxString + 1
  <2>1. a \in SeqOf(Chars, MaxString) /\ b \in SeqOf(Chars, MaxString) /\ n \in 0 .. MaxString + 1
    BY <1>1 DEF StringCalls
  <2>2. a \in Seq(Chars) /\ b \in Seq(Chars) /\ Len(a) <= MaxString
    BY <2>1, SizesAssumption, SeqOfIsSeq
  <2>3. a \in Texts /\ b \in Texts
    <3>1. PICK S : S = Nat \ {EndOfString}
      OBVIOUS
    <3>2. \A x \in Chars : x \in S
      BY <3>1, CharsAssumption
    <3>3. a \in Seq(S) /\ b \in Seq(S)
      BY <2>2, <3>2
    <3>. QED  BY <3>1, <3>3 DEF Texts
  <2>4. n \in Nat /\ n <= MaxString + 1
    BY <2>1, SizesAssumption
  <2>. QED  BY <2>2, <2>3, <2>4
<1>3. PICK l \in Nat, second \in Nat : l = Len(a) /\ second = Second
  BY <1>2, TextFacts, SizesAssumption DEF Second
<1>4. l < second /\ second + l < 2 * second /\ n < 2 * second - second /\ n \in 0 .. second
  BY <1>2, <1>3, SizesAssumption DEF Second
<1>5. PICK empty : empty = [x \in 0 .. 2 * second - 1 |-> Garbage]
  OBVIOUS
<1>6. PICK memory : memory = WithString(a) /\ memory = Store(empty, 0, Append(a, EndOfString))
  BY <1>3, <1>5 DEF WithString
<1>7. /\ IsMemory(memory) /\ DOMAIN memory = 0 .. 2 * second - 1 /\ Holds(memory, 0, a)
      /\ \A x \in second .. 2 * second - 1 : memory[x] = Garbage
  <2>1. IsMemory(empty) /\ DOMAIN empty = 0 .. 2 * second - 1 /\ 0 \in Nat
        /\ 0 .. 0 + Len(a) \subseteq DOMAIN empty
    BY <1>3, <1>4, <1>5 DEF IsMemory
  <2>2. /\ IsMemory(memory) /\ DOMAIN memory = DOMAIN empty /\ Holds(memory, 0, a)
        /\ \A x \in DOMAIN empty : x \notin 0 .. 0 + Len(a) => memory[x] = empty[x]
    BY <1>2, <1>6, <2>1, StoreText
  <2>. QED  BY <1>3, <1>4, <1>5, <2>1, <2>2
<1>8. StringAt(memory, 0) = a
  BY <1>2, <1>7, StrlenIs
<1>9. StringAt(strrev(memory, 0), 0) = Reverse(a)
  <2>1. Holds(strrev(memory, 0), 0, Reverse(a)) /\ IsMemory(strrev(memory, 0))
    BY <1>2, <1>7, StrrevHolds
  <2>2. Reverse(a) \in Texts
    BY <1>2, ReverseText
  <2>. QED  BY <2>1, <2>2, StrlenIs
<1>10. StringAt(strcpy(memory, second, 0), second) = a
  <2>1. strcpy(memory, second, 0) = Store(memory, second, Append(a, EndOfString))
    BY <1>8 DEF strcpy
  <2>2. second .. second + Len(a) \subseteq DOMAIN memory
    BY <1>3, <1>4, <1>7
  <2>3. PICK m : m = Store(memory, second, Append(a, EndOfString))
    OBVIOUS
  <2>4. Holds(m, second, a) /\ IsMemory(m)
    BY <1>2, <1>7, <2>2, <2>3, StoreText
  <2>. QED  BY <1>2, <2>1, <2>3, <2>4, StrlenIs
<1>11. ASSUME NEW i \in 0 .. second - 1
       PROVE  strncpy(memory, second, 0, n)[second + i]
                = IF i < Len(First(a, n)) THEN a[i + 1] ELSE IF i < n THEN EndOfString ELSE Garbage
  <2>1. PICK bytes : bytes = [j \in 1 .. n |-> CharOf(a, j)]
    OBVIOUS
  <2>2. strncpy(memory, second, 0, n) = Store(memory, second, bytes) /\ Len(bytes) = n
    BY <1>2, <1>8, <2>1 DEF strncpy
  <2>3. PICK x \in DOMAIN memory : x = second + i /\ x - second + 1 = i + 1
    BY <1>3, <1>7
  <2>4. Store(memory, second, bytes)[x]
          = IF x \in second .. second + n - 1 THEN bytes[x - second + 1] ELSE memory[x]
    BY <2>2, <2>3 DEF Store
  <2>5. x \in second .. second + n - 1 <=> i < n
    BY <1>2, <1>3, <2>3
  <2>6. i < n => bytes[i + 1] = IF i < l THEN a[i + 1] ELSE EndOfString
    BY <1>2, <1>3, <2>1 DEF CharOf
  <2>7. memory[x] = Garbage
    BY <1>7, <2>3
  <2>8. i < Len(First(a, n)) <=> i < n /\ i < l
    <3>1. Len(First(a, n)) = IF n <= l THEN n ELSE l
      BY <1>2, <1>3, FirstIs
    <3>. QED  BY <1>2, <3>1
  <2>. QED  BY <2>2, <2>3, <2>4, <2>5, <2>6, <2>7, <2>8
<1>12. /\ strncmp(a, b, n) = 0 <=> First(a, n) = First(b, n)
       /\ strncmp(a, b, n) < 0 <=> Before(First(a, n), First(b, n))
  <2>1. PICK s \in Texts, t \in Texts : s = First(a, n) /\ t = First(b, n)
    BY <1>2, FirstIs
  <2>2. Len(s) <= n /\ Len(t) <= n
    BY <1>2, <2>1, FirstIs
  <2>3. \A i \in 1 .. n : CharOf(a, i) = CharOf(s, i) /\ CharOf(b, i) = CharOf(t, i)
    BY <1>2, <2>1, FirstIs
  <2>4. strncmp(a, b, n) = strncmp(s, t, n)
    <3>. DEFINE Stops(x, y) == {i \in 1 .. n : CharOf(x, i) # CharOf(y, i) \/ CharOf(x, i) = EndOfString}
    <3>1. Stops(a, b) = Stops(s, t) /\ Stops(s, t) \subseteq Nat /\ Stops(s, t) \subseteq 1 .. n
      BY <2>3
    <3>2. /\ strncmp(a, b, n) = IF Stops(a, b) = {} THEN 0
                                ELSE CharOf(a, Min(Stops(a, b))) - CharOf(b, Min(Stops(a, b)))
          /\ strncmp(s, t, n) = IF Stops(s, t) = {} THEN 0
                                ELSE CharOf(s, Min(Stops(s, t))) - CharOf(t, Min(Stops(s, t)))
      BY DEF strncmp
    <3>. HIDE DEF Stops
    <3>3. Stops(s, t) # {} => Min(Stops(s, t)) \in Stops(s, t)
      BY <3>1, MinIs
    <3>. QED  BY <2>3, <3>1, <3>2, <3>3
  <2>5. (strncmp(s, t, n) = 0 <=> s = t) /\ (strncmp(s, t, n) < 0 <=> Before(s, t))
    BY <1>2, <2>2, StrncmpDecides
  <2>. QED  BY <2>1, <2>4, <2>5
<1>. QED  BY <1>1, <1>3, <1>6, <1>8, <1>9, <1>10, <1>11, <1>12 DEF StringsExact

-----------------------------------------------------------------------------
(***************************************************************************)
(* Numbers as text.                                                        *)
(***************************************************************************)
\* A function that is defined step by step up to n exists.
Steps(step, start, X, n) == start \in X /\ step \in [X \X (1 .. n) -> X]
Follows(f, step, start, X, n) ==
  f \in [0 .. n -> X] /\ f[0] = start /\ \A i \in 1 .. n : f[i] = step[<<f[i - 1], i>>]

LEMMA StepByStep ==
  ASSUME NEW X, NEW start, NEW n \in Nat, NEW step, Steps(step, start, X, n)
  PROVE  \E f : Follows(f, step, start, X, n)
<1>0. start \in X /\ step \in [X \X (1 .. n) -> X]
  BY DEF Steps
<1>. DEFINE Upto(f, k) == f[0] = start /\ \A i \in 1 .. k : f[i] = step[<<f[i - 1], i>>]
            D == {k \in 0 .. n : ~ \E f \in [0 .. k -> X] : Upto(f, k)}
<1>1. ASSUME D # {} PROVE FALSE
  <2>1. D \subseteq Nat
    OBVIOUS
  <2>2. PICK m \in D : \A k \in D : m <= k
    <3>. HIDE DEF D
    <3>. QED  BY <1>1, <2>1, LeastOf
  <2>3. m # 0
    <3>1. [i \in 0 .. 0 |-> start] \in [0 .. 0 -> X] /\ Upto([i \in 0 .. 0 |-> start], 0)
      BY <1>0
    <3>. QED  BY <3>1
  <2>4. m \in 1 .. n /\ m - 1 \in 0 .. n /\ m - 1 \notin D
    <3>1. m \in 0 .. n
      OBVIOUS
    <3>. HIDE DEF D
    <3>. QED  BY <2>2, <2>3, <3>1
  <2>5. PICK f \in [0 .. m - 1 -> X] : Upto(f, m - 1)
    BY <2>4
  <2>. DEFINE h == [i \in 0 .. m |-> IF i = m THEN step[<<f[m - 1], m>>] ELSE f[i]]
  <2>6. step[<<f[m - 1], m>>] \in X
    <3>1. f[m - 1] \in X /\ <<f[m - 1], m>> \in X \X (1 .. n)
      BY <2>4
    <3>. QED  BY <1>0, <3>1
  <2>7. h \in [0 .. m -> X]
    BY <2>4, <2>6
  <2>8. h[0] = start
    BY <2>4, <2>5
  <2>9. ASSUME NEW i \in 1 .. m PROVE h[i] = step[<<h[i - 1], i>>]
    <3>1. i - 1 \in 0 .. m /\ i - 1 # m /\ h[i - 1] = f[i - 1]
      BY <2>4
    <3>2. CASE i = m
      BY <3>1, <3>2
    <3>3. CASE i # m
      <4>1. i \in 1 .. m - 1 /\ h[i] = f[i]
        BY <2>4, <3>3
      <4>. QED  BY <2>5, <3>1, <4>1
    <3>. QED  BY <3>2, <3>3
  <2>10. m \notin D
    <3>. HIDE DEF h
    <3>. QED  BY <2>7, <2>8, <2>9
  <2>. QED  BY <2>10
<1>2. PICK f \in [0 .. n -> X] : Upto(f, n)
  <2>1. n \in 0 .. n
    OBVIOUS
  <2>2. n \notin D
    <3>. HIDE DEF D
    <3>. QED  BY <1>1
  <2>. HIDE DEF Upto
  <2>. QED  BY <2>1, <2>2
<1>. QED  BY <1>2 DEF Follows

Powers(p, c, n) == p \in [0 .. n -> Nat] /\ p[0] = 1 /\ \A i \in 1 .. n : p[i] = c * p[i - 1]

LEMMA WordValuesIsPower == \E p : Powers(p, 2, 4 * WordDigits) /\ WordValues = p[4 * WordDigits]
<1>1. PICK n \in Nat : n = 4 * WordDigits
  BY WordAssumption
<1>2. PICK p \in [0 .. n -> Nat] : p[0] = 1 /\ \A i \in 1 .. n : p[i] = 2 * p[i - 1]
  <2>. DEFINE step == [x \in Nat \X (1 .. n) |-> 2 * x[1]]
  <2>1. step \in [Nat \X (1 .. n) -> Nat]
    OBVIOUS
  <2>2. \A x \in Nat, i \in 1 .. n : step[<<x, i>>] = 2 * x
    OBVIOUS
  <2>. HIDE DEF step
  <2>3. Steps(step, 1, Nat, n)
    BY <2>1 DEF Steps
  <2>4. PICK f : Follows(f, step, 1, Nat, n)
    BY <2>3, StepByStep
  <2>5. f \in [0 .. n -> Nat] /\ f[0] = 1 /\ \A i \in 1 .. n : f[i] = step[<<f[i - 1], i>>]
    BY <2>4 DEF Follows
  <2>6. \A i \in 1 .. n : f[i - 1] \in Nat
    BY <2>5
  <2>. QED  BY <2>2, <2>5, <2>6
<1>. DEFINE Is(f) == f = [k \in 0 .. n |-> IF k = 0 THEN 1 ELSE 2 * f[k - 1]]
            twoTo == CHOOSE f : Is(f)
<1>3. WordValues = twoTo[n]
  BY <1>1 DEF WordValues
<1>4. Is(p)
  <2>1. \A k \in 0 .. n : p[k] = IF k = 0 THEN 1 ELSE 2 * p[k - 1]
    BY <1>2
  <2>. QED  BY <2>1
<1>5. Is(twoTo)
  <2>. HIDE DEF Is
  <2>. QED  BY <1>4, Zenon
<1>. HIDE DEF twoTo
<1>6. twoTo[0] = p[0]
  BY <1>2, <1>5
<1>7. \A i \in 1 .. n : twoTo[i - 1] = p[i - 1] => twoTo[i] = p[i]
  BY <1>2, <1>5
<1>8. twoTo[n] = p[n]
  <2>. HIDE DEF Is
  <2>. QED  BY <1>6, <1>7, Agree
<1>. QED  BY <1>1, <1>2, <1>3, <1>8 DEF Powers

\* What is left of value after 0, 1, 2, ... divisions by radix.
Quotients(v, value, radix, n) ==
  v \in [0 .. n -> Nat] /\ v[0] = value /\ \A i \in 1 .. n : v[i] = v[i - 1] \div radix

LEMMA DivisionBy ==
  ASSUME NEW x \in Nat, NEW radix \in {10, 16}
  PROVE  /\ x \div radix \in Nat /\ x % radix \in 0 .. radix - 1
         /\ x = radix * (x \div radix) + (x % radix)
<1>1. CASE radix = 10
  BY <1>1
<1>2. CASE radix = 16
  BY <1>2
<1>. QED  BY <1>1, <1>2

LEMMA QuotientsExist ==
  ASSUME NEW value \in Nat, NEW radix \in {10, 16}, NEW n \in Nat
  PROVE  \E v : Quotients(v, value, radix, n)
<1>. DEFINE step == [x \in Nat \X (1 .. n) |-> x[1] \div radix]
<1>1. step \in [Nat \X (1 .. n) -> Nat]
  BY DivisionBy
<1>2. \A x \in Nat, i \in 1 .. n : step[<<x, i>>] = x \div radix
  OBVIOUS
<1>. HIDE DEF step
<1>3. PICK f : Follows(f, step, value, Nat, n)
  <2>1. Steps(step, value, Nat, n)
    BY <1>1 DEF Steps
  <2>. QED  BY <2>1, StepByStep
<1>4. /\ f \in [0 .. n -> Nat] /\ f[0] = value
      /\ \A i \in 1 .. n : f[i] = step[<<f[i - 1], i>>]
  BY <1>3 DEF Follows
<1>5. \A i \in 1 .. n : f[i - 1] \in Nat
  BY <1>4
<1>6. \A i \in 1 .. n : f[i] = f[i - 1] \div radix
  BY <1>2, <1>4, <1>5
<1>. QED  BY <1>4, <1>6 DEF Quotients

LEMMA TimesGrows ==
  ASSUME NEW x \in Nat, NEW y \in Nat, NEW z \in Nat, x <= y
  PROVE  x * z <= y * z
OBVIOUS

LEMMA TimesIn ==
  ASSUME NEW x \in Nat, NEW c \in {2, 16}, NEW z \in Nat
  PROVE  x * (c * z) = (c * x) * z /\ x * z \in Nat
<1>1. CASE c = 2
  BY <1>1
<1>2. CASE c = 16
  BY <1>2
<1>. QED  BY <1>1, <1>2

\* A number below the n-th power of c has no more than n digits.
LEMMA QuotientsVanish ==
  ASSUME NEW radix \in {10, 16}, NEW c \in {2, 16}, c <= radix, NEW n \in Nat, NEW p, Powers(p, c, n),
         NEW value \in Nat, value < p[n], NEW v, NEW l \in Nat, n <= l, Quotients(v, value, radix, l)
  PROVE  v[n] = 0
<1>1. /\ \A i \in 0 .. n : v[i] \in Nat /\ p[i] \in Nat
      /\ v[0] = value /\ p[0] = 1
      /\ \A i \in 1 .. n : v[i] = v[i - 1] \div radix /\ p[i] = c * p[i - 1]
  BY DEF Quotients, Powers
<1>. DEFINE below == [i \in 0 .. n |-> IF v[i] * p[i] <= value THEN 0 ELSE 1]
            always == [i \in 0 .. n |-> 0]
<1>2. below[0] = always[0]
  <2>1. 0 \in 0 .. n /\ v[0] * p[0] = value
    BY <1>1
  <2>. QED  BY <2>1
<1>3. ASSUME NEW i \in 1 .. n, below[i - 1] = always[i - 1] PROVE below[i] = always[i]
  <2>1. i - 1 \in 0 .. n /\ i \in 0 .. n
    OBVIOUS
  <2>2. PICK x \in Nat, y \in Nat, z \in Nat : x = v[i - 1] /\ y = v[i] /\ z = p[i - 1]
    <3>1. v[i - 1] \in Nat /\ v[i] \in Nat /\ p[i - 1] \in Nat
      BY <1>1, <2>1
    <3>. QED  BY <3>1, Zenon
  <2>3. x * z <= value
    BY <1>3, <2>1, <2>2
  <2>4. c * y <= x
    <3>1. y = x \div radix /\ x = radix * (x \div radix) + (x % radix) /\ x % radix \in 0 .. radix - 1
      BY <1>1, <2>2, DivisionBy
    <3>2. CASE radix = 10
      BY <3>1, <3>2
    <3>3. CASE radix = 16
      BY <3>1, <3>3
    <3>. QED  BY <3>2, <3>3
  <2>5. c * y \in Nat
    OBVIOUS
  <2>6. (c * y) * z <= x * z /\ y * (c * z) = (c * y) * z
    BY <2>4, <2>5, TimesGrows, TimesIn
  <2>7. x * z \in Nat /\ (c * y) * z \in Nat
    BY <2>5
  <2>8. y * (c * z) <= value
    BY <2>3, <2>6, <2>7
  <2>9. v[i] * p[i] <= value
    BY <1>1, <2>2, <2>8
  <2>. QED  BY <2>1, <2>9
<1>4. below[n] = always[n]
  <2>. HIDE DEF below, always
  <2>. QED  BY <1>2, <1>3, Agree
<1>5. v[n] * p[n] <= value /\ v[n] \in Nat /\ p[n] \in Nat
  BY <1>1, <1>4
<1>6. ASSUME v[n] >= 1 PROVE FALSE
  <2>1. 1 * p[n] <= v[n] * p[n]
    BY <1>5, <1>6, TimesGrows
  <2>2. v[n] * p[n] \in Nat /\ 1 * p[n] = p[n]
    BY <1>5
  <2>. QED  BY <1>5, <2>1, <2>2
<1>. QED  BY <1>5, <1>6

\* The values of the beginnings of digits.
Evaluates(f, digits, radix, k) ==
  /\ f[0] = 0
  /\ \A i \in 1 .. k : f[i] = radix * f[i - 1] + DigitOf(digits[i])

LEMMA ValueOfIs ==
  ASSUME NEW digits, NEW radix, NEW k \in Nat, Len(digits) = k, NEW g, Evaluates(g, digits, radix, k)
  PROVE  ValueOf(digits, radix) = g[k]
<1>. DEFINE Is(f) == f = [i \in 0 .. k |-> IF i = 0 THEN 0 ELSE radix * f[i - 1] + DigitOf(digits[i])]
            value == CHOOSE f : Is(f)
            h == [i \in 0 .. k |-> g[i]]
<1>1. ValueOf(digits, radix) = value[k]
  BY DEF ValueOf
<1>2. Is(h)
  <2>1. \A i \in 0 .. k : h[i] = IF i = 0 THEN 0 ELSE radix * h[i - 1] + DigitOf(digits[i])
    BY DEF Evaluates
  <2>. QED  BY <2>1
<1>3. Is(value)
  <2>. HIDE DEF Is, h
  <2>. QED  BY <1>2, Zenon
<1>. HIDE DEF value
<1>4. value[0] = g[0]
  BY <1>3 DEF Evaluates
<1>5. \A i \in 1 .. k : value[i - 1] = g[i - 1] => value[i] = g[i]
  BY <1>3 DEF Evaluates
<1>6. value[k] = g[k]
  <2>. HIDE DEF Is
  <2>. QED  BY <1>4, <1>5, Agree
<1>. QED  BY <1>1, <1>6

\* A text that is value written with that radix.
Writes(text, value, radix) ==
  /\ text \in Texts /\ Len(text) # 0
  /\ \A i \in 1 .. Len(text) : DigitOf(text[i]) \in 0 .. radix - 1
  /\ \E f : Evaluates(f, text, radix, Len(text)) /\ f[Len(text)] = value

LEMMA WritesNumber ==
  ASSUME NEW text, NEW value, NEW radix, Writes(text, value, radix)
  PROVE  IsNumber(text, value, radix)
<1>1. PICK k \in Nat : k = Len(text) /\ DOMAIN text = 1 .. k /\ k # 0
  BY TextFacts DEF Writes
<1>2. ValueOf(text, radix) = value
  <2>1. PICK f : Evaluates(f, text, radix, k) /\ f[k] = value
    BY <1>1 DEF Writes
  <2>. QED  BY <1>1, <2>1, ValueOfIs
<1>3. text # <<>>
  BY <1>1
<1>. QED  BY <1>1, <1>2, <1>3 DEF Writes, IsNumber

\* Zeros in front do not change the value.
LEMMA ZerosInFront ==
  ASSUME NEW text, NEW value, NEW radix \in {10, 16}, Writes(text, value, radix),
         NEW z \in Nat, NEW long \in Texts, Len(long) = z + Len(text),
         \A i \in 1 .. z : long[i] = DIGIT_0,
         \A i \in 1 .. Len(text) : long[z + i] = text[i]
  PROVE  Writes(long, value, radix)
<1>1. PICK k \in Nat : k = Len(text) /\ k # 0
  BY TextFacts DEF Writes
<1>2. PICK f : Evaluates(f, text, radix, k) /\ f[k] = value
  BY <1>1 DEF Writes
<1>3. PICK g : g = [i \in 0 .. z + k |-> IF i <= z THEN 0 ELSE f[i - z]]
  OBVIOUS
<1>4. ASSUME NEW i \in 1 .. z + k
      PROVE  DigitOf(long[i]) \in 0 .. radix - 1 /\ g[i] = radix * g[i - 1] + DigitOf(long[i])
  <2>1. CASE i <= z
    <3>1. i \in 1 .. z /\ long[i] = DIGIT_0
      BY <2>1
    <3>2. DigitOf(long[i]) = 0
      BY <3>1 DEF DigitOf, DIGIT_0, UPPER_A
    <3>3. g[i] = 0 /\ g[i - 1] = 0
      BY <1>3, <2>1
    <3>. QED  BY <3>2, <3>3
  <2>2. CASE i > z
    <3>1. PICK j \in 1 .. k : j = i - z
      BY <2>2
    <3>2. z + j = i /\ long[i] = text[j]
      BY <1>1, <3>1
    <3>3. g[i] = f[j] /\ g[i - 1] = f[j - 1]
      <4>1. i \in 0 .. z + k /\ i - 1 \in 0 .. z + k
        OBVIOUS
      <4>2. g[i] = f[j]
        BY <1>3, <2>2, <3>1, <4>1
      <4>3. CASE i - 1 > z
        <5>1. i - 1 - z = j - 1
          BY <3>1
        <5>. QED  BY <1>3, <4>1, <4>2, <4>3, <5>1
      <4>4. CASE i - 1 <= z
        <5>1. j - 1 = 0 /\ g[i - 1] = 0
          BY <1>3, <2>2, <3>1, <4>1, <4>4
        <5>. QED  BY <1>2, <4>2, <5>1 DEF Evaluates
      <4>. QED  BY <4>3, <4>4
    <3>4. f[j] = radix * f[j - 1] + DigitOf(text[j])
      BY <1>2 DEF Evaluates
    <3>5. DigitOf(text[j]) \in 0 .. radix - 1
      BY <1>1 DEF Writes
    <3>. QED  BY <3>2, <3>3, <3>4, <3>5
  <2>. QED  BY <2>1, <2>2
<1>5. Evaluates(g, long, radix, z + k)
  <2>1. g[0] = 0
    BY <1>3
  <2>. QED  BY <1>4, <2>1 DEF Evaluates
<1>6. g[z + k] = value
  <2>1. z + k \in 0 .. z + k /\ ~ (z + k <= z) /\ z + k - z = k
    BY <1>1
  <2>. QED  BY <1>2, <1>3, <2>1
<1>7. Len(long) = z + k /\ z + k # 0
  BY <1>1
<1>. QED  BY <1>4, <1>5, <1>6, <1>7 DEF Writes

LEMMA LookupOf ==
  ASSUME NEW d \in 0 .. 15
  PROVE  lookup(d) \in Nat \ {EndOfString} /\ DigitOf(lookup(d)) = d /\ (lookup(d) = DIGIT_0 => d = 0)
BY DEF lookup, DigitOf, DIGIT_0, UPPER_A, EndOfString

\* The digits of a number, the highest first, from its quotients; the first
\* that is zero is the one after count divisions.
DigitsOf(text, v, radix, count) ==
  /\ v[count] = 0 /\ \A i \in 0 .. count - 1 : v[i] # 0
  /\ text \in Texts /\ Len(text) = count
  /\ \A i \in 1 .. count : text[i] = lookup(v[count - i] % radix)

LEMMA DigitsWrite ==
  ASSUME NEW value, NEW radix \in {10, 16}, NEW l \in Nat, NEW v,
         Quotients(v, value, radix, l), NEW count \in 1 .. l, NEW text, DigitsOf(text, v, radix, count)
  PROVE  Writes(text, value, radix) /\ IsShortest(text)
<1>1. /\ \A i \in 0 .. l : v[i] \in Nat
      /\ v[0] = value /\ \A i \in 1 .. l : v[i] = v[i - 1] \div radix
  BY DEF Quotients
<1>0. /\ v[count] = 0 /\ \A i \in 0 .. count - 1 : v[i] # 0
      /\ text \in Texts /\ Len(text) = count
      /\ \A i \in 1 .. count : text[i] = lookup(v[count - i] % radix)
  BY DEF DigitsOf
<1>2. PICK g : g = [i \in 0 .. count |-> v[count - i]]
  OBVIOUS
<1>3. ASSUME NEW i \in 1 .. count
      PROVE  DigitOf(text[i]) \in 0 .. radix - 1 /\ g[i] = radix * g[i - 1] + DigitOf(text[i])
  <2>1. PICK x \in Nat, y \in Nat : x = v[count - i] /\ y = v[count - i + 1]
    <3>1. count - i \in 0 .. l /\ count - i + 1 \in 0 .. l
      OBVIOUS
    <3>2. v[count - i] \in Nat /\ v[count - i + 1] \in Nat
      BY <1>1, <3>1
    <3>. QED  BY <3>2, Zenon
  <2>2. y = x \div radix
    <3>1. count - i + 1 \in 1 .. l /\ (count - i + 1) - 1 = count - i
      OBVIOUS
    <3>. QED  BY <1>1, <2>1, <3>1
  <2>3. x = radix * y + (x % radix) /\ x % radix \in 0 .. radix - 1
    BY <2>2, DivisionBy
  <2>4. x % radix \in 0 .. 15
    BY <2>3
  <2>5. DigitOf(text[i]) = x % radix
    BY <1>0, <2>1, <2>4, LookupOf
  <2>6. g[i] = x /\ g[i - 1] = y
    <3>1. count - (i - 1) = count - i + 1 /\ i \in 0 .. count /\ i - 1 \in 0 .. count
      OBVIOUS
    <3>. QED  BY <1>2, <2>1, <3>1
  <2>. QED  BY <2>3, <2>5, <2>6
<1>4. g[0] = 0 /\ g[count] = value
  BY <1>0, <1>1, <1>2
<1>5. Evaluates(g, text, radix, count)
  BY <1>3, <1>4 DEF Evaluates
<1>6. Writes(text, value, radix)
  BY <1>0, <1>3, <1>4, <1>5 DEF Writes
<1>7. IsShortest(text)
  <2>1. text[1] # DIGIT_0
    <3>1. PICK x \in Nat : x = v[count - 1] /\ x # 0
      <4>1. count - 1 \in 0 .. l /\ count - 1 \in 0 .. count - 1
        OBVIOUS
      <4>. QED  BY <1>0, <1>1, <4>1
    <3>2. x \div radix = 0
      BY <1>0, <1>1, <3>1
    <3>3. x = radix * 0 + (x % radix) /\ x % radix \in 0 .. radix - 1
      BY <3>2, DivisionBy
    <3>4. x % radix = x /\ x \in 0 .. 15
      BY <3>3
    <3>5. text[1] = lookup(x % radix)
      BY <1>0, <3>1
    <3>. QED  BY <3>1, <3>4, <3>5, LookupOf
  <2>. QED  BY <2>1 DEF IsShortest
<1>. QED  BY <1>6, <1>7

\* itoa stores the shortest text of its value, of at most size digits.
Shows(text, value, radix) == Writes(text, value, radix) /\ IsShortest(text)

HasDigits(v, value, radix, size) ==
  size \in 1 .. 4 * WordDigits /\ Quotients(v, value, radix, 4 * WordDigits) /\ v[size] = 0

HasRoom(mem, buf, size) == IsMemory(mem) /\ buf .. buf + size \subseteq DOMAIN mem

ShowsIn(m, mem, buf, text, value, radix, size) ==
  /\ text \in Texts /\ Shows(text, value, radix) /\ Len(text) \in 1 .. size
  /\ IsMemory(m) /\ DOMAIN m = DOMAIN mem /\ Holds(m, buf, text)

LEMMA ItoaWrites ==
  ASSUME NEW value \in Nat, NEW radix \in {10, 16}, NEW size, NEW v, HasDigits(v, value, radix, size),
         NEW mem, NEW buf \in Nat, HasRoom(mem, buf, size)
  PROVE  \E text : ShowsIn(itoa(value, mem, buf, radix), mem, buf, text, value, radix, size)
<1>0. /\ size \in 1 .. 4 * WordDigits /\ Quotients(v, value, radix, 4 * WordDigits) /\ v[size] = 0
      /\ IsMemory(mem) /\ buf .. buf + size \subseteq DOMAIN mem
  BY DEF HasDigits, HasRoom
<1>1. PICK l \in Nat : l = 4 * WordDigits
  BY WordAssumption
<1>2. /\ v \in [0 .. l -> Nat]
      /\ v[0] = value /\ \A i \in 1 .. l : v[i] = v[i - 1] \div radix
  BY <1>0, <1>1 DEF Quotients
<1>. DEFINE Is(f) == f = [i \in 0 .. l |-> IF i = 0 THEN value ELSE f[i - 1] \div radix]
            newval == CHOOSE f : Is(f)
            count == Min({i \in DOMAIN newval : newval[i] = 0})
            digits == [i \in 1 .. count |-> lookup(newval[i - 1] % radix)]
<1>3. itoa(value, mem, buf, radix)
        = IF value = 0
            THEN Store(mem, buf, Append(<<DIGIT_0>>, EndOfString))
            ELSE strrev(Store(mem, buf, Append(digits, EndOfString)), buf)
  BY <1>1 DEF itoa
<1>4. newval = v
  <2>1. Is(v)
    <3>1. \A i \in 0 .. l : v[i] = IF i = 0 THEN value ELSE v[i - 1] \div radix
      BY <1>2
    <3>. QED  BY <1>2, <3>1
  <2>2. Is(newval)
    <3>. HIDE DEF Is
    <3>. QED  BY <2>1, Zenon
  <2>. HIDE DEF newval
  <2>3. newval = [i \in 0 .. l |-> newval[i]] /\ v = [i \in 0 .. l |-> v[i]]
    BY <1>2, <2>2
  <2>4. ASSUME NEW k \in 0 .. l PROVE newval[k] = v[k]
    <3>1. newval[0] = v[0]
      BY <1>2, <2>2
    <3>2. \A i \in 1 .. k : newval[i - 1] = v[i - 1] => newval[i] = v[i]
      BY <1>2, <2>2
    <3>. HIDE DEF Is
    <3>. QED  BY <3>1, <3>2, Agree
  <2>. QED  BY <2>3, <2>4
<1>. HIDE DEF newval
<1>5. CASE value = 0
  <2>1. PICK text : text = <<DIGIT_0>>
    OBVIOUS
  <2>2. /\ text \in Texts /\ Len(text) = 1 /\ text[1] = DIGIT_0
    <3>1. DIGIT_0 \in Nat \ {EndOfString}
      BY DEF DIGIT_0, EndOfString
    <3>. QED  BY <2>1, <3>1 DEF Texts
  <2>3. Writes(text, 0, radix) /\ IsShortest(text)
    <3>1. DigitOf(text[1]) = 0
      BY <2>2 DEF DigitOf, DIGIT_0, UPPER_A
    <3>2. PICK f : f = [i \in 0 .. 1 |-> 0]
      OBVIOUS
    <3>3. Evaluates(f, text, radix, 1) /\ f[1] = 0
      <4>1. \A i \in 1 .. 1 : f[i] = 0 /\ f[i - 1] = 0 /\ DigitOf(text[i]) = 0 /\ radix * 0 + 0 = 0
        BY <3>1, <3>2
      <4>. QED  BY <3>2, <4>1 DEF Evaluates
    <3>4. \A i \in 1 .. Len(text) : DigitOf(text[i]) \in 0 .. radix - 1
      BY <2>2, <3>1
    <3>. QED  BY <2>2, <3>3, <3>4 DEF Writes, IsShortest
  <2>4. buf .. buf + Len(text) \subseteq DOMAIN mem
    BY <1>0, <2>2
  <2>5. itoa(value, mem, buf, radix) = Store(mem, buf, Append(text, EndOfString))
    BY <1>3, <1>5, <2>1
  <2>6. Len(text) \in 1 .. size
    BY <1>0, <2>2
  <2>7. PICK m : m = Store(mem, buf, Append(text, EndOfString))
    OBVIOUS
  <2>8. IsMemory(m) /\ DOMAIN m = DOMAIN mem /\ Holds(m, buf, text)
    BY <1>0, <2>2, <2>4, <2>7, StoreText
  <2>9. itoa(value, mem, buf, radix) = m /\ Writes(text, value, radix)
    BY <1>5, <2>3, <2>5, <2>7
  <2>. QED  BY <2>2, <2>3, <2>6, <2>8, <2>9 DEF ShowsIn, Shows
<1>6. CASE value # 0
  <2>1. count \in 1 .. size /\ v[count] = 0 /\ \A i \in 0 .. count - 1 : v[i] # 0
    <3>1. PICK T : T = {i \in 0 .. l : v[i] = 0}
      OBVIOUS
    <3>2. T \subseteq Nat /\ size \in T /\ 0 \notin T
      BY <1>0, <1>1, <1>2, <1>6, <3>1
    <3>3. count = Min(T)
      BY <1>2, <1>4, <3>1
    <3>4. Min(T) \in T /\ \A k \in T : Min(T) <= k
      BY <3>2, MinIs
    <3>5. PICK c \in Nat : c = Min(T) /\ c \in T /\ c <= size /\ \A k \in T : c <= k
      BY <3>2, <3>4
    <3>6. \A i \in 0 .. c - 1 : v[i] # 0
      BY <3>1, <3>5
    <3>. HIDE DEF count
    <3>7. count = c /\ c # 0 /\ v[c] = 0
      BY <3>1, <3>2, <3>3, <3>5
    <3>. QED  BY <3>5, <3>6, <3>7
  <2>2. PICK c \in 1 .. size : c = count
    BY <2>1
  <2>3. digits = [i \in 1 .. c |-> lookup(v[i - 1] % radix)]
    BY <1>4, <2>2
  <2>. HIDE DEF count, digits
  <2>4. PICK low : low = digits
    OBVIOUS
  <2>5. ASSUME NEW i \in 1 .. c PROVE low[i] = lookup(v[i - 1] % radix) /\ low[i] \in Nat \ {EndOfString}
    <3>1. v[i - 1] \in Nat
      <4>1. i - 1 \in 0 .. l
        BY <1>0, <1>1
      <4>. QED  BY <1>2, <4>1
    <3>2. v[i - 1] % radix \in 0 .. 15
      BY <3>1, DivisionBy
    <3>. QED  BY <2>3, <2>4, <3>2, LookupOf
  <2>6. low \in Texts /\ Len(low) = c
    BY <2>3, <2>4, <2>5 DEF Texts
  <2>7. PICK text : text = Reverse(low)
    OBVIOUS
  <2>8. text \in Texts /\ Len(text) = c /\ \A i \in 1 .. c : text[i] = low[c - i + 1]
    BY <2>6, <2>7, ReverseText
  <2>9. \A i \in 1 .. c : text[i] = lookup(v[c - i] % radix)
    <3>. SUFFICES ASSUME NEW i \in 1 .. c PROVE text[i] = lookup(v[c - i] % radix)
      OBVIOUS
    <3>1. c - i + 1 \in 1 .. c /\ (c - i + 1) - 1 = c - i
      OBVIOUS
    <3>. QED  BY <2>5, <2>8, <3>1
  <2>10. Writes(text, value, radix) /\ IsShortest(text)
    <3>1. Quotients(v, value, radix, l) /\ c \in 1 .. l
      BY <1>0, <1>1
    <3>2. DigitsOf(text, v, radix, c)
      BY <2>1, <2>2, <2>8, <2>9 DEF DigitsOf
    <3>. QED  BY <3>1, <3>2, DigitsWrite
  <2>11. PICK stored : stored = Store(mem, buf, Append(low, EndOfString))
    OBVIOUS
  <2>12. buf .. buf + Len(low) \subseteq DOMAIN mem
    BY <1>0, <2>6
  <2>13. IsMemory(stored) /\ DOMAIN stored = DOMAIN mem /\ Holds(stored, buf, low)
    BY <1>0, <2>6, <2>11, <2>12, StoreText
  <2>14. PICK m : m = strrev(stored, buf)
    OBVIOUS
  <2>15. IsMemory(m) /\ DOMAIN m = DOMAIN mem /\ Holds(m, buf, text)
    BY <2>6, <2>7, <2>13, <2>14, StrrevHolds
  <2>16. itoa(value, mem, buf, radix) = m
    BY <1>3, <1>6, <2>4, <2>11, <2>14
  <2>. QED  BY <2>8, <2>10, <2>15, <2>16 DEF ShowsIn, Shows
<1>. QED  BY <1>5, <1>6

\* A 32-bit number has at most four binary and so decimal digits for each of
\* its WordDigits hexadecimal ones.
LEMMA WordsFit ==
  ASSUME NEW value \in Nat, value < WordValues, NEW radix \in {10, 16}
  PROVE  \E v : /\ Quotients(v, value, radix, 4 * WordDigits)
                /\ v[4 * WordDigits] = 0 /\ (radix = 16 => v[WordDigits] = 0)
<1>1. PICK w \in Nat, l \in Nat : w = WordDigits /\ l = 4 * w
  BY WordAssumption
<1>2. PICK v : Quotients(v, value, radix, l)
  BY QuotientsExist
<1>3. PICK p : Powers(p, 2, l) /\ WordValues = p[l]
  BY <1>1, WordValuesIsPower
<1>4. v[l] = 0
  <2>1. PICK c \in {2, 16} : c = 2 /\ c <= radix
    OBVIOUS
  <2>2. Powers(p, c, l) /\ l <= l /\ value < p[l]
    BY <1>3, <2>1
  <2>. QED  BY <1>2, <2>1, <2>2, QuotientsVanish
<1>5. ASSUME radix = 16 PROVE v[w] = 0
  <2>1. PICK q : q = [i \in 0 .. w |-> p[4 * i]]
    OBVIOUS
  <2>2. p \in [0 .. l -> Nat] /\ p[0] = 1 /\ \A i \in 1 .. l : p[i] = 2 * p[i - 1]
    BY <1>3 DEF Powers
  <2>3. ASSUME NEW i \in 1 .. w PROVE q[i] = 16 * q[i - 1]
    <3>1. PICK a \in 0 .. l : a = 4 * (i - 1)
      BY <1>1
    <3>2. a + 4 \in 1 .. l /\ 4 * i = a + 4
      BY <1>1, <3>1
    <3>3. ASSUME NEW b \in 1 .. l, NEW x, x = b - 1 PROVE p[b] = 2 * p[x]
      BY <2>2, <3>3
    <3>4. p[a] \in Nat
      BY <2>2
    <3>5. p[a + 4] = 16 * p[a]
      <4>1. PICK b \in 1 .. l, c \in 1 .. l, d \in 1 .. l, e \in 1 .. l :
              /\ b = a + 1 /\ c = a + 2 /\ d = a + 3 /\ e = a + 4
              /\ a = b - 1 /\ b = c - 1 /\ c = d - 1 /\ d = e - 1
        BY <3>2
      <4>2. p[b] = 2 * p[a] /\ p[c] = 2 * p[b] /\ p[d] = 2 * p[c] /\ p[e] = 2 * p[d]
        BY <3>3, <4>1
      <4>3. p[e] = 16 * p[a]
        BY <3>4, <4>2
      <4>. QED  BY <4>1, <4>3
    <3>6. i \in 0 .. w /\ i - 1 \in 0 .. w
      OBVIOUS
    <3>. QED  BY <2>1, <3>1, <3>2, <3>5, <3>6
  <2>4. q[0] = 1 /\ q[w] = p[l] /\ q \in [0 .. w -> Nat]
    <3>1. \A i \in 0 .. w : 4 * i \in 0 .. l
      BY <1>1
    <3>. QED  BY <1>1, <2>1, <2>2, <3>1
  <2>5. PICK c \in {2, 16} : c = 16 /\ c <= radix
    BY <1>5
  <2>6. Powers(q, c, w) /\ w <= l /\ value < q[w]
    BY <1>1, <1>3, <2>3, <2>4, <2>5 DEF Powers
  <2>. QED  BY <1>2, <2>5, <2>6, QuotientsVanish
<1>. QED  BY <1>1, <1>2, <1>4, <1>5

IsBuffer(conv_buf) == IsMemory(conv_buf) /\ DOMAIN conv_buf = 0 .. 5 * WordDigits

LEMMA NumberAt ==
  ASSUME NEW value \in Nat, value < WordValues, NEW radix \in {10, 16}, NEW conv_buf, IsBuffer(conv_buf),
         NEW s \in {0, 1}
  PROVE  Shows(StringAt(itoa(value, conv_buf, s, radix), s), value, radix)
<1>1. PICK l \in Nat, w \in Nat :
        l = 4 * WordDigits /\ w = 5 * WordDigits /\ s + l <= w /\ l \in 1 .. 4 * WordDigits
  BY WordAssumption
<1>2. PICK v : HasDigits(v, value, radix, l)
  <2>1. \E v : Quotients(v, value, radix, 4 * WordDigits) /\ v[l] = 0
    BY <1>1, WordsFit
  <2>. QED  BY <1>1, <2>1 DEF HasDigits
<1>3. s \in Nat /\ IsMemory(conv_buf) /\ DOMAIN conv_buf = 0 .. w
  BY <1>1 DEF IsBuffer
<1>4. HasRoom(conv_buf, s, l)
  <2>1. s .. s + l \subseteq 0 .. w
    BY <1>1, <1>3
  <2>. QED  BY <1>3, <2>1 DEF HasRoom
<1>5. PICK text : ShowsIn(itoa(value, conv_buf, s, radix), conv_buf, s, text, value, radix, l)
  BY <1>2, <1>3, <1>4, ItoaWrites
<1>6. StringAt(itoa(value, conv_buf, s, radix), s) = text
  BY <1>3, <1>5, StrlenIs DEF ShowsIn
<1>. QED  BY <1>5, <1>6 DEF ShowsIn

LEMMA PaddedNumber ==
  ASSUME NEW value \in Nat, value < WordValues, NEW conv_buf, IsBuffer(conv_buf)
  PROVE  Writes(Padded(value, conv_buf), value, 16) /\ Len(Padded(value, conv_buf)) = WordDigits
<1>1. PICK w \in Nat : w = WordDigits /\ w \in 1 .. 4 * WordDigits /\ 5 * w = 5 * WordDigits
  BY WordAssumption
<1>2. PICK radix \in {10, 16} : radix = 16
  OBVIOUS
<1>3. PICK v : HasDigits(v, value, radix, w)
  <2>1. \E v : Quotients(v, value, radix, 4 * WordDigits) /\ v[w] = 0
    BY <1>1, <1>2, WordsFit
  <2>. QED  BY <1>1, <2>1 DEF HasDigits
<1>4. PICK number : number = itoa(value, conv_buf, w, radix)
  OBVIOUS
<1>5. PICK text \in Texts :
        /\ Writes(text, value, radix) /\ Len(text) \in 1 .. w
        /\ IsMemory(number) /\ DOMAIN number = 0 .. 5 * w /\ Holds(number, w, text)
  <2>1. IsMemory(conv_buf) /\ DOMAIN conv_buf = 0 .. 5 * w /\ w .. w + w \subseteq 0 .. 5 * w
    BY <1>1 DEF IsBuffer
  <2>2. HasRoom(conv_buf, w, w)
    BY <2>1 DEF HasRoom
  <2>3. \E text : ShowsIn(number, conv_buf, w, text, value, radix, w)
    BY <1>3, <1>4, <2>2, ItoaWrites
  <2>. QED  BY <2>1, <2>3 DEF ShowsIn, Shows
<1>6. PICK k \in 1 .. w, z \in Nat : k = Len(text) /\ k + z = w
  BY <1>5
<1>7. strlen(number, w) = k
  BY <1>5, <1>6, StrlenIs
<1>8. PICK zeros : zeros = [i \in 1 .. w - k |-> DIGIT_0]
  OBVIOUS
<1>9. PICK filled : filled = Store(number, k, zeros)
  OBVIOUS
<1>10. Padded(value, conv_buf) = StringAt(filled, k)
  BY <1>1, <1>2, <1>4, <1>7, <1>8, <1>9 DEF Padded
<1>11. filled = [a \in 0 .. 5 * w |-> IF a \in k .. w - 1 THEN DIGIT_0 ELSE number[a]]
  <2>1. Len(zeros) = z /\ w - k = z /\ k + z - 1 = w - 1
    BY <1>6, <1>8
  <2>2. filled = [a \in 0 .. 5 * w |-> IF a \in k .. w - 1 THEN zeros[a - k + 1] ELSE number[a]]
    BY <1>5, <1>9, <2>1 DEF Store
  <2>3. \A a \in k .. w - 1 : zeros[a - k + 1] = DIGIT_0
    <3>1. \A a \in k .. w - 1 : a - k + 1 \in 1 .. w - k
      OBVIOUS
    <3>. QED  BY <1>8, <3>1
  <2>. QED  BY <2>2, <2>3
<1>12. PICK long : long = [i \in 1 .. w |-> IF i <= z THEN DIGIT_0 ELSE text[i - z]]
  OBVIOUS
<1>13. long \in Texts /\ Len(long) = w
  <2>1. ASSUME NEW i \in 1 .. w PROVE (IF i <= z THEN DIGIT_0 ELSE text[i - z]) \in Nat \ {EndOfString}
    <3>1. DIGIT_0 \in Nat \ {EndOfString}
      BY DEF DIGIT_0, EndOfString
    <3>2. CASE i > z
      <4>1. i - z \in 1 .. Len(text)
        BY <1>6, <3>2
      <4>. QED  BY <3>2, <4>1, TextFacts
    <3>. QED  BY <3>1, <3>2
  <2>. QED  BY <1>12, <2>1 DEF Texts
<1>14. Holds(filled, k, long)
  <2>1. \A i \in 1 .. k : number[w + i - 1] = text[i]
    BY <1>5, <1>6 DEF Holds
  <2>2. filled[k + w] = EndOfString
    <3>1. number[w + k] = EndOfString /\ k + w = w + k
      BY <1>5, <1>6 DEF Holds
    <3>2. k + w \in 0 .. 5 * w /\ k + w \notin k .. w - 1
      OBVIOUS
    <3>. QED  BY <1>11, <3>1, <3>2
  <2>3. ASSUME NEW i \in 1 .. w PROVE filled[k + i - 1] = long[i]
    <3>1. k + i - 1 \in 0 .. 5 * w
      OBVIOUS
    <3>2. CASE i <= z
      <4>1. k + i - 1 \in k .. w - 1
        BY <1>6, <3>2
      <4>. QED  BY <1>11, <1>12, <3>1, <3>2, <4>1
    <3>3. CASE i > z
      <4>1. PICK j \in 1 .. k : j = i - z
        BY <1>6, <3>3
      <4>2. k + i - 1 \notin k .. w - 1 /\ k + i - 1 = w + j - 1
        BY <1>6, <3>3, <4>1
      <4>. QED  BY <1>11, <1>12, <2>1, <3>1, <3>3, <4>1, <4>2
    <3>. QED  BY <3>2, <3>3
  <2>4. k .. k + w \subseteq 0 .. 5 * w /\ DOMAIN filled = 0 .. 5 * w
    BY <1>11
  <2>. QED  BY <1>13, <2>2, <2>3, <2>4 DEF Holds
<1>15. IsMemory(filled)
  BY <1>11 DEF IsMemory
<1>16. Padded(value, conv_buf) = long
  BY <1>10, <1>13, <1>14, <1>15, StrlenIs
<1>17. Writes(long, value, radix)
  <2>1. Len(long) = z + Len(text)
    BY <1>6, <1>13
  <2>2. \A i \in 1 .. z : long[i] = DIGIT_0
    BY <1>6, <1>12
  <2>3. \A i \in 1 .. Len(text) : long[z + i] = text[i]
    <3>1. \A i \in 1 .. Len(text) : z + i \in 1 .. w /\ ~ (z + i <= z) /\ z + i - z = i
      BY <1>6
    <3>. QED  BY <1>12, <3>1
  <2>. QED  BY <1>5, <1>13, <2>1, <2>2, <2>3, ZerosInFront
<1>. QED  BY <1>1, <1>2, <1>13, <1>16, <1>17

LEMMA WordValuesEven ==
  WordValues \in Nat /\ WordValues \div 2 \in Nat /\ WordValues = 2 * (WordValues \div 2)
<1>1. PICK l \in Nat : l = 4 * WordDigits /\ l \in 1 .. l
  BY WordAssumption
<1>2. PICK p : Powers(p, 2, l) /\ WordValues = p[l]
  BY <1>1, WordValuesIsPower
<1>3. PICK half \in Nat : WordValues = 2 * half
  <2>1. p[l] = 2 * p[l - 1] /\ p[l - 1] \in Nat
    <3>1. l - 1 \in 0 .. l
      BY <1>1
    <3>. QED  BY <1>1, <1>2, <3>1 DEF Powers
  <2>. QED  BY <1>2, <2>1
<1>. QED  BY <1>3

LEMMA SignedNumber ==
  ASSUME NEW value \in Nat, value < WordValues, NEW conv_buf, IsBuffer(conv_buf)
  PROVE  LET text == Signed(value, conv_buf)
         IN IF 2 * value < WordValues
              THEN Shows(text, value, 10)
              ELSE /\ text \in Texts /\ text # <<>> /\ text[1] = MINUS
                   /\ Shows(Tail(text), WordValues - value, 10)
<1>1. CASE 2 * value < WordValues
  <2>1. value < WordValues \div 2
    BY <1>1, WordValuesEven
  <2>2. Signed(value, conv_buf) = StringAt(itoa(value, conv_buf, 0, 10), 0)
    BY <2>1 DEF Signed
  <2>3. Shows(StringAt(itoa(value, conv_buf, 0, 10), 0), value, 10)
    BY NumberAt
  <2>. QED  BY <1>1, <2>2, <2>3
<1>2. CASE ~ (2 * value < WordValues)
  <2>1. ~ (value < WordValues \div 2) /\ value # 0
    BY <1>2, WordValuesEven
  <2>2. PICK text : text = StringAt(itoa(WordValues - value, conv_buf, 1, 10), 1)
    OBVIOUS
  <2>3. Signed(value, conv_buf) = <<MINUS>> \o text
    BY <2>1, <2>2 DEF Signed
  <2>4. PICK opposite \in Nat : opposite = WordValues - value /\ opposite < WordValues
    BY <1>2, <2>1, WordValuesEven
  <2>5. Shows(text, opposite, 10)
    BY <2>2, <2>4, NumberAt
  <2>6. text \in Texts
    BY <2>5 DEF Shows, Writes
  <2>7. PICK all : all = <<MINUS>> \o text
    OBVIOUS
  <2>8. all \in Texts /\ all # <<>> /\ all[1] = MINUS /\ Tail(all) = text
    <3>1. PICK minus \in Texts : minus = <<MINUS>> /\ Len(minus) = 1 /\ minus[1] = MINUS
      <4>1. MINUS \in Nat \ {EndOfString}
        BY DEF MINUS, EndOfString
      <4>2. <<MINUS>> \in Texts
        BY <4>1 DEF Texts
      <4>3. Len(<<MINUS>>) = 1 /\ <<MINUS>>[1] = MINUS
        OBVIOUS
      <4>. QED  BY <4>2, <4>3, Zenon
    <3>2. all = minus \o text
      BY <2>7, <3>1
    <3>3. all \in Texts /\ Len(all) = 1 + Len(text) /\ all[1] = MINUS
          /\ \A i \in 1 .. Len(text) : all[1 + i] = text[i]
      BY <2>6, <3>1, <3>2, ConcatProperties DEF Texts
    <3>4. Len(Tail(all)) = Len(text) /\ \A i \in 1 .. Len(text) : Tail(all)[i] = text[i]
      BY <2>6, <3>3 DEF Texts
    <3>5. Tail(all) \in Texts
      BY <2>6, <3>3 DEF Texts
    <3>6. Tail(all) = text
      BY <2>6, <3>4, <3>5, SeqEqual DEF Texts
    <3>7. all # <<>>
      BY <2>6, <3>3, TextFacts
    <3>. QED  BY <3>3, <3>6, <3>7
  <2>. QED  BY <1>2, <2>3, <2>4, <2>5, <2>7, <2>8
<1>. QED  BY <1>1, <1>2

-----------------------------------------------------------------------------
(***************************************************************************)
(* What FlattenSeq joins: part[i] is the first i sequences after one       *)
(* another.                                                                *)
(***************************************************************************)
AreSeqs(seqs, S, n) == Len(seqs) = n /\ \A i \in 1 .. n : seqs[i] \in Seq(S)

Parts(part, seqs, S, n) ==
  /\ part \in [0 .. n -> Seq(S)] /\ part[0] = <<>>
  /\ \A i \in 1 .. n : part[i] = part[i - 1] \o seqs[i]

LEMMA PartsExist ==
  ASSUME NEW S, NEW n \in Nat, NEW seqs, AreSeqs(seqs, S, n)
  PROVE  \E part : Parts(part, seqs, S, n)
<1>. DEFINE step == [x \in Seq(S) \X (1 .. n) |-> x[1] \o seqs[x[2]]]
<1>1. \A s \in Seq(S), i \in 1 .. n : step[<<s, i>>] = s \o seqs[i]
  OBVIOUS
<1>2. step \in [Seq(S) \X (1 .. n) -> Seq(S)]
  <2>1. ASSUME NEW s \in Seq(S), NEW i \in 1 .. n PROVE s \o seqs[i] \in Seq(S)
    <3>1. seqs[i] \in Seq(S)
      BY DEF AreSeqs
    <3>. QED  BY <3>1, ConcatProperties
  <2>2. \A x \in Seq(S) \X (1 .. n) : x[1] \in Seq(S) /\ x[2] \in 1 .. n
    OBVIOUS
  <2>. QED  BY <2>1, <2>2
<1>. HIDE DEF step
<1>3. Steps(step, <<>>, Seq(S), n)
  BY <1>2 DEF Steps
<1>4. PICK f : Follows(f, step, <<>>, Seq(S), n)
  BY <1>3, StepByStep
<1>5. /\ f \in [0 .. n -> Seq(S)] /\ f[0] = <<>>
      /\ \A i \in 1 .. n : f[i] = step[<<f[i - 1], i>>]
  BY <1>4 DEF Follows
<1>6. ASSUME NEW i \in 1 .. n PROVE f[i] = f[i - 1] \o seqs[i]
  <2>1. f[i - 1] \in Seq(S)
    BY <1>5
  <2>. QED  BY <1>1, <1>5, <2>1
<1>. QED  BY <1>5, <1>6 DEF Parts

LEMMA FlattenIs ==
  ASSUME NEW S, NEW n \in Nat, NEW seqs, AreSeqs(seqs, S, n), NEW part, Parts(part, seqs, S, n),
         seqs = [i \in 1 .. n |-> seqs[i]]
  PROVE  FlattenSeq(seqs) = part[n]
<1>1. /\ Len(seqs) = n /\ \A i \in 1 .. n : seqs[i] \in Seq(S)
      /\ part[0] = <<>> /\ \A i \in 1 .. n : part[i] = part[i - 1] \o seqs[i]
  BY DEF AreSeqs, Parts
<1>2. CASE n = 0
  <2>1. seqs = <<>>
    <3>. HIDE DEF AreSeqs
    <3>. QED  BY <1>2
  <2>2. FlattenSeq(seqs) = seqs
    BY <1>1, <1>2 DEF FlattenSeq
  <2>. QED  BY <1>1, <1>2, <2>1, <2>2
<1>3. CASE n # 0
  <2>. DEFINE Is(f) == f = [i \in 1 .. n |-> IF i = 1 THEN seqs[i] ELSE f[i - 1] \o seqs[i]]
              flatten == CHOOSE f : Is(f)
              h == [i \in 1 .. n |-> part[i]]
  <2>1. FlattenSeq(seqs) = flatten[n]
    BY <1>1, <1>3 DEF FlattenSeq
  <2>2. part[1] = seqs[1]
    <3>1. 1 \in 1 .. n /\ seqs[1] \in Seq(S)
      BY <1>1, <1>3
    <3>2. part[1] = part[1 - 1] \o seqs[1] /\ 1 - 1 = 0
      BY <1>1, <3>1
    <3>3. <<>> \o seqs[1] = seqs[1]
      BY <3>1, ConcatEmptySeq
    <3>. QED  BY <1>1, <3>2, <3>3
  <2>3. Is(h)
    <3>1. ASSUME NEW i \in 1 .. n PROVE h[i] = IF i = 1 THEN seqs[i] ELSE h[i - 1] \o seqs[i]
      <4>1. CASE i = 1
        BY <2>2, <4>1
      <4>2. CASE i # 1
        <5>1. i - 1 \in 1 .. n /\ h[i - 1] = part[i - 1] /\ h[i] = part[i]
          BY <4>2
        <5>. QED  BY <1>1, <4>2, <5>1
      <4>. QED  BY <4>1, <4>2
    <3>. QED  BY <3>1
  <2>4. Is(flatten)
    <3>. HIDE DEF Is, h
    <3>. QED  BY <2>3, Zenon
  <2>. HIDE DEF flatten
  <2>5. \A i \in 1 .. n : flatten[i] = IF i = 1 THEN seqs[i] ELSE flatten[i - 1] \o seqs[i]
    BY <2>4
  <2>. HIDE DEF Is
  <2>6. PICK k, f, g :
          /\ k \in Nat /\ k + 1 = n
          /\ f = [i \in 0 .. k |-> flatten[i + 1]] /\ g = [i \in 0 .. k |-> part[i + 1]]
    <3>1. n - 1 \in Nat /\ n - 1 + 1 = n
      BY <1>3
    <3>. QED  BY <3>1
  <2>7. f[0] = g[0]
    BY <1>3, <2>2, <2>5, <2>6
  <2>8. ASSUME NEW i \in 1 .. k, f[i - 1] = g[i - 1] PROVE f[i] = g[i]
    <3>1. PICK j \in 1 .. n : j = i + 1 /\ j # 1 /\ j - 1 = i
      BY <2>6
    <3>2. flatten[j] = flatten[i] \o seqs[j]
      BY <2>5, <3>1
    <3>3. part[j] = part[i] \o seqs[j]
      BY <1>1, <3>1
    <3>4. f[i] = flatten[j] /\ g[i] = part[j] /\ f[i - 1] = flatten[i] /\ g[i - 1] = part[i]
      <4>1. i \in 0 .. k /\ i - 1 \in 0 .. k /\ i - 1 + 1 = i
        BY <2>6
      <4>. QED  BY <2>6, <3>1, <4>1
    <3>. QED  BY <2>8, <3>2, <3>3, <3>4
  <2>9. f[k] = g[k]
    <3>1. k \in Nat
      BY <2>6
    <3>. QED  BY <2>7, <2>8, <3>1, Agree
  <2>. QED  BY <2>1, <2>6, <2>9
<1>. QED  BY <1>2, <1>3

Behind(whole, s, t) ==
  /\ Len(whole) = Len(s) + Len(t)
  /\ \A j \in 1 .. Len(s) : whole[j] = s[j]
  /\ \A j \in 1 .. Len(t) : whole[Len(s) + j] = t[j]

LEMMA JoinIs ==
  ASSUME NEW S, NEW s \in Seq(S), NEW t \in Seq(S)
  PROVE  Behind(s \o t, s, t)
<1>1. PICK m \in Nat, n \in Nat : m = Len(s) /\ n = Len(t)
  OBVIOUS
<1>2. PICK whole : whole = s \o t
  OBVIOUS
<1>3. /\ Len(whole) = m + n
      /\ \A j \in 1 .. m + n : whole[j] = IF j <= m THEN s[j] ELSE t[j - m]
  BY <1>1, <1>2, ConcatProperties
<1>4. ASSUME NEW j \in 1 .. n PROVE whole[m + j] = t[j]
  <2>1. m + j \in 1 .. m + n /\ ~ (m + j <= m) /\ m + j - m = j
    OBVIOUS
  <2>. QED  BY <1>3, <2>1
<1>. QED  BY <1>1, <1>2, <1>3, <1>4 DEF Behind

\* s begins as t does.
BeginsAs(s, t) == Len(t) <= Len(s) /\ \A j \in 1 .. Len(t) : s[j] = t[j]

LEMMA PartsBegin ==
  ASSUME NEW S, NEW n \in Nat, NEW seqs, AreSeqs(seqs, S, n), NEW part, Parts(part, seqs, S, n),
         NEW i \in 0 .. n
  PROVE  BeginsAs(part[n], part[i])
<1>1. /\ \A k \in 0 .. n : part[k] \in Seq(S)
      /\ \A k \in 1 .. n : seqs[k] \in Seq(S) /\ part[k] = part[k - 1] \o seqs[k]
  BY DEF AreSeqs, Parts
<1>2. PICK l \in Nat : l = n - i
  OBVIOUS
<1>3. PICK f, g : f = [k \in 0 .. l |-> IF BeginsAs(part[i + k], part[i]) THEN 0 ELSE 1]
                  /\ g = [k \in 0 .. l |-> 0]
  OBVIOUS
<1>4. f[0] = g[0]
  <2>1. BeginsAs(part[i + 0], part[i])
    <3>1. i + 0 = i /\ part[i] \in Seq(S)
      BY <1>1
    <3>2. Len(part[i]) <= Len(part[i])
      BY <3>1
    <3>. QED  BY <3>1, <3>2 DEF BeginsAs
  <2>. QED  BY <1>3, <2>1
<1>5. ASSUME NEW k \in 1 .. l, f[k - 1] = g[k - 1] PROVE f[k] = g[k]
  <2>1. PICK a \in 0 .. n, b \in 1 .. n : a = i + (k - 1) /\ b = i + k /\ b - 1 = a
    BY <1>2
  <2>2. BeginsAs(part[a], part[i])
    BY <1>3, <1>5, <2>1
  <2>3. part[b] = part[a] \o seqs[b] /\ part[a] \in Seq(S) /\ seqs[b] \in Seq(S) /\ part[i] \in Seq(S)
    BY <1>1, <2>1
  <2>4. /\ Len(part[b]) = Len(part[a]) + Len(seqs[b])
        /\ \A j \in 1 .. Len(part[a]) : part[b][j] = part[a][j]
    <3>1. Behind(part[b], part[a], seqs[b])
      BY <2>3, JoinIs
    <3>. QED  BY <3>1 DEF Behind
  <2>5. Len(part[a]) \in Nat /\ Len(seqs[b]) \in Nat /\ Len(part[i]) \in Nat
    BY <2>3
  <2>6. BeginsAs(part[b], part[i])
    <3>1. Len(part[i]) <= Len(part[a]) /\ \A j \in 1 .. Len(part[i]) : part[a][j] = part[i][j]
      BY <2>2 DEF BeginsAs
    <3>2. PICK x \in Nat, y \in Nat, z \in Nat : x = Len(part[i]) /\ y = Len(part[a]) /\ z = Len(seqs[b])
      BY <2>5
    <3>3. x <= Len(part[b]) /\ x <= y
      <4>1. PICK all : all = Len(part[b]) /\ all = y + z
        BY <2>4, <3>2
      <4>2. x <= y
        BY <3>1, <3>2
      <4>3. x <= all
        BY <4>1, <4>2
      <4>. QED  BY <4>1, <4>2, <4>3
    <3>4. ASSUME NEW j \in 1 .. x PROVE part[b][j] = part[i][j]
      <4>1. j \in 1 .. y
        BY <3>3
      <4>. QED  BY <2>4, <3>1, <3>2, <4>1
    <3>. QED  BY <3>2, <3>3, <3>4 DEF BeginsAs
  <2>. QED  BY <1>3, <2>1, <2>6
<1>6. f[l] = g[l]
  BY <1>4, <1>5, Agree
<1>7. l \in 0 .. l /\ i + l = n
  BY <1>2
<1>. QED  BY <1>3, <1>6, <1>7

\* The i-th sequence lies in the whole from index p + 1 to q.
LiesIn(whole, s, p, q) ==
  /\ p \in Nat /\ q = p + Len(s) /\ q <= Len(whole)
  /\ \A j \in 1 .. Len(s) : whole[p + j] = s[j]

LEMMA PartLies ==
  ASSUME NEW S, NEW n \in Nat, NEW seqs, AreSeqs(seqs, S, n), NEW part, Parts(part, seqs, S, n),
         NEW i \in 1 .. n
  PROVE  LiesIn(part[n], seqs[i], Len(part[i - 1]), Len(part[i]))
<1>1. /\ part[i] \in Seq(S) /\ part[i - 1] \in Seq(S) /\ seqs[i] \in Seq(S)
      /\ part[i] = part[i - 1] \o seqs[i]
  <2>1. i \in 0 .. n /\ i - 1 \in 0 .. n
    OBVIOUS
  <2>. QED  BY <2>1 DEF AreSeqs, Parts
<1>2. PICK p \in Nat, m \in Nat : p = Len(part[i - 1]) /\ m = Len(seqs[i])
  BY <1>1
<1>3. Len(part[i]) = p + m /\ \A j \in 1 .. m : part[i][p + j] = seqs[i][j]
  <2>1. Behind(part[i], part[i - 1], seqs[i])
    BY <1>1, JoinIs
  <2>. QED  BY <1>2, <2>1 DEF Behind
<1>4. BeginsAs(part[n], part[i])
  <2>1. i \in 0 .. n
    OBVIOUS
  <2>. QED  BY <2>1, PartsBegin
<1>5. ASSUME NEW j \in 1 .. m PROVE part[n][p + j] = seqs[i][j]
  <2>1. p + j \in 1 .. p + m
    OBVIOUS
  <2>2. part[i][p + j] = seqs[i][j]
    BY <1>3
  <2>3. part[n][p + j] = part[i][p + j]
    BY <1>3, <1>4, <2>1 DEF BeginsAs
  <2>. QED  BY <2>2, <2>3
<1>. QED  BY <1>2, <1>3, <1>4, <1>5 DEF LiesIn, BeginsAs

-----------------------------------------------------------------------------
(***************************************************************************)
(* printf: after the format of each token, what is printed is what was     *)
(* printed before it and the piece of the token.                           *)
(***************************************************************************)
Yes == TRUE
No == FALSE

State(mode, alternate, out, args) ==
  [mode |-> mode, alternate |-> alternate, out |-> out, args |-> args]

LEMMA TwoChanges ==
  ASSUME NEW s, NEW m, NEW a
  PROVE  [s EXCEPT !.mode = m, !.alternate = a] = [[s EXCEPT !.mode = m] EXCEPT !.alternate = a]
OBVIOUS

LEMMA ThreeChanges ==
  ASSUME NEW s, NEW m, NEW o, NEW r
  PROVE  [s EXCEPT !.mode = m, !.out = o, !.args = r]
           = [[[s EXCEPT !.mode = m] EXCEPT !.out = o] EXCEPT !.args = r]
OBVIOUS

LEMMA StepPercent ==
  ASSUME NEW alt, NEW out, NEW args, NEW conv_buf
  PROVE  PrintfStep(State("text", alt, out, args), PERCENT, conv_buf)
           = State("conversion", FALSE, out, args)
<1>1. PICK s, no : s = State("text", alt, out, args) /\ no = FALSE
  OBVIOUS
<1>2. PrintfStep(s, PERCENT, conv_buf) = [s EXCEPT !.mode = "conversion", !.alternate = no]
  BY <1>1 DEF PrintfStep, State
<1>3. PICK t : t = [s EXCEPT !.mode = "conversion"]
  OBVIOUS
<1>4. t = State("conversion", alt, out, args)
  BY <1>1, <1>3 DEF State
<1>5. [t EXCEPT !.alternate = no] = State("conversion", no, out, args)
  BY <1>4 DEF State
<1>6. PrintfStep(s, PERCENT, conv_buf) = [t EXCEPT !.alternate = no]
  BY <1>2, <1>3, TwoChanges
<1>. QED  BY <1>1, <1>5, <1>6

LEMMA StepText ==
  ASSUME NEW alt, NEW out, NEW args, NEW char, char # PERCENT, NEW conv_buf
  PROVE  PrintfStep(State("text", alt, out, args), char, conv_buf)
           = State("text", alt, Append(out, char), args)
<1>1. PICK s : s = State("text", alt, out, args)
  OBVIOUS
<1>2. PrintfStep(s, char, conv_buf) = [s EXCEPT !.out = Append(out, char)]
  BY <1>1 DEF PrintfStep, State
<1>. QED  BY <1>1, <1>2 DEF State

LEMMA StepHash ==
  ASSUME NEW alt, NEW out, NEW args, NEW conv_buf
  PROVE  PrintfStep(State("conversion", alt, out, args), HASH, conv_buf)
           = State("conversion", TRUE, out, args)
<1>1. PICK s, yes : s = State("conversion", alt, out, args) /\ yes = TRUE
  OBVIOUS
<1>2. PrintfStep(s, HASH, conv_buf) = [s EXCEPT !.alternate = yes]
  BY <1>1 DEF PrintfStep, State
<1>3. [s EXCEPT !.alternate = yes] = State("conversion", yes, out, args)
  <2>1. [State("conversion", alt, out, args) EXCEPT !.alternate = yes] = State("conversion", yes, out, args)
    BY DEF State
  <2>. QED  BY <1>1, <2>1, Zenon
<1>. QED  BY <1>1, <1>2, <1>3

LEMMA StepSpecifier ==
  ASSUME NEW alt, NEW out, NEW args, NEW char, char # HASH, NEW conv_buf
  PROVE  PrintfStep(State("conversion", alt, out, args), char, conv_buf)
           = State("text", alt, out \o Converted(char, alt, Head(args \o <<0>>), conv_buf),
                   IF char \in TakesArgument THEN Tail(args) ELSE args)
<1>1. PICK s : s = State("conversion", alt, out, args)
  OBVIOUS
<1>2. s.mode = "conversion" /\ s.alternate = alt /\ s.out = out /\ s.args = args
  BY <1>1 DEF State
<1>3. PICK o, r : /\ o = out \o Converted(char, alt, Head(args \o <<0>>), conv_buf)
                  /\ r = IF char \in TakesArgument THEN Tail(args) ELSE args
  OBVIOUS
<1>4. PrintfStep(s, char, conv_buf)
        = [s EXCEPT
             !.mode = "text",
             !.out = @ \o Converted(char, s.alternate, Head(s.args \o <<0>>), conv_buf),
             !.args = IF char \in TakesArgument THEN Tail(@) ELSE @]
  BY <1>2 DEF PrintfStep
<1>5. PrintfStep(s, char, conv_buf) = [s EXCEPT !.mode = "text", !.out = o, !.args = r]
  BY <1>2, <1>3, <1>4
<1>6. PICK t, u : t = [s EXCEPT !.mode = "text"] /\ u = [t EXCEPT !.out = o]
  OBVIOUS
<1>7. t = State("text", alt, out, args)
  BY <1>1, <1>6 DEF State
<1>8. u = State("text", alt, o, args)
  <2>1. [State("text", alt, out, args) EXCEPT !.out = o] = State("text", alt, o, args)
    BY DEF State
  <2>. QED  BY <1>6, <1>7, <2>1, Zenon
<1>9. [u EXCEPT !.args = r] = State("text", alt, o, r)
  BY <1>8 DEF State
<1>10. PrintfStep(s, char, conv_buf) = [u EXCEPT !.args = r]
  BY <1>5, <1>6, ThreeChanges
<1>. QED  BY <1>1, <1>3, <1>9, <1>10

\* The states of printf up to one that follows from the first by n characters.
Runs(st, format, conv_buf, n) ==
  \A i \in 1 .. n : st[i] = PrintfStep(st[i - 1], format[i], conv_buf)

LEMMA PrintfIs ==
  ASSUME NEW format, NEW args, NEW conv_buf, NEW n \in Nat, Len(format) = n
  PROVE  \E st : /\ st[0] = State("text", No, <<>>, args) /\ Runs(st, format, conv_buf, n)
                 /\ printf(format, args, conv_buf) = st[n].out
<1>. DEFINE start == State("text", No, <<>>, args)
            Step(x, i) == PrintfStep(x, format[i], conv_buf)
            Upto(f, k) == f[0] = start /\ \A i \in 1 .. k : f[i] = Step(f[i - 1], i)
            D == {k \in 0 .. n : ~ \E f : Upto(f, k)}
            Is(f) == f = [i \in 0 .. n |-> IF i = 0 THEN start ELSE Step(f[i - 1], i)]
            state == CHOOSE f : Is(f)
<1>1. printf(format, args, conv_buf) = state[n].out
  BY DEF printf, State, No
<1>. HIDE DEF start, Step
<1>2. ASSUME D # {} PROVE FALSE
  <2>1. D \subseteq Nat
    OBVIOUS
  <2>2. PICK m \in D : \A k \in D : m <= k
    <3>. HIDE DEF D
    <3>. QED  BY <1>2, <2>1, LeastOf
  <2>3. m # 0
    <3>1. Upto([i \in 0 .. 0 |-> start], 0)
      OBVIOUS
    <3>. QED  BY <3>1
  <2>4. m \in 1 .. n /\ m - 1 \in 0 .. n /\ m - 1 \notin D
    <3>1. m \in 0 .. n
      OBVIOUS
    <3>. HIDE DEF D
    <3>. QED  BY <2>2, <2>3, <3>1
  <2>5. PICK f : Upto(f, m - 1)
    BY <2>4
  <2>. DEFINE h == [i \in 0 .. m |-> IF i = m THEN Step(f[m - 1], m) ELSE f[i]]
  <2>6. h[0] = start
    BY <2>4, <2>5
  <2>7. ASSUME NEW i \in 1 .. m PROVE h[i] = Step(h[i - 1], i)
    <3>1. i - 1 \in 0 .. m /\ i - 1 # m /\ h[i - 1] = f[i - 1]
      BY <2>4
    <3>2. CASE i = m
      BY <3>1, <3>2
    <3>3. CASE i # m
      <4>1. i \in 1 .. m - 1 /\ h[i] = f[i]
        BY <2>4, <3>3
      <4>. QED  BY <2>5, <3>1, <4>1
    <3>. QED  BY <3>2, <3>3
  <2>8. m \notin D
    <3>. HIDE DEF h
    <3>. QED  BY <2>6, <2>7
  <2>. QED  BY <2>8
<1>3. PICK f : Upto(f, n)
  <2>1. n \in 0 .. n
    OBVIOUS
  <2>2. n \notin D
    <3>. HIDE DEF D
    <3>. QED  BY <1>2
  <2>. QED  BY <2>1, <2>2
<1>. DEFINE h == [i \in 0 .. n |-> f[i]]
<1>4. Is(h)
  <2>1. \A i \in 0 .. n : h[i] = IF i = 0 THEN start ELSE Step(h[i - 1], i)
    BY <1>3
  <2>. QED  BY <2>1
<1>5. Is(state)
  <2>. HIDE DEF Is, h
  <2>. QED  BY <1>4, Zenon
<1>. HIDE DEF state
<1>6. /\ state[0] = start
      /\ \A i \in 1 .. n : state[i] = Step(state[i - 1], i)
  BY <1>5
<1>7. Runs(state, format, conv_buf, n)
  BY <1>6 DEF Runs, Step
<1>. QED  BY <1>1, <1>6, <1>7 DEF start

SpecOf(token) ==
  CASE token.form \in {"hex", "padded"} -> CHAR_X
    [] token.form = "unsigned" -> CHAR_U
    [] token.form = "signed" -> CHAR_D
    [] token.form = "char" -> CHAR_C
    [] token.form = "string" -> CHAR_S
    [] token.form = "percent" -> PERCENT

Printed(token, conv_buf) ==
  IF token.form = "text"
    THEN <<token.arg>>
    ELSE Converted(SpecOf(token), token.form = "padded", token.arg, conv_buf)

IsToken(token) ==
  /\ token.form \in {"text", "percent", "hex", "padded", "unsigned", "signed", "char", "string"}
  /\ token.form = "text" => token.arg \in Nat \ {EndOfString, PERCENT}
  /\ token.form \in {"hex", "padded", "unsigned", "signed"} => token.arg \in 0 .. WordValues - 1
  /\ token.form = "char" => token.arg \in Nat
  /\ token.form = "string" => token.arg \in Texts

\* The arguments left before and after a token.
Takes(token, args, rest) ==
  IF token.form \in {"text", "percent"}
    THEN rest = args
    ELSE Head(args \o <<0>>) = token.arg /\ rest = Tail(args)

\* The steps again, from the state they are taken in.
LEMMA AtPercent ==
  ASSUME NEW s, NEW alt, NEW out, NEW args, s = State("text", alt, out, args), NEW conv_buf
  PROVE  PrintfStep(s, PERCENT, conv_buf) = State("conversion", No, out, args)
BY StepPercent DEF No

LEMMA AtHash ==
  ASSUME NEW s, NEW alt, NEW out, NEW args, s = State("conversion", alt, out, args), NEW conv_buf
  PROVE  PrintfStep(s, HASH, conv_buf) = State("conversion", Yes, out, args)
BY StepHash DEF Yes

LEMMA AtSpecifier ==
  ASSUME NEW s, NEW alt, NEW out, NEW args, s = State("conversion", alt, out, args), NEW conv_buf,
         NEW char, char # HASH
  PROVE  PrintfStep(s, char, conv_buf)
           = State("text", alt, out \o Converted(char, alt, Head(args \o <<0>>), conv_buf),
                   IF char \in TakesArgument THEN Tail(args) ELSE args)
BY StepSpecifier

LEMMA TokenRuns ==
  ASSUME NEW token, IsToken(token), NEW format, NEW n \in Nat, Len(format) = n,
         NEW p, NEW q, LiesIn(format, FormatOf(token), p, q), NEW conv_buf,
         NEW st, Runs(st, format, conv_buf, n), NEW alt \in BOOLEAN, NEW out \in Seq(Nat), NEW args,
         NEW rest, st[p] = State("text", alt, out, args), Takes(token, args, rest)
  PROVE  \E a \in BOOLEAN : st[q] = State("text", a, out \o Printed(token, conv_buf), rest)
<1>1. /\ p \in Nat /\ q = p + Len(FormatOf(token)) /\ q <= n
      /\ \A j \in 1 .. Len(FormatOf(token)) : format[p + j] = FormatOf(token)[j]
  BY DEF LiesIn
<1>2. ASSUME NEW i \in 1 .. n, NEW x, x = i - 1 PROVE st[i] = PrintfStep(st[x], format[i], conv_buf)
  BY <1>2 DEF Runs
<1>0. Yes = TRUE /\ No = FALSE
  BY DEF Yes, No
<1>3. CASE token.form = "text"
  <2>1. FormatOf(token) = <<token.arg>>
    BY <1>3 DEF FormatOf
  <2>2. q = p + 1 /\ format[q] = token.arg /\ q \in 1 .. n /\ p = q - 1
    BY <1>1, <2>1
  <2>3. token.arg \in Nat /\ token.arg # PERCENT
    BY <1>3 DEF IsToken
  <2>4. st[q] = State("text", alt, Append(out, token.arg), args)
    <3>1. st[q] = PrintfStep(st[p], token.arg, conv_buf)
      BY <1>2, <2>2
    <3>. QED  BY <2>3, <3>1, StepText
  <2>5. Append(out, token.arg) = out \o Printed(token, conv_buf)
    BY <1>3, <2>3, AppendIsConcat DEF Printed
  <2>6. rest = args
    BY <1>3 DEF Takes
  <2>. QED  BY <2>4, <2>5, <2>6
<1>4. CASE token.form = "padded"
  <2>1. FormatOf(token) = <<PERCENT, HASH, CHAR_X>>
    BY <1>4 DEF FormatOf
  <2>2. PICK a \in 1 .. n, b \in 1 .. n, c \in 1 .. n :
          a = p + 1 /\ b = p + 2 /\ c = p + 3 /\ p = a - 1 /\ a = b - 1 /\ b = c - 1 /\ c = q
    BY <1>1, <2>1
  <2>3. format[a] = PERCENT /\ format[b] = HASH /\ format[c] = CHAR_X
    BY <1>1, <2>1, <2>2
  <2>4. st[a] = State("conversion", No, out, args)
    <3>1. st[a] = PrintfStep(st[p], PERCENT, conv_buf)
      BY <1>2, <2>2, <2>3
    <3>. QED  BY <3>1, AtPercent
  <2>5. st[b] = State("conversion", Yes, out, args)
    <3>1. st[b] = PrintfStep(st[a], HASH, conv_buf)
      BY <1>2, <2>2, <2>3
    <3>. QED  BY <2>4, <3>1, AtHash
  <2>6. CHAR_X # HASH /\ CHAR_X \in TakesArgument
    BY DEF CHAR_X, HASH, TakesArgument
  <2>7. st[c] = State("text", Yes, out \o Converted(CHAR_X, Yes, Head(args \o <<0>>), conv_buf), Tail(args))
    <3>1. st[c] = PrintfStep(st[b], CHAR_X, conv_buf)
      BY <1>2, <2>2, <2>3
    <3>. QED  BY <2>5, <2>6, <3>1, AtSpecifier
  <2>8. Head(args \o <<0>>) = token.arg /\ rest = Tail(args)
    BY <1>4 DEF Takes
  <2>9. Printed(token, conv_buf) = Converted(CHAR_X, Yes, token.arg, conv_buf)
    BY <1>0, <1>4 DEF Printed, SpecOf
  <2>. QED  BY <1>0, <2>2, <2>7, <2>8, <2>9
<1>5. CASE token.form \in {"percent", "hex", "unsigned", "signed", "char", "string"}
  <2>1. PICK spec : spec = SpecOf(token)
    OBVIOUS
  <2>2. FormatOf(token) = <<PERCENT, spec>>
    BY <1>5, <2>1 DEF FormatOf, SpecOf
  <2>3. PICK a \in 1 .. n, b \in 1 .. n : a = p + 1 /\ b = p + 2 /\ p = a - 1 /\ a = b - 1 /\ b = q
    BY <1>1, <2>2
  <2>4. format[a] = PERCENT /\ format[b] = spec
    BY <1>1, <2>2, <2>3
  <2>5. st[a] = State("conversion", No, out, args)
    <3>1. st[a] = PrintfStep(st[p], PERCENT, conv_buf)
      BY <1>2, <2>3, <2>4
    <3>. QED  BY <3>1, AtPercent
  <2>6. spec # HASH /\ (spec \in TakesArgument <=> token.form # "percent")
    BY <1>5, <2>1 DEF SpecOf, CHAR_X, CHAR_U, CHAR_D, CHAR_C, CHAR_S, PERCENT, HASH, TakesArgument
  <2>7. st[b] = State("text", No, out \o Converted(spec, No, Head(args \o <<0>>), conv_buf),
                      IF spec \in TakesArgument THEN Tail(args) ELSE args)
    <3>1. st[b] = PrintfStep(st[a], spec, conv_buf)
      BY <1>2, <2>3, <2>4
    <3>. QED  BY <2>5, <2>6, <3>1, AtSpecifier
  <2>8. Printed(token, conv_buf) = Converted(spec, No, token.arg, conv_buf)
    BY <1>0, <1>5, <2>1 DEF Printed
  <2>9. CASE token.form = "percent"
    <3>1. Converted(spec, No, token.arg, conv_buf) = Converted(spec, No, Head(args \o <<0>>), conv_buf)
      BY <2>1, <2>9 DEF SpecOf, Converted, CHAR_X, CHAR_U, CHAR_D, CHAR_C, CHAR_S, PERCENT
    <3>2. rest = args
      BY <2>9 DEF Takes
    <3>. QED  BY <1>0, <2>3, <2>6, <2>7, <2>8, <2>9, <3>1, <3>2
  <2>10. CASE token.form # "percent"
    <3>1. Head(args \o <<0>>) = token.arg /\ rest = Tail(args)
      BY <1>5, <2>10 DEF Takes
    <3>. QED  BY <1>0, <2>3, <2>6, <2>7, <2>8, <2>10, <3>1
  <2>. QED  BY <2>9, <2>10
<1>. QED  BY <1>3, <1>4, <1>5 DEF IsToken

LEMMA TokenPrinted ==
  ASSUME NEW token, IsToken(token), NEW conv_buf, IsBuffer(conv_buf)
  PROVE  IsPrinted(token, Printed(token, conv_buf)) /\ Printed(token, conv_buf) \in Seq(Nat)
<1>1. PICK arg, piece : arg = token.arg /\ piece = Printed(token, conv_buf)
  OBVIOUS
<1>2. WordValues \in Nat
  BY WordValuesEven
<1>3. CASE token.form = "text"
  BY <1>1, <1>3 DEF Printed, IsPrinted, IsToken
<1>4. CASE token.form = "percent"
  <2>1. Converted(PERCENT, FALSE, arg, conv_buf) = <<PERCENT>>
    BY DEF Converted, CHAR_X, CHAR_U, CHAR_D, CHAR_C, CHAR_S, PERCENT
  <2>2. piece = <<PERCENT>>
    BY <1>1, <1>4, <2>1 DEF Printed, SpecOf
  <2>3. PERCENT \in Nat
    BY DEF PERCENT
  <2>. QED  BY <1>1, <1>4, <2>2, <2>3 DEF IsPrinted
<1>5. CASE token.form = "char"
  <2>1. Converted(CHAR_C, FALSE, arg, conv_buf) = <<arg % 256>>
    BY DEF Converted, CHAR_X, CHAR_U, CHAR_D, CHAR_C, CHAR_S, PERCENT
  <2>2. piece = <<arg % 256>>
    BY <1>1, <1>5, <2>1 DEF Printed, SpecOf
  <2>3. arg % 256 \in Nat
    BY <1>1, <1>5 DEF IsToken
  <2>. QED  BY <1>1, <1>5, <2>2, <2>3 DEF IsPrinted
<1>6. CASE token.form = "string"
  <2>1. Converted(CHAR_S, FALSE, arg, conv_buf) = arg
    BY DEF Converted, CHAR_X, CHAR_U, CHAR_D, CHAR_C, CHAR_S, PERCENT
  <2>2. piece = arg
    BY <1>1, <1>6, <2>1 DEF Printed, SpecOf
  <2>3. arg \in Seq(Nat)
    BY <1>1, <1>6 DEF IsToken, Texts
  <2>. QED  BY <1>1, <1>6, <2>2, <2>3 DEF IsPrinted
<1>7. CASE token.form \in {"hex", "padded", "unsigned", "signed"}
  <2>1. arg \in Nat /\ arg < WordValues
    BY <1>1, <1>2, <1>7 DEF IsToken
  <2>2. \A text, value, radix : Shows(text, value, radix) =>
          IsNumber(text, value, radix) /\ IsShortest(text) /\ text \in Texts
    BY WritesNumber DEF Shows, Writes
  <2>3. CASE token.form = "hex"
    <3>1. Converted(CHAR_X, FALSE, arg, conv_buf) = StringAt(itoa(arg, conv_buf, 0, 16), 0)
      BY DEF Converted, CHAR_X, CHAR_U, CHAR_D, CHAR_C, CHAR_S, PERCENT
    <3>2. Shows(StringAt(itoa(arg, conv_buf, 0, 16), 0), arg, 16)
      BY <2>1, NumberAt
    <3>3. Shows(piece, arg, 16)
      BY <1>1, <2>3, <3>1, <3>2 DEF Printed, SpecOf
    <3>4. piece \in Seq(Nat) /\ IsNumber(piece, arg, 16) /\ IsShortest(piece)
      BY <2>2, <3>3 DEF Texts
    <3>. QED  BY <1>1, <2>3, <3>4 DEF IsPrinted
  <2>4. CASE token.form = "unsigned"
    <3>1. Converted(CHAR_U, FALSE, arg, conv_buf) = StringAt(itoa(arg, conv_buf, 0, 10), 0)
      BY DEF Converted, CHAR_X, CHAR_U, CHAR_D, CHAR_C, CHAR_S, PERCENT
    <3>2. Shows(StringAt(itoa(arg, conv_buf, 0, 10), 0), arg, 10)
      BY <2>1, NumberAt
    <3>3. Shows(piece, arg, 10)
      BY <1>1, <2>4, <3>1, <3>2 DEF Printed, SpecOf
    <3>4. piece \in Seq(Nat) /\ IsNumber(piece, arg, 10) /\ IsShortest(piece)
      BY <2>2, <3>3 DEF Texts
    <3>. QED  BY <1>1, <2>4, <3>4 DEF IsPrinted
  <2>5. CASE token.form = "padded"
    <3>1. Converted(CHAR_X, TRUE, arg, conv_buf) = Padded(arg, conv_buf)
      BY DEF Converted, CHAR_X, CHAR_U, CHAR_D, CHAR_C, CHAR_S, PERCENT
    <3>2. piece = Padded(arg, conv_buf)
      BY <1>1, <2>5, <3>1 DEF Printed, SpecOf
    <3>3. Writes(piece, arg, 16) /\ Len(piece) = WordDigits
      BY <2>1, <3>2, PaddedNumber
    <3>4. piece \in Seq(Nat) /\ IsNumber(piece, arg, 16)
      <4>1. \A text, value, radix : Writes(text, value, radix) =>
              IsNumber(text, value, radix) /\ text \in Texts
        BY WritesNumber DEF Writes
      <4>. QED  BY <3>3, <4>1 DEF Texts
    <3>. QED  BY <1>1, <2>5, <3>3, <3>4 DEF IsPrinted
  <2>6. CASE token.form = "signed"
    <3>1. Converted(CHAR_D, FALSE, arg, conv_buf) = Signed(arg, conv_buf)
      BY DEF Converted, CHAR_X, CHAR_U, CHAR_D, CHAR_C, CHAR_S, PERCENT
    <3>2. piece = Signed(arg, conv_buf)
      BY <1>1, <2>6, <3>1 DEF Printed, SpecOf
    <3>3. IF 2 * arg < WordValues
            THEN Shows(piece, arg, 10)
            ELSE /\ piece \in Texts /\ piece # <<>> /\ piece[1] = MINUS
                 /\ Shows(Tail(piece), WordValues - arg, 10)
      BY <2>1, <3>2, SignedNumber
    <3>4. piece \in Seq(Nat)
      BY <2>2, <3>3 DEF Texts
    <3>5. IF 2 * arg < WordValues
            THEN IsNumber(piece, arg, 10) /\ IsShortest(piece)
            ELSE /\ piece # <<>> /\ piece[1] = MINUS /\ IsNumber(Tail(piece), WordValues - arg, 10)
                 /\ IsShortest(Tail(piece))
      BY <2>2, <3>3
    <3>. QED  BY <1>1, <2>6, <3>4, <3>5 DEF IsPrinted
  <2>. QED  BY <1>7, <2>3, <2>4, <2>5, <2>6
<1>. QED  BY <1>3, <1>4, <1>5, <1>6, <1>7 DEF IsToken

-----------------------------------------------------------------------------
(***************************************************************************)
(* The theorem: the formats, the arguments and the pieces of the tokens,   *)
(* one behind the other.                                                   *)
(***************************************************************************)
Arguments == Nat \cup Texts

LEMMA TokensAre ==
  ASSUME NEW token \in Tokens
  PROVE  IsToken(token) /\ FormatOf(token) \in Seq(Nat) /\ ArgsOf(token) \in Seq(Arguments)
<1>1. PICK form, arg : form = token.form /\ arg = token.arg
  OBVIOUS
<1>2. \A s \in SeqOf(Chars, MaxString) : s \in Texts
  <2>1. Chars \subseteq Nat \ {EndOfString} /\ MaxString \in Nat
    BY CharsAssumption, SizesAssumption
  <2>2. \A s \in SeqOf(Chars, MaxString) : s \in Seq(Chars)
    BY <2>1, SeqOfIsSeq
  <2>3. \A s \in Seq(Chars) : s \in Seq(Nat \ {EndOfString})
    <3>1. PICK S : S = Nat \ {EndOfString}
      OBVIOUS
    <3>2. \A x \in Chars : x \in S
      BY <2>1, <3>1
    <3>3. \A s \in Seq(Chars) : s \in Seq(S)
      BY <3>2
    <3>. QED  BY <3>1, <3>3
  <2>. QED  BY <2>2, <2>3 DEF Texts
<1>3. /\ form \in {"text", "percent", "hex", "padded", "unsigned", "signed", "char", "string"}
      /\ form = "text" => arg \in Chars \ {PERCENT}
      /\ form \in {"hex", "padded", "unsigned", "signed"} => arg \in 0 .. WordValues - 1
      /\ form = "char" => arg \in Chars \cup {256 + c : c \in Chars}
      /\ form = "string" => arg \in SeqOf(Chars, MaxString)
  BY <1>1 DEF Tokens, Token, Numbers
<1>4. /\ form = "text" => arg \in Nat \ {EndOfString, PERCENT}
      /\ form = "char" => arg \in Nat
      /\ form = "string" => arg \in Texts
  <2>1. \A c \in Chars : c \in Nat /\ c # EndOfString
    BY CharsAssumption
  <2>2. form = "char" => arg \in Nat
    BY <1>3, <2>1
  <2>. QED  BY <1>2, <1>3, <2>1, <2>2
<1>5. IsToken(token)
  BY <1>1, <1>3, <1>4 DEF IsToken
<1>6. form \in {"hex", "padded", "unsigned", "signed"} => arg \in Nat
  BY <1>3, WordValuesEven
<1>7. ArgsOf(token) \in Seq(Arguments)
  <2>1. form \notin {"text", "percent"} => arg \in Arguments
    BY <1>3, <1>4, <1>6 DEF Arguments
  <2>. QED  BY <1>1, <2>1 DEF ArgsOf
<1>8. FormatOf(token) \in Seq(Nat)
  <2>1. \A c \in {PERCENT, HASH, CHAR_X, CHAR_U, CHAR_D, CHAR_C, CHAR_S} : c \in Nat
    BY DEF PERCENT, HASH, CHAR_X, CHAR_U, CHAR_D, CHAR_C, CHAR_S
  <2>. QED  BY <1>1, <1>3, <1>4, <2>1 DEF FormatOf
<1>. QED  BY <1>5, <1>7, <1>8

\* What is left of the arguments after the first p.
Rest(args, p) == SubSeq(args, p + 1, Len(args))

LEMMA TokenTakes ==
  ASSUME NEW token, NEW args \in Seq(Arguments), NEW p, NEW q, LiesIn(args, ArgsOf(token), p, q)
  PROVE  Takes(token, Rest(args, p), Rest(args, q))
<1>1. PICK own : own = ArgsOf(token)
  OBVIOUS
<1>2. /\ p \in Nat /\ q = p + Len(own) /\ q <= Len(args)
      /\ \A j \in 1 .. Len(own) : args[p + j] = own[j]
  BY <1>1 DEF LiesIn
<1>3. CASE token.form \in {"text", "percent"}
  <2>1. q = p
    BY <1>1, <1>2, <1>3 DEF ArgsOf
  <2>. QED  BY <1>3, <2>1 DEF Takes
<1>4. CASE token.form \notin {"text", "percent"}
  <2>1. own = <<token.arg>>
    BY <1>1, <1>4 DEF ArgsOf
  <2>2. q = p + 1 /\ q <= Len(args) /\ args[p + 1] = token.arg
    BY <1>2, <2>1
  <2>0. PICK l \in Nat : l = Len(args)
    OBVIOUS
  <2>3. PICK s : l = Len(args) /\ s = SubSeq(args, p + 1, l)
    BY <2>0
  <2>4. p + 1 \in 1 .. l /\ l \in 1 .. Len(args)
    BY <1>2, <2>2, <2>3
  <2>5. /\ s \in Seq(Arguments) /\ Len(s) = l - p
        /\ \A j \in 1 .. l - p : s[j] = args[p + j]
    BY <1>2, <2>3, <2>4, SubSeqProperties
  <2>6. Tail(s) = SubSeq(args, p + 2, l)
    <3>1. PICK a : a = p + 1
      OBVIOUS
    <3>2. a \in 1 .. Len(args) /\ l \in a .. Len(args) /\ a + 1 = p + 2
      BY <1>2, <2>3, <2>4, <3>1
    <3>3. Tail(SubSeq(args, a, l)) = SubSeq(args, a + 1, l)
      BY <3>2, HeadTailOfSubSeq
    <3>. QED  BY <2>3, <3>1, <3>2, <3>3
  <2>7. Head(s \o <<0>>) = s[1]
    <3>1. 0 \in Arguments
      BY DEF Arguments
    <3>2. <<0>> \in Seq(Arguments)
      BY <3>1
    <3>0. PICK z : z = <<0>>
      OBVIOUS
    <3>4. PICK t : t = s \o z
      OBVIOUS
    <3>3. z \in Seq(Arguments) /\ Len(z) = 1 /\ s \in Seq(Arguments) /\ Behind(t, s, z) /\ t \in Seq(Arguments)
      <4>1. z \in Seq(Arguments) /\ Len(z) = 1 /\ s \in Seq(Arguments)
        BY <2>5, <3>2, <3>0
      <4>2. t \in Seq(Arguments)
        BY <3>4, <4>1
      <4>3. Behind(s \o z, s, z)
        BY <4>1, JoinIs
      <4>. QED  BY <3>4, <4>1, <4>2, <4>3
    <3>5. t \in Seq(Arguments) /\ Len(t) = Len(s) + 1 /\ \A j \in 1 .. Len(s) : t[j] = s[j]
      BY <3>3 DEF Behind
    <3>. QED  BY <1>2, <2>2, <2>3, <2>4, <2>5, <3>0, <3>4, <3>5
  <2>8. Rest(args, p) = s /\ Rest(args, q) = SubSeq(args, p + 2, l)
    <3>1. q + 1 = p + 2
      BY <1>2, <2>2
    <3>. QED  BY <2>3, <3>1, Zenon DEF Rest
  <2>9. s[1] = args[p + 1]
    BY <1>2, <2>4, <2>5
  <2>10. Takes(token, s, Tail(s))
    BY <1>4, <2>2, <2>7, <2>9 DEF Takes
  <2>. QED  BY <2>6, <2>8, <2>10
<1>. QED  BY <1>3, <1>4

LEMMA SliceIs ==
  ASSUME NEW whole \in Seq(Nat), NEW s \in Seq(Nat), NEW p, NEW q, LiesIn(whole, s, p, q)
  PROVE  SubSeq(whole, p + 1, q) = s
<1>1. PICK l \in Nat : l = Len(s)
  OBVIOUS
<1>2. /\ p \in Nat /\ q = p + l /\ q <= Len(whole)
      /\ \A j \in 1 .. l : whole[p + j] = s[j]
  BY <1>1 DEF LiesIn
<1>3. PICK t : t = SubSeq(whole, p + 1, q)
  OBVIOUS
<1>4. t \in Seq(Nat) /\ Len(t) = l /\ \A j \in 1 .. l : t[j] = whole[p + j]
  BY <1>2, <1>3, SubSeqProperties
<1>. QED  BY <1>1, <1>2, <1>3, <1>4, SeqEqual

LEMMA PrintsHold == input \in Prints => PrintfPrintsItsArguments
<1>. SUFFICES ASSUME input \in Prints PROVE PrintfPrintsItsArguments
  OBVIOUS
<1>1. PICK tokens, n : tokens = input.tokens /\ n = Len(tokens)
  OBVIOUS
<1>2. n \in Nat /\ \A i \in 1 .. n : tokens[i] \in Tokens
  <2>1. tokens \in Seq(Tokens)
    BY <1>1 DEF Prints
  <2>. QED  BY <1>1, <2>1
<1>3. PICK conv_buf : conv_buf = [a \in 0 .. 5 * WordDigits |-> Garbage]
  OBVIOUS
<1>4. IsBuffer(conv_buf)
  BY <1>3, WordAssumption DEF IsBuffer, IsMemory
<1>5. PICK formats, given, pieces :
        /\ formats = [i \in 1 .. n |-> FormatOf(tokens[i])]
        /\ given = [i \in 1 .. n |-> ArgsOf(tokens[i])]
        /\ pieces = [i \in 1 .. n |-> Printed(tokens[i], conv_buf)]
  OBVIOUS
<1>6. /\ AreSeqs(formats, Nat, n) /\ formats = [i \in 1 .. n |-> formats[i]]
      /\ AreSeqs(given, Arguments, n) /\ given = [i \in 1 .. n |-> given[i]]
      /\ AreSeqs(pieces, Nat, n)
  <2>1. \A i \in 1 .. n :
          /\ FormatOf(tokens[i]) \in Seq(Nat) /\ ArgsOf(tokens[i]) \in Seq(Arguments)
          /\ Printed(tokens[i], conv_buf) \in Seq(Nat)
    BY <1>2, <1>4, TokensAre, TokenPrinted
  <2>. QED  BY <1>2, <1>5, <2>1 DEF AreSeqs
<1>7. PICK pf : Parts(pf, formats, Nat, n)
  BY <1>2, <1>6, PartsExist
<1>8. PICK pa : Parts(pa, given, Arguments, n)
  BY <1>2, <1>6, PartsExist
<1>9. PICK po : Parts(po, pieces, Nat, n)
  BY <1>2, <1>6, PartsExist
<1>10. FlattenSeq(formats) = pf[n] /\ FlattenSeq(given) = pa[n]
  BY <1>2, <1>6, <1>7, <1>8, FlattenIs
<1>11. /\ pf[0] = <<>> /\ pa[0] = <<>> /\ po[0] = <<>>
       /\ \A i \in 0 .. n : pf[i] \in Seq(Nat) /\ pa[i] \in Seq(Arguments) /\ po[i] \in Seq(Nat)
       /\ \A i \in 1 .. n : po[i] = po[i - 1] \o pieces[i]
  BY <1>7, <1>8, <1>9 DEF Parts
<1>12. n \in 0 .. n /\ 0 \in 0 .. n
  BY <1>2
<1>13. PICK format, args, m : format = pf[n] /\ args = pa[n] /\ m = Len(format)
  OBVIOUS
<1>14. m \in Nat /\ args \in Seq(Arguments)
  BY <1>11, <1>12, <1>13
<1>15. PICK st : /\ st[0] = State("text", No, <<>>, args) /\ Runs(st, format, conv_buf, m)
                 /\ printf(format, args, conv_buf) = st[m].out
  BY <1>13, <1>14, PrintfIs
<1>. DEFINE Reached(i) ==
       \E alt \in BOOLEAN : st[Len(pf[i])] = State("text", alt, po[i], Rest(args, Len(pa[i])))
<1>16. Reached(0)
  <2>1. Len(pf[0]) = 0 /\ Len(pa[0]) = 0
    BY <1>11
  <2>2. Rest(args, 0) = args
    BY <1>14 DEF Rest
  <2>3. st[Len(pf[0])] = State("text", No, po[0], Rest(args, Len(pa[0])))
    BY <1>11, <1>15, <2>1, <2>2
  <2>4. No \in BOOLEAN
    BY DEF No
  <2>. QED  BY <2>3, <2>4
<1>17. ASSUME NEW i \in 1 .. n, Reached(i - 1) PROVE Reached(i)
  <2>1. PICK token, p, q, out, before, after :
          /\ token = tokens[i] /\ p = Len(pf[i - 1]) /\ q = Len(pf[i]) /\ out = po[i - 1]
          /\ before = Rest(args, Len(pa[i - 1])) /\ after = Rest(args, Len(pa[i]))
    OBVIOUS
  <2>2. IsToken(token) /\ token \in Tokens /\ formats[i] = FormatOf(token) /\ given[i] = ArgsOf(token)
        /\ pieces[i] = Printed(token, conv_buf)
    BY <1>2, <1>5, <2>1, TokensAre
  <2>3. LiesIn(format, FormatOf(token), p, q)
    BY <1>2, <1>6, <1>7, <1>13, <2>1, <2>2, PartLies
  <2>4. Takes(token, before, after)
    <3>1. LiesIn(args, ArgsOf(token), Len(pa[i - 1]), Len(pa[i]))
      BY <1>2, <1>6, <1>8, <1>13, <2>2, PartLies
    <3>. QED  BY <1>14, <2>1, <3>1, TokenTakes
  <2>5. out \in Seq(Nat) /\ po[i] = out \o Printed(token, conv_buf)
    <3>1. i - 1 \in 0 .. n
      BY <1>2
    <3>. QED  BY <1>11, <2>1, <2>2, <3>1
  <2>6. PICK alt \in BOOLEAN : st[p] = State("text", alt, out, before)
    BY <1>17, <2>1
  <2>7. \E a \in BOOLEAN : st[q] = State("text", a, out \o Printed(token, conv_buf), after)
    BY <1>13, <1>14, <1>15, <2>2, <2>3, <2>4, <2>5, <2>6, TokenRuns
  <2>. QED  BY <2>1, <2>5, <2>7
<1>18. Reached(n)
  <2>. HIDE DEF Reached
  <2>1. PICK f, g : /\ f = [i \in 0 .. n |-> IF Reached(i) THEN 0 ELSE 1]
                    /\ g = [i \in 0 .. n |-> 0]
    OBVIOUS
  <2>2. f[0] = g[0]
    BY <1>12, <1>16, <2>1
  <2>3. ASSUME NEW i \in 1 .. n, f[i - 1] = g[i - 1] PROVE f[i] = g[i]
    <3>1. i - 1 \in 0 .. n /\ i \in 0 .. n
      BY <1>2
    <3>2. Reached(i - 1)
      BY <2>1, <2>3, <3>1
    <3>3. Reached(i)
      BY <1>17, <3>2
    <3>. QED  BY <2>1, <3>1, <3>3
  <2>4. f[n] = g[n]
    BY <1>2, <2>2, <2>3, Agree
  <2>. QED  BY <1>12, <2>1, <2>4
<1>19. PICK printed : printed = printf(format, args, conv_buf)
  OBVIOUS
<1>20. printed = po[n]
  <2>1. PICK alt : st[m] = State("text", alt, po[n], Rest(args, Len(pa[n])))
    BY <1>13, <1>18
  <2>2. st[m].out = po[n]
    BY <2>1 DEF State
  <2>. QED  BY <1>15, <1>19, <2>2
<1>21. PICK end : end = [i \in 0 .. n |-> Len(po[i])]
  OBVIOUS
<1>22. end \in [0 .. n -> 0 .. Len(printed)] /\ end[0] = 0 /\ end[n] = Len(printed)
  <2>1. \A i \in 0 .. n : BeginsAs(po[n], po[i])
    BY <1>2, <1>6, <1>9, PartsBegin
  <2>2. \A i \in 0 .. n : Len(po[i]) \in Nat /\ Len(po[i]) <= Len(po[n])
    BY <1>11, <2>1 DEF BeginsAs
  <2>3. Len(po[n]) \in Nat
    BY <1>12, <2>2
  <2>4. \A i \in 0 .. n : Len(po[i]) \in 0 .. Len(po[n])
    BY <2>2, <2>3
  <2>5. Len(po[0]) = 0
    BY <1>11
  <2>. QED  BY <1>12, <1>20, <1>21, <2>4, <2>5
<1>23. ASSUME NEW i \in 1 .. n
       PROVE  end[i - 1] <= end[i] /\ IsPrinted(tokens[i], SubSeq(printed, end[i - 1] + 1, end[i]))
  <2>1. PICK p, q, s : p = Len(po[i - 1]) /\ q = Len(po[i]) /\ s = pieces[i]
    OBVIOUS
  <2>2. end[i - 1] = p /\ end[i] = q
    BY <1>2, <1>21, <2>1
  <2>3. LiesIn(printed, s, p, q)
    BY <1>2, <1>6, <1>9, <1>20, <2>1, PartLies
  <2>4. s \in Seq(Nat) /\ IsPrinted(tokens[i], s)
    BY <1>2, <1>4, <1>5, <2>1, TokensAre, TokenPrinted
  <2>5. SubSeq(printed, p + 1, q) = s
    BY <1>11, <1>12, <1>20, <2>3, <2>4, SliceIs
  <2>6. p <= q
    BY <2>3, <2>4 DEF LiesIn
  <2>. QED  BY <2>2, <2>4, <2>5, <2>6
<1>24. printed = printf(FlattenSeq([i \in 1 .. n |-> FormatOf(tokens[i])]),
                        FlattenSeq([i \in 1 .. n |-> ArgsOf(tokens[i])]),
                        [a \in 0 .. 5 * WordDigits |-> Garbage])
  BY <1>3, <1>5, <1>10, <1>13, <1>19
<1>25. /\ end[0] = 0 /\ end[n] = Len(printed)
       /\ \A i \in 1 .. n :
            end[i - 1] <= end[i] /\ IsPrinted(tokens[i], SubSeq(printed, end[i - 1] + 1, end[i]))
  BY <1>22, <1>23
<1>. HIDE DEF Reached
<1>. QED  BY <1>1, <1>22, <1>24, <1>25 DEF PrintfPrintsItsArguments

(***************************************************************************)
(* For blocks and strings of any length: the memory functions change the   *)
(* bytes they are given, to what they are given, and nothing else, also    *)
(* for pieces that overlap; the string functions agree on what a string    *)
(* is, and strncmp orders strings as a dictionary does.                    *)
(***************************************************************************)
THEOREM MemoryAndStrings == LibraryInputs => []MemoryAndStringsExact
<1>1. MemoryOrString => MemoryAndStringsExact
  BY MemoryHolds, StringsHold DEF MemoryAndStringsExact
<1>2. input \in Prints => MemoryAndStringsExact
  BY DEF Prints, MemoryAndStringsExact, MemoryExact, StringsExact
<1>3. MemoryAndStringsExact /\ [SameInput]_input => MemoryAndStringsExact'
  BY DEF MemoryAndStringsExact, MemoryExact, StringsExact, SameInput
<1>. QED  BY <1>1, <1>2, <1>3, PTL DEF LibraryInputs

(***************************************************************************)
(* For words of any size and formats of any number of characters and       *)
(* conversions: printf prints each of them in its documented form, with    *)
(* its own argument.                                                       *)
(***************************************************************************)
THEOREM PrintfExact == LibraryInputs => []PrintfPrintsItsArguments
<1>1. MemoryOrString => PrintfPrintsItsArguments
  BY DEF MemoryOrString, MemoryCalls, StringCalls, PrintfPrintsItsArguments
<1>2. PrintfPrintsItsArguments /\ [SameInput]_input => PrintfPrintsItsArguments'
  BY DEF PrintfPrintsItsArguments, SameInput
<1>. QED  BY <1>1, <1>2, PrintsHold, PTL DEF LibraryInputs

-----------------------------------------------------------------------------
(***************************************************************************)
(* grep: the lines of a file, and which of them are printed.               *)
(***************************************************************************)
IsSearch(s, file) ==
  /\ s \in Seq(Nat) /\ Len(s) # 0 /\ file \in Seq(Nat)
  /\ \A i \in 1 .. Len(file) : file[i] # END_OF_LINE
  /\ LinesFit(file)

\* A line goes on from k up to e; a line ends at e.
NoNewline(file, k, e) == \A j \in k .. e - 1 : file[j + 1] # NEWLINE
EndsAt(file, e) == e = Len(file) \/ file[e + 1] = NEWLINE

IsEnd(file, k, e) ==
  e \in Nat /\ k <= e /\ e <= Len(file) /\ NoNewline(file, k, e) /\ EndsAt(file, e)

LEMMA EndFromIs ==
  ASSUME NEW file \in Seq(Nat), NEW k \in 0 .. Len(file)
  PROVE  IsEnd(file, k, EndFrom(file, k))
<1>1. PICK l \in Nat : l = Len(file)
  OBVIOUS
<1>. DEFINE T == {l} \cup {j \in k .. l - 1 : file[j + 1] = NEWLINE}
<1>2. EndFrom(file, k) = Min(T)
  BY <1>1 DEF EndFrom
<1>3. T \subseteq k .. l /\ T \subseteq Nat /\ T # {} /\ k \in Nat
  BY <1>1
<1>4. \A j \in T : j = l \/ file[j + 1] = NEWLINE
  OBVIOUS
<1>5. \A j \in k .. l - 1 : file[j + 1] = NEWLINE => j \in T
  OBVIOUS
<1>6. PICK e : e = Min(T)
  OBVIOUS
<1>. HIDE DEF T
<1>7. e \in T /\ \A j \in T : e <= j
  BY <1>3, <1>6, MinIs
<1>8. e \in k .. l /\ e \in Nat
  BY <1>3, <1>7
<1>9. NoNewline(file, k, e)
  <2>1. ASSUME NEW j \in k .. e - 1 PROVE file[j + 1] # NEWLINE
    <3>1. j \in k .. l - 1 /\ ~ (e <= j)
      BY <1>1, <1>3, <1>8
    <3>. QED  BY <1>5, <1>7, <3>1
  <2>. QED  BY <2>1 DEF NoNewline
<1>10. EndsAt(file, e)
  BY <1>1, <1>4, <1>7 DEF EndsAt
<1>. QED  BY <1>1, <1>2, <1>3, <1>6, <1>8, <1>9, <1>10 DEF IsEnd

LEMMA OneEnd ==
  ASSUME NEW file \in Seq(Nat), NEW k \in 0 .. Len(file), NEW e, NEW f, IsEnd(file, k, e), IsEnd(file, k, f)
  PROVE  e = f
<1>1. PICK l \in Nat : l = Len(file)
  OBVIOUS
<1>2. \A x, y \in Nat : IsEnd(file, k, x) /\ IsEnd(file, k, y) => ~ (x < y)
  <2>1. SUFFICES ASSUME NEW x \in Nat, NEW y \in Nat, IsEnd(file, k, x), IsEnd(file, k, y), x < y
                 PROVE  FALSE
    OBVIOUS
  <2>2. x \in k .. y - 1 /\ x # l
    BY <1>1, <2>1 DEF IsEnd
  <2>3. file[x + 1] # NEWLINE
    BY <2>1, <2>2 DEF IsEnd, NoNewline
  <2>. QED  BY <1>1, <2>1, <2>2, <2>3 DEF IsEnd, EndsAt
<1>3. e \in Nat /\ f \in Nat
  BY DEF IsEnd
<1>4. ~ (e < f) /\ ~ (f < e)
  BY <1>2, <1>3
<1>. QED  BY <1>3, <1>4

\* No line begins within a line.
LEMMA NoStart ==
  ASSUME NEW file \in Seq(Nat), NEW k \in Nat, NEW e \in Nat, NoNewline(file, k, e)
  PROVE  \A j \in k + 1 .. e : j \notin LineStarts(file)
<1>1. ASSUME NEW j \in k + 1 .. e PROVE j \notin LineStarts(file)
  <2>1. j \in Nat /\ j # 0 /\ j - 1 \in k .. e - 1 /\ (j - 1) + 1 = j
    OBVIOUS
  <2>2. file[(j - 1) + 1] # NEWLINE
    BY <2>1 DEF NoNewline
  <2>. QED  BY <2>1, <2>2 DEF LineStarts
<1>. QED  BY <1>1

LEMMA SliceFacts ==
  ASSUME NEW S, NEW s \in Seq(S), NEW a \in Nat, NEW b \in Nat, a <= b, b <= Len(s)
  PROVE  /\ SubSeq(s, a + 1, b) \in Seq(S) /\ Len(SubSeq(s, a + 1, b)) = b - a
         /\ \A j \in 1 .. b - a : SubSeq(s, a + 1, b)[j] = s[a + j]
<1>1. PICK m, t : m = a + 1 /\ t = SubSeq(s, m, b)
  OBVIOUS
<1>2. m \in Int /\ b \in Int /\ \A i \in m .. b : s[i] \in S
  BY <1>1
<1>3. /\ t \in Seq(S) /\ Len(t) = IF m <= b THEN b - m + 1 ELSE 0
      /\ \A i \in 1 .. b - m + 1 : t[i] = s[m + i - 1]
  BY <1>1, <1>2, SubSeqProperties
<1>4. b - m + 1 = b - a /\ \A j \in 1 .. b - a : m + j - 1 = a + j
  BY <1>1
<1>5. Len(t) = b - a
  BY <1>1, <1>3
<1>. QED  BY <1>1, <1>3, <1>4, <1>5

\* t is s without its first a elements, up to the element b.
IsCut(t, s, a, b) ==
  s \in Seq(Nat) /\ a \in Nat /\ b \in Nat /\ a <= b /\ b <= Len(s) /\ t = SubSeq(s, a + 1, b)

LEMMA CutFacts ==
  ASSUME NEW t, NEW s, NEW a, NEW b, IsCut(t, s, a, b)
  PROVE  t \in Seq(Nat) /\ Len(t) = b - a /\ \A j \in 1 .. b - a : t[j] = s[a + j]
<1>1. /\ s \in Seq(Nat) /\ a \in Nat /\ b \in Nat /\ a <= b /\ b <= Len(s)
      /\ t = SubSeq(s, a + 1, b)
  BY DEF IsCut
<1>. QED  BY <1>1, SliceFacts

LEMMA FoundIs ==
  ASSUME NEW s \in Seq(Nat), NEW line \in Seq(Nat), Len(s) # 0
  PROVE  Found(s, line) <=> Mentions(line, s)
<1>1. PICK m \in Nat, l \in Nat : m = Len(s) /\ l = Len(line)
  OBVIOUS
<1>2. m >= 1
  BY <1>1
<1>3. ASSUME NEW k \in 0 .. l
      PROVE  IsPrefix(s, SubSeq(line, k + 1, l))
             <=> k + 1 \in 1 .. l - m + 1 /\ SubSeq(line, k + 1, k + m) = s
  <2>1. PICK t : t = SubSeq(line, k + 1, l)
    OBVIOUS
  <2>2. t \in Seq(Nat) /\ Len(t) = l - k /\ \A j \in 1 .. l - k : t[j] = line[k + j]
    <3>1. PICK a, b : a = k /\ b = l
      OBVIOUS
    <3>2. IsCut(t, line, a, b)
      BY <1>1, <2>1, <3>1 DEF IsCut
    <3>3. t \in Seq(Nat) /\ Len(t) = b - a /\ \A j \in 1 .. b - a : t[j] = line[a + j]
      BY <3>2, CutFacts
    <3>. QED  BY <3>1, <3>3
  <2>3. IsPrefix(s, t) <=> m <= l - k /\ s = SubSeq(t, 1, m)
    BY <1>1, <2>2 DEF IsPrefix
  <2>4. ASSUME m <= l - k PROVE SubSeq(t, 1, m) = SubSeq(line, k + 1, k + m)
    <3>1. PICK u, v : u = SubSeq(t, 1, m) /\ v = SubSeq(line, k + 1, k + m)
      OBVIOUS
    <3>2. u \in Seq(Nat) /\ Len(u) = m /\ \A j \in 1 .. m : u[j] = t[j]
      <4>1. PICK z : z = 0
        OBVIOUS
      <4>2. z \in Nat /\ z <= m /\ m <= Len(t) /\ u = SubSeq(t, z + 1, m) /\ m - z = m
        BY <1>1, <2>2, <2>4, <3>1, <4>1
      <4>3. \A j \in 1 .. m : z + j = j
        BY <4>1
      <4>4. u \in Seq(Nat) /\ Len(u) = m - z /\ \A j \in 1 .. m - z : u[j] = t[z + j]
        <5>1. IsCut(u, t, z, m)
          BY <2>2, <4>2 DEF IsCut
        <5>. QED  BY <5>1, CutFacts
      <4>. QED  BY <4>2, <4>3, <4>4
    <3>3. v \in Seq(Nat) /\ Len(v) = m /\ \A j \in 1 .. m : v[j] = line[k + j]
      <4>1. PICK b : b = k + m
        OBVIOUS
      <4>2. b \in Nat /\ k \in Nat /\ k <= b /\ b <= Len(line) /\ v = SubSeq(line, k + 1, b) /\ b - k = m
        BY <1>1, <2>4, <3>1, <4>1
      <4>3. IsCut(v, line, k, b)
        BY <4>2 DEF IsCut
      <4>4. v \in Seq(Nat) /\ Len(v) = b - k /\ \A j \in 1 .. b - k : v[j] = line[k + j]
        BY <4>3, CutFacts
      <4>. QED  BY <4>2, <4>4
    <3>4. \A j \in 1 .. m : u[j] = v[j]
      <4>1. \A j \in 1 .. m : j \in 1 .. l - k
        BY <2>4
      <4>. QED  BY <2>2, <3>2, <3>3, <4>1
    <3>. QED  BY <3>1, <3>2, <3>3, <3>4, SeqEqual
  <2>5. k + 1 \in 1 .. l - m + 1 <=> m <= l - k
    BY <1>1
  <2>. QED  BY <2>1, <2>3, <2>4, <2>5
<1>4. ASSUME Found(s, line) PROVE Mentions(line, s)
  <2>1. PICK check \in 1 .. l - m + 1 : SubSeq(line, check, check + m - 1) = s
    BY <1>1, <1>4 DEF Found
  <2>2. PICK k : k = check - 1
    OBVIOUS
  <2>3. k \in 0 .. l /\ k + 1 = check /\ k + m = check + m - 1
    BY <1>2, <2>2
  <2>4. IsPrefix(s, SubSeq(line, k + 1, l))
    BY <1>3, <2>1, <2>3
  <2>. QED  BY <1>1, <2>3, <2>4 DEF Mentions
<1>5. ASSUME Mentions(line, s) PROVE Found(s, line)
  <2>1. PICK k \in 0 .. l : IsPrefix(s, SubSeq(line, k + 1, l))
    BY <1>1, <1>5 DEF Mentions
  <2>2. PICK check : check = k + 1
    OBVIOUS
  <2>3. check \in 1 .. l - m + 1 /\ k + m = check + m - 1
    BY <1>3, <2>1, <2>2
  <2>4. SubSeq(line, check, check + m - 1) = s
    BY <1>3, <2>1, <2>2, <2>3
  <2>. QED  BY <1>1, <2>3, <2>4 DEF Found
<1>. QED  BY <1>4, <1>5

Matching(s, file) == {k \in LineStarts(file) : Mentions(LineAt(file, k), s)}

\* The lines printed are those that match and begin before k.
Shown(printed, s, file, k) ==
  \E n \in Nat :
    /\ Len(printed) = n /\ printed \in Seq(Seq(Nat))
    /\ \E from \in [1 .. n -> Matching(s, file)] :
         /\ \A i \in 1 .. n : printed[i] = LineAt(file, from[i]) /\ from[i] < k
         /\ \A i \in 2 .. n : from[i - 1] < from[i]
         /\ \A j \in Matching(s, file) : j < k => \E i \in 1 .. n : from[i] = j

LEMMA ShownFurther ==
  ASSUME NEW printed, NEW s, NEW file, NEW k \in Nat, NEW m \in Nat, Shown(printed, s, file, k), k <= m,
         \A j \in k .. m - 1 : j \notin Matching(s, file)
  PROVE  Shown(printed, s, file, m)
<1>1. PICK n \in Nat :
        /\ Len(printed) = n /\ printed \in Seq(Seq(Nat))
        /\ \E from \in [1 .. n -> Matching(s, file)] :
             /\ \A i \in 1 .. n : printed[i] = LineAt(file, from[i]) /\ from[i] < k
             /\ \A i \in 2 .. n : from[i - 1] < from[i]
             /\ \A j \in Matching(s, file) : j < k => \E i \in 1 .. n : from[i] = j
  BY DEF Shown
<1>2. PICK from \in [1 .. n -> Matching(s, file)] :
        /\ \A i \in 1 .. n : printed[i] = LineAt(file, from[i]) /\ from[i] < k
        /\ \A i \in 2 .. n : from[i - 1] < from[i]
        /\ \A j \in Matching(s, file) : j < k => \E i \in 1 .. n : from[i] = j
  BY <1>1
<1>3. \A j \in Matching(s, file) : j \in Nat
  <2>1. \A j \in 0 .. Len(file) : j \in Nat
    OBVIOUS
  <2>. QED  BY <2>1 DEF Matching, LineStarts
<1>4. \A j \in Matching(s, file) : j < m => j < k
  BY <1>3
<1>5. \A i \in 1 .. n : from[i] < m
  BY <1>2, <1>3
<1>6. \E f \in [1 .. n -> Matching(s, file)] :
        /\ \A i \in 1 .. n : printed[i] = LineAt(file, f[i]) /\ f[i] < m
        /\ \A i \in 2 .. n : f[i - 1] < f[i]
        /\ \A j \in Matching(s, file) : j < m => \E i \in 1 .. n : f[i] = j
  BY <1>2, <1>4, <1>5
<1>. QED  BY <1>1, <1>6 DEF Shown

LEMMA ShownLine ==
  ASSUME NEW printed, NEW s, NEW file, NEW k \in Matching(s, file), NEW m \in Nat,
         Shown(printed, s, file, k), k < m, \A j \in k + 1 .. m - 1 : j \notin Matching(s, file),
         LineAt(file, k) \in Seq(Nat)
  PROVE  Shown(Append(printed, LineAt(file, k)), s, file, m)
<1>1. PICK n \in Nat :
        /\ Len(printed) = n /\ printed \in Seq(Seq(Nat))
        /\ \E from \in [1 .. n -> Matching(s, file)] :
             /\ \A i \in 1 .. n : printed[i] = LineAt(file, from[i]) /\ from[i] < k
             /\ \A i \in 2 .. n : from[i - 1] < from[i]
             /\ \A j \in Matching(s, file) : j < k => \E i \in 1 .. n : from[i] = j
  BY DEF Shown
<1>2. PICK from \in [1 .. n -> Matching(s, file)] :
        /\ \A i \in 1 .. n : printed[i] = LineAt(file, from[i]) /\ from[i] < k
        /\ \A i \in 2 .. n : from[i - 1] < from[i]
        /\ \A j \in Matching(s, file) : j < k => \E i \in 1 .. n : from[i] = j
  BY <1>1
<1>3. \A j \in Matching(s, file) : j \in Nat
  <2>1. \A j \in 0 .. Len(file) : j \in Nat
    OBVIOUS
  <2>. QED  BY <2>1 DEF Matching, LineStarts
<1>4. PICK line, longer : line = LineAt(file, k) /\ longer = Append(printed, line)
  OBVIOUS
<1>5. /\ longer \in Seq(Seq(Nat)) /\ Len(longer) = n + 1 /\ longer[n + 1] = line
      /\ \A i \in 1 .. n : longer[i] = printed[i]
  BY <1>1, <1>4
<1>6. PICK to : to = [i \in 1 .. n + 1 |-> IF i = n + 1 THEN k ELSE from[i]]
  OBVIOUS
<1>7. /\ to \in [1 .. n + 1 -> Matching(s, file)] /\ to[n + 1] = k
      /\ \A i \in 1 .. n : i \in 1 .. n + 1 /\ to[i] = from[i]
  BY <1>6
<1>8. ASSUME NEW i \in 1 .. n + 1 PROVE longer[i] = LineAt(file, to[i]) /\ to[i] < m
  <2>1. CASE i = n + 1
    BY <1>4, <1>5, <1>7, <2>1
  <2>2. CASE i \in 1 .. n
    <3>1. from[i] \in Nat /\ from[i] < k /\ k \in Nat
      BY <1>2, <1>3, <2>2
    <3>2. from[i] < m
      BY <3>1
    <3>. QED  BY <1>2, <1>5, <1>7, <2>2, <3>2
  <2>. QED  BY <2>1, <2>2
<1>9. ASSUME NEW i \in 2 .. n + 1 PROVE to[i - 1] < to[i]
  <2>1. i - 1 \in 1 .. n /\ to[i - 1] = from[i - 1]
    BY <1>7
  <2>2. CASE i = n + 1
    BY <1>2, <1>7, <2>1, <2>2
  <2>3. CASE i # n + 1
    <3>1. i \in 2 .. n /\ to[i] = from[i]
      BY <1>7, <2>3
    <3>. QED  BY <1>2, <2>1, <3>1
  <2>. QED  BY <2>2, <2>3
<1>10. ASSUME NEW j \in Matching(s, file), j < m PROVE \E i \in 1 .. n + 1 : to[i] = j
  <2>1. j \in Nat /\ k \in Nat
    BY <1>3
  <2>2. CASE j = k
    BY <1>7, <2>2
  <2>3. CASE j < k
    <3>1. PICK i \in 1 .. n : from[i] = j
      BY <1>2, <2>3
    <3>. QED  BY <1>7, <3>1
  <2>. QED  BY <1>10, <2>1, <2>2, <2>3
<1>11. \E f \in [1 .. n + 1 -> Matching(s, file)] :
          /\ \A i \in 1 .. n + 1 : longer[i] = LineAt(file, f[i]) /\ f[i] < m
          /\ \A i \in 2 .. n + 1 : f[i - 1] < f[i]
          /\ \A j \in Matching(s, file) : j < m => \E i \in 1 .. n + 1 : f[i] = j
  BY <1>7, <1>8, <1>9, <1>10
<1>12. n + 1 \in Nat
  OBVIOUS
<1>. QED  BY <1>4, <1>5, <1>11, <1>12 DEF Shown

LEMMA EmptyLine ==
  ASSUME NEW s, NEW file, IsSearch(s, file), NEW k \in 0 .. Len(file), EndsAt(file, k)
  PROVE  k \notin Matching(s, file) /\ IsEnd(file, k, k)
<1>1. s \in Seq(Nat) /\ Len(s) # 0 /\ file \in Seq(Nat)
  BY DEF IsSearch
<1>2. IsEnd(file, k, k)
  BY <1>1 DEF IsEnd, NoNewline
<1>3. EndFrom(file, k) = k
  BY <1>1, <1>2, EndFromIs, OneEnd
<1>4. PICK line : line = SubSeq(file, k + 1, k)
  OBVIOUS
<1>5. line \in Seq(Nat) /\ Len(line) = 0
  <2>1. k \in Nat /\ k <= k /\ k <= Len(file) /\ k - k = 0
    BY <1>1
  <2>2. line \in Seq(Nat) /\ Len(line) = k - k
    BY <1>1, <1>4, <2>1, SliceFacts
  <2>. QED  BY <2>1, <2>2
<1>6. ~ Found(s, line)
  BY <1>1, <1>5 DEF Found
<1>7. ~ Mentions(line, s)
  BY <1>1, <1>5, <1>6, FoundIs
<1>8. LineAt(file, k) = line
  BY <1>3, <1>4 DEF LineAt
<1>. QED  BY <1>2, <1>7, <1>8 DEF Matching

\* The line from k to e is searched: its own beginning, or an end.
LEMMA LineSearched ==
  ASSUME NEW s, NEW file, IsSearch(s, file), NEW k \in 0 .. Len(file), NEW e, IsEnd(file, k, e),
         NEW printed, Shown(printed, s, file, k), k \in LineStarts(file) \/ EndsAt(file, k),
         NEW line, line = SubSeq(file, k + 1, e),
         NEW next, next = IF Found(s, line) THEN Append(printed, line) ELSE printed
  PROVE  Shown(next, s, file, e) /\ Shown(next, s, file, e + 1)
<1>1. s \in Seq(Nat) /\ Len(s) # 0 /\ file \in Seq(Nat) /\ k \in Nat
  BY DEF IsSearch
<1>2. e \in Nat /\ k <= e /\ e <= Len(file) /\ NoNewline(file, k, e) /\ EndsAt(file, e)
  BY DEF IsEnd
<1>3. LineAt(file, k) = line
  <2>1. EndFrom(file, k) = e
    BY <1>1, EndFromIs, OneEnd
  <2>. QED  BY <2>1 DEF LineAt
<1>4. line \in Seq(Nat) /\ (Found(s, line) <=> Mentions(line, s))
  <2>1. line \in Seq(Nat)
    BY <1>1, <1>2, SliceFacts
  <2>. QED  BY <1>1, <2>1, FoundIs
<1>5. \A j \in k + 1 .. e : j \notin Matching(s, file)
  BY <1>1, <1>2, NoStart DEF Matching
<1>6. CASE k \in Matching(s, file)
  <2>1. e # k
    BY <1>2, <1>6, EmptyLine
  <2>2. Found(s, line)
    BY <1>3, <1>4, <1>6 DEF Matching
  <2>3. PICK f : f = e + 1
    OBVIOUS
  <2>4. /\ f \in Nat /\ k < e /\ k < f
        /\ \A j \in k + 1 .. e - 1 : j \notin Matching(s, file)
        /\ \A j \in k + 1 .. f - 1 : j \notin Matching(s, file)
    BY <1>1, <1>2, <1>5, <2>1, <2>3
  <2>5. Shown(Append(printed, line), s, file, e)
    BY <1>2, <1>3, <1>4, <1>6, <2>4, ShownLine
  <2>6. Shown(Append(printed, line), s, file, f)
    BY <1>2, <1>3, <1>4, <1>6, <2>4, ShownLine
  <2>. QED  BY <2>2, <2>3, <2>5, <2>6
<1>7. CASE k \notin Matching(s, file)
  <2>1. ~ Found(s, line)
    <3>1. CASE k \in LineStarts(file)
      BY <1>3, <1>4, <1>7, <3>1 DEF Matching
    <3>2. CASE EndsAt(file, k)
      <4>1. e = k
        <5>1. IsEnd(file, k, k)
          BY <3>2, EmptyLine
        <5>. QED  BY <1>1, <5>1, OneEnd
      <4>2. Len(line) = 0
        <5>1. Len(line) = e - k
          BY <1>1, <1>2, SliceFacts
        <5>. QED  BY <1>1, <4>1, <5>1
      <4>. QED  BY <1>1, <1>4, <4>2 DEF Found
    <3>. QED  BY <3>1, <3>2
  <2>2. PICK f : f = e + 1
    OBVIOUS
  <2>3. /\ f \in Nat /\ k <= f
        /\ \A j \in k .. e - 1 : j \notin Matching(s, file)
        /\ \A j \in k .. f - 1 : j \notin Matching(s, file)
    BY <1>1, <1>2, <1>5, <1>7, <2>2
  <2>4. Shown(printed, s, file, e)
    BY <1>1, <1>2, <2>3, ShownFurther
  <2>5. Shown(printed, s, file, f)
    BY <1>1, <1>2, <2>3, ShownFurther
  <2>. QED  BY <2>1, <2>2, <2>4, <2>5
<1>. QED  BY <1>6, <1>7

(***************************************************************************)
(* The buffer: from lo to last it holds what the file has from b + lo on,  *)
(* and nowhere else a newline.                                             *)
(***************************************************************************)
Reading(file, data, lo, last, b) ==
  /\ data \in [0 .. BUFSIZE -> Nat] /\ last \in 0 .. BUFSIZE /\ lo \in 0 .. last
  /\ b \in Nat /\ b + last <= Len(file)
  /\ \A i \in lo .. last - 1 : data[i] = file[b + i + 1]
  /\ \A i \in 0 .. BUFSIZE : i \notin lo .. last - 1 => data[i] # NEWLINE

LEMMA LineEndIs ==
  ASSUME NEW file, NEW data, NEW lo, NEW last, NEW b, Reading(file, data, lo, last, b),
         NEW e, e = LineEnd(data, last, lo)
  PROVE  /\ e \in lo .. last /\ \A i \in lo .. e - 1 : data[i] # NEWLINE
         /\ data[e] = NEWLINE <=> e < last
<1>1. BUFSIZE \in Nat
  BY BufferAssumption
<1>2. /\ last \in 0 .. BUFSIZE /\ lo \in 0 .. last
      /\ \A i \in 0 .. BUFSIZE : i \notin lo .. last - 1 => data[i] # NEWLINE
  BY DEF Reading
<1>. DEFINE T == {last} \cup {i \in lo .. last - 1 : data[i] = NEWLINE}
<1>3. e = Min(T)
  BY DEF LineEnd
<1>4. T \subseteq lo .. last /\ T \subseteq Nat /\ T # {} /\ lo \in Nat /\ last \in Nat
  BY <1>1, <1>2
<1>5. \A i \in T : i = last \/ data[i] = NEWLINE
  OBVIOUS
<1>6. \A i \in lo .. last - 1 : data[i] = NEWLINE => i \in T
  OBVIOUS
<1>. HIDE DEF T
<1>7. e \in T /\ \A j \in T : e <= j
  BY <1>3, <1>4, MinIs
<1>8. e \in lo .. last /\ e \in Nat
  BY <1>4, <1>7
<1>9. ASSUME NEW i \in lo .. e - 1 PROVE data[i] # NEWLINE
  <2>1. i \in lo .. last - 1 /\ ~ (e <= i)
    BY <1>4, <1>8
  <2>. QED  BY <1>6, <1>7, <2>1
<1>10. data[e] = NEWLINE <=> e < last
  <2>1. CASE e = last
    <3>1. e \in 0 .. BUFSIZE /\ e \notin lo .. last - 1 /\ ~ (e < last)
      BY <1>1, <1>2, <1>4, <2>1
    <3>. QED  BY <1>2, <3>1
  <2>2. CASE e # last
    <3>1. e < last
      BY <1>4, <1>8, <2>2
    <3>. QED  BY <1>5, <1>7, <2>2, <3>1
  <2>. QED  BY <2>1, <2>2
<1>. QED  BY <1>8, <1>9, <1>10

LEMMA TextIs ==
  ASSUME NEW data \in [0 .. BUFSIZE -> Nat], NEW lo \in Nat, NEW e \in lo .. BUFSIZE,
         data[e] = END_OF_LINE, \A i \in lo .. e - 1 : data[i] # END_OF_LINE
  PROVE  Text(data, lo) = [i \in 1 .. e - lo |-> data[lo + i - 1]]
<1>. DEFINE T == {i \in DOMAIN data : i >= lo /\ data[i] = END_OF_LINE}
<1>1. BUFSIZE \in Nat
  BY BufferAssumption
<1>2. T \subseteq Nat /\ e \in T
  BY <1>1
<1>3. \A i \in T : i \in Nat /\ i >= lo /\ data[i] = END_OF_LINE
  BY <1>1
<1>4. PICK m : m = Min(T)
  OBVIOUS
<1>5. Text(data, lo) = [i \in 1 .. m - lo |-> data[lo + i - 1]]
  BY <1>4 DEF Text
<1>. HIDE DEF T
<1>6. m \in T /\ m <= e
  BY <1>2, <1>4, MinIs
<1>7. m = e
  <2>1. m \in Nat /\ m >= lo /\ data[m] = END_OF_LINE
    BY <1>3, <1>6
  <2>2. m \notin lo .. e - 1
    BY <2>1
  <2>. QED  BY <1>6, <2>1, <2>2
<1>. QED  BY <1>5, <1>7

\* A line of the buffer is a line of the file.
IsSum(k, b, i) == k = b + i
IsEnded(ended, data, e) == ended = [data EXCEPT ![e] = END_OF_LINE]

LEMMA LineIs ==
  ASSUME NEW s, NEW file, IsSearch(s, file), NEW data, NEW lo, NEW last, NEW b,
         Reading(file, data, lo, last, b), NEW e \in lo .. last,
         \A i \in lo .. e - 1 : data[i] # NEWLINE,
         NEW ended, IsEnded(ended, data, e), NEW k, IsSum(k, b, lo), NEW f, IsSum(f, b, e)
  PROVE  /\ Text(ended, lo) = SubSeq(file, k + 1, f) /\ NoNewline(file, k, f)
         /\ ended \in [0 .. BUFSIZE -> Nat] /\ ended[e] = END_OF_LINE
         /\ \A i \in 0 .. BUFSIZE : i # e => ended[i] = data[i]
<1>1. /\ data \in [0 .. BUFSIZE -> Nat] /\ last \in 0 .. BUFSIZE /\ lo \in 0 .. last
      /\ b \in Nat /\ b + last <= Len(file)
      /\ \A i \in lo .. last - 1 : data[i] = file[b + i + 1]
      /\ BUFSIZE \in Nat
  BY BufferAssumption DEF Reading
<1>2. file \in Seq(Nat) /\ \A i \in 1 .. Len(file) : file[i] # END_OF_LINE
  BY DEF IsSearch
<1>3. /\ lo \in Nat /\ last \in Nat /\ e \in Nat /\ lo <= e /\ e <= last /\ last <= BUFSIZE
      /\ k \in Nat /\ f \in Nat /\ k <= f /\ f <= Len(file) /\ f - k = e - lo
      /\ k = b + lo /\ f = b + e
  BY <1>1 DEF IsSum
<1>4. /\ ended \in [0 .. BUFSIZE -> Nat] /\ ended[e] = END_OF_LINE
      /\ \A i \in 0 .. BUFSIZE : i # e => ended[i] = data[i]
  BY <1>1, <1>3 DEF END_OF_LINE, IsEnded
<1>5. \A i \in lo .. e - 1 : /\ i \in lo .. last - 1 /\ i \in 0 .. BUFSIZE /\ i # e
                             /\ b + i + 1 \in 1 .. Len(file)
  BY <1>1, <1>3
<1>6. \A i \in lo .. e - 1 : ended[i] = file[b + i + 1] /\ ended[i] # END_OF_LINE
  BY <1>1, <1>2, <1>4, <1>5
<1>7. PICK text, slice : text = [i \in 1 .. e - lo |-> ended[lo + i - 1]] /\ slice = SubSeq(file, k + 1, f)
  OBVIOUS
<1>8. Text(ended, lo) = text
  <2>1. e \in lo .. BUFSIZE /\ \A i \in lo .. e - 1 : ended[i] # END_OF_LINE
    BY <1>1, <1>3, <1>6
  <2>2. Text(ended, lo) = [i \in 1 .. e - lo |-> ended[lo + i - 1]]
    <3>1. lo \in Nat
      BY <1>3
    <3>. QED  BY <1>4, <2>1, <3>1, TextIs
  <2>. QED  BY <1>7, <2>2
<1>9. slice \in Seq(Nat) /\ Len(slice) = e - lo /\ \A j \in 1 .. e - lo : slice[j] = file[k + j]
  <2>1. slice \in Seq(Nat) /\ Len(slice) = f - k /\ \A j \in 1 .. f - k : slice[j] = file[k + j]
    <3>1. k \in Nat /\ f \in Nat /\ k <= f /\ f <= Len(file)
      BY <1>3
    <3>. QED  BY <1>2, <1>7, <3>1, SliceFacts
  <2>. QED  BY <1>3, <2>1
<1>10. \A j \in 1 .. e - lo : /\ lo + j - 1 \in lo .. e - 1 /\ k + j = b + (lo + j - 1) + 1
                              /\ lo + j - 1 \in 0 .. BUFSIZE
  BY <1>1, <1>3
<1>11. \A j \in 1 .. e - lo : text[j] = file[k + j] /\ text[j] \in Nat
  <2>1. \A j \in 1 .. e - lo : text[j] = ended[lo + j - 1]
    BY <1>7
  <2>. QED  BY <1>4, <1>6, <1>10, <2>1
<1>12. text = slice
  <2>1. PICK l \in Nat : l = e - lo
    BY <1>3
  <2>2. text \in Seq(Nat) /\ Len(text) = l
    <3>1. text = [i \in 1 .. l |-> ended[lo + i - 1]] /\ \A i \in 1 .. l : ended[lo + i - 1] \in Nat
      BY <1>4, <1>7, <1>10, <2>1
    <3>. QED  BY <2>1, <3>1
  <2>3. slice \in Seq(Nat) /\ Len(slice) = l /\ \A j \in 1 .. l : text[j] = slice[j]
    BY <1>9, <1>11, <2>1
  <2>. QED  BY <2>2, <2>3, SeqEqual
<1>13. NoNewline(file, k, f)
  <2>1. ASSUME NEW j \in k .. f - 1 PROVE file[j + 1] # NEWLINE
    <3>1. PICK i : i = j - b
      OBVIOUS
    <3>2. i \in lo .. e - 1 /\ b + i + 1 = j + 1
      BY <1>1, <1>3, <3>1
    <3>. QED  BY <1>1, <1>5, <3>2
  <2>. QED  BY <2>1 DEF NoNewline
<1>. QED  BY <1>4, <1>7, <1>8, <1>12, <1>13

-----------------------------------------------------------------------------
(***************************************************************************)
(* The invariant of grep's loops.  The search stands at k: the lines that  *)
(* begin before k are printed if they match, and at k a line begins, or    *)
(* the one that ends there, a line as long as the buffer or the last one,  *)
(* was searched as a whole.                                                *)
(***************************************************************************)
Stands(s, file, printed, k, lo) ==
  /\ k \in 0 .. Len(file) /\ Shown(printed, s, file, k)
  /\ k \in LineStarts(file) \/ (lo = 0 /\ EndsAt(file, k))

\* A read that does not fill the buffer has come to the end of the file.
IsFull(file, cnt, pos, last) ==
  cnt \in Nat /\ (cnt = 0 => pos = Len(file)) /\ (pos = Len(file) \/ last = BUFSIZE)

AllRead(data) == \A i \in 0 .. BUFSIZE : data[i] # NEWLINE

AtRead(s, file, state) ==
  \E b : /\ state.at = "read" /\ Reading(file, state.data, 0, state.last, b) /\ AllRead(state.data)
         /\ state.last # BUFSIZE /\ IsSum(state.pos, b, state.last)
         /\ Stands(s, file, state.printed, b, state.last)

AtLine(s, file, state) ==
  \E b, k : /\ state.at = "line" /\ Reading(file, state.data, state.line_start, state.last, b)
            /\ IsSum(state.pos, b, state.last) /\ IsSum(k, b, state.line_start)
            /\ state.line_start < state.last \/ state.line_start = 0
            /\ IsFull(file, state.cnt, state.pos, state.last)
            /\ Stands(s, file, state.printed, k, state.line_start)

AtEnd(s, file, state) == state.at = "done" /\ Shown(state.printed, s, file, Len(file))

\* The steps left.
Left(file, state) ==
  CASE state.at = "read" -> 3 * (Len(file) - state.pos) + state.last + 2
    [] state.at = "line" -> 3 * (Len(file) - state.pos) + (state.last - state.line_start)
                              + (IF state.cnt = 0 THEN 1 ELSE 3)
    [] state.at = "done" -> 0

\* A step leads on, and fewer are left.
Advances(file, state, next) ==
  Left(file, next) \in Nat /\ Left(file, state) \in Nat /\ Left(file, next) < Left(file, state)

IsPiece(file, pos, n, piece, c) ==
  /\ c \in 0 .. n /\ Len(piece) = c /\ piece \in Seq(Nat) /\ pos + c <= Len(file)
  /\ \A j \in 1 .. c : piece[j] = file[pos + j]
  /\ (c = 0 => pos = Len(file)) /\ (pos + c = Len(file) \/ c = n)

LEMMA PieceIs ==
  ASSUME NEW file \in Seq(Nat), NEW pos \in 0 .. Len(file), NEW n \in Nat \ {0},
         NEW piece, piece = Piece(file, pos, n)
  PROVE  \E c : IsPiece(file, pos, n, piece, c)
<1>1. PICK l \in Nat : l = Len(file)
  OBVIOUS
<1>. DEFINE T == {pos + n, l}
<1>2. T \subseteq Nat /\ T # {} /\ pos \in Nat /\ pos <= l
  BY <1>1
<1>3. PICK end : end = Min(T)
  OBVIOUS
<1>4. end \in T /\ \A j \in T : end <= j
  <2>. HIDE DEF T
  <2>. QED  BY <1>2, <1>3, MinIs
<1>5. end \in Nat /\ (end = pos + n \/ end = l) /\ end <= pos + n /\ end <= l /\ pos <= end
  BY <1>1, <1>2, <1>4
<1>6. piece = SubSeq(file, pos + 1, end)
  BY <1>1, <1>3 DEF Piece
<1>7. /\ piece \in Seq(Nat) /\ Len(piece) = end - pos
      /\ \A j \in 1 .. end - pos : piece[j] = file[pos + j]
  <2>. HIDE DEF T
  <2>1. IsCut(piece, file, pos, end)
    BY <1>1, <1>2, <1>5, <1>6 DEF IsCut
  <2>. QED  BY <2>1, CutFacts
<1>8. PICK c : c = end - pos
  OBVIOUS
<1>9. c \in 0 .. n /\ pos + c = end
  BY <1>2, <1>5, <1>8
<1>10. Len(piece) = c /\ \A j \in 1 .. c : piece[j] = file[pos + j]
  BY <1>7, <1>8
<1>11. pos + c <= l /\ (c = 0 => pos = l) /\ (pos + c = l \/ c = n)
  BY <1>2, <1>5, <1>9
<1>. QED  BY <1>1, <1>7, <1>9, <1>10, <1>11 DEF IsPiece

LEMMA ReadAdvances ==
  ASSUME NEW s, NEW file, IsSearch(s, file), NEW state, AtRead(s, file, state)
  PROVE  AtLine(s, file, ReadOn(file, state)) /\ Advances(file, state, ReadOn(file, state))
<1>1. PICK data, last, pos, l :
        data = state.data /\ last = state.last /\ pos = state.pos /\ l = Len(file)
  OBVIOUS
<1>2. PICK b : /\ state.at = "read" /\ Reading(file, data, 0, last, b) /\ AllRead(data)
               /\ last # BUFSIZE /\ IsSum(pos, b, last)
               /\ Stands(s, file, state.printed, b, last)
  BY <1>1 DEF AtRead
<1>3. /\ data \in [0 .. BUFSIZE -> Nat] /\ last \in 0 .. BUFSIZE /\ b \in Nat
      /\ pos = b + last /\ pos <= l /\ pos \in Nat
      /\ \A i \in 0 .. last - 1 : data[i] = file[b + i + 1]
      /\ \A i \in 0 .. BUFSIZE : data[i] # NEWLINE
  BY <1>1, <1>2, BufferAssumption DEF Reading, AllRead, IsSum
<1>4. file \in Seq(Nat) /\ l \in Nat /\ BUFSIZE \in Nat
  BY <1>1, BufferAssumption DEF IsSearch
<1>5. PICK n, piece : n = BUFSIZE - last /\ piece = Piece(file, pos, n)
  OBVIOUS
<1>6. n \in Nat \ {0} /\ last + n = BUFSIZE /\ pos \in 0 .. l
  BY <1>2, <1>3, <1>4, <1>5
<1>70. PICK c : IsPiece(file, pos, n, piece, c)
  BY <1>1, <1>4, <1>5, <1>6, PieceIs
<1>7. /\ c \in 0 .. n /\ Len(piece) = c /\ piece \in Seq(Nat) /\ pos + c <= l
      /\ \A j \in 1 .. c : piece[j] = file[pos + j]
      /\ (c = 0 => pos = l) /\ (pos + c = l \/ c = n)
  BY <1>1, <1>70 DEF IsPiece
<1>8. PICK next, filled, end : next = ReadOn(file, state) /\ filled = Put(data, last, piece) /\ end = last + c
  OBVIOUS
<1>9. /\ next.at = "line" /\ next.data = filled /\ next.last = end /\ next.cnt = c
      /\ next.pos = pos + c /\ next.line_start = 0 /\ next.printed = state.printed
  BY <1>1, <1>5, <1>7, <1>8 DEF ReadOn
<1>10. /\ end \in 0 .. BUFSIZE /\ 0 \in 0 .. end /\ b + end <= l /\ b + end = pos + c
       /\ (pos + c = l \/ end = BUFSIZE)
  BY <1>3, <1>4, <1>6, <1>7, <1>8
<1>11. Reading(file, filled, 0, end, b)
  <2>0. c \in Nat /\ last \in Nat /\ last + c <= BUFSIZE
    BY <1>3, <1>4, <1>6, <1>7
  <2>1. filled = [i \in 0 .. BUFSIZE |-> IF i \in last .. last + c - 1 THEN piece[i - last + 1] ELSE data[i]]
    BY <1>3, <1>7, <1>8 DEF Put
  <2>2. \A i \in last .. last + c - 1 : /\ i \in 0 .. BUFSIZE /\ i - last + 1 \in 1 .. c
                                        /\ pos + (i - last + 1) = b + i + 1
    BY <1>3, <1>4, <1>6, <2>0
  <2>3. \A i \in last .. last + c - 1 : filled[i] = file[b + i + 1] /\ filled[i] \in Nat
    BY <1>7, <2>1, <2>2
  <2>4. \A i \in 0 .. BUFSIZE : i \notin last .. last + c - 1 => filled[i] = data[i]
    BY <2>1
  <2>5. filled \in [0 .. BUFSIZE -> Nat]
    BY <1>3, <2>1, <2>3, <2>4
  <2>6. ASSUME NEW i \in 0 .. end - 1 PROVE filled[i] = file[b + i + 1]
    <3>1. CASE i \in last .. last + c - 1
      BY <2>3, <3>1
    <3>2. CASE i \notin last .. last + c - 1
      <4>1. i \in 0 .. last - 1 /\ i \in 0 .. BUFSIZE
        BY <1>3, <1>4, <1>8, <2>0, <3>2
      <4>. QED  BY <1>3, <2>4, <3>2, <4>1
    <3>. QED  BY <3>1, <3>2
  <2>7. ASSUME NEW i \in 0 .. BUFSIZE, i \notin 0 .. end - 1 PROVE filled[i] # NEWLINE
    <3>1. i \notin last .. last + c - 1
      BY <1>8, <2>0, <2>7
    <3>. QED  BY <1>3, <2>4, <3>1
  <2>. QED  BY <1>1, <1>3, <1>10, <2>5, <2>6, <2>7 DEF Reading
<1>12. IsFull(file, c, pos + c, end)
  BY <1>1, <1>3, <1>7, <1>10 DEF IsFull
<1>13. Stands(s, file, state.printed, b, 0)
  BY <1>2 DEF Stands
<1>14. IsSum(pos + c, b, end) /\ IsSum(b, b, 0)
  BY <1>3, <1>10 DEF IsSum
<1>15. AtLine(s, file, next)
  BY <1>9, <1>11, <1>12, <1>13, <1>14 DEF AtLine
<1>16. Advances(file, state, next)
  <2>1. Left(file, state) = 3 * (l - pos) + last + 2
    BY <1>1, <1>2 DEF Left
  <2>2. Left(file, next) = 3 * (l - (pos + c)) + (end - 0) + (IF c = 0 THEN 1 ELSE 3)
    BY <1>1, <1>9 DEF Left
  <2>. QED  BY <1>3, <1>4, <1>7, <1>8, <2>1, <2>2 DEF Advances
<1>. QED  BY <1>8, <1>15, <1>16

\* What a line step begins with, and the line it finds.
InLine(s, file, state, b, k) ==
  /\ state.at = "line" /\ Reading(file, state.data, state.line_start, state.last, b)
  /\ IsSum(state.pos, b, state.last) /\ IsSum(k, b, state.line_start)
  /\ state.line_start < state.last \/ state.line_start = 0
  /\ IsFull(file, state.cnt, state.pos, state.last)
  /\ Stands(s, file, state.printed, k, state.line_start)

HasLine(file, state, b, k, e, f, ended, line) ==
  /\ e = LineEnd(state.data, state.last, state.line_start) /\ e \in state.line_start .. state.last
  /\ \A i \in state.line_start .. e - 1 : state.data[i] # NEWLINE
  /\ state.data[e] = NEWLINE <=> e < state.last
  /\ IsSum(f, b, e) /\ IsEnded(ended, state.data, e)
  /\ line = Text(ended, state.line_start) /\ line = SubSeq(file, k + 1, f) /\ NoNewline(file, k, f)
  /\ ended \in [0 .. BUFSIZE -> Nat] /\ ended[e] = END_OF_LINE
  /\ \A i \in 0 .. BUFSIZE : i # e => ended[i] = state.data[i]

LEMMA LineFound ==
  ASSUME NEW s, NEW file, IsSearch(s, file), NEW state, AtLine(s, file, state)
  PROVE  \E b, k, e, f, ended, line :
           InLine(s, file, state, b, k) /\ HasLine(file, state, b, k, e, f, ended, line)
<1>1. PICK data, last, lo : data = state.data /\ last = state.last /\ lo = state.line_start
  OBVIOUS
<1>2. PICK b, k : InLine(s, file, state, b, k)
  BY DEF AtLine, InLine
<1>3. Reading(file, data, lo, last, b) /\ IsSum(k, b, lo)
  BY <1>1, <1>2 DEF InLine
<1>4. PICK e : e = LineEnd(data, last, lo)
  OBVIOUS
<1>5. /\ e \in lo .. last /\ \A i \in lo .. e - 1 : data[i] # NEWLINE
      /\ data[e] = NEWLINE <=> e < last
  BY <1>3, <1>4, LineEndIs
<1>6. PICK f, ended, line : IsSum(f, b, e) /\ IsEnded(ended, data, e) /\ line = Text(ended, lo)
  BY DEF IsSum, IsEnded
<1>7. /\ Text(ended, lo) = SubSeq(file, k + 1, f) /\ NoNewline(file, k, f)
      /\ ended \in [0 .. BUFSIZE -> Nat] /\ ended[e] = END_OF_LINE
      /\ \A i \in 0 .. BUFSIZE : i # e => ended[i] = data[i]
  BY <1>3, <1>5, <1>6, LineIs
<1>8. HasLine(file, state, b, k, e, f, ended, line)
  BY <1>1, <1>4, <1>5, <1>6, <1>7 DEF HasLine
<1>. QED  BY <1>2, <1>8

\* Zero is not a newline.
LEMMA EndedRead ==
  ASSUME NEW file, NEW data, NEW lo, NEW last, NEW b, Reading(file, data, lo, last, b),
         NEW e \in lo .. last, \A i \in lo .. e - 1 : data[i] # NEWLINE,
         NEW ended, ended[e] = END_OF_LINE, \A i \in 0 .. BUFSIZE : i # e => ended[i] = data[i]
  PROVE  \A i \in 0 .. BUFSIZE : i \notin e + 1 .. last - 1 => ended[i] # NEWLINE
<1>1. /\ last \in 0 .. BUFSIZE /\ lo \in 0 .. last /\ BUFSIZE \in Nat
      /\ \A i \in 0 .. BUFSIZE : i \notin lo .. last - 1 => data[i] # NEWLINE
  BY BufferAssumption DEF Reading
<1>2. END_OF_LINE # NEWLINE
  BY DEF END_OF_LINE, NEWLINE
<1>3. ASSUME NEW i \in 0 .. BUFSIZE, i \notin e + 1 .. last - 1 PROVE ended[i] # NEWLINE
  <2>1. CASE i = e
    BY <1>2, <2>1
  <2>2. CASE i # e
    <3>1. i \in lo .. e - 1 \/ i \notin lo .. last - 1
      BY <1>1, <1>3, <2>2
    <3>. QED  BY <1>1, <2>2, <3>1
  <2>. QED  BY <2>1, <2>2
<1>. QED  BY <1>3

LEMMA IncompleteAdvances ==
  ASSUME NEW s, NEW file, IsSearch(s, file), NEW state, AtLine(s, file, state),
         Incomplete(state.data, state.last, state.cnt, state.line_start)
  PROVE  AtRead(s, file, SearchLine(s, state)) /\ Advances(file, state, SearchLine(s, state))
<1>1. PICK data, last, lo, pos, cnt, l :
        /\ data = state.data /\ last = state.last /\ lo = state.line_start
        /\ pos = state.pos /\ cnt = state.cnt /\ l = Len(file)
  OBVIOUS
<1>2. PICK b, k, e, f, ended, line :
        InLine(s, file, state, b, k) /\ HasLine(file, state, b, k, e, f, ended, line)
  BY LineFound
<1>3. /\ state.at = "line" /\ Reading(file, data, lo, last, b)
      /\ IsSum(pos, b, last) /\ IsSum(k, b, lo) /\ IsFull(file, cnt, pos, last)
      /\ Stands(s, file, state.printed, k, lo)
  BY <1>1, <1>2 DEF InLine
<1>4. /\ e = LineEnd(data, last, lo) /\ e \in lo .. last
      /\ \A i \in lo .. e - 1 : data[i] # NEWLINE
      /\ data[e] = NEWLINE <=> e < last
      /\ IsSum(f, b, e) /\ IsEnded(ended, data, e) /\ line = Text(ended, lo)
      /\ line = SubSeq(file, k + 1, f) /\ NoNewline(file, k, f)
      /\ ended \in [0 .. BUFSIZE -> Nat] /\ ended[e] = END_OF_LINE
      /\ \A i \in 0 .. BUFSIZE : i # e => ended[i] = data[i]
  BY <1>1, <1>2 DEF HasLine
<1>5. data[e] # NEWLINE /\ cnt # 0 /\ lo # 0
  BY <1>1, <1>4 DEF Incomplete
<1>6. /\ last \in 0 .. BUFSIZE /\ lo \in 0 .. last /\ b \in Nat /\ BUFSIZE \in Nat /\ l \in Nat
      /\ file \in Seq(Nat) /\ pos = b + last /\ k = b + lo /\ f = b + e /\ b + last <= l
  BY <1>1, <1>3, <1>4, BufferAssumption DEF Reading, IsSum, IsSearch
<1>7. PICK m : m = last - lo
  OBVIOUS
<1>8. /\ e = last /\ f = pos /\ m \in Nat /\ m < BUFSIZE /\ k + m = pos /\ pos <= l /\ k \in Nat /\ k <= f
      /\ m \in 0 .. BUFSIZE /\ 0 \in 0 .. m /\ pos \in Nat /\ f - k = m
  <2>1. e = last
    <3>1. e \in lo .. last /\ ~ (e < last)
      BY <1>4, <1>5
    <3>. QED  BY <1>6, <3>1
  <2>2. lo \in Nat /\ lo > 0 /\ last \in Nat /\ lo <= last /\ last <= BUFSIZE
    BY <1>5, <1>6
  <2>3. m \in Nat /\ m < BUFSIZE /\ f = pos /\ pos \in Nat /\ k \in Nat /\ k + m = pos
    BY <1>6, <1>7, <2>1, <2>2
  <2>. QED  BY <1>6, <2>1, <2>3
<1>9. line \in Seq(Nat) /\ Len(line) = m /\ \A j \in 1 .. m : line[j] = file[k + j]
  <2>1. f <= Len(file) /\ f \in Nat
    BY <1>1, <1>8
  <2>2. /\ SubSeq(file, k + 1, f) \in Seq(Nat) /\ Len(SubSeq(file, k + 1, f)) = f - k
        /\ \A j \in 1 .. f - k : SubSeq(file, k + 1, f)[j] = file[k + j]
    BY <1>6, <1>8, <2>1, SliceFacts
  <2>. QED  BY <1>4, <1>8, <2>2
<1>10. PICK next, bytes, moved :
         /\ next = SearchLine(s, state) /\ bytes = Append(line, END_OF_LINE)
         /\ moved = Put(ended, 0, bytes)
  OBVIOUS
<1>11. /\ next.at = "read" /\ next.data = moved /\ next.last = m
       /\ next.cnt = cnt /\ next.pos = pos /\ next.printed = state.printed
  BY <1>1, <1>4, <1>7, <1>10 DEF SearchLine, IsEnded
<1>12. /\ Len(bytes) = m + 1 /\ bytes[m + 1] = END_OF_LINE
       /\ \A j \in 1 .. m : bytes[j] = file[k + j]
  <2>1. END_OF_LINE \in Nat
    BY DEF END_OF_LINE
  <2>. QED  BY <1>9, <1>10, <2>1
<1>13. \A i \in 0 .. BUFSIZE : ended[i] # NEWLINE
  <2>1. \A i \in 0 .. BUFSIZE : i \notin e + 1 .. last - 1 => ended[i] # NEWLINE
    <3>1. /\ e \in lo .. last /\ \A i \in lo .. e - 1 : data[i] # NEWLINE
          /\ ended[e] = END_OF_LINE /\ \A i \in 0 .. BUFSIZE : i # e => ended[i] = data[i]
      BY <1>4
    <3>. QED  BY <1>3, <3>1, EndedRead
  <2>2. \A i \in 0 .. BUFSIZE : i \notin e + 1 .. last - 1
    BY <1>6, <1>8
  <2>. QED  BY <2>1, <2>2
<1>14. \A i \in 0 .. m - 1 : moved[i] = file[k + i + 1] /\ moved[i] \in Nat /\ moved[i] # NEWLINE
  <2>1. ASSUME NEW i \in 0 .. m - 1 PROVE moved[i] = file[k + i + 1] /\ moved[i] \in Nat /\ moved[i] # NEWLINE
    <3>1. /\ i \in 0 .. BUFSIZE /\ i \in 0 .. 0 + (m + 1) - 1 /\ i - 0 + 1 = i + 1
          /\ i + 1 \in 1 .. m /\ k + i \in k .. f - 1 /\ k + (i + 1) = k + i + 1
      BY <1>6, <1>8
    <3>2. moved[i] = bytes[i + 1]
      BY <1>4, <1>10, <1>12, <3>1 DEF Put
    <3>3. bytes[i + 1] = file[k + (i + 1)]
      BY <1>12, <3>1
    <3>4. file[(k + i) + 1] # NEWLINE
      BY <1>4, <3>1 DEF NoNewline
    <3>5. k + i + 1 \in 1 .. Len(file)
      <4>1. i \in Nat /\ i + 1 <= m
        BY <1>8
      <4>2. k + i + 1 \in Nat /\ k + i + 1 <= pos /\ 1 <= k + i + 1
        BY <1>8, <4>1
      <4>3. k + i + 1 \in 1 .. l
        BY <1>6, <1>8, <4>2
      <4>. QED  BY <1>1, <4>3
    <3>. QED  BY <1>6, <3>1, <3>2, <3>3, <3>4, <3>5
  <2>. QED  BY <2>1
<1>15. moved[m] = END_OF_LINE
  <2>1. m \in 0 .. 0 + (m + 1) - 1 /\ m - 0 + 1 = m + 1
    BY <1>8
  <2>. QED  BY <1>4, <1>8, <1>10, <1>12, <2>1 DEF Put
<1>16. \A i \in 0 .. BUFSIZE : i \notin 0 .. m => moved[i] = ended[i]
  <2>1. \A i \in 0 .. BUFSIZE : i \notin 0 .. m => i \notin 0 .. 0 + (m + 1) - 1
    BY <1>8
  <2>. QED  BY <1>4, <1>10, <1>12, <2>1 DEF Put
<1>17. moved \in [0 .. BUFSIZE -> Nat] /\ AllRead(moved)
  <2>1. ASSUME NEW i \in 0 .. BUFSIZE PROVE moved[i] \in Nat /\ moved[i] # NEWLINE
    <3>1. CASE i \in 0 .. m - 1
      BY <1>14, <3>1
    <3>2. CASE i = m
      BY <1>15, <3>2 DEF END_OF_LINE, NEWLINE
    <3>3. CASE i \notin 0 .. m
      BY <1>4, <1>13, <1>16, <3>3
    <3>4. i \in 0 .. m - 1 \/ i = m \/ i \notin 0 .. m
      BY <1>8
    <3>. QED  BY <3>1, <3>2, <3>3, <3>4
  <2>2. moved = [i \in 0 .. BUFSIZE |-> moved[i]]
    BY <1>4, <1>10 DEF Put
  <2>. QED  BY <2>1, <2>2 DEF AllRead
<1>18. Reading(file, moved, 0, m, k)
  <2>1. k + m <= Len(file)
    BY <1>1, <1>8
  <2>. QED  BY <1>8, <1>14, <1>17, <2>1 DEF Reading, AllRead
<1>19. Stands(s, file, state.printed, k, m)
  BY <1>3, <1>5 DEF Stands
<1>20. AtRead(s, file, next)
  <2>1. IsSum(pos, k, m) /\ m # BUFSIZE
    BY <1>8 DEF IsSum
  <2>. QED  BY <1>11, <1>17, <1>18, <1>19, <2>1 DEF AtRead
<1>21. Advances(file, state, next)
  <2>1. Left(file, state) = 3 * (l - pos) + (last - lo) + 3
    BY <1>1, <1>3, <1>5 DEF Left
  <2>2. Left(file, next) = 3 * (l - pos) + m + 2
    BY <1>1, <1>11 DEF Left
  <2>. QED  BY <1>6, <1>7, <1>8, <2>1, <2>2 DEF Advances
<1>. QED  BY <1>10, <1>20, <1>21

\* What is searched as a line is one, from where the search stands.
LEMMA SearchedEnds ==
  ASSUME NEW s, NEW file, IsSearch(s, file), NEW state, NEW b, NEW k, InLine(s, file, state, b, k),
         NEW e, NEW f, NEW ended, NEW line, HasLine(file, state, b, k, e, f, ended, line),
         ~ Incomplete(state.data, state.last, state.cnt, state.line_start)
  PROVE  IsEnd(file, k, f)
<1>1. PICK data, last, lo, pos, cnt, l :
        /\ data = state.data /\ last = state.last /\ lo = state.line_start
        /\ pos = state.pos /\ cnt = state.cnt /\ l = Len(file)
  OBVIOUS
<1>2. /\ Reading(file, data, lo, last, b)
      /\ IsSum(pos, b, last) /\ IsSum(k, b, lo) /\ IsFull(file, cnt, pos, last)
      /\ Stands(s, file, state.printed, k, lo)
  BY <1>1 DEF InLine
<1>3. /\ e = LineEnd(data, last, lo) /\ e \in lo .. last
      /\ data[e] = NEWLINE <=> e < last
      /\ IsSum(f, b, e) /\ NoNewline(file, k, f)
  BY <1>1 DEF HasLine
<1>4. data[e] = NEWLINE \/ cnt = 0 \/ lo = 0
  BY <1>1, <1>3 DEF Incomplete
<1>5. /\ last \in 0 .. BUFSIZE /\ lo \in 0 .. last /\ b \in Nat /\ BUFSIZE \in Nat \ {0} /\ l \in Nat
      /\ file \in Seq(Nat) /\ pos = b + last /\ k = b + lo /\ f = b + e /\ b + last <= l
      /\ \A i \in lo .. last - 1 : data[i] = file[b + i + 1]
  BY <1>1, <1>2, <1>3, BufferAssumption DEF Reading, IsSum, IsSearch
<1>6. /\ e \in Nat /\ lo \in Nat /\ last \in Nat /\ k \in Nat /\ f \in Nat /\ pos \in Nat
      /\ lo <= e /\ e <= last /\ k <= f /\ f <= pos /\ pos <= l
  BY <1>3, <1>5
<1>7. EndsAt(file, f)
  <2>1. CASE e < last
    <3>1. e \in lo .. last - 1 /\ b + e + 1 = f + 1
      BY <1>5, <1>6, <2>1
    <3>2. file[f + 1] = NEWLINE
      BY <1>3, <1>5, <2>1, <3>1
    <3>. QED  BY <3>2 DEF EndsAt
  <2>2. CASE f = l
    BY <1>1, <2>2 DEF EndsAt
  <2>3. CASE e = last /\ f # l
    <3>1. f = pos /\ pos # l /\ last = BUFSIZE /\ cnt # 0
      BY <1>1, <1>2, <1>5, <2>3 DEF IsFull
    <3>2. lo = 0 /\ k = b /\ f = k + BUFSIZE
      <4>1. ~ (e < last)
        BY <1>6, <2>3
      <4>. QED  BY <1>3, <1>4, <1>5, <1>6, <2>3, <3>1, <4>1
    <3>3. CASE k \in LineStarts(file)
      <4>1. PICK g : g = EndFrom(file, k)
        OBVIOUS
      <4>2. IsEnd(file, k, g)
        <5>1. k \in 0 .. Len(file)
          BY <1>2 DEF Stands
        <5>. QED  BY <1>5, <4>1, <5>1, EndFromIs
      <4>3. g - k <= BUFSIZE
        BY <3>3, <4>1 DEF IsSearch, LinesFit
      <4>4. g \in Nat /\ k <= g /\ g <= f /\ EndsAt(file, g)
        BY <1>5, <1>6, <3>2, <4>2, <4>3 DEF IsEnd
      <4>5. g = f
        <5>1. SUFFICES ASSUME g < f PROVE FALSE
          BY <1>6, <4>4
        <5>2. g \in k .. f - 1 /\ g # l
          BY <1>6, <4>4, <5>1
        <5>3. file[g + 1] # NEWLINE
          BY <1>3, <5>2 DEF NoNewline
        <5>. QED  BY <1>1, <4>4, <5>2, <5>3 DEF EndsAt
      <4>. QED  BY <4>4, <4>5
    <3>4. CASE EndsAt(file, k)
      <4>1. k \in k .. f - 1 /\ k # l
        BY <1>5, <1>6, <3>2
      <4>2. file[k + 1] # NEWLINE
        BY <1>3, <4>1 DEF NoNewline
      <4>. QED  BY <1>1, <3>4, <4>1, <4>2 DEF EndsAt
    <3>. QED  BY <1>2, <3>3, <3>4 DEF Stands
  <2>. QED  BY <1>6, <2>1, <2>2, <2>3
<1>. QED  BY <1>1, <1>3, <1>6, <1>7 DEF IsEnd

LEMMA LineAdvances ==
  ASSUME NEW s, NEW file, IsSearch(s, file), NEW state, AtLine(s, file, state),
         ~ Incomplete(state.data, state.last, state.cnt, state.line_start),
         NEW next, next = SearchLine(s, state)
  PROVE  /\ AtLine(s, file, next) \/ AtRead(s, file, next) \/ AtEnd(s, file, next)
         /\ Advances(file, state, next)
<1>1. PICK data, last, lo, pos, cnt, l :
        /\ data = state.data /\ last = state.last /\ lo = state.line_start
        /\ pos = state.pos /\ cnt = state.cnt /\ l = Len(file)
  OBVIOUS
<1>2. PICK b, k, e, f, ended, line :
        InLine(s, file, state, b, k) /\ HasLine(file, state, b, k, e, f, ended, line)
  BY LineFound
<1>3. /\ state.at = "line" /\ Reading(file, data, lo, last, b)
      /\ IsSum(pos, b, last) /\ IsSum(k, b, lo) /\ IsFull(file, cnt, pos, last)
      /\ Stands(s, file, state.printed, k, lo)
  BY <1>1, <1>2 DEF InLine
<1>4. /\ e = LineEnd(data, last, lo) /\ e \in lo .. last
      /\ \A i \in lo .. e - 1 : data[i] # NEWLINE
      /\ data[e] = NEWLINE <=> e < last
      /\ IsSum(f, b, e) /\ IsEnded(ended, data, e) /\ line = Text(ended, lo)
      /\ line = SubSeq(file, k + 1, f)
      /\ ended \in [0 .. BUFSIZE -> Nat] /\ ended[e] = END_OF_LINE
      /\ \A i \in 0 .. BUFSIZE : i # e => ended[i] = data[i]
  BY <1>1, <1>2 DEF HasLine
<1>5. IsEnd(file, k, f)
  BY <1>2, SearchedEnds
<1>6. PICK printed : printed = IF Found(s, line) THEN Append(state.printed, line) ELSE state.printed
  OBVIOUS
<1>7. Shown(printed, s, file, f) /\ Shown(printed, s, file, f + 1)
  <2>1. /\ k \in 0 .. Len(file) /\ Shown(state.printed, s, file, k)
        /\ k \in LineStarts(file) \/ EndsAt(file, k)
    BY <1>3 DEF Stands
  <2>2. line = SubSeq(file, k + 1, f)
    BY <1>4
  <2>. QED  BY <1>5, <1>6, <2>1, <2>2, LineSearched
<1>8. /\ last \in 0 .. BUFSIZE /\ lo \in 0 .. last /\ b \in Nat /\ BUFSIZE \in Nat \ {0} /\ l \in Nat
      /\ file \in Seq(Nat) /\ pos = b + last /\ k = b + lo /\ f = b + e /\ b + last <= l
      /\ \A i \in lo .. last - 1 : data[i] = file[b + i + 1]
  BY <1>1, <1>3, <1>4, BufferAssumption DEF Reading, IsSum, IsSearch
<1>9. /\ e \in Nat /\ lo \in Nat /\ last \in Nat /\ k \in Nat /\ f \in Nat /\ pos \in Nat
      /\ lo <= e /\ e <= last /\ k <= f /\ f <= pos /\ pos <= l
  <2>1. e \in lo .. last
    BY <1>4
  <2>. QED  BY <1>8, <2>1
<1>10. cnt \in Nat /\ (cnt = 0 => pos = l)
  BY <1>1, <1>3 DEF IsFull
<1>11. PICK over : over = IF e + 1 >= last THEN 1 ELSE 0
  OBVIOUS
<1>12. /\ next.at = IF over = 0 THEN "line" ELSE IF cnt # 0 THEN "read" ELSE "done"
       /\ next.data = ended /\ next.last = IF over = 1 THEN 0 ELSE last
       /\ next.cnt = cnt /\ next.pos = pos /\ next.line_start = e + 1 /\ next.printed = printed
  <2>1. next = [at |-> IF ~ (e + 1 >= last) THEN "line" ELSE IF cnt # 0 THEN "read" ELSE "done",
                data |-> ended, last |-> IF e + 1 >= last THEN 0 ELSE last, cnt |-> cnt, pos |-> pos,
                line_start |-> e + 1, printed |-> printed]
    <3>1. /\ e = LineEnd(data, last, lo) /\ ended = [data EXCEPT ![e] = END_OF_LINE]
          /\ line = Text(ended, lo)
      BY <1>4 DEF IsEnded
    <3>2. ~ Incomplete(data, last, cnt, lo)
      BY <1>1
    <3>. QED  BY <1>1, <1>6, <3>1, <3>2, Zenon DEF SearchLine
  <2>. QED  BY <1>11, <2>1
<1>13. \A i \in 0 .. BUFSIZE : i \notin e + 1 .. last - 1 => ended[i] # NEWLINE
  <2>1. /\ e \in lo .. last /\ \A i \in lo .. e - 1 : data[i] # NEWLINE
        /\ ended[e] = END_OF_LINE /\ \A i \in 0 .. BUFSIZE : i # e => ended[i] = data[i]
    BY <1>4
  <2>. QED  BY <1>3, <2>1, EndedRead
<1>14. e < last => file[f + 1] = NEWLINE /\ f + 1 \in 0 .. l /\ f + 1 \in LineStarts(file)
  <2>1. SUFFICES ASSUME e < last
                 PROVE  file[f + 1] = NEWLINE /\ f + 1 \in 0 .. l /\ f + 1 \in LineStarts(file)
    OBVIOUS
  <2>2. e \in lo .. last - 1 /\ b + e + 1 = f + 1 /\ f + 1 \in 0 .. l
    BY <1>8, <1>9, <2>1
  <2>3. file[f + 1] = NEWLINE
    BY <1>4, <1>8, <2>1, <2>2
  <2>. QED  BY <1>1, <2>2, <2>3 DEF LineStarts
<1>15. CASE e + 1 < last
  <2>1. over = 0
    BY <1>9, <1>11, <1>15
  <2>2. next.at = "line" /\ next.last = last
    BY <1>12, <2>1
  <2>3. Reading(file, ended, e + 1, last, b)
    <3>1. e + 1 \in 0 .. last /\ b + last <= Len(file)
      BY <1>1, <1>8, <1>9, <1>15
    <3>2. \A i \in e + 1 .. last - 1 : i \in lo .. last - 1 /\ i \in 0 .. BUFSIZE /\ i # e
      BY <1>8, <1>9
    <3>3. \A i \in e + 1 .. last - 1 : ended[i] = file[b + i + 1]
      BY <1>4, <1>8, <3>2
    <3>. QED  BY <1>4, <1>8, <1>13, <3>1, <3>3 DEF Reading
  <2>4. PICK m : m = f + 1
    OBVIOUS
  <2>5. IsSum(m, b, e + 1)
    BY <1>8, <1>9, <2>4 DEF IsSum
  <2>6. Stands(s, file, printed, m, e + 1)
    <3>1. e < last
      BY <1>9, <1>15
    <3>. QED  BY <1>1, <1>7, <1>14, <2>4, <3>1 DEF Stands
  <2>7. AtLine(s, file, next)
    BY <1>1, <1>3, <1>12, <1>15, <2>2, <2>3, <2>5, <2>6 DEF AtLine
  <2>8. Advances(file, state, next)
    <3>1. PICK more : more = IF cnt = 0 THEN 1 ELSE 3
      OBVIOUS
    <3>2. Left(file, state) = 3 * (l - pos) + (last - lo) + more
      BY <1>1, <1>3, <3>1 DEF Left
    <3>3. Left(file, next) = 3 * (l - pos) + (last - (e + 1)) + more
      BY <1>1, <1>12, <2>2, <3>1 DEF Left
    <3>4. more \in Nat
      BY <3>1
    <3>5. l - pos \in Nat /\ last - (e + 1) \in Nat /\ last - (e + 1) < last - lo /\ last - lo \in Nat
      BY <1>8, <1>9, <1>15
    <3>. QED  BY <3>2, <3>3, <3>4, <3>5 DEF Advances
  <2>. QED  BY <2>7, <2>8
<1>16. CASE e + 1 >= last
  <2>1. over = 1
    BY <1>11, <1>16
  <2>2. next.at = (IF cnt # 0 THEN "read" ELSE "done") /\ next.last = 0
    BY <1>12, <2>1
  <2>3. Stands(s, file, printed, pos, 0)
    <3>1. CASE e = last
      <4>1. f = pos
        BY <1>8, <3>1
      <4>2. EndsAt(file, f)
        BY <1>5 DEF IsEnd
      <4>. QED  BY <1>1, <1>7, <1>8, <1>9, <4>1, <4>2 DEF Stands
    <3>2. CASE e # last
      <4>1. f + 1 = pos /\ e < last
        BY <1>8, <1>9, <1>16, <3>2
      <4>. QED  BY <1>1, <1>7, <1>14, <4>1 DEF Stands
    <3>. QED  BY <3>1, <3>2
  <2>4. CASE cnt # 0
    <3>1. AllRead(ended)
      <4>1. \A i \in 0 .. BUFSIZE : i \notin e + 1 .. last - 1
        BY <1>8, <1>9, <1>16
      <4>. QED  BY <1>13, <4>1 DEF AllRead
    <3>2. Reading(file, ended, 0, 0, pos)
      <4>1. 0 \in 0 .. BUFSIZE /\ 0 \in 0 .. 0 /\ pos + 0 <= Len(file)
        BY <1>1, <1>8, <1>9
      <4>. QED  BY <1>4, <1>9, <3>1, <4>1 DEF Reading, AllRead
    <3>3. IsSum(pos, pos, 0) /\ 0 # BUFSIZE
      BY <1>8, <1>9 DEF IsSum
    <3>4. AtRead(s, file, next)
      BY <1>12, <2>2, <2>3, <2>4, <3>1, <3>2, <3>3 DEF AtRead
    <3>5. Advances(file, state, next)
      <4>1. Left(file, state) = 3 * (l - pos) + (last - lo) + 3
        BY <1>1, <1>3, <2>4 DEF Left
      <4>2. Left(file, next) = 3 * (l - pos) + 0 + 2
        BY <1>1, <1>12, <2>2, <2>4 DEF Left
      <4>. QED  BY <1>8, <1>9, <4>1, <4>2 DEF Advances
    <3>. QED  BY <3>4, <3>5
  <2>5. CASE cnt = 0
    <3>1. AtEnd(s, file, next)
      BY <1>1, <1>10, <1>12, <2>2, <2>3, <2>5 DEF AtEnd, Stands
    <3>2. Advances(file, state, next)
      <4>1. Left(file, state) = 3 * (l - pos) + (last - lo) + 1
        BY <1>1, <1>3, <2>5 DEF Left
      <4>2. Left(file, next) = 0
        BY <2>2, <2>5 DEF Left
      <4>. QED  BY <1>8, <1>9, <4>1, <4>2 DEF Advances
    <3>. QED  BY <3>1, <3>2
  <2>. QED  BY <2>4, <2>5
<1>. QED  BY <1>9, <1>15, <1>16

-----------------------------------------------------------------------------
(***************************************************************************)
(* All the steps: they follow the invariant until the search ends, and it  *)
(* does within MostSteps.                                                  *)
(***************************************************************************)
Searching(s, file, state) == AtRead(s, file, state) \/ AtLine(s, file, state)

LEMMA OnwardAdvances ==
  ASSUME NEW s, NEW file, IsSearch(s, file), NEW state, Searching(s, file, state),
         NEW next, next = Onward(s, file, state)
  PROVE  (Searching(s, file, next) \/ AtEnd(s, file, next)) /\ Advances(file, state, next)
<1>1. CASE AtRead(s, file, state)
  <2>1. next = ReadOn(file, state)
    <3>1. state.at = "read"
      BY <1>1 DEF AtRead
    <3>. QED  BY <3>1 DEF Onward
  <2>. QED  BY <1>1, <2>1, ReadAdvances DEF Searching
<1>2. CASE AtLine(s, file, state)
  <2>1. next = SearchLine(s, state)
    <3>1. state.at = "line"
      BY <1>2 DEF AtLine
    <3>. QED  BY <3>1 DEF Onward
  <2>2. CASE Incomplete(state.data, state.last, state.cnt, state.line_start)
    BY <1>2, <2>1, <2>2, IncompleteAdvances DEF Searching
  <2>3. CASE ~ Incomplete(state.data, state.last, state.cnt, state.line_start)
    BY <1>2, <2>1, <2>3, LineAdvances DEF Searching
  <2>. QED  BY <2>2, <2>3
<1>. QED  BY <1>1, <1>2 DEF Searching

\* The states of the loops up to one that follows from the first by n steps.
StepsOn(st, s, file, n) == \A i \in 1 .. n : st[i] = Onward(s, file, st[i - 1])

LEMMA DoOneFileIs ==
  ASSUME NEW s, NEW file, NEW data, NEW n \in Nat, MostSteps(file) = n
  PROVE  \E st : /\ st[0] = Beginning(data) /\ StepsOn(st, s, file, n)
                 /\ do_one_file(s, file, data) = st[n]
<1>. DEFINE start == Beginning(data)
            Step(x) == Onward(s, file, x)
            Upto(f, k) == f[0] = start /\ \A i \in 1 .. k : f[i] = Step(f[i - 1])
            D == {k \in 0 .. n : ~ \E f : Upto(f, k)}
            Is(f) == f = [i \in 0 .. n |-> IF i = 0 THEN start ELSE Step(f[i - 1])]
            state == CHOOSE f : Is(f)
<1>1. do_one_file(s, file, data) = state[n]
  BY DEF do_one_file
<1>. HIDE DEF start, Step
<1>2. ASSUME D # {} PROVE FALSE
  <2>1. D \subseteq Nat
    OBVIOUS
  <2>2. PICK m \in D : \A k \in D : m <= k
    <3>. HIDE DEF D
    <3>. QED  BY <1>2, <2>1, LeastOf
  <2>3. m # 0
    <3>1. Upto([i \in 0 .. 0 |-> start], 0)
      OBVIOUS
    <3>. QED  BY <3>1
  <2>4. m \in 1 .. n /\ m - 1 \in 0 .. n /\ m - 1 \notin D
    <3>1. m \in 0 .. n
      OBVIOUS
    <3>. HIDE DEF D
    <3>. QED  BY <2>2, <2>3, <3>1
  <2>5. PICK f : Upto(f, m - 1)
    BY <2>4
  <2>. DEFINE h == [i \in 0 .. m |-> IF i = m THEN Step(f[m - 1]) ELSE f[i]]
  <2>6. h[0] = start
    BY <2>4, <2>5
  <2>7. ASSUME NEW i \in 1 .. m PROVE h[i] = Step(h[i - 1])
    <3>1. i - 1 \in 0 .. m /\ i - 1 # m /\ h[i - 1] = f[i - 1]
      BY <2>4
    <3>2. CASE i = m
      BY <3>1, <3>2
    <3>3. CASE i # m
      <4>1. i \in 1 .. m - 1 /\ h[i] = f[i]
        BY <2>4, <3>3
      <4>. QED  BY <2>5, <3>1, <4>1
    <3>. QED  BY <3>2, <3>3
  <2>8. m \notin D
    <3>. HIDE DEF h
    <3>. QED  BY <2>6, <2>7
  <2>. QED  BY <2>8
<1>3. PICK f : Upto(f, n)
  <2>1. n \in 0 .. n
    OBVIOUS
  <2>2. n \notin D
    <3>. HIDE DEF D
    <3>. QED  BY <1>2
  <2>. QED  BY <2>1, <2>2
<1>. DEFINE h == [i \in 0 .. n |-> f[i]]
<1>4. Is(h)
  <2>1. \A i \in 0 .. n : h[i] = IF i = 0 THEN start ELSE Step(h[i - 1])
    BY <1>3
  <2>. QED  BY <2>1
<1>5. Is(state)
  <2>. HIDE DEF Is, h
  <2>. QED  BY <1>4, Zenon
<1>. HIDE DEF state
<1>6. /\ state[0] = start
      /\ \A i \in 1 .. n : state[i] = Step(state[i - 1])
  BY <1>5
<1>7. StepsOn(state, s, file, n)
  BY <1>6 DEF StepsOn, Step
<1>. QED  BY <1>1, <1>6, <1>7 DEF start

LEMMA BeginningIs ==
  ASSUME NEW s, NEW file, IsSearch(s, file), NEW old \in [0 .. BUFSIZE -> Nat \ {NEWLINE}]
  PROVE  AtRead(s, file, Beginning(old)) /\ Left(file, Beginning(old)) = MostSteps(file)
<1>1. PICK state : state = Beginning(old)
  OBVIOUS
<1>2. /\ state.at = "read" /\ state.data = old /\ state.last = 0 /\ state.cnt = 0 /\ state.pos = 0
      /\ state.line_start = 0 /\ state.printed = <<>>
  BY <1>1 DEF Beginning
<1>3. file \in Seq(Nat) /\ Len(file) \in Nat /\ BUFSIZE \in Nat \ {0}
  BY BufferAssumption DEF IsSearch
<1>4. AllRead(old)
  BY DEF AllRead
<1>5. Reading(file, old, 0, 0, 0)
  <2>1. old \in [0 .. BUFSIZE -> Nat]
    OBVIOUS
  <2>2. 0 \in 0 .. BUFSIZE /\ 0 \in 0 .. 0 /\ 0 + 0 <= Len(file)
    BY <1>3
  <2>. QED  BY <1>4, <2>1, <2>2 DEF Reading, AllRead
<1>6. Shown(<<>>, s, file, 0)
  <2>1. PICK none : none = [i \in 1 .. 0 |-> i]
    OBVIOUS
  <2>2. none \in [1 .. 0 -> Matching(s, file)]
    BY <2>1
  <2>3. \A j \in Matching(s, file) : ~ (j < 0)
    <3>1. \A j \in 0 .. Len(file) : ~ (j < 0)
      OBVIOUS
    <3>. QED  BY <3>1 DEF Matching, LineStarts
  <2>4. PICK n, empty : n = 0 /\ empty = <<>>
    OBVIOUS
  <2>5. n \in Nat /\ Len(empty) = n /\ empty \in Seq(Seq(Nat)) /\ none \in [1 .. n -> Matching(s, file)]
    BY <2>2, <2>4
  <2>6. /\ \A i \in 1 .. n : empty[i] = LineAt(file, none[i]) /\ none[i] < 0
        /\ \A i \in 2 .. n : none[i - 1] < none[i]
        /\ \A j \in Matching(s, file) : j < 0 => \E i \in 1 .. n : none[i] = j
    BY <2>3, <2>4
  <2>7. Shown(empty, s, file, 0)
    BY <2>5, <2>6 DEF Shown
  <2>. QED  BY <2>4, <2>7
<1>7. Stands(s, file, <<>>, 0, 0)
  BY <1>3, <1>6 DEF Stands, LineStarts
<1>8. AtRead(s, file, state)
  <2>1. IsSum(0, 0, 0)
    BY DEF IsSum
  <2>. QED  BY <1>2, <1>3, <1>4, <1>5, <1>7, <2>1 DEF AtRead
<1>9. Left(file, state) = MostSteps(file)
  BY <1>2, <1>3 DEF Left, MostSteps
<1>. QED  BY <1>1, <1>8, <1>9

LEMMA SearchEnds ==
  ASSUME NEW s, NEW file, IsSearch(s, file), NEW old \in [0 .. BUFSIZE -> Nat \ {NEWLINE}]
  PROVE  AtEnd(s, file, do_one_file(s, file, old))
<1>1. PICK n \in Nat : n = MostSteps(file)
  BY DEF IsSearch, MostSteps
<1>2. PICK st : /\ st[0] = Beginning(old) /\ StepsOn(st, s, file, n)
                /\ do_one_file(s, file, old) = st[n]
  BY <1>1, DoOneFileIs
<1>. DEFINE InTime(i) == \/ AtEnd(s, file, st[i])
                         \/ /\ Searching(s, file, st[i]) /\ Left(file, st[i]) \in Nat
                            /\ Left(file, st[i]) + i <= n
<1>3. InTime(0)
  BY <1>1, <1>2, BeginningIs DEF Searching
<1>4. ASSUME NEW i \in 1 .. n, InTime(i - 1) PROVE InTime(i)
  <2>1. PICK x, y : x = st[i - 1] /\ y = st[i]
    OBVIOUS
  <2>2. y = Onward(s, file, x)
    BY <1>2, <2>1 DEF StepsOn
  <2>3. CASE AtEnd(s, file, x)
    <3>1. y = x
      BY <2>2, <2>3 DEF AtEnd, Onward
    <3>. QED  BY <2>1, <2>3, <3>1
  <2>4. CASE Searching(s, file, x) /\ Left(file, x) \in Nat /\ Left(file, x) + (i - 1) <= n
    <3>1. (Searching(s, file, y) \/ AtEnd(s, file, y)) /\ Advances(file, x, y)
      BY <2>2, <2>4, OnwardAdvances
    <3>2. Left(file, y) \in Nat /\ Left(file, y) + i <= n
      BY <2>4, <3>1 DEF Advances
    <3>. QED  BY <2>1, <3>1, <3>2
  <2>. QED  BY <1>4, <2>1, <2>3, <2>4
<1>5. InTime(n)
  <2>. HIDE DEF InTime
  <2>0. n \in 0 .. n /\ 0 \in 0 .. n
    BY <1>1
  <2>1. PICK f, g : /\ f = [i \in 0 .. n |-> IF InTime(i) THEN 0 ELSE 1]
                    /\ g = [i \in 0 .. n |-> 0]
    OBVIOUS
  <2>2. f[0] = g[0]
    BY <1>3, <2>0, <2>1
  <2>3. ASSUME NEW i \in 1 .. n, f[i - 1] = g[i - 1] PROVE f[i] = g[i]
    <3>1. i - 1 \in 0 .. n /\ i \in 0 .. n
      BY <1>1
    <3>2. InTime(i - 1)
      BY <2>1, <2>3, <3>1
    <3>3. InTime(i)
      BY <1>4, <3>2
    <3>. QED  BY <2>1, <3>1, <3>3
  <2>4. f[n] = g[n]
    BY <1>1, <2>2, <2>3, Agree
  <2>. QED  BY <2>0, <2>1, <2>4
<1>6. ASSUME Searching(s, file, st[n]), Left(file, st[n]) \in Nat, Left(file, st[n]) + n <= n PROVE FALSE
  <2>1. PICK next : next = Onward(s, file, st[n])
    OBVIOUS
  <2>2. Advances(file, st[n], next)
    BY <1>6, <2>1, OnwardAdvances
  <2>. QED  BY <1>6, <2>2 DEF Advances
<1>. QED  BY <1>2, <1>5, <1>6

FindsLines(last, file, n, matching) ==
  /\ last.at = "done"
  /\ \E from \in [1 .. n -> matching] :
       /\ \A i \in 1 .. n : last.printed[i] = LineAt(file, from[i])
       /\ \A i \in 2 .. n : from[i - 1] < from[i]
       /\ \A k \in matching : \E i \in 1 .. n : from[i] = k

LEMMA SearchesHold == input \in Searches => GrepFindsItsLines
<1>. SUFFICES ASSUME input \in Searches PROVE GrepFindsItsLines
  OBVIOUS
<1>1. PICK s, file, old : s = input.s /\ file = input.file /\ old = input.old
  OBVIOUS
<1>2. /\ s \in SeqOf(LineChars, MaxPattern) \ {<<>>} /\ file \in SeqOf(LineChars \cup {NEWLINE}, MaxText)
      /\ old \in [0 .. BUFSIZE -> Nat \ {NEWLINE}] /\ LinesFit(file)
  BY <1>1 DEF Searches, SearchesOf
<1>3. IsSearch(s, file)
  <2>1. PICK chars : chars = LineChars \cup {NEWLINE}
    OBVIOUS
  <2>2. MaxPattern \in Nat /\ MaxText \in Nat
    BY TextSizesAssumption
  <2>3. s \in Seq(LineChars) /\ file \in Seq(chars)
    BY <1>2, <2>1, <2>2, SeqOfIsSeq
  <2>4. /\ \A c \in LineChars : c \in Nat /\ c # END_OF_LINE
        /\ \A c \in chars : c \in Nat /\ c # END_OF_LINE
    BY <2>1, LineCharsAssumption DEF END_OF_LINE, NEWLINE
  <2>5. s \in Seq(Nat) /\ file \in Seq(Nat)
    BY <2>3, <2>4
  <2>6. \A i \in 1 .. Len(file) : file[i] # END_OF_LINE
    BY <2>3, <2>4
  <2>7. Len(s) # 0
    BY <1>2, <2>5
  <2>. QED  BY <1>2, <2>5, <2>6, <2>7 DEF IsSearch
<1>4. PICK last, printed : last = do_one_file(s, file, old) /\ printed = last.printed
  OBVIOUS
<1>5. last.at = "done" /\ Shown(printed, s, file, Len(file))
  BY <1>2, <1>3, <1>4, SearchEnds DEF AtEnd
<1>6. PICK n \in Nat :
        /\ Len(printed) = n
        /\ \E from \in [1 .. n -> Matching(s, file)] :
             /\ \A i \in 1 .. n : printed[i] = LineAt(file, from[i]) /\ from[i] < Len(file)
             /\ \A i \in 2 .. n : from[i - 1] < from[i]
             /\ \A j \in Matching(s, file) : j < Len(file) => \E i \in 1 .. n : from[i] = j
  BY <1>5 DEF Shown
<1>7. \A j \in Matching(s, file) : j < Len(file)
  <2>1. Len(file) \in Nat
    BY <1>3 DEF IsSearch
  <2>2. Len(file) \notin Matching(s, file)
    <3>1. Len(file) \in 0 .. Len(file) /\ EndsAt(file, Len(file))
      BY <2>1 DEF EndsAt
    <3>. QED  BY <1>3, <3>1, EmptyLine
  <2>3. \A j \in Matching(s, file) : j \in 0 .. Len(file)
    BY DEF Matching, LineStarts
  <2>. QED  BY <2>1, <2>2, <2>3
<1>8. \E from \in [1 .. n -> Matching(s, file)] :
        /\ \A i \in 1 .. n : printed[i] = LineAt(file, from[i])
        /\ \A i \in 2 .. n : from[i - 1] < from[i]
        /\ \A k \in Matching(s, file) : \E i \in 1 .. n : from[i] = k
  BY <1>6, <1>7
<1>9. Matching(s, file) = {k \in LineStarts(file) : Mentions(LineAt(file, k), s)}
  BY DEF Matching
<1>10. PICK matching : matching = {k \in LineStarts(file) : Mentions(LineAt(file, k), s)}
  OBVIOUS
<1>11. /\ last.at = "done" /\ Len(last.printed) = n
       /\ \E from \in [1 .. n -> matching] :
            /\ \A i \in 1 .. n : last.printed[i] = LineAt(file, from[i])
            /\ \A i \in 2 .. n : from[i - 1] < from[i]
            /\ \A k \in matching : \E i \in 1 .. n : from[i] = k
  BY <1>4, <1>5, <1>6, <1>8, <1>9, <1>10
<1>12. FindsLines(last, file, n, matching)
  BY <1>11 DEF FindsLines
<1>13. last = do_one_file(s, file, old) /\ n = Len(last.printed)
  BY <1>4, <1>6
<1>14. FindsLines(do_one_file(input.s, input.file, input.old), input.file,
                  Len(do_one_file(input.s, input.file, input.old).printed),
                  {k \in LineStarts(input.file) : Mentions(LineAt(input.file, k), input.s)})
  BY <1>1, <1>10, <1>12, <1>13
<1>. QED  BY <1>14 DEF GrepFindsItsLines, FindsLines

(***************************************************************************)
(* For files of any number of lines that are no longer than the buffer,    *)
(* and buffers of any size: grep ends, and has printed the lines that      *)
(* contain the text, each once, whole and in order.                        *)
(***************************************************************************)
THEOREM GrepExact == GrepInputs => []GrepFindsItsLines
<1>1. GrepFindsItsLines /\ [SameInput]_input => GrepFindsItsLines'
  BY DEF GrepFindsItsLines, SameInput
<1>. QED  BY <1>1, SearchesHold, PTL DEF GrepInputs
=============================================================================
