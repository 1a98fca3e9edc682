---------------------------- MODULE ImagesProofs ----------------------------
(***************************************************************************)
(* What the chunk arithmetic guarantees for every chunk size and length,   *)
(* and what storing one chunk does to the memory of the device.            *)
(***************************************************************************)
EXTENDS Images, TLAPS

\* `chunk_size.max(1)' never yields zero, so slice::chunks cannot panic.
LEMMA EffectiveChunkPositive ==
    ASSUME NEW raw \in Nat
    PROVE  EffectiveChunk(raw) \in Nat \ {0}
BY DEF EffectiveChunk

\* A chunk address is a u32 for every base and every chunk number.
LEMMA ChunkAddrType ==
    ASSUME NEW base \in Addrs, NEW cs \in Nat, NEW idx \in Nat
    PROVE  ChunkAddr(base, cs, idx) \in Addrs
<1>1. ChunkStart(cs, idx) \in Nat
    BY DEF ChunkStart
<1>2. (base + (ChunkStart(cs, idx) % AddrSpace)) \in Int
    BY <1>1, ChunksAssumption DEF Addrs
<1> QED
    BY <1>2, ChunksAssumption DEF ChunkAddr, Addrs

\* Every chunk the iterator yields is non-empty, no longer than the chunk
\* size, inside the data, and ends where the next one starts or at the end.
LEMMA ChunkInside ==
    ASSUME NEW len \in Nat, NEW cs \in Nat \ {0}, NEW idx \in Nat,
           HasChunk(len, cs, idx)
    PROVE  /\ ChunkStart(cs, idx) \in Nat
           /\ ChunkLen(len, cs, idx) \in 1 .. cs
           /\ ChunkStart(cs, idx) + ChunkLen(len, cs, idx) <= len
           /\ ChunkStart(cs, idx) + ChunkLen(len, cs, idx)
                = BytesDone(len, cs, idx + 1)
           /\ ChunkStart(cs, idx) = BytesDone(len, cs, idx)
<1>1. ChunkStart(cs, idx) \in Nat
    BY DEF ChunkStart
<1>2. (idx + 1) * cs = ChunkStart(cs, idx) + cs
    BY DEF ChunkStart
<1> QED
    BY <1>1, <1>2 DEF HasChunk, ChunkLen, BytesDone, ChunkStart

\* The first chunk is the longest one: if chunk 0 fits the protocol's u16
\* length field then so does every later chunk.  This is why a LengthTooLarge
\* error can only come before the first byte is sent.
LEMMA FirstChunkIsLongest ==
    ASSUME NEW len \in Nat, NEW cs \in Nat \ {0}, NEW idx \in Nat,
           HasChunk(len, cs, idx), FitsU16(ChunkLen(len, cs, 0))
    PROVE  FitsU16(ChunkLen(len, cs, idx))
<1>1. ChunkStart(cs, idx) \in Nat /\ ChunkStart(cs, 0) = 0
    BY DEF ChunkStart
<1> QED
    BY <1>1, ChunksAssumption DEF FitsU16, ChunkLen, HasChunk

\* The usize expression `(idx + 1) * chunk_size' of the progress line cannot
\* overflow for data whose length is at most half of usize, which Rust's slices
\* guarantee: it stays below twice the larger of length and chunk size, and
\* the chunk size only exceeds the length when there is a single chunk.
LEMMA ProgressDoesNotOverflow ==
    ASSUME NEW UsizeMax \in Nat, NEW len \in Nat, NEW cs \in Nat \ {0},
           NEW idx \in Nat, HasChunk(len, cs, idx),
           2 * len <= UsizeMax, cs <= UsizeMax
    PROVE  (idx + 1) * cs <= UsizeMax
<1>1. (idx + 1) * cs = idx * cs + cs
    OBVIOUS
<1>2. CASE idx = 0
    BY <1>1, <1>2
<1>3. CASE idx >= 1
    <2>1. idx * cs >= cs
        <3>1. PICK j \in Nat : idx = j + 1
            BY <1>3
        <3>2. idx * cs = j * cs + cs /\ j * cs >= 0
            BY <3>1
        <3> QED
            BY <3>2
    <2> QED
        BY <1>1, <2>1 DEF HasChunk, ChunkStart
<1> QED
    BY <1>2, <1>3

-----------------------------------------------------------------------------
Placement == [file : Files, address : Addrs]

\* Distance arithmetic: chunk idx starts at distance s from the first address
\* of the placement, so its bytes sit at the distances s, s + 1, ...
LEMMA DistanceFromChunk ==
    ASSUME NEW a \in Addrs, NEW base \in Addrs, NEW s \in Addrs
    PROVE  /\ (a - base) % AddrSpace \in Addrs
           /\ (a - ((base + (s % AddrSpace)) % AddrSpace)) % AddrSpace
                = IF (a - base) % AddrSpace >= s
                  THEN ((a - base) % AddrSpace) - s
                  ELSE ((a - base) % AddrSpace) - s + AddrSpace
<1>1. s % AddrSpace = s
    BY ChunksAssumption DEF Addrs
<1> QED
    BY <1>1, ChunksAssumption DEF Addrs

\* The first n bytes of chunk idx are for the n addresses from distance s on,
\* which are addresses of the placement.
LEMMA ChunkCovers ==
    ASSUME NEW pl, pl.file \in Files, pl.address \in Addrs,
           NEW cs \in Nat \ {0}, NEW idx \in Nat,
           HasChunk(Size[pl.file], cs, idx),
           NEW n \in 0 .. ChunkLen(Size[pl.file], cs, idx),
           NEW a \in Addrs
    PROVE  LET s == ChunkStart(cs, idx)
               d == (a - ChunkAddr(pl.address, cs, idx)) % AddrSpace
           IN  /\ Offset(pl, a) \in Addrs
               /\ s \in Nat
               /\ IF s <= Offset(pl, a) /\ Offset(pl, a) < s + n
                  THEN d < n /\ s + d = Offset(pl, a) /\ InWindow(pl, a)
                  ELSE ~(d < n)
<1> DEFINE s == ChunkStart(cs, idx)
           d == (a - ChunkAddr(pl.address, cs, idx)) % AddrSpace
           o == Offset(pl, a)
<1>1. Size[pl.file] \in 0 .. AddrSpace /\ AddrSpace \in Nat \ {0}
    BY ImagesAssumption, ChunksAssumption
<1>2. s \in Nat /\ n \in Nat /\ s + n <= Size[pl.file] /\ s < Size[pl.file]
    BY <1>1, ChunkInside DEF HasChunk
<1>3. s \in Addrs
    BY <1>1, <1>2 DEF Addrs
<1>4. o \in Addrs /\ d = IF o >= s THEN o - s ELSE o - s + AddrSpace
    BY <1>3, DistanceFromChunk DEF Offset, ChunkAddr
<1>5. InWindow(pl, a) <=> o < Size[pl.file]
    BY DEF InWindow
<1> HIDE DEF s, d, o
<1>6. CASE s <= o /\ o < s + n
    <2>1. d < n /\ s + d = o /\ InWindow(pl, a)
        BY <1>1, <1>2, <1>4, <1>5, <1>6 DEF Addrs
    <2> QED
        BY <1>2, <1>4, <1>6, <2>1 DEF o, s, d
<1>7. CASE ~(s <= o /\ o < s + n)
    <2>1. ~(d < n)
        BY <1>1, <1>2, <1>4, <1>7 DEF Addrs
    <2> QED
        BY <1>2, <1>4, <1>7, <2>1 DEF o, s, d
<1> QED
    BY <1>6, <1>7

\* Storing the first n bytes of chunk idx puts the right byte at the next n
\* distances and changes nothing else.
LEMMA StoredChunk ==
    ASSUME NEW pl, pl.file \in Files, pl.address \in Addrs,
           NEW cs \in Nat \ {0}, NEW idx \in Nat,
           HasChunk(Size[pl.file], cs, idx),
           NEW n \in 0 .. ChunkLen(Size[pl.file], cs, idx),
           NEW m, NEW a \in Addrs
    PROVE  LET s  == ChunkStart(cs, idx)
               m2 == Stored(m, ChunkAddr(pl.address, cs, idx), pl.file, s, n)
           IN  /\ Offset(pl, a) \in Addrs
               /\ s \in Nat
               /\ IF s <= Offset(pl, a) /\ Offset(pl, a) < s + n
                  THEN InWindow(pl, a) /\ m2[a] = Target(pl, a)
                  ELSE m2[a] = m[a]
BY ChunkCovers DEF Stored, Target

\* A stored chunk keeps the memory well typed.
LEMMA StoredType ==
    ASSUME NEW pl, pl.file \in Files, pl.address \in Addrs,
           NEW cs \in Nat \ {0}, NEW idx \in Nat,
           HasChunk(Size[pl.file], cs, idx),
           NEW n \in 0 .. ChunkLen(Size[pl.file], cs, idx),
           NEW m \in [Addrs -> Cells]
    PROVE  Stored(m, ChunkAddr(pl.address, cs, idx), pl.file,
                  ChunkStart(cs, idx), n) \in [Addrs -> Cells]
<1> DEFINE m2 == Stored(m, ChunkAddr(pl.address, cs, idx), pl.file,
                        ChunkStart(cs, idx), n)
<1>1. ASSUME NEW a \in Addrs PROVE m2[a] \in Cells
    <2>1. Offset(pl, a) \in 0 .. AddrSpace - 1
        BY StoredChunk DEF Addrs
    <2>2. Target(pl, a) \in Cells
        BY <2>1 DEF Target, Cells, FileCells
    <2>3. m[a] \in Cells
        OBVIOUS
    <2>4. m2[a] = Target(pl, a) \/ m2[a] = m[a]
        BY StoredChunk
    <2> QED
        BY <2>2, <2>3, <2>4
<1>2. m2 = [a \in Addrs |-> m2[a]]
    BY DEF Stored
<1> QED
    BY <1>1, <1>2

\* After a whole chunk, the loaded prefix of its image is one chunk longer.
LEMMA StoredExtendsPrefix ==
    ASSUME NEW pl, pl.file \in Files, pl.address \in Addrs,
           NEW cs \in Nat \ {0}, NEW idx \in Nat, NEW m,
           HasChunk(Size[pl.file], cs, idx),
           HoldsPrefix(m, pl, BytesDone(Size[pl.file], cs, idx))
    PROVE  HoldsPrefix(
               Stored(m, ChunkAddr(pl.address, cs, idx), pl.file,
                      ChunkStart(cs, idx),
                      ChunkLen(Size[pl.file], cs, idx)),
               pl, BytesDone(Size[pl.file], cs, idx + 1))
<1> DEFINE n  == ChunkLen(Size[pl.file], cs, idx)
           s  == ChunkStart(cs, idx)
           m2 == Stored(m, ChunkAddr(pl.address, cs, idx), pl.file, s, n)
<1>1. Size[pl.file] \in Nat
    BY ImagesAssumption, ChunksAssumption
<1>2. /\ s \in Nat /\ n \in Nat
      /\ s + n = BytesDone(Size[pl.file], cs, idx + 1)
      /\ s = BytesDone(Size[pl.file], cs, idx)
    BY <1>1, ChunkInside
<1>3. n \in 0 .. ChunkLen(Size[pl.file], cs, idx)
    BY <1>2
<1> HIDE DEF n
<1> SUFFICES ASSUME NEW a \in Addrs, InWindow(pl, a),
                    Offset(pl, a) < BytesDone(Size[pl.file], cs, idx + 1)
             PROVE  m2[a] = Target(pl, a)
    BY DEF HoldsPrefix, n
<1>4. /\ Offset(pl, a) \in Addrs
      /\ s \in Nat
      /\ IF s <= Offset(pl, a) /\ Offset(pl, a) < s + n
         THEN InWindow(pl, a) /\ m2[a] = Target(pl, a)
         ELSE m2[a] = m[a]
    BY <1>3, StoredChunk
<1>5. Offset(pl, a) < s => m[a] = Target(pl, a)
    BY <1>2 DEF HoldsPrefix
<1> HIDE DEF s, m2
<1> QED
    BY <1>2, <1>4, <1>5 DEF Addrs

\* A chunk of one placement, whole or partial, cannot disturb what memory
\* already holds of a compatible one.
LEMMA StoredKeepsCompatible ==
    ASSUME NEW pl, pl.file \in Files, pl.address \in Addrs,
           NEW cs \in Nat \ {0}, NEW idx \in Nat, NEW m,
           HasChunk(Size[pl.file], cs, idx),
           NEW n \in 0 .. ChunkLen(Size[pl.file], cs, idx),
           NEW ql, NEW k, Compatible(ql, pl), HoldsPrefix(m, ql, k)
    PROVE  HoldsPrefix(Stored(m, ChunkAddr(pl.address, cs, idx), pl.file,
                              ChunkStart(cs, idx), n),
                       ql, k)
<1> DEFINE m2 == Stored(m, ChunkAddr(pl.address, cs, idx), pl.file,
                        ChunkStart(cs, idx), n)
<1> SUFFICES ASSUME NEW a \in Addrs, InWindow(ql, a), Offset(ql, a) < k
             PROVE  m2[a] = Target(ql, a)
    BY DEF HoldsPrefix
<1>1. m[a] = Target(ql, a)
    BY DEF HoldsPrefix
<1>2. InWindow(pl, a) => Target(ql, a) = Target(pl, a)
    BY DEF Compatible
<1>3. m2[a] = m[a] \/ (InWindow(pl, a) /\ m2[a] = Target(pl, a))
    BY StoredChunk
<1> QED
    BY <1>1, <1>2, <1>3
=============================================================================
