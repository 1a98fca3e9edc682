------------------------------- MODULE Chunks -------------------------------
(***************************************************************************)
(* The arithmetic of the chunked transfers.  Both binaries cut a transfer  *)
(* of `len' bytes into chunks of `--chunk-size' bytes and send chunk `idx' *)
(* to a u32 device address:                                                *)
(*                                                                         *)
(*    apps/jlrunner/src/lib.rs   write_memory_chunked                      *)
(*    apps/jluboot/src/lib.rs    write_flash_chunked, write_memory_chunked *)
(*                                                                         *)
(* AddrSpace stands for 2^32 and U16Max for 65535: the two widths the code *)
(* depends on.  The model checker gives them small values; the lemmas of   *)
(* ImagesProofs hold for every value.                                      *)
(***************************************************************************)
EXTENDS Integers

CONSTANTS
    AddrSpace,  \* number of device addresses, 2^32 in the code
    U16Max      \* the largest u16, the width of every length and jump argument

ASSUME ChunksAssumption ==
    /\ AddrSpace \in Nat \ {0}
    /\ U16Max \in Nat \ {0}

Addrs == 0 .. AddrSpace - 1

-----------------------------------------------------------------------------
EffectiveChunkNoFloor(raw) == raw   \* mutant: `.max(1)' forgotten

\* `let chunk_size = chunk_size.max(1);'
EffectiveChunk(raw) == IF raw = 0 THEN 1 ELSE raw

\* Where chunk idx starts inside the transfer: `idx * chunk_size'.
ChunkStart(cs, idx) == idx * cs

\* slice::chunks yields a chunk idx exactly while its start is inside the data.
HasChunk(len, cs, idx) == ChunkStart(cs, idx) < len

ChunkLenUncapped(len, cs, idx) == cs   \* mutant: last chunk not shortened

\* The number of bytes of chunk idx; only the last one may be shorter than cs.
ChunkLen(len, cs, idx) ==
    IF len - ChunkStart(cs, idx) < cs THEN len - ChunkStart(cs, idx) ELSE cs

ChunkAddrFixed(base, cs, idx) == base   \* mutant: the offset is not added

\* `address.wrapping_add((idx * chunk_size) as u32)': the cast drops the high
\* bits of the offset and the addition wraps.
ChunkAddr(base, cs, idx) ==
    (base + (ChunkStart(cs, idx) % AddrSpace)) % AddrSpace

\* `((idx + 1) * chunk_size).min(len)': the bytes transferred after idx chunks,
\* as the progress line prints them.
BytesDone(len, cs, idx) == IF idx * cs < len THEN idx * cs ELSE len

\* `u16::try_from(x).map_err(|_| LengthTooLarge(x))'
FitsU16(x) == x <= U16Max
=============================================================================
