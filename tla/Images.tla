------------------------------- MODULE Images -------------------------------
(***************************************************************************)
(* A file and the device addresses it is meant to occupy.                  *)
(*                                                                         *)
(* Contents are abstract: byte k of file f is the pair <<f, k>>, so any    *)
(* two bytes a transfer could confuse are different values, and Old is     *)
(* whatever the device held before.                                        *)
(***************************************************************************)
EXTENDS Chunks

CONSTANTS
    Files,  \* the files a user may name with --file
    Size    \* Size[f]: the length of file f in bytes

\* A file longer than the address space would overlay itself (the offset is
\* cast to u32); no RAM or flash of such a device exists.
ASSUME ImagesAssumption == Size \in [Files -> 0 .. AddrSpace]

Old == <<"old", 0>>

FileCells == { <<f, k>> : f \in Files, k \in 0 .. AddrSpace - 1 }
Cells == FileCells \union {Old}

\* A placement is a record with at least the fields file and address.
\* Offset is the distance of a device address from the first one, going up
\* and around the end of the address space.
Offset(pl, a) == (a - pl.address) % AddrSpace
InWindow(pl, a) == Offset(pl, a) < Size[pl.file]
Window(pl) == { a \in Addrs : InWindow(pl, a) }
Target(pl, a) == <<pl.file, Offset(pl, a)>>

\* Memory m holds the first n bytes of the placed file.
HoldsPrefix(m, pl, n) ==
    \A a \in Addrs : InWindow(pl, a) /\ Offset(pl, a) < n
                        => m[a] = Target(pl, a)

HoldsImage(m, pl) == HoldsPrefix(m, pl, Size[pl.file])

\* Two placements agree on every address they share.
Compatible(pl1, pl2) ==
    \A a \in Addrs : InWindow(pl1, a) /\ InWindow(pl2, a)
                        => Target(pl1, a) = Target(pl2, a)

\* Memory m after n bytes of file f, from byte off on, arrive at addr.
Stored(m, addr, f, off, n) ==
    [a \in Addrs |-> IF (a - addr) % AddrSpace < n
                     THEN <<f, off + ((a - addr) % AddrSpace)>>
                     ELSE m[a]]
=============================================================================
