------------------------- MODULE JlubootDataProofs -------------------------
(***************************************************************************)
(* The properties of Jluboot that concern data: what happens to the flash, *)
(* what a successful write leaves behind and what a successful read        *)
(* delivers, for any command lines, files, sizes, widths and numbers of    *)
(* invocations and resets.                                                 *)
(***************************************************************************)
EXTENDS JlubootProofs

-----------------------------------------------------------------------------
(* The invariants. *)

\* How a flash cell may differ from what it was when the command began.
FlashInv ==
    /\ flash # before => pc # "idle" /\ Refusal(cmd) = NoError
    /\ Matched =>
         \A a \in Addrs :
            \/ flash[a] = before[a]
            \/ /\ cmd.op = "flash_write" /\ InWindow(cmd, a)
               /\ before[a] # Target(cmd, a)
               /\ flash[a] = IF before[a] = Erased THEN Target(cmd, a)
                                                   ELSE Garbled
            \/ /\ cmd.op \in EraseOps /\ a \in Unit(cmd.op, cmd.address)
               /\ flash[a] = Erased

\* The first n bytes of the file are where the command was to write them.
Placed(n) ==
    \A a \in Addrs : InWindow(cmd, a) /\ Offset(cmd, a) < n =>
        IF cmd.op = "flash_write"
        THEN before[a] \in {Erased, Target(cmd, a)} => flash[a] = Target(cmd, a)
        ELSE live => ram[a] = Target(cmd, a)

Finished == pc = "report" \/ (pc = "exited" /\ err = NoError)

WriteInv ==
    Matched /\ cmd.op \in WriteOps =>
        /\ pc \in {"resolve", "open", "input"} => done = 0
        /\ pc = "write" => Placed(BytesDone(Total, Chunk, done))
        /\ Finished => Placed(Total)

\* The first n bytes of the answer to a read have been asked for.
ReadInv ==
    Matched /\ cmd.op \in ReadOps =>
        /\ pc \in {"resolve", "open"} => done = 0 /\ buf = << >>
        /\ pc = "read" => done <= cmd.len
        /\ pc = "read" /\ done > 0 => Supported(cmd.proto, cmd.op)
        /\ (pc = "emit" \/ output.state = "whole") /\ cmd.len > 0
              => Supported(cmd.proto, cmd.op)
        /\ (cmd.op = "mem_read" => live) =>
              /\ pc = "read" => buf = Contents(cmd.op, cmd.address, done)
              /\ pc = "emit" => buf = Contents(cmd.op, cmd.address, cmd.len)
              /\ output.state = "whole" =>
                    output.data = Contents(cmd.op, cmd.address, cmd.len)

EraseInv ==
    Matched /\ cmd.op \in EraseOps /\ Finished =>
        \A a \in Unit(cmd.op, cmd.address) : flash[a] = Erased

DataInv == FlashInv /\ WriteInv /\ ReadInv /\ EraseInv

\* What happens to the placement pl over a number of invocations.
Keeps(pl, c) ==
    /\ c.proto = dproto
    /\ \/ c.op \in Harmless
       \/ /\ c.op = "flash_write"
          /\ c.file = pl.file /\ c.address = pl.address
KeptSince(pl, e, k) == \A i \in e + 1 .. k : Keeps(pl, history[i].cmd)
ErasedBy(pl, h) ==
    /\ h.ok /\ h.cmd.op \in EraseOps /\ h.cmd.proto = dproto
    /\ Window(pl) \subseteq Unit(h.cmd.op, h.cmd.address)
WrittenSince(e, k) ==
    \E w \in e + 1 .. k : history[w].ok /\ history[w].cmd.op = "flash_write"

\* The flash as the finished invocations left it.
Left == IF Running THEN before ELSE flash

HistoryInv ==
    /\ pc = "exited" =>
         /\ Len(history) > 0
         /\ history[Len(history)] = [cmd |-> cmd, ok |-> err = NoError]
    /\ \A pl \in Placement, e \in DOMAIN history :
         ErasedBy(pl, history[e]) /\ KeptSince(pl, e, Len(history)) =>
            \A a \in Window(pl) :
               /\ Left[a] \in {Erased, Target(pl, a)}
               /\ WrittenSince(e, Len(history)) => Left[a] = Target(pl, a)

-----------------------------------------------------------------------------
(* What one step does to the memories. *)

\* Chunk bytes land on their addresses and nowhere else.
LEMMA WritesCells ==
    ASSUME TypeInv, pc = "write", MoreToWrite, NEW n \in 0 .. WriteLen,
           Writes(n), NEW a \in Addrs
    PROVE  LET s == ChunkStart(Chunk, done)
               hit == s <= Offset(cmd, a) /\ Offset(cmd, a) < s + n
           IN  /\ s \in Nat /\ Offset(cmd, a) \in Nat
               /\ hit => InWindow(cmd, a)
               /\ flash'[a] =
                     IF Known(cmd.op) /\ cmd.op = "flash_write" /\ hit
                     THEN Burn(flash[a], Target(cmd, a)) ELSE flash[a]
               /\ ram'[a] =
                     IF Known(cmd.op) /\ cmd.op # "flash_write" /\ hit
                     THEN Target(cmd, a) ELSE ram[a]
<1> DEFINE s    == ChunkStart(Chunk, done)
           hit  == s <= Offset(cmd, a) /\ Offset(cmd, a) < s + n
           addr == ChunkAddr(cmd.address, Chunk, done)
           d    == (a - addr) % AddrSpace
<1>1. /\ cmd \in Commands /\ cmd.op \in WriteOps
      /\ done \in Nat /\ Chunk \in Nat \ {0}
      /\ cmd.file \in Files /\ cmd.address \in Addrs
    BY WriteType, LineTypes DEF TypeInv, StageOK
<1>2. /\ Offset(cmd, a) \in Addrs /\ s \in Nat
      /\ IF hit THEN d < n /\ s + d = Offset(cmd, a) /\ InWindow(cmd, a)
                ELSE ~(d < n)
    BY <1>1, ChunkCovers DEF MoreToWrite, WriteLen, Total
<1>3. Performs(cmd.op, addr, s, n)
    BY DEF Writes
<1>4. Stored(flash, addr, cmd.file, s, n)[a]
         = IF d < n THEN <<cmd.file, s + d>> ELSE flash[a]
    BY DEF Stored
<1>5. Stored(ram, addr, cmd.file, s, n)[a]
         = IF hit THEN Target(cmd, a) ELSE ram[a]
    BY <1>2 DEF Stored, Target
<1>6. cmd.op \notin EraseOps
    BY <1>1 DEF WriteOps, EraseOps
<1> HIDE DEF s, hit, addr, d
<1>7. flash'[a] = IF Known(cmd.op) /\ cmd.op = "flash_write" /\ hit
                  THEN Burn(flash[a], Target(cmd, a)) ELSE flash[a]
    <2>1. CASE Known(cmd.op) /\ cmd.op = "flash_write"
        <3>1. flash' = [b \in Addrs |->
                           IF (b - addr) % AddrSpace < n
                           THEN Burn(flash[b],
                                     Stored(flash, addr, cmd.file, s, n)[b])
                           ELSE flash[b]]
            BY <1>3, <1>6, <2>1 DEF Performs
        <3>2. flash'[a] = IF d < n
                          THEN Burn(flash[a], <<cmd.file, s + d>>)
                          ELSE flash[a]
            BY <1>4, <3>1 DEF d
        <3> QED
            BY <1>2, <2>1, <3>2 DEF Target
    <2>2. CASE ~(Known(cmd.op) /\ cmd.op = "flash_write")
        BY <1>3, <1>6, <2>2 DEF Performs
    <2> QED
        BY <2>1, <2>2
<1>8. ram'[a] = IF Known(cmd.op) /\ cmd.op # "flash_write" /\ hit
                THEN Target(cmd, a) ELSE ram[a]
    BY <1>1, <1>3, <1>5 DEF Performs, WriteOps
<1> QED
    BY <1>2, <1>7, <1>8 DEF s, hit, Addrs

\* Erasing commands set whole units to Erased; no other single command
\* touches a cell.
LEMMA SingleCells ==
    ASSUME NEW op \in SingleOps, NEW addr, Performs(op, addr, 0, 0)
    PROVE  /\ ram' = ram
           /\ op \notin EraseOps \/ ~Known(op) => flash' = flash
           /\ op \in EraseOps /\ Known(op) =>
                 flash' = [a \in Addrs |-> IF a \in Unit(op, addr)
                                           THEN Erased ELSE flash[a]]
<1>1. op \notin {"flash_write", "mem_write", "mem_write_rxgp"}
    BY OpClasses DEF SingleOps, WriteOps
<1> QED
    BY <1>1 DEF Performs, EraseOps

LEMMA MemorySteps ==
    ASSUME TypeInv, Next, ~Invoke
    PROVE  /\ UNCHANGED <<cmd, before, dproto>>
           /\ \/ UNCHANGED <<flash, ram>>
              \/ Reset
              \/ /\ pc = "write" /\ MoreToWrite /\ WriteCheck = NoError
                 /\ \E n \in 0 .. WriteLen : Writes(n)
              \/ pc = "single" /\ Performs(cmd.op, cmd.address, 0, 0)
<1>1. CASE Plain
    BY <1>1 DEF Plain, Resolve, ReadInput, RejectWrite, WriteDone, RejectRead,
       ReadDone, RejectSingle, Inquiry, ProbeDone, Report, Kill, device
<1>2. CASE Open \/ SendRead \/ SendReadFails \/ Emit
    BY <1>2 DEF Open, SendRead, SendReadFails, Reading, Emit, device
<1>3. CASE SendWrite \/ SendWriteFails
    <2>1. /\ pc = "write" /\ MoreToWrite /\ WriteCheck = NoError
          /\ UNCHANGED <<cmd, before>>
        BY <1>3 DEF SendWrite, SendWriteFails, Writing
    <2>2. WriteLen \in Nat
        BY <2>1, WriteType
    <2>3. Ignores \/ \E n \in 0 .. WriteLen : Writes(n)
        <3>1. CASE SendWrite
            BY <2>2, <3>1, MovedInRange DEF SendWrite
        <3>2. CASE SendWriteFails
            <4>1. 1 .. WriteLen \subseteq 0 .. WriteLen
                BY <2>2
            <4> QED
                BY <3>2, <4>1 DEF SendWriteFails
        <3> QED
            BY <1>3, <3>1, <3>2
    <2>4. dproto' = dproto
        BY <2>3 DEF Ignores, Writes, Performs, device
    <2> QED
        BY <2>1, <2>3, <2>4 DEF Ignores, device
<1>4. CASE SendSingle \/ SendSingleFails
    <2>1. /\ pc = "single" /\ UNCHANGED <<cmd, before>>
          /\ Performs(cmd.op, cmd.address, 0, 0) \/ Ignores
        BY <1>4 DEF SendSingle, SendSingleFails, Asking
    <2> QED
        BY <2>1 DEF Performs, Ignores, device
<1>5. CASE Ask
    <2>1. /\ UNCHANGED <<cmd, before>> /\ asked < 5
          /\ Performs(Questions[asked + 1], 0, 0, 0) \/ Ignores
        BY <1>5 DEF Ask, Questions
    <2>2. asked \in 0 .. 4
        BY <2>1 DEF TypeInv, TypeOK
    <2>3. Questions[asked + 1] \in SingleOps \ EraseOps
        BY <2>2, OpsAre DEF Questions, SingleOps, WriteOps, ReadOps, EraseOps
    <2> QED
        BY <2>1, <2>3, SingleCells DEF Performs, Ignores, device
<1>6. CASE Reset
    BY <1>6 DEF Reset
<1> QED
    BY <1>1, <1>2, <1>3, <1>4, <1>5, <1>6 DEF Next, Step, Plain

-----------------------------------------------------------------------------
(* The flash. *)

LEMMA CheckedIsKnown ==
    /\ Matched /\ WriteCheck = NoError => Known(cmd.op)
    /\ Matched /\ SingleCheck = NoError => Known(cmd.op)
BY RunsItself DEF Matched, WriteCheck, SingleCheck, Known, NoError

LEMMA FlashStep == ASSUME TypeInv, FlashInv, Next PROVE FlashInv'
<1>1. CASE Invoke
    <2>1. flash' = flash /\ before' = flash
        BY <1>1 DEF Invoke, device
    <2> QED
        BY <2>1 DEF FlashInv
<1> SUFFICES ASSUME ~Invoke PROVE FlashInv'
    BY <1>1
<1>2. UNCHANGED <<cmd, before, dproto>> /\ (pc = "idle" <=> pc' = "idle")
    BY MemorySteps, ExecutedGrows
<1>3. CASE flash' = flash
    BY <1>2, <1>3 DEF FlashInv, Matched
<1>4. CASE pc = "write" /\ MoreToWrite /\ \E n \in 0 .. WriteLen : Writes(n)
    <2>1. PICK n \in 0 .. WriteLen : Writes(n)
        BY <1>4
    <2>2. pc # "idle" /\ Refusal(cmd) = NoError
        BY <1>4 DEF TypeInv, StageOK, Running
    <2>3. ASSUME Matched, NEW a \in Addrs
          PROVE  \/ flash'[a] = before[a]
                 \/ /\ cmd.op = "flash_write" /\ InWindow(cmd, a)
                    /\ before[a] # Target(cmd, a)
                    /\ flash'[a] = IF before[a] = Erased THEN Target(cmd, a)
                                                         ELSE Garbled
        <3> DEFINE T == Target(cmd, a)
        <3>1. \/ flash'[a] = flash[a]
              \/ /\ cmd.op = "flash_write" /\ InWindow(cmd, a)
                 /\ flash'[a] = Burn(flash[a], T)
            BY <1>4, <2>1, WritesCells
        <3>2. cmd.op \notin EraseOps
            BY <1>4 DEF TypeInv, StageOK, WriteOps, EraseOps
        <3>3. \/ flash[a] = before[a]
              \/ /\ cmd.op = "flash_write" /\ InWindow(cmd, a)
                 /\ before[a] # T
                 /\ flash[a] = IF before[a] = Erased THEN T ELSE Garbled
            BY <2>3, <3>2 DEF FlashInv
        <3> HIDE DEF T
        <3>4. flash'[a] = Burn(flash[a], T) =>
                 \/ flash'[a] = flash[a]
                 \/ flash[a] = Erased /\ flash'[a] = T
                 \/ flash[a] \notin {Erased, T} /\ flash'[a] = Garbled
            BY DEF Burn
        <3>5. Garbled # Erased
            BY DEF Garbled, Erased
        <3> QED
            BY <3>1, <3>3, <3>4, <3>5 DEF T
    <2> QED
        BY <1>2, <2>2, <2>3 DEF FlashInv, Matched
<1>5. CASE pc = "single" /\ Performs(cmd.op, cmd.address, 0, 0)
    <2>1. cmd.op \in SingleOps /\ pc # "idle" /\ Refusal(cmd) = NoError
        BY <1>5 DEF TypeInv, StageOK, Running
    <2>2. CASE flash' = flash
        BY <1>3, <2>2
    <2>3. CASE flash' # flash
        <3>1. /\ cmd.op \in EraseOps /\ cmd.op # "flash_write"
              /\ flash' = [a \in Addrs |-> IF a \in Unit(cmd.op, cmd.address)
                                           THEN Erased ELSE flash[a]]
            BY <1>5, <2>1, <2>3, SingleCells DEF EraseOps
        <3>2. ASSUME Matched, NEW a \in Addrs
              PROVE  \/ flash'[a] = before[a]
                     \/ a \in Unit(cmd.op, cmd.address) /\ flash'[a] = Erased
            BY <3>1, <3>2 DEF FlashInv
        <3> QED
            BY <1>2, <2>1, <3>1, <3>2 DEF FlashInv, Matched
    <2> QED
        BY <2>2, <2>3
<1>6. CASE Reset
    BY <1>3, <1>6 DEF Reset
<1> QED
    BY <1>3, <1>4, <1>5, <1>6, MemorySteps

-----------------------------------------------------------------------------
(* What a finished erase leaves. *)

LEMMA EraseStep == ASSUME TypeInv, EraseInv, Next PROVE EraseInv'
<1>1. CASE Invoke
    <2>1. pc' = "resolve" \/ (pc' = "exited" /\ err' # NoError)
        BY <1>1 DEF Invoke
    <2> QED
        BY <2>1 DEF EraseInv, Finished
<1> SUFFICES ASSUME ~Invoke, Matched, cmd.op \in EraseOps, Finished'
             PROVE  \A a \in Unit(cmd.op, cmd.address) : flash'[a] = Erased
    BY <1>1, MemorySteps DEF EraseInv, Matched
<1>2. cmd.op \notin WriteOps \union ReadOps \union {"probe"}
    BY DEF EraseOps, WriteOps, ReadOps
<1>3. CASE Plain \/ Open
    <2>1. Finished /\ flash' = flash
        <3>1. CASE Plain
            BY <1>2, <3>1, PlainSteps, ErrorClasses
               DEF Finished, TypeInv, StageOK
        <3>2. CASE Open
            <4>1. cmd \in Commands
                BY <3>2 DEF Open, TypeInv, StageOK
            <4>2. \/ pc' \in {"input", "read", "single", "inquiry"}
                  \/ pc' = "exited" /\ err' \in Interruptions
                BY <3>2, <4>1, BodyType, ErrorClasses DEF Open, Advance, End
            <4> QED
                BY <4>2, ErrorClasses DEF Finished
        <3> QED
            BY <1>3, <3>1, <3>2
    <2> QED
        BY <2>1 DEF EraseInv
<1>4. CASE SendSingleFails
    BY <1>4, ErrorClasses DEF SendSingleFails, End, Finished
<1>5. CASE SendSingle
    <2>1. SingleCheck = NoError /\ cmd.op \in SingleOps
        BY <1>5 DEF SendSingle, Asking, TypeInv, StageOK
    <2>2. Known(cmd.op)
        BY <2>1, CheckedIsKnown
    <2>3. Performs(cmd.op, cmd.address, 0, 0)
        BY <1>5, <2>2, SingleReplies DEF Finished, EraseOps
    <2>4. flash' = [a \in Addrs |-> IF a \in Unit(cmd.op, cmd.address)
                                    THEN Erased ELSE flash[a]]
        BY <2>1, <2>2, <2>3, SingleCells
    <2>5. Unit(cmd.op, cmd.address) \subseteq Addrs
        BY DEF EraseOps, Unit
    <2> QED
        BY <2>4, <2>5
<1>6. CASE Reset
    BY <1>6 DEF Reset, EraseInv, Finished
<1>7. CASE \/ SendWrite \/ SendWriteFails \/ SendRead \/ SendReadFails \/ Emit
           \/ Ask
    <2>1. pc \in {"write", "read", "emit", "probe"}
        BY <1>7 DEF SendWrite, SendWriteFails, Writing, SendRead,
                    SendReadFails, Reading, Emit, Ask
    <2> QED
        BY <1>2, <2>1 DEF TypeInv, StageOK
<1> QED
    BY <1>3, <1>4, <1>5, <1>6, <1>7 DEF Next, Step, Plain

-----------------------------------------------------------------------------
(* What a write leaves. *)

\* A cell that was right or erased can be programmed.
LEMMA BurnRight ==
    ASSUME Matched, FlashInv, cmd.op = "flash_write", NEW a \in Addrs,
           before[a] \in {Erased, Target(cmd, a)}
    PROVE  Burn(flash[a], Target(cmd, a)) = Target(cmd, a)
<1>1. flash[a] \in {Erased, Target(cmd, a)}
    BY DEF FlashInv, EraseOps
<1> QED
    BY <1>1 DEF Burn

LEMMA PlacedKept ==
    ASSUME NEW n, Placed(n), UNCHANGED <<cmd, before, flash>>,
           UNCHANGED <<ram, live>> \/ ~live'
    PROVE  Placed(n)'
BY DEF Placed

LEMMA NothingPlaced ==
    ASSUME TypeInv, pc = "input", done = 0
    PROVE  Placed(BytesDone(Total, Chunk, done))
<1>1. cmd \in Commands
    BY DEF TypeInv, StageOK
<1>2. Total \in Nat /\ Chunk \in Nat
    BY <1>1, LineTypes DEF Total, Chunk
<1>3. BytesDone(Total, Chunk, done) = 0
    BY <1>2 DEF BytesDone
<1>4. \A a \in Addrs : Offset(cmd, a) \in Nat
    BY <1>1, LineTypes, ChunksAssumption DEF Offset, Addrs
<1> QED
    BY <1>3, <1>4 DEF Placed

LEMMA ChunkPlaced ==
    ASSUME TypeInv, FlashInv, Matched, pc = "write", MoreToWrite,
           WriteCheck = NoError, Writes(WriteLen), done' = done + 1,
           UNCHANGED <<cmd, before>>, Placed(BytesDone(Total, Chunk, done))
    PROVE  Placed(BytesDone(Total, Chunk, done))'
<1>1. /\ Total \in Nat /\ Chunk \in Nat \ {0} /\ done \in Nat
      /\ WriteLen \in 1 .. Chunk
    BY WriteType, LineTypes DEF Total
<1> DEFINE s == ChunkStart(Chunk, done)
           before1 == BytesDone(Total, Chunk, done)
           after1 == BytesDone(Total, Chunk, done + 1)
<1>2. s \in Nat /\ before1 = s /\ after1 = s + WriteLen
    BY <1>1, ChunkInside DEF MoreToWrite, WriteLen
<1>3. Known(cmd.op)
    BY CheckedIsKnown
<1>4. ASSUME NEW a \in Addrs, InWindow(cmd, a), Offset(cmd, a) < after1
      PROVE  IF cmd.op = "flash_write"
             THEN before[a] \in {Erased, Target(cmd, a)}
                     => flash'[a] = Target(cmd, a)
             ELSE live => ram'[a] = Target(cmd, a)
    <2> DEFINE hit == s <= Offset(cmd, a) /\ Offset(cmd, a) < s + WriteLen
    <2>1. WriteLen \in 0 .. WriteLen
        BY <1>1
    <2>2. /\ Offset(cmd, a) \in Nat
          /\ flash'[a] = IF cmd.op = "flash_write" /\ hit
                         THEN Burn(flash[a], Target(cmd, a)) ELSE flash[a]
          /\ ram'[a] = IF cmd.op # "flash_write" /\ hit
                       THEN Target(cmd, a) ELSE ram[a]
        BY <1>3, <2>1, WritesCells
    <2>3. CASE hit
        BY <2>2, <2>3, BurnRight
    <2>4. CASE ~hit
        <3>1. Offset(cmd, a) < before1
            BY <1>1, <1>2, <1>4, <2>2, <2>4
        <3> QED
            BY <1>4, <2>2, <2>4, <3>1 DEF Placed
    <2> QED
        BY <2>3, <2>4
<1>5. live
    BY DEF Writes
<1>6. BytesDone(Total, Chunk, done)' = after1
    BY DEF Total, Chunk, BytesDone
<1> HIDE DEF after1
<1> QED
    BY <1>4, <1>5, <1>6 DEF Placed, InWindow, Offset, Target

LEMMA WriteStep ==
    ASSUME ShortTransfers = FALSE, TypeInv, FlashInv, WriteInv, Next
    PROVE  WriteInv'
<1>1. CASE Invoke
    <2>1. /\ done' = 0
          /\ pc' = "resolve" \/ (pc' = "exited" /\ err' # NoError)
        BY <1>1 DEF Invoke
    <2> QED
        BY <2>1 DEF WriteInv, Finished
<1> SUFFICES ASSUME ~Invoke, Matched, cmd.op \in WriteOps
             PROVE  /\ pc' \in {"resolve", "open", "input"} => done' = 0
                    /\ pc' = "write" => Placed(BytesDone(Total, Chunk, done))'
                    /\ Finished' => Placed(Total)'
    BY <1>1, MemorySteps DEF WriteInv, Matched
<1>2. /\ pc \notin {"read", "emit", "single", "inquiry", "probe"}
      /\ Total' = Total /\ Chunk' = Chunk
    BY OpClasses, MemorySteps DEF TypeInv, StageOK, Total, Chunk
<1>3. CASE Plain
    <2>1. UNCHANGED <<cmd, before, flash, ram, live>> /\ done' = done
        BY <1>3, PlainSteps
    <2>2. CASE pc = "resolve" /\ pc' = "open"
        BY <2>1, <2>2 DEF WriteInv, Finished
    <2>3. CASE pc = "input" /\ pc' = "write"
        <3>1. Placed(BytesDone(Total, Chunk, done))
            BY <2>3, NothingPlaced DEF WriteInv
        <3> QED
            BY <1>2, <2>1, <2>3, <3>1, PlacedKept DEF Finished, Placed
    <2>4. CASE pc = "write" /\ ~MoreToWrite /\ pc' = "report"
        <3>1. BytesDone(Total, Chunk, done) = Total
            BY <2>4 DEF MoreToWrite, HasChunk, ChunkStart, BytesDone
        <3>2. Placed(Total)
            BY <2>4, <3>1 DEF WriteInv
        <3> QED
            BY <1>2, <2>1, <2>4, <3>2, PlacedKept DEF Placed
    <2>5. CASE pc = "report" /\ pc' = "exited" /\ err' = NoError
        <3>1. Placed(Total)
            BY <2>5 DEF WriteInv, Finished
        <3> QED
            BY <1>2, <2>1, <2>5, <3>1, PlacedKept DEF Placed
    <2>6. CASE pc' = "exited" /\ err' \in Interruptions \union ProtocolErrors
        BY <2>6, ErrorClasses DEF Finished
    <2> QED
        BY <1>2, <1>3, <2>2, <2>3, <2>4, <2>5, <2>6, PlainSteps
<1>4. CASE Open
    <2>1. pc = "open" /\ done' = done /\ cmd \in Commands
        BY <1>4 DEF Open, TypeInv, StageOK
    <2>2. cmd.op \notin ReadOps \union SingleOps \union {"probe"}
        BY OpClasses DEF WriteOps
    <2>3. \/ pc' = "input"
          \/ pc' = "exited" /\ err' \in Interruptions
        BY <1>4, <2>1, <2>2, BodyType, ErrorClasses DEF Open, Advance, End
    <2> QED
        BY <2>1, <2>3, ErrorClasses DEF WriteInv, Finished
<1>5. CASE SendWrite
    <2>1. /\ pc = "write" /\ pc' = "write" /\ done' = done + 1
          /\ MoreToWrite /\ WriteCheck = NoError /\ UNCHANGED <<cmd, before>>
        BY <1>5 DEF SendWrite, Writing
    <2>2. Writes(WriteLen)
        BY <1>5 DEF SendWrite, Moved
    <2>3. Placed(BytesDone(Total, Chunk, done))'
        BY <2>1, <2>2, ChunkPlaced DEF WriteInv
    <2> QED
        BY <2>1, <2>3 DEF Finished
<1>6. CASE SendWriteFails
    <2>1. pc' = "exited" /\ err' \in Interruptions
        BY <1>6, ErrorClasses DEF SendWriteFails, End
    <2> QED
        BY <2>1, ErrorClasses DEF Finished
<1>7. CASE Reset
    <2>1. UNCHANGED <<cmd, before, flash, pc, err, done>> /\ ~live'
        BY <1>7 DEF Reset
    <2>2. CASE pc = "write"
        <3>1. Placed(BytesDone(Total, Chunk, done))
            BY <2>2 DEF WriteInv
        <3> QED
            BY <1>2, <2>1, <2>2, <3>1, PlacedKept DEF Finished, Placed
    <2>3. CASE Finished
        <3>1. Placed(Total)
            BY <2>3 DEF WriteInv
        <3> QED
            BY <1>2, <2>1, <2>3, <3>1, PlacedKept DEF Finished, Placed
    <2> QED
        BY <2>1, <2>2, <2>3 DEF WriteInv, Finished
<1>8. CASE \/ SendRead \/ SendReadFails \/ Emit \/ SendSingle
           \/ SendSingleFails \/ Ask
    BY <1>2, <1>8 DEF SendRead, SendReadFails, Reading, Emit, SendSingle,
       SendSingleFails, Asking, Ask
<1> QED
    BY <1>3, <1>4, <1>5, <1>6, <1>7, <1>8 DEF Next, Step, Plain

-----------------------------------------------------------------------------
(* What a read delivers. *)

LEMMA ContentsKept ==
    ASSUME NEW op, NEW addr, NEW n,
           UNCHANGED <<cmd, dproto, flash>>,
           op = "flash_read" \/ ram' = ram
    PROVE  Contents(op, addr, n)' = Contents(op, addr, n)
<1>1. Known(op)' = Known(op)
    BY DEF Known
<1> QED
    BY <1>1 DEF Contents

LEMMA Remainder ==
    ASSUME NEW m \in Int, m > 0, NEW x \in Int, NEW q \in Int,
           NEW r \in 0 .. m - 1, x = q * m + r
    PROVE  x % m = r
OBVIOUS

LEMMA Quotient ==
    ASSUME NEW m \in Int, m > 0, NEW x \in Int
    PROVE  \E q \in Int : x = (q * m) + (x % m)
OBVIOUS

LEMMA ModShift ==
    ASSUME NEW m \in Int, m > 0, NEW x \in Int, NEW j \in Int
    PROVE  ((x % m) + j) % m = (x + j) % m
<1> DEFINE r == x % m
           t == (x + j) % m
<1>1. PICK q \in Int : x = (q * m) + r
    BY Quotient
<1>2. PICK p \in Int : x + j = (p * m) + t
    <2>1. x + j \in Int
        OBVIOUS
    <2> QED
        BY <2>1, Quotient
<1>3. r \in Int /\ t \in 0 .. m - 1
    OBVIOUS
<1> HIDE DEF r, t
<1>4. r + j = ((p - q) * m) + t
    <2>1. (p - q) * m = (p * m) - (q * m)
        OBVIOUS
    <2> QED
        BY <1>1, <1>2, <1>3, <2>1
<1>5. (r + j) % m = t
    <2>1. r + j \in Int /\ p - q \in Int
        BY <1>3
    <2> QED
        BY <1>3, <1>4, <2>1, Remainder, Zenon
<1> QED
    BY <1>5 DEF r, t

\* Chunk after chunk, the addresses read are base, base + 1, ...
LEMMA ReadAddrAdds ==
    ASSUME NEW base \in Addrs, NEW off \in Nat, NEW j \in Nat
    PROVE  (ReadAddr(base, off) + j) % AddrSpace
              = (base + (off + j)) % AddrSpace
<1> DEFINE m == AddrSpace
           r == off % m
<1>1. /\ m \in Int /\ m > 0 /\ base \in Int /\ r \in Int
      /\ base + r \in Int /\ base + j \in Int /\ off \in Int /\ j \in Int
    BY ChunksAssumption DEF Addrs
<1>2. (((base + r) % m) + j) % m = ((base + r) + j) % m
    BY <1>1, ModShift, Zenon
<1>3. (r + (base + j)) % m = (off + (base + j)) % m
    BY <1>1, ModShift, Zenon
<1>4. (base + r) + j = r + (base + j) /\ off + (base + j) = base + (off + j)
    BY <1>1
<1> QED
    BY <1>2, <1>3, <1>4 DEF ReadAddr

LEMMA ContentsJoin ==
    ASSUME NEW op, NEW base \in Addrs, NEW d \in Nat, NEW n \in Nat,
           DeviceType
    PROVE  Contents(op, base, d) \o Contents(op, ReadAddr(base, d), n)
              = Contents(op, base, d + n)
<1> DEFINE first == Contents(op, base, d)
           next  == Contents(op, ReadAddr(base, d), n)
           all   == Contents(op, base, d + n)
<1>1. /\ ReadAddr(base, d) \in Addrs
      /\ first \in Seq(FlashCells) /\ Len(first) = d
      /\ next \in Seq(FlashCells) /\ Len(next) = n
      /\ all \in Seq(FlashCells) /\ Len(all) = d + n
    BY ReadAddrType, ContentsType
<1>2. ASSUME NEW i \in 1 .. d PROVE all[i] = first[i]
    BY DEF Contents
<1>3. ASSUME NEW i \in 1 .. n PROVE all[d + i] = next[i]
    <2>1. d + i \in 1 .. d + n /\ i - 1 \in Nat
             /\ d + (i - 1) = (d + i) - 1
        OBVIOUS
    <2>2. (ReadAddr(base, d) + (i - 1)) % AddrSpace
             = (base + ((d + i) - 1)) % AddrSpace
        BY <2>1, ReadAddrAdds
    <2> QED
        BY <2>1, <2>2 DEF Contents
<1> HIDE DEF first, next, all
<1>4. /\ first \o next \in Seq(FlashCells) /\ Len(first \o next) = d + n
      /\ \A i \in 1 .. d + n :
            (first \o next)[i] = IF i <= d THEN first[i] ELSE next[i - d]
    BY <1>1, ConcatProperties
<1>5. ASSUME NEW i \in 1 .. d + n PROVE (first \o next)[i] = all[i]
    <2>1. CASE i <= d
        BY <1>2, <1>4, <2>1
    <2>2. CASE ~(i <= d)
        <3>1. i - d \in 1 .. n /\ d + (i - d) = i
            BY <2>2
        <3> QED
            BY <1>3, <1>4, <2>2, <3>1
    <2> QED
        BY <2>1, <2>2
<1>6. first \o next = all
    BY <1>1, <1>4, <1>5, SeqEqual
<1> QED
    BY <1>6 DEF first, next, all

LEMMA ReadStep ==
    ASSUME ShortTransfers = FALSE, TypeInv, Delivered, ReadInv, Next
    PROVE  ReadInv'
<1> DEFINE Base == cmd.address
           Held == cmd.op = "mem_read" => live
<1>1. CASE Invoke
    <2>1. /\ done' = 0 /\ buf' = << >> /\ output' = NoOutput
          /\ pc' \in {"resolve", "exited"}
        BY <1>1 DEF Invoke
    <2> QED
        BY <2>1 DEF ReadInv, NoOutput
<1>2. ASSUME ~Invoke, Matched, cmd.op \in ReadOps, Held'
      PROVE  \A n : Contents(cmd.op, Base, n)' = Contents(cmd.op, Base, n)
    <2>1. pc \notin {"write", "single"} /\ cmd.op \in {"flash_read", "mem_read"}
        BY <1>2, OpClasses DEF TypeInv, StageOK, ReadOps
    <2>2. UNCHANGED <<cmd, dproto, flash>>
        BY <1>2, <2>1, MemorySteps DEF Reset
    <2>3. cmd.op = "flash_read" \/ ram' = ram
        BY <1>2, <2>1, <2>2, MemorySteps DEF Reset
    <2> QED
        BY <2>2, <2>3 DEF Contents, Known
<1> SUFFICES
      ASSUME ~Invoke, Matched, cmd.op \in ReadOps
      PROVE  /\ pc' \in {"resolve", "open"} => done' = 0 /\ buf' = << >>
             /\ pc' = "read" => done' <= cmd.len
             /\ pc' = "read" /\ done' > 0 => Supported(cmd.proto, cmd.op)
             /\ (pc' = "emit" \/ output'.state = "whole") /\ cmd.len > 0
                   => Supported(cmd.proto, cmd.op)
             /\ Held' =>
                  /\ pc' = "read" => buf' = Contents(cmd.op, Base, done')
                  /\ pc' = "emit" => buf' = Contents(cmd.op, Base, cmd.len)
                  /\ output'.state = "whole" =>
                        output'.data = Contents(cmd.op, Base, cmd.len)
    <2> SUFFICES ASSUME ~Invoke PROVE ReadInv'
        BY <1>1
    <2>1. cmd' = cmd /\ dproto' = dproto
        BY MemorySteps
    <2> HIDE DEF Held
    <2>2. ASSUME Matched, cmd.op \in ReadOps, Held'
          PROVE  /\ Contents(cmd.op, cmd.address, done)'
                       = Contents(cmd.op, Base, done')
                 /\ Contents(cmd.op, cmd.address, cmd.len)'
                       = Contents(cmd.op, Base, cmd.len)
        BY <1>2, <2>1, <2>2 DEF Contents, Known
    <2> QED
        BY <2>1, <2>2 DEF ReadInv, Matched, Held
<1>3. /\ pc \notin {"input", "write", "single", "inquiry", "probe"}
      /\ cmd' = cmd
      /\ Running /\ pc # "report" => output.state # "whole"
    BY OpClasses, MemorySteps DEF TypeInv, StageOK, Delivered, NoOutput
<1>4. CASE Plain
    <2>1. UNCHANGED <<cmd, done, buf, output, live>>
        BY <1>4, PlainSteps
    <2>2. \/ pc = "resolve" /\ pc' = "open"
          \/ pc = "read" /\ ~MoreToRead /\ pc' = "emit"
          \/ pc' = "exited"
        BY <1>3, <1>4, PlainSteps
    <2>3. CASE pc = "read" /\ ~MoreToRead /\ pc' = "emit"
        <3>1. done = cmd.len
            <4>1. cmd.len \in Nat /\ done \in Nat
                BY <2>3, LineTypes DEF TypeInv, TypeOK, StageOK
            <4> QED
                BY <2>3, <4>1 DEF ReadInv, MoreToRead
        <3>2. output'.state # "whole"
            BY <1>3, <2>1, <2>3 DEF Running
        <3> QED
            BY <2>1, <2>3, <3>1, <3>2 DEF ReadInv
    <2>4. CASE pc = "resolve" /\ pc' = "open"
        BY <1>3, <2>1, <2>4 DEF ReadInv, Running
    <2>5. CASE pc' = "exited"
        BY <2>1, <2>5 DEF ReadInv
    <2> QED
        BY <2>2, <2>3, <2>4, <2>5
<1>5. CASE Open
    <2>1. /\ pc = "open" /\ UNCHANGED <<done, buf, output>>
          /\ cmd \in Commands
        BY <1>5 DEF Open, TypeInv, StageOK
    <2>2. cmd.op \notin WriteOps \union SingleOps \union {"probe"}
        BY OpClasses DEF ReadOps
    <2>3. pc' \in {"read", "exited"}
        BY <1>5, <2>1, <2>2, BodyType DEF Open, Advance, End
    <2>4. done = 0 /\ buf = << >> /\ output'.state # "whole"
        BY <1>3, <2>1 DEF ReadInv, Running
    <2>5. Contents(cmd.op, Base, 0) = << >> /\ cmd.len \in Nat
        BY <2>1, LineTypes DEF Contents
    <2> QED
        BY <2>1, <2>3, <2>4, <2>5
<1>6. CASE SendRead
    <2>1. /\ pc = "read" /\ pc' = "read" /\ UNCHANGED <<output, live>>
          /\ MoreToRead /\ ReadCheck = NoError
          /\ done' = done + NextRead
          /\ buf' = buf \o Contents(cmd.op, ReadAddr(Base, done), NextRead)
        BY <1>6 DEF SendRead, Reading, Moved
    <2>2. /\ done \in Nat /\ NextRead \in Nat /\ done + NextRead <= cmd.len
          /\ Base \in Addrs /\ DeviceType
        BY <2>1, ReadLenType, LineTypes, TypeParts
    <2>3. Supported(cmd.proto, cmd.op)
        BY <2>1 DEF ReadCheck, NoError
    <2>4. Held => buf' = Contents(cmd.op, Base, done')
        BY <2>1, <2>2, ContentsJoin DEF ReadInv
    <2>5. output'.state # "whole"
        BY <1>3, <2>1 DEF Running
    <2> QED
        BY <1>3, <2>1, <2>2, <2>3, <2>4, <2>5
<1>7. CASE SendReadFails
    <2>1. pc = "read" /\ pc' = "exited" /\ output' = output
        BY <1>7 DEF SendReadFails, Reading, End
    <2> QED
        BY <1>3, <2>1 DEF Running
<1>8. CASE Emit
    <2>1. /\ pc = "emit" /\ pc' \in {"report", "exited"} /\ live' = live
          /\ output'.state = "whole" => output' = [state |-> "whole",
                                                   data |-> buf]
        BY <1>8 DEF Emit, Advance, End, NoOutput
    <2> QED
        BY <1>3, <2>1 DEF ReadInv
<1>9. CASE Reset
    <2>1. UNCHANGED <<pc, done, buf, output>> /\ ~live'
        BY <1>9 DEF Reset
    <2> QED
        BY <1>3, <2>1 DEF ReadInv
<1>10. CASE \/ SendWrite \/ SendWriteFails \/ SendSingle \/ SendSingleFails
           \/ Ask
    BY <1>3, <1>10 DEF SendWrite, SendWriteFails, Writing, SendSingle,
       SendSingleFails, Asking, Ask
<1> QED
    BY <1>4, <1>5, <1>6, <1>7, <1>8, <1>9, <1>10 DEF Next, Step, Plain

-----------------------------------------------------------------------------
(* What a series of invocations leaves. *)

\* A step carries on with the invocation, or ends it and puts it on record;
\* before the next one begins only a reset can happen.
LEMMA HistorySteps ==
    ASSUME TypeInv, Next
    PROVE  /\ dproto' = dproto
           /\ \/ /\ history' = history /\ Left' = Left
                 /\ pc' = "exited" => UNCHANGED <<pc, cmd, err>>
              \/ /\ history' = Append(history, [cmd |-> cmd',
                                                ok |-> err' = NoError])
                 /\ pc' = "exited" /\ before' = Left
<1>1. CASE Invoke
    <2>1. /\ ~Running /\ dproto' = dproto /\ flash' = flash /\ before' = flash
          /\ \/ pc' = "resolve" /\ history' = history
             \/ /\ pc' = "exited" /\ (err' = NoError) = FALSE
                /\ history' = Append(history, [cmd |-> cmd', ok |-> FALSE])
        BY <1>1 DEF Invoke, Running, device
    <2> QED
        BY <2>1 DEF Left, Running
<1>2. CASE Reset
    BY <1>2 DEF Reset, Left, Running
<1>3. CASE Step \/ Kill
    <2>1. UNCHANGED <<cmd, before, dproto>>
        BY <1>3, MemorySteps
           DEF Invoke, Step, Kill, Running, Next, Resolve, Open, ReadInput,
               RejectWrite, SendWrite, SendWriteFails, Writing, WriteDone,
               RejectRead, SendRead, SendReadFails, Reading, ReadDone, Emit,
               RejectSingle, SendSingle, SendSingleFails, Asking, Inquiry,
               Ask, ProbeDone, Report
    <2>2. /\ Running
          /\ \/ \E kind : End(kind)
             \/ UNCHANGED <<pc, err, history>>
             \/ \E stage : stage \notin {"idle", "exited"} /\ Advance(stage)
        <3>1. CASE Open
            <4>1. cmd \in Commands
                BY <3>1 DEF Open, TypeInv, StageOK
            <4> QED
                BY <3>1, <4>1, BodyType DEF Open, Running
        <3>2. CASE Step /\ ~Open
            BY <3>2
               DEF Step, Running, Resolve, ReadInput, RejectWrite, SendWrite,
                   SendWriteFails, Writing, WriteDone, RejectRead, SendRead,
                   SendReadFails, Reading, ReadDone, Emit, RejectSingle,
                   SendSingle, SendSingleFails, Asking, Inquiry, Ask,
                   ProbeDone, Report
        <3>3. CASE Kill
            BY <3>3 DEF Kill
        <3> QED
            BY <1>3, <3>1, <3>2, <3>3
    <2>3. CASE \E kind : End(kind)
        BY <2>1, <2>2, <2>3 DEF End, Left
    <2>4. CASE UNCHANGED <<pc, err, history>>
        BY <2>1, <2>2, <2>4 DEF Left, Running
    <2>5. CASE \E stage : stage \notin {"idle", "exited"} /\ Advance(stage)
        BY <2>1, <2>2, <2>5 DEF Left, Running, Advance
    <2> QED
        BY <2>2, <2>3, <2>4, <2>5
<1> QED
    BY <1>1, <1>2, <1>3 DEF Next

\* What the invocation that just ended did to a placement it keeps.
LEMMA KeptCells ==
    ASSUME TypeInv', FlashInv', WriteInv', pc' = "exited",
           NEW pl \in Placement, Keeps(pl, cmd)', NEW a \in Window(pl),
           before'[a] \in {Erased, Target(pl, a)}
    PROVE  /\ flash'[a] \in {Erased, Target(pl, a)}
           /\ before'[a] = Target(pl, a) => flash'[a] = Target(pl, a)
           /\ err' = NoError /\ cmd'.op = "flash_write"
                 => flash'[a] = Target(pl, a)
<1>1. Matched' /\ a \in Addrs
    BY DEF Keeps, Matched, TypeInv, StageOK, Window
<1>2. cmd'.op = "flash_write" =>
         /\ Target(cmd', a) = Target(pl, a) /\ InWindow(cmd', a)
         /\ Offset(cmd', a) < Total'
    BY OpClasses DEF Keeps, Target, Offset, Window, InWindow, Total,
                     Destructive, Harmless, ReadOps
<1>3. cmd'.op \notin EraseOps
    BY OpClasses DEF Keeps, Destructive, EraseOps
<1>4. \/ flash'[a] = before'[a]
      \/ /\ before'[a] # Target(pl, a)
         /\ flash'[a] = IF before'[a] = Erased THEN Target(pl, a) ELSE Garbled
    BY <1>1, <1>2, <1>3 DEF FlashInv
<1>5. err' = NoError /\ cmd'.op = "flash_write"
         => flash'[a] = Target(pl, a)
    BY <1>1, <1>2 DEF WriteInv, Finished, Placed, WriteOps
<1> QED
    BY <1>4, <1>5

LEMMA HistoryStep ==
    ASSUME TypeInv, TypeInv', FlashInv', WriteInv', EraseInv', HistoryInv, Next
    PROVE  HistoryInv'
<1>1. CASE /\ history' = history /\ Left' = Left
           /\ pc' = "exited" => UNCHANGED <<pc, cmd, err>>
    <2>1. dproto' = dproto
        BY HistorySteps
    <2> QED
        BY <1>1, <2>1
           DEF HistoryInv, ErasedBy, KeptSince, Keeps, WrittenSince
<1>2. CASE /\ history' = Append(history, [cmd |-> cmd', ok |-> err' = NoError])
           /\ pc' = "exited" /\ before' = Left
    <2>a. PICK last : last = [cmd |-> cmd', ok |-> err' = NoError]
        OBVIOUS
    <2>b. PICK len : len = Len(history)
        OBVIOUS
    <2>1. /\ len \in Nat /\ DOMAIN history = 1 .. len
          /\ Len(history') = len + 1 /\ DOMAIN history' = 1 .. len + 1
          /\ \A i \in 1 .. len : history'[i] = history[i]
          /\ history'[len + 1] = last
        BY <1>2, <2>a, <2>b DEF TypeInv, TypeOK
    <2>2. dproto' = dproto /\ Left' = flash'
        BY <1>2, HistorySteps DEF Left, Running
    <2>3. last.cmd = cmd' /\ last.ok = (err' = NoError)
        BY <2>a
    <2>4. ASSUME NEW pl \in Placement, NEW e \in 1 .. len,
                 ErasedBy(pl, history[e])', KeptSince(pl, e, len + 1)',
                 NEW a \in Window(pl)
          PROVE  /\ flash'[a] \in {Erased, Target(pl, a)}
                 /\ WrittenSince(e, len + 1)' => flash'[a] = Target(pl, a)
        <3>1. ErasedBy(pl, history[e])
            BY <2>1, <2>2, <2>4 DEF ErasedBy
        <3>2. KeptSince(pl, e, len)
            BY <2>1, <2>2, <2>4 DEF KeptSince, Keeps
        <3>3. Keeps(pl, cmd)'
            <4>1. len + 1 \in e + 1 .. len + 1
                BY <2>1
            <4> QED
                BY <2>1, <2>3, <2>4, <4>1 DEF KeptSince, Keeps
        <3>4. /\ before'[a] \in {Erased, Target(pl, a)}
              /\ WrittenSince(e, len) => before'[a] = Target(pl, a)
            BY <1>2, <2>1, <2>b, <3>1, <3>2 DEF HistoryInv
        <3>5. /\ flash'[a] \in {Erased, Target(pl, a)}
              /\ before'[a] = Target(pl, a) => flash'[a] = Target(pl, a)
              /\ err' = NoError /\ cmd'.op = "flash_write"
                    => flash'[a] = Target(pl, a)
            BY <1>2, <3>3, <3>4, KeptCells
        <3>6. ASSUME WrittenSince(e, len + 1)'
              PROVE  \/ WrittenSince(e, len)
                     \/ err' = NoError /\ cmd'.op = "flash_write"
            <4>1. PICK w \in e + 1 .. len + 1 :
                     /\ history'[w].ok
                     /\ history'[w].cmd.op = "flash_write"
                BY <3>6 DEF WrittenSince
            <4>2. CASE w = len + 1
                BY <2>1, <2>3, <4>1, <4>2
            <4>3. CASE w # len + 1
                <5>1. w \in e + 1 .. len /\ w \in 1 .. len
                    BY <2>1, <4>3
                <5> QED
                    BY <2>1, <4>1, <5>1 DEF WrittenSince
            <4> QED
                BY <4>2, <4>3
        <3> QED
            BY <3>4, <3>5, <3>6
    <2>5. ASSUME NEW pl \in Placement, ErasedBy(pl, last)', NEW a \in Window(pl)
          PROVE  flash'[a] = Erased
        <3>1. err' = NoError /\ cmd'.op \in EraseOps /\ Matched'
                 /\ a \in Unit(cmd'.op, cmd'.address)
            BY <1>2, <2>3, <2>5
               DEF ErasedBy, Matched, TypeInv, StageOK
        <3> QED
            BY <1>2, <3>1 DEF EraseInv, Finished
    <2> QED
        BY <1>2, <2>1, <2>2, <2>3, <2>4, <2>5, <2>a
           DEF HistoryInv, WrittenSince
<1> QED
    BY <1>1, <1>2, HistorySteps

-----------------------------------------------------------------------------
(* The theorems. *)

LEMMA FlashInvariant == Spec => []FlashInv
<1>1. Init => FlashInv
    BY DEF Init, FlashInv, Matched
<1>2. TypeInv /\ FlashInv /\ [Next]_vars => FlashInv'
    <2>1. ASSUME FlashInv, UNCHANGED vars PROVE FlashInv'
        BY <2>1 DEF FlashInv, Matched, vars, device
    <2> QED
        BY <2>1, FlashStep
<1> QED
    BY <1>1, <1>2, Invariants, PTL DEF Spec

\* Flash changes only where the command was told to write or erase, and only
\* into what it was told to be, however the command ends.  (write_flash_chunked,
\* the erase handlers, require_yes)
THEOREM JlubootFlashChangesOnlyAsAsked == Spec => []FlashChangesOnlyAsAsked
<1>1. ASSUME TypeInv, FlashInv PROVE FlashChangesOnlyAsAsked
    <2> SUFFICES ASSUME Matched, NEW a \in Addrs, flash[a] # before[a]
                 PROVE  /\ cmd.yes = "global"
                        /\ \/ /\ cmd.op = "flash_write" /\ InWindow(cmd, a)
                              /\ IF before[a] = Erased
                                 THEN flash[a] = Target(cmd, a)
                                 ELSE flash[a] = Garbled
                           \/ /\ cmd.op \in EraseOps
                              /\ a \in Unit(cmd.op, cmd.address)
                              /\ flash[a] = Erased
        BY DEF FlashChangesOnlyAsAsked
    <2>1. cmd \in Commands /\ Refusal(cmd) = NoError
        BY <1>1 DEF FlashInv, TypeInv, StageOK
    <2>2. \/ /\ cmd.op = "flash_write" /\ InWindow(cmd, a)
             /\ IF before[a] = Erased THEN flash[a] = Target(cmd, a)
                                      ELSE flash[a] = Garbled
          \/ /\ cmd.op \in EraseOps /\ a \in Unit(cmd.op, cmd.address)
             /\ flash[a] = Erased
        BY <1>1 DEF FlashInv
    <2>3. Gated(cmd.op)
        BY <2>2, OpClasses DEF Destructive
    <2>4. cmd.yes \notin {"absent", "trailing"}
        BY <2>1, <2>3 DEF Refusal, NoError, CommandLineParses
    <2> QED
        BY <2>1, <2>2, <2>4, LineTypes
<1> QED
    BY <1>1, FlashInvariant, Invariants, PTL

DataStutterVars == <<cmd, pc, err, done, buf, output, live, before, history,
                     dproto, flash, ram>>

LEMMA DataStutter ==
    ASSUME DataInv, HistoryInv, UNCHANGED DataStutterVars
    PROVE  DataInv' /\ HistoryInv'
<1> USE DEF DataStutterVars
<1>1. FlashInv' /\ EraseInv'
    BY DEF DataInv, FlashInv, EraseInv, Matched, Finished
<1>2. WriteInv'
    BY DEF DataInv, WriteInv, Matched, Finished, Placed, Total, Chunk
<1>3. ReadInv'
    BY DEF DataInv, ReadInv, Matched, Contents, Known
<1>4. HistoryInv'
    BY DEF HistoryInv, ErasedBy, KeptSince, Keeps, WrittenSince, Left, Running
<1> QED
    BY <1>1, <1>2, <1>3, <1>4 DEF DataInv

LEMMA DataInit == ASSUME Init PROVE DataInv /\ HistoryInv
<1>1. pc = "idle" /\ cmd = NoCommand /\ flash = before /\ DOMAIN history = {}
    BY DEF Init
<1>2. ~Matched
    BY <1>1 DEF Matched
<1> QED
    BY <1>1, <1>2
       DEF DataInv, FlashInv, WriteInv, ReadInv, EraseInv, HistoryInv

LEMMA DataInvariants ==
    ASSUME ShortTransfers = FALSE
    PROVE  Spec => [](TypeInv /\ ControlInv /\ DataInv /\ HistoryInv)
<1> DEFINE I == TypeInv /\ ControlInv /\ DataInv /\ HistoryInv
<1>1. Init => I
    BY TypeInit, ControlInit, DataInit
<1>2. I /\ [Next]_vars => I'
    <2> SUFFICES ASSUME I, [Next]_vars PROVE I'
        OBVIOUS
    <2>1. TypeInv' /\ ControlInv'
        BY TypeStep, ControlStep
    <2>2. CASE Next
        <3>1. FlashInv' /\ WriteInv' /\ ReadInv' /\ EraseInv'
            BY <2>2, FlashStep, WriteStep, ReadStep, EraseStep
               DEF DataInv, ControlInv
        <3>2. HistoryInv'
            BY <2>1, <2>2, <3>1, HistoryStep
        <3> QED
            BY <2>1, <3>1, <3>2 DEF DataInv
    <2>3. CASE UNCHANGED vars
        BY <2>1, <2>3, DataStutter
           DEF vars, invocation, device, DataStutterVars
    <2> QED
        BY <2>2, <2>3
<1> QED
    BY <1>1, <1>2, PTL DEF Spec

\* Exit 0 of a write means that the whole file is in place: in flash wherever
\* the cells were erased or right already, in RAM as long as the device lives.
\* (write_flash_chunked, write_memory_chunked, write_memory_rxgp_chunked)
THEOREM JlubootWroteWhatItSaid ==
    ASSUME ShortTransfers = FALSE
    PROVE  Spec => []WroteWhatItSaid
<1>1. ASSUME TypeInv, DataInv PROVE WroteWhatItSaid
    <2> SUFFICES ASSUME Succeeded, Matched, cmd.op \in WriteOps
                 PROVE  Placed(Total)
        BY DEF WroteWhatItSaid, Placed, Window, InWindow, Total
    <2>1. pc = "exited" /\ err = NoError
        BY <1>1, ErrorsOfCodes DEF Succeeded
    <2> QED
        BY <1>1, <2>1 DEF DataInv, WriteInv, Finished
<1> QED
    BY <1>1, DataInvariants, PTL

\* Data that reaches the output file or stdout is what the device holds at
\* [address, address + length), complete and in order.  (read_flash_chunked,
\* read_memory_chunked, emit_read_output)
THEOREM JlubootReadIsFaithful ==
    ASSUME ShortTransfers = FALSE
    PROVE  Spec => []ReadIsFaithful
<1>1. DataInv => ReadIsFaithful
    BY DEF DataInv, ReadInv, ReadIsFaithful
<1> QED
    BY <1>1, DataInvariants, PTL

LEMMA OffsetOf ==
    ASSUME NEW base \in Addrs, NEW k \in Addrs
    PROVE  /\ (base + k) % AddrSpace \in Addrs
           /\ (((base + k) % AddrSpace) - base) % AddrSpace = k
<1>1. AddrSpace \in Nat \ {0} /\ base + k \in 0 .. 2 * AddrSpace
    BY ChunksAssumption DEF Addrs
<1>2. (base + k) % AddrSpace =
         IF base + k >= AddrSpace THEN base + k - AddrSpace ELSE base + k
    BY <1>1 DEF Addrs
<1> QED
    BY <1>1, <1>2 DEF Addrs

\* The bytes of a placement that is in flash are what a read of it returns.
LEMMA ContentsOfPlacement ==
    ASSUME NEW pl \in Placement, Known("flash_read"),
           \A a \in Window(pl) : flash[a] = Target(pl, a)
    PROVE  Contents("flash_read", pl.address, Size[pl.file])
              = [i \in 1 .. Size[pl.file] |-> <<pl.file, i - 1>>]
<1>1. pl.file \in Files /\ pl.address \in Addrs
    BY DEF Placement
<1>2. Size[pl.file] \in 0 .. AddrSpace /\ AddrSpace \in Nat
    BY <1>1, ImagesAssumption, ChunksAssumption
<1>3. ASSUME NEW i \in 1 .. Size[pl.file]
      PROVE  flash[(pl.address + (i - 1)) % AddrSpace] = <<pl.file, i - 1>>
    <2>1. i - 1 \in Addrs /\ i - 1 < Size[pl.file]
        BY <1>2 DEF Addrs
    <2> DEFINE a == (pl.address + (i - 1)) % AddrSpace
    <2>2. a \in Addrs /\ Offset(pl, a) = i - 1
        BY <1>1, <2>1, OffsetOf DEF Offset
    <2>3. a \in Window(pl)
        BY <2>1, <2>2 DEF Window, InWindow
    <2> QED
        BY <2>2, <2>3 DEF Target
<1> QED
    BY <1>3 DEF Contents

\* Erase, write, read back: the data read are the file whenever, after an
\* erase that succeeded, only attempts to write this very file were made, one
\* of them successful, whatever failures, kills, chunk sizes and resets lie in
\* between.  (REAL_DEVICE_TEST_PLAN.md, phase 4)
THEOREM JlubootRoundTrip ==
    ASSUME ShortTransfers = FALSE
    PROVE  Spec => []RoundTrip
<1>1. ASSUME TypeInv, ControlInv, DataInv, HistoryInv PROVE RoundTrip
    <2> SUFFICES
          ASSUME NEW e \in DOMAIN history, NEW w \in DOMAIN history,
                 Succeeded, e < w, w < Len(history),
                 cmd.op = "flash_read",
                 cmd.len = Size[history[w].cmd.file],
                 cmd.address = history[w].cmd.address,
                 history[e].ok, history[e].cmd.op \in EraseOps,
                 Window(history[w].cmd)
                    \subseteq Unit(history[e].cmd.op, history[e].cmd.address),
                 history[w].ok, history[w].cmd.op = "flash_write",
                 \A i \in e + 1 .. Len(history) :
                    \/ history[i].cmd.op \in Harmless
                    \/ /\ history[i].cmd.op = "flash_write"
                       /\ history[i].cmd.file = history[w].cmd.file
                       /\ history[i].cmd.address = history[w].cmd.address,
                 \A i \in e .. Len(history) : history[i].cmd.proto = dproto
          PROVE  output.data = [i \in 1 .. cmd.len |->
                                   <<history[w].cmd.file, i - 1>>]
        BY DEF RoundTrip
    <2> DEFINE pl == [file |-> history[w].cmd.file,
                      address |-> history[w].cmd.address]
               last == Len(history)
    <2>1. /\ last \in Nat /\ DOMAIN history = 1 .. last
          /\ history[w] \in [cmd : Commands, ok : BOOLEAN]
        <3>1. history \in Seq([cmd : Commands, ok : BOOLEAN])
            BY <1>1 DEF TypeInv, TypeOK
        <3>2. last \in Nat /\ DOMAIN history = 1 .. last
            BY <3>1
        <3>3. w \in 1 .. last
            BY <3>2
        <3> QED
            BY <3>1, <3>2, <3>3, ElementOfSeq
    <2>2. /\ pc = "exited" /\ err = NoError /\ cmd \in Commands
          /\ history[last].cmd = cmd
        BY <1>1, ErrorsOfCodes DEF Succeeded, HistoryInv, TypeInv, StageOK
    <2>3. pl \in Placement /\ Window(pl) = Window(history[w].cmd)
        BY <2>1, LineTypes DEF Placement, Window, InWindow, Offset
    <2>4. ErasedBy(pl, history[e])
        BY <2>1, <2>3 DEF ErasedBy
    <2>5. KeptSince(pl, e, last)
        BY <2>1 DEF KeptSince, Keeps
    <2>6. WrittenSince(e, last)
        BY <2>1 DEF WrittenSince
    <2>7. \A a \in Window(pl) : flash[a] = Target(pl, a)
        BY <1>1, <2>2, <2>3, <2>4, <2>5, <2>6 DEF HistoryInv, Left, Running
    <2>8. Matched /\ cmd.op \in ReadOps /\ output.state = "whole"
        <3>1. cmd.proto = dproto
            BY <2>1, <2>2
        <3> QED
            BY <1>1, <2>2, <3>1, LineTypes
               DEF Matched, ReadOps, ControlInv, Delivered
    <2>9. output.data = Contents("flash_read", pl.address, cmd.len)
        BY <1>1, <2>8 DEF DataInv, ReadInv
    <2>10. CASE cmd.len > 0
        <3>1. Known("flash_read")
            BY <1>1, <2>8, <2>10, RunsItself DEF DataInv, ReadInv, Matched, Known
        <3>2. cmd.len = Size[pl.file]
            OBVIOUS
        <3> QED
            BY <2>3, <2>7, <2>9, <3>1, <3>2, ContentsOfPlacement
    <2>11. CASE ~(cmd.len > 0)
        <3>1. 1 .. cmd.len = {}
            BY <2>2, <2>11, LineTypes
        <3> QED
            BY <2>9, <3>1 DEF Contents
    <2> QED
        BY <2>10, <2>11
<1> QED
    BY <1>1, DataInvariants, PTL
=============================================================================
