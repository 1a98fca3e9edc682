---------------------------- MODULE JlubootProofs ---------------------------
(***************************************************************************)
(* The properties of Jluboot that concern control: types, what an exit     *)
(* code says, and what a device of any protocol is made to run.  For any   *)
(* command lines, files, sizes, widths and numbers of invocations and      *)
(* resets.                                                                 *)
(***************************************************************************)
EXTENDS Jluboot, ImagesProofs, SequenceTheorems

-----------------------------------------------------------------------------
(* The opcode table. *)

\* Which operations two rows with the same opcode may stand for.
LEMMA SameOpcode ==
    ASSUME NEW d \in Rows, NEW h \in Rows, d[3] = h[3]
    PROVE  /\ h[2] \in Harmless => d[2] \in Harmless
           /\ d[2] \in Destructive =>
                 \/ h[2] \in Destructive
                 \/ d[1] # h[1] /\ h[2] \in {"mem_write", "flash_select"}
BY DEF Rows, InfoCommands, DeviceCommands, FlashCommands, MemCommands,
       Harmless, ReadOps, Destructive, EraseOps

LEMMA OpsAre ==
    Ops = {"online", "read_id", "usb_buffer_size", "loader_version",
           "maskrom_id", "run_app", "read_status", "set_flash_cmds",
           "flash_crc16", "flash_crc16_raw", "chip_key", "read_key_raw",
           "write_chipkey", "flash_select", "flash_read", "flash_write",
           "flash_erase_sector", "flash_erase_block", "flash_erase_chip",
           "mem_write_rxgp", "mem_read", "mem_write", "mem_jump"}
BY DEF Ops, Rows, InfoCommands, DeviceCommands, FlashCommands, MemCommands

LEMMA RunsType ==
    ASSUME NEW dp, NEW hp, NEW op
    PROVE  Runs(dp, hp, op) \subseteq Ops
BY DEF Runs, Ops

LEMMA RunsHarmless ==
    ASSUME NEW dp, NEW hp, NEW op \in Harmless
    PROVE  Runs(dp, hp, op) \subseteq Harmless
BY SameOpcode DEF Runs

LEMMA RunsDestructive ==
    ASSUME NEW dp, NEW hp, NEW op,
           Runs(dp, hp, op) \intersect Destructive # {}
    PROVE  \/ op \in Destructive
           \/ dp # hp /\ op \in {"mem_write", "flash_select"}
BY SameOpcode DEF Runs

\* A device of the protocol the user named runs what it was asked for.
LEMMA RunsItself ==
    ASSUME NEW dp, NEW op, Supported(dp, op)
    PROVE  op \in Runs(dp, dp, op)
BY DEF Runs, Supported

-----------------------------------------------------------------------------
(* Types, and where each kind of command can be. *)

LineType == [op : Ops \union {"probe"}, proto : Protocols,
             yes : {"absent", "global", "trailing"}, address : Addrs,
             file : Files, len : Nat, chunk : Nat, arg : Nat,
             sink : {"file", "stdout"}]

StageOK ==
    /\ pc = "idle" <=> cmd = NoCommand
    /\ pc # "idle" => cmd \in Commands
    /\ Running => err = NoError /\ Refusal(cmd) = NoError
    /\ pc \in {"input", "write"} => cmd.op \in WriteOps
    /\ pc \in {"read", "emit"} => cmd.op \in ReadOps
    /\ pc = "single" => cmd.op \in SingleOps
    /\ pc \in {"inquiry", "probe"} => cmd.op = "probe"

TypeInv == TypeOK /\ StageOK

LEMMA LineTypes ==
    ASSUME NEW c \in Commands
    PROVE  /\ c \in LineType /\ c # NoCommand
           /\ c.op \in Ops \union {"probe"} /\ c.proto \in Protocols
           /\ c.yes \in {"absent", "global", "trailing"}
           /\ c.address \in Addrs /\ c.file \in Files
           /\ c.len \in Nat /\ c.chunk \in Nat /\ c.arg \in Nat
           /\ c.sink \in {"file", "stdout"}
           /\ EffectiveChunk(c.chunk) \in Nat \ {0}
           /\ Size[c.file] \in Nat
<1>1. c \in LineType
    BY JlubootAssumption DEF LineType
<1>2. c.op # "none"
    BY <1>1, OpsAre DEF LineType
<1>3. c # NoCommand
    BY <1>2 DEF NoCommand
<1>4. c.file \in Files /\ c.chunk \in Nat
    BY <1>1 DEF LineType
<1>5. EffectiveChunk(c.chunk) \in Nat \ {0}
    BY <1>4, EffectiveChunkPositive
<1>6. Size[c.file] \in Nat
    BY <1>4, ImagesAssumption, ChunksAssumption
<1> QED
    BY <1>1, <1>3, <1>5, <1>6 DEF LineType

LEMMA BodyType ==
    ASSUME NEW c \in Commands
    PROVE  /\ Body(c.op) \in {"input", "read", "single", "inquiry"}
           /\ Body(c.op) = "input" => c.op \in WriteOps
           /\ Body(c.op) = "read" => c.op \in ReadOps
           /\ Body(c.op) = "single" => c.op \in SingleOps
           /\ Body(c.op) = "inquiry" => c.op = "probe"
BY LineTypes, OpsAre DEF Body, WriteOps, ReadOps, SingleOps

LEMMA ErrorTypes ==
    /\ {NoError, "StdIo", "Refused", "Usage", "Killed", "Unsupported",
        "LengthTooLarge"} \subseteq ErrorKinds
    /\ ExecErrors \subseteq ErrorKinds /\ ResolveErrors \subseteq ErrorKinds
    /\ OpenErrors \subseteq ErrorKinds /\ Failures \subseteq ErrorKinds
    /\ \A op, reply : ReplyError(op, reply) \subseteq ErrorKinds
BY DEF ErrorKinds, NoError, TransportErrors, ProtocolErrors, ExecErrors,
       ResolveErrors, OpenErrors, Failures, ReplyError

LEMMA CheckTypes ==
    {WriteCheck, ReadCheck, SingleCheck, Refusal(cmd)} \subseteq ErrorKinds
BY ErrorTypes DEF WriteCheck, ReadCheck, SingleCheck, Refusal

\* The variables a handler's control is made of, and the others.
ControlType ==
    /\ StageOK
    /\ cmd \in Commands \union {NoCommand}
    /\ pc \in Stages
    /\ err \in ErrorKinds
    /\ history \in Seq([cmd : Commands, ok : BOOLEAN])

DeviceType ==
    /\ dproto \in Protocols
    /\ flash \in [Addrs -> FlashCells]
    /\ ram \in [Addrs -> FlashCells]
    /\ resets \in 0 .. MaxResets

InvocationType ==
    /\ done \in Nat
    /\ buf \in Seq(FlashCells)
    /\ asked \in 0 .. 5
    /\ output \in [state : {"none", "torn", "whole"}, data : Seq(FlashCells)]
    /\ issued \in BOOLEAN
    /\ received \in Nat
    /\ executed \subseteq Ops
    /\ live \in BOOLEAN

LEMMA TypeParts ==
    ASSUME TypeInv
    PROVE  /\ ControlType /\ DeviceType /\ InvocationType
           /\ before \in [Addrs -> FlashCells]
BY DEF TypeInv, TypeOK, ControlType, DeviceType, InvocationType

LEMMA TypeWhole ==
    ASSUME ControlType', DeviceType', InvocationType',
           before' \in [Addrs -> FlashCells]
    PROVE  TypeInv'
BY DEF TypeInv, TypeOK, ControlType, DeviceType, InvocationType

LEMMA NothingRead ==
    /\ << >> \in Seq(FlashCells)
    /\ NoOutput
          \in [state : {"none", "torn", "whole"}, data : Seq(FlashCells)]
    /\ [state |-> "torn", data |-> << >>]
          \in [state : {"none", "torn", "whole"}, data : Seq(FlashCells)]
<1>1. << >> \in Seq(FlashCells)
    OBVIOUS
<1> QED
    BY <1>1 DEF NoOutput

LEMMA Ends ==
    ASSUME ControlType, Running, NEW kind \in ErrorKinds, End(kind),
           cmd' = cmd
    PROVE  ControlType'
<1>1. history' \in Seq([cmd : Commands, ok : BOOLEAN])
    <2>1. [cmd |-> cmd, ok |-> kind = NoError] \in [cmd : Commands, ok : BOOLEAN]
        BY DEF ControlType, StageOK, Running
    <2> QED
        BY <2>1 DEF ControlType, End
<1> QED
    BY <1>1 DEF ControlType, StageOK, Running, End, Stages

\* Where a handler may go next.
Fits(stage) ==
    /\ stage \in Stages \ {"idle", "exited"}
    /\ stage \in {"input", "write"} => cmd.op \in WriteOps
    /\ stage \in {"read", "emit"} => cmd.op \in ReadOps
    /\ stage = "single" => cmd.op \in SingleOps
    /\ stage \in {"inquiry", "probe"} => cmd.op = "probe"

LEMMA Advances ==
    ASSUME ControlType, Running, NEW stage, Fits(stage), Advance(stage),
           cmd' = cmd
    PROVE  ControlType'
BY DEF ControlType, StageOK, Running, Advance, Fits, Stages

LEMMA Stays ==
    ASSUME ControlType, UNCHANGED <<cmd, pc, err, history>>
    PROVE  ControlType'
BY DEF ControlType, StageOK, Running

-----------------------------------------------------------------------------
(* What one transfer does to the types. *)

LEMMA StoredCells ==
    ASSUME NEW m \in [Addrs -> FlashCells], NEW addr \in Addrs,
           NEW f \in Files, NEW off \in Nat, NEW n \in Nat,
           off + n <= AddrSpace
    PROVE  Stored(m, addr, f, off, n) \in [Addrs -> FlashCells]
<1> SUFFICES ASSUME NEW a \in Addrs
             PROVE  (IF (a - addr) % AddrSpace < n
                     THEN <<f, off + ((a - addr) % AddrSpace)>>
                     ELSE m[a]) \in FlashCells
    BY DEF Stored
<1>1. AddrSpace \in Nat \ {0} /\ a - addr \in Int
    BY ChunksAssumption DEF Addrs
<1>2. (a - addr) % AddrSpace \in 0 .. AddrSpace - 1
    BY <1>1
<1> DEFINE k == (a - addr) % AddrSpace
<1>3. CASE k < n
    <2>1. off + k \in 0 .. AddrSpace - 1
        BY <1>1, <1>2, <1>3
    <2> QED
        BY <1>3, <2>1 DEF FlashCells, Cells, FileCells
<1>4. CASE ~(k < n)
    BY <1>4
<1> QED
    BY <1>3, <1>4

LEMMA PerformsType ==
    ASSUME DeviceType, executed \subseteq Ops, cmd \in Commands,
           NEW op, NEW addr \in Addrs, NEW off \in Nat, NEW n \in Nat,
           off + n <= AddrSpace, Performs(op, addr, off, n)
    PROVE  DeviceType' /\ executed' \subseteq Ops
<1>1. cmd.file \in Files
    BY LineTypes
<1>2. Runs(dproto, cmd.proto, op) \subseteq Ops
    BY RunsType
<1> DEFINE new == Stored(flash, addr, cmd.file, off, n)
<1>3. new \in [Addrs -> FlashCells]
    BY <1>1, StoredCells DEF DeviceType
<1>4. Stored(ram, addr, cmd.file, off, n) \in [Addrs -> FlashCells]
    BY <1>1, StoredCells DEF DeviceType
<1> HIDE DEF new
<1>5. \A a \in Addrs : Burn(flash[a], new[a]) \in FlashCells
    BY <1>3 DEF DeviceType, Burn, FlashCells
<1>6. flash' \in [Addrs -> FlashCells]
    <2>1. CASE Known(op) /\ op = "flash_write"
        <3>1. flash' = [a \in Addrs |-> IF (a - addr) % AddrSpace < n
                                        THEN Burn(flash[a], new[a])
                                        ELSE flash[a]]
            BY <2>1 DEF Performs, EraseOps, new
        <3> QED
            BY <1>5, <3>1 DEF DeviceType
    <2>2. CASE Known(op) /\ op \in EraseOps
        <3>1. flash' = [a \in Addrs |-> IF a \in Unit(op, addr)
                                        THEN Erased ELSE flash[a]]
            BY <2>2 DEF Performs, EraseOps
        <3> QED
            BY <3>1 DEF DeviceType, FlashCells
    <2>3. CASE ~(Known(op) /\ op = "flash_write")
                  /\ ~(Known(op) /\ op \in EraseOps)
        BY <2>3 DEF Performs, DeviceType
    <2> QED
        BY <2>1, <2>2, <2>3
<1>7. ram' \in [Addrs -> FlashCells]
    BY <1>4 DEF Performs, DeviceType
<1>8. executed' \subseteq Ops
    BY <1>2 DEF Performs
<1> QED
    BY <1>6, <1>7, <1>8 DEF Performs, DeviceType

LEMMA ContentsType ==
    ASSUME DeviceType, NEW op, NEW addr \in Addrs, NEW n \in Nat
    PROVE  /\ Contents(op, addr, n) \in Seq(FlashCells)
           /\ Len(Contents(op, addr, n)) = n
<1>1. ASSUME NEW i \in 1 .. n
      PROVE  (addr + (i - 1)) % AddrSpace \in Addrs
    BY ChunksAssumption DEF Addrs
<1>2. Old \in FlashCells
    BY DEF FlashCells, Cells
<1>3. Contents(op, addr, n) \in [1 .. n -> FlashCells]
    BY <1>1, <1>2 DEF Contents, DeviceType
<1> QED
    BY <1>3

LEMMA ReadAddrType ==
    ASSUME NEW base \in Addrs, NEW off \in Nat
    PROVE  ReadAddr(base, off) \in Addrs
<1>1. off % AddrSpace \in Nat
    BY ChunksAssumption
<1>2. base + (off % AddrSpace) \in Int
    BY <1>1 DEF Addrs
<1> QED
    BY <1>2, ChunksAssumption DEF ReadAddr, Addrs

\* Where the next chunk of a write goes.
LEMMA WriteType ==
    ASSUME TypeInv, pc = "write", MoreToWrite
    PROVE  /\ cmd \in Commands /\ done \in Nat /\ Chunk \in Nat \ {0}
           /\ ChunkAddr(cmd.address, Chunk, done) \in Addrs
           /\ ChunkStart(Chunk, done) \in Nat
           /\ WriteLen \in 1 .. Chunk
           /\ \A n \in 0 .. WriteLen :
                 ChunkStart(Chunk, done) + n <= AddrSpace
<1>1. cmd \in Commands /\ done \in Nat
    BY DEF TypeInv, StageOK, TypeOK
<1>2. Chunk \in Nat \ {0} /\ cmd.address \in Addrs /\ cmd.file \in Files
         /\ Total \in 0 .. AddrSpace /\ AddrSpace \in Nat
    BY <1>1, LineTypes, ImagesAssumption, ChunksAssumption DEF Chunk, Total
<1>3. /\ ChunkStart(Chunk, done) \in Nat
      /\ WriteLen \in 1 .. Chunk
      /\ ChunkStart(Chunk, done) + WriteLen <= Total
    BY <1>1, <1>2, ChunkInside DEF MoreToWrite, WriteLen
<1>4. ChunkAddr(cmd.address, Chunk, done) \in Addrs
    BY <1>1, <1>2, ChunkAddrType
<1> QED
    BY <1>1, <1>2, <1>3, <1>4

LEMMA MovedInRange ==
    ASSUME NEW k \in Nat, NEW n \in Moved(k)
    PROVE  n \in 0 .. k /\ (ShortTransfers = FALSE => n = k)
BY JlubootAssumption DEF Moved

LEMMA WritesType ==
    ASSUME TypeInv, pc = "write", MoreToWrite, NEW n \in 0 .. WriteLen,
           Writes(n)
    PROVE  DeviceType' /\ executed' \subseteq Ops /\ received' \in Nat
<1>1. n \in Nat
    BY WriteType
<1>2. DeviceType /\ executed \subseteq Ops /\ received \in Nat
    BY TypeParts DEF InvocationType
<1>3. DeviceType' /\ executed' \subseteq Ops
    BY <1>1, <1>2, WriteType, PerformsType DEF Writes
<1> QED
    BY <1>1, <1>2, <1>3 DEF Writes

LEMMA IgnoresType ==
    ASSUME TypeInv, Ignores
    PROVE  DeviceType' /\ executed' \subseteq Ops
BY DEF TypeInv, TypeOK, DeviceType, Ignores, device

\* A read never asks for more than is left.
LEMMA ReadLenType ==
    ASSUME TypeInv, pc = "read", MoreToRead
    PROVE  /\ cmd \in Commands /\ done \in Nat /\ Chunk \in Nat \ {0}
           /\ NextRead \in 1 .. Chunk
           /\ done + NextRead <= cmd.len
           /\ ReadAddr(cmd.address, done) \in Addrs
<1>1. cmd \in Commands /\ done \in Nat
    BY DEF TypeInv, StageOK, TypeOK
<1>2. Chunk \in Nat \ {0} /\ cmd.address \in Addrs /\ cmd.len \in Nat
    BY <1>1, LineTypes DEF Chunk
<1> QED
    BY <1>1, <1>2, ReadAddrType DEF NextRead, ReadLen, MoreToRead

-----------------------------------------------------------------------------
(* Every step keeps the types. *)

\* The steps that only decide where the handler goes.
Plain ==
    \/ Resolve \/ ReadInput \/ RejectWrite \/ WriteDone
    \/ RejectRead \/ ReadDone \/ RejectSingle \/ Inquiry \/ ProbeDone
    \/ Report \/ Kill

LEMMA PlainType == ASSUME TypeInv, Plain PROVE TypeInv'
<1>1. ControlType
    BY TypeParts
<1>2. UNCHANGED <<cmd, invocation, before, device>> /\ Running
    BY DEF Plain, Resolve, ReadInput, RejectWrite, WriteDone, RejectRead,
       ReadDone, RejectSingle, Inquiry, ProbeDone, Report, Kill, Running
<1>3. \/ \E e \in ErrorKinds : End(e)
      \/ \E stage : Fits(stage) /\ Advance(stage)
    <2>1. /\ Fits("open") /\ Fits("report")
          /\ pc = "input" => Fits("write")
          /\ pc = "read" => Fits("emit")
          /\ pc = "inquiry" => Fits("probe")
        BY <1>1 DEF Fits, Stages, ControlType, StageOK
    <2> USE ErrorTypes, CheckTypes
    <2>2. CASE Resolve       BY <2>1, <2>2 DEF Resolve
    <2>3. CASE ReadInput     BY <2>1, <2>3 DEF ReadInput
    <2>4. CASE RejectWrite   BY <2>4 DEF RejectWrite
    <2>5. CASE WriteDone     BY <2>1, <2>5 DEF WriteDone
    <2>6. CASE RejectRead    BY <2>6 DEF RejectRead
    <2>7. CASE ReadDone      BY <2>1, <2>7 DEF ReadDone
    <2>8. CASE RejectSingle  BY <2>8 DEF RejectSingle
    <2>9. CASE Inquiry       BY <2>1, <2>9 DEF Inquiry
    <2>10. CASE ProbeDone    BY <2>1, <2>10 DEF ProbeDone
    <2>11. CASE Report       BY <2>11 DEF Report
    <2>12. CASE Kill         BY <2>12 DEF Kill
    <2> QED
        BY <2>2, <2>3, <2>4, <2>5, <2>6, <2>7, <2>8, <2>9, <2>10, <2>11, <2>12
           DEF Plain
<1>4. ControlType'
    BY <1>1, <1>2, <1>3, Ends, Advances
<1>5. DeviceType'
    BY <1>2, TypeParts DEF device, DeviceType
<1>6. InvocationType' /\ before' \in [Addrs -> FlashCells]
    BY <1>2, TypeParts DEF invocation, InvocationType
<1> QED
    BY <1>4, <1>5, <1>6, TypeWhole

LEMMA InvokeType == ASSUME TypeInv, Invoke PROVE TypeInv'
<1>1. cmd' \in Commands /\ cmd' # NoCommand
    BY LineTypes DEF Invoke
<1>2. err' \in ErrorKinds /\ err' = Refusal(cmd')
    BY ErrorTypes DEF Invoke, Refusal
<1>3. history' \in Seq([cmd : Commands, ok : BOOLEAN])
    <2> DEFINE entry == [cmd |-> cmd', ok |-> FALSE]
    <2>1. entry \in [cmd : Commands, ok : BOOLEAN]
        BY <1>1
    <2>2. history \in Seq([cmd : Commands, ok : BOOLEAN])
        BY TypeParts DEF ControlType
    <2>3. \/ history' = history
          \/ history' = Append(history, entry)
        BY DEF Invoke
    <2> HIDE DEF entry
    <2>4. Append(history, entry) \in Seq([cmd : Commands, ok : BOOLEAN])
        BY <2>1, <2>2
    <2> QED
        BY <2>2, <2>3, <2>4
<1>4. \/ pc' = "resolve" /\ err' = NoError
      \/ pc' = "exited"
    BY DEF Invoke
<1>5. ControlType'
    BY <1>1, <1>2, <1>3, <1>4 DEF ControlType, StageOK, Stages, Running
<1>6. InvocationType'
    <2>1. /\ done' = 0 /\ buf' = << >> /\ asked' = 0 /\ output' = NoOutput
          /\ issued' = FALSE /\ received' = 0 /\ executed' = {}
          /\ live' = FALSE
        BY DEF Invoke
    <2>2. /\ buf' \in Seq(FlashCells)
          /\ output' \in [state : {"none", "torn", "whole"},
                          data : Seq(FlashCells)]
        BY <2>1, NothingRead
    <2>3. /\ done' \in Nat /\ asked' \in 0 .. 5 /\ received' \in Nat
          /\ executed' \subseteq Ops
        BY <2>1
    <2>4. issued' \in BOOLEAN /\ live' \in BOOLEAN
        BY <2>1, Zenon
    <2> QED
        BY <2>2, <2>3, <2>4 DEF InvocationType
<1>7. DeviceType' /\ before' \in [Addrs -> FlashCells]
    BY TypeParts DEF Invoke, device, DeviceType
<1> QED
    BY <1>5, <1>6, <1>7, TypeWhole

LEMMA OpenType == ASSUME TypeInv, Open PROVE TypeInv'
<1>1. ControlType /\ Running /\ cmd' = cmd
    BY TypeParts DEF Open, Running
<1>2. cmd \in Commands
    BY <1>1 DEF ControlType, StageOK, Running
<1>3. Fits(Body(cmd.op))
    BY <1>2, BodyType DEF Fits, Stages
<1>4. \/ \E e \in ErrorKinds : End(e)
      \/ Advance(Body(cmd.op))
    BY ErrorTypes DEF Open
<1>5. ControlType'
    BY <1>1, <1>3, <1>4, Ends, Advances
<1>6. DeviceType' /\ before' \in [Addrs -> FlashCells]
    BY TypeParts DEF Open, device, DeviceType
<1>7. InvocationType'
    BY TypeParts DEF Open, InvocationType
<1> QED
    BY <1>5, <1>6, <1>7, TypeWhole

LEMMA SendWriteType ==
    ASSUME TypeInv, SendWrite \/ SendWriteFails PROVE TypeInv'
<1>1. ControlType /\ Running /\ cmd' = cmd /\ pc = "write" /\ MoreToWrite
    BY TypeParts DEF SendWrite, SendWriteFails, Writing, Running
<1>2. \/ UNCHANGED <<cmd, pc, err, history>>
      \/ \E e \in ErrorKinds : End(e)
    BY <1>1, ErrorTypes DEF SendWrite, SendWriteFails
<1>3. ControlType'
    BY <1>1, <1>2, Ends, Stays
<1>4. DeviceType' /\ executed' \subseteq Ops /\ received' \in Nat
    <2>1. ASSUME NEW n \in 0 .. WriteLen, Writes(n)
          PROVE  DeviceType' /\ executed' \subseteq Ops /\ received' \in Nat
        BY <1>1, <2>1, WritesType
    <2>2. WriteLen \in Nat
        BY <1>1, WriteType
    <2>3. CASE SendWrite
        BY <2>1, <2>2, <2>3, MovedInRange DEF SendWrite
    <2>4. CASE \E n \in 1 .. WriteLen : Writes(n)
        <3>1. PICK n \in 1 .. WriteLen : Writes(n)
            BY <2>4
        <3>2. n \in 0 .. WriteLen
            BY <2>2
        <3> QED
            BY <2>1, <3>1, <3>2
    <2>5. CASE Ignores /\ UNCHANGED received
        BY <2>5, IgnoresType DEF TypeInv, TypeOK
    <2> QED
        BY <2>3, <2>4, <2>5 DEF SendWriteFails
<1>5. /\ UNCHANGED <<buf, asked, output, live, before>>
      /\ issued' = TRUE /\ done' \in {done, done + 1}
    BY DEF SendWrite, SendWriteFails, Writing
<1>6. InvocationType' /\ before' \in [Addrs -> FlashCells]
    BY <1>4, <1>5, TypeParts DEF InvocationType
<1> QED
    BY <1>3, <1>4, <1>6, TypeWhole

LEMMA SendReadType ==
    ASSUME TypeInv, SendRead \/ SendReadFails PROVE TypeInv'
<1>1. ControlType /\ Running /\ cmd' = cmd /\ pc = "read" /\ MoreToRead
    BY TypeParts DEF SendRead, SendReadFails, Reading, Running
<1>2. \/ UNCHANGED <<cmd, pc, err, history>>
      \/ \E e \in ErrorKinds : End(e)
    BY <1>1, ErrorTypes DEF SendRead, SendReadFails
<1>3. ControlType'
    BY <1>1, <1>2, Ends, Stays
<1>4. buf' \in Seq(FlashCells) /\ done' \in Nat /\ executed' \subseteq Ops
    <2>0. buf \in Seq(FlashCells) /\ executed \subseteq Ops /\ done \in Nat
        BY TypeParts DEF InvocationType
    <2>1. CASE SendRead
        <3>1. PICK n \in Moved(NextRead) :
                  buf' = buf \o Contents(cmd.op, ReadAddr(cmd.address, done), n)
            BY <2>1 DEF SendRead
        <3>2. NextRead \in Nat /\ ReadAddr(cmd.address, done) \in Addrs
            BY <1>1, ReadLenType
        <3>3. n \in Nat
            <4>1. n \in 0 .. NextRead
                BY <3>1, <3>2, MovedInRange
            <4> QED
                BY <3>2, <4>1
        <3>4. Contents(cmd.op, ReadAddr(cmd.address, done), n)
                 \in Seq(FlashCells)
            BY <3>2, <3>3, ContentsType, TypeParts
        <3>5. buf' \in Seq(FlashCells)
            BY <2>0, <3>1, <3>4
        <3>6. executed' \subseteq Ops /\ done' \in Nat
            BY <2>0, <2>1, <3>2, RunsType DEF SendRead
        <3> QED
            BY <3>5, <3>6
    <2>2. CASE SendReadFails
        BY <2>0, <2>2 DEF SendReadFails
    <2> QED
        BY <2>1, <2>2
<1>5. UNCHANGED <<asked, output, received, live, before, device>>
         /\ issued' = TRUE
    BY DEF SendRead, SendReadFails, Reading
<1>6. InvocationType' /\ before' \in [Addrs -> FlashCells]
    BY <1>4, <1>5, TypeParts DEF InvocationType
<1>7. DeviceType'
    BY <1>5, TypeParts DEF device, DeviceType
<1> QED
    BY <1>3, <1>6, <1>7, TypeWhole

LEMMA EmitType == ASSUME TypeInv, Emit PROVE TypeInv'
<1>1. ControlType /\ Running /\ cmd' = cmd
    BY TypeParts DEF Emit, Running
<1>2. Fits("report")
    BY DEF Fits, Stages
<1>3. \/ \E e \in ErrorKinds : End(e)
      \/ Advance("report")
    BY ErrorTypes DEF Emit
<1>4. ControlType'
    BY <1>1, <1>2, <1>3, Ends, Advances
<1>5. output' \in [state : {"none", "torn", "whole"}, data : Seq(FlashCells)]
    <2>1. [state |-> "whole", data |-> buf]
             \in [state : {"none", "torn", "whole"}, data : Seq(FlashCells)]
        BY TypeParts DEF InvocationType
    <2>2. output' \in {NoOutput, [state |-> "torn", data |-> << >>],
                       [state |-> "whole", data |-> buf]}
        BY DEF Emit
    <2> QED
        BY <2>1, <2>2, NothingRead
<1>6. InvocationType' /\ before' \in [Addrs -> FlashCells]
    BY <1>5, TypeParts DEF Emit, InvocationType
<1>7. DeviceType'
    BY TypeParts DEF Emit, device, DeviceType
<1> QED
    BY <1>4, <1>6, <1>7, TypeWhole

LEMMA SendSingleType ==
    ASSUME TypeInv, SendSingle \/ SendSingleFails PROVE TypeInv'
<1>1. ControlType /\ Running /\ cmd' = cmd /\ pc = "single"
    BY TypeParts DEF SendSingle, SendSingleFails, Asking, Running
<1>2. cmd \in Commands /\ executed \subseteq Ops
    BY <1>1, TypeParts DEF ControlType, StageOK, InvocationType
<1>3. Fits("report")
    BY DEF Fits, Stages
<1>4. \/ \E e \in ErrorKinds : End(e)
      \/ Advance("report")
    BY ErrorTypes DEF SendSingle, SendSingleFails
<1>5. ControlType'
    BY <1>1, <1>3, <1>4, Ends, Advances
<1>6. Performs(cmd.op, cmd.address, 0, 0) \/ Ignores
    BY DEF SendSingle, SendSingleFails
<1>7. DeviceType' /\ executed' \subseteq Ops
    BY <1>2, <1>6, LineTypes, ChunksAssumption, PerformsType, IgnoresType,
       TypeParts
<1>8. /\ UNCHANGED <<done, buf, asked, output, received, live, before>>
      /\ issued' = TRUE
    BY DEF SendSingle, SendSingleFails, Asking
<1>9. InvocationType' /\ before' \in [Addrs -> FlashCells]
    BY <1>7, <1>8, TypeParts DEF InvocationType
<1> QED
    BY <1>5, <1>7, <1>9, TypeWhole

LEMMA AskType == ASSUME TypeInv, Ask PROVE TypeInv'
<1>1. ControlType /\ Running /\ cmd' = cmd
    BY TypeParts DEF Ask, Running
<1>2. cmd \in Commands /\ executed \subseteq Ops
    BY <1>1, TypeParts DEF ControlType, StageOK, Running, InvocationType
<1>3. \/ UNCHANGED <<cmd, pc, err, history>>
      \/ \E e \in ErrorKinds : End(e)
    BY <1>1, ErrorTypes DEF Ask
<1>4. ControlType'
    BY <1>1, <1>3, Ends, Stays
<1>5. Performs(Questions[asked + 1], 0, 0, 0) \/ Ignores
    BY DEF Ask
<1>6. 0 \in Addrs /\ AddrSpace \in Nat
    BY ChunksAssumption DEF Addrs
<1>7. DeviceType' /\ executed' \subseteq Ops
    BY <1>2, <1>5, <1>6, PerformsType, IgnoresType, TypeParts
<1>8. /\ UNCHANGED <<done, buf, output, received, live, before>>
      /\ asked' = asked + 1 /\ asked < 5
    BY DEF Ask, Questions
<1>8a. issued' \in BOOLEAN
    BY TypeParts DEF Ask, InvocationType
<1>9. InvocationType' /\ before' \in [Addrs -> FlashCells]
    BY <1>7, <1>8, <1>8a, TypeParts DEF InvocationType
<1> QED
    BY <1>4, <1>7, <1>9, TypeWhole

LEMMA ResetType == ASSUME TypeInv, Reset PROVE TypeInv'
<1>1. ControlType'
    BY TypeParts, Stays DEF Reset
<1>2. resets' \in 0 .. MaxResets
    BY TypeParts, JlubootAssumption DEF Reset, DeviceType
<1>3. ram' \in [Addrs -> FlashCells]
    BY DEF Reset, FlashCells, Cells
<1>4. DeviceType'
    BY <1>2, <1>3, TypeParts DEF Reset, DeviceType
<1>5. InvocationType' /\ before' \in [Addrs -> FlashCells]
    BY TypeParts DEF Reset, InvocationType
<1> QED
    BY <1>1, <1>4, <1>5, TypeWhole

LEMMA StutterType == ASSUME TypeInv, UNCHANGED vars PROVE TypeInv'
<1>1. UNCHANGED <<cmd, pc, err, history, before, invocation, device>>
    BY DEF vars
<1>2. ControlType'
    BY <1>1, TypeParts, Stays
<1>3. DeviceType'
    BY <1>1, TypeParts DEF device, DeviceType
<1>4. InvocationType' /\ before' \in [Addrs -> FlashCells]
    BY <1>1, TypeParts DEF invocation, InvocationType
<1> QED
    BY <1>2, <1>3, <1>4, TypeWhole

LEMMA TypeInit == ASSUME Init PROVE TypeInv
<1>1. cmd = NoCommand /\ pc = "idle" /\ err = NoError
    BY DEF Init
<1>2. StageOK
    BY <1>1 DEF StageOK, Running
<1>3. flash \in [Addrs -> FlashCells] /\ ram \in [Addrs -> FlashCells]
    BY DEF Init, FlashCells, Cells
<1>4. dproto \in Protocols /\ 0 \in 0 .. MaxResets
    BY JlubootAssumption DEF Init
<1>5. history \in Seq([cmd : Commands, ok : BOOLEAN])
    BY DEF Init
<1>6. ControlType
    BY <1>1, <1>2, <1>5, ErrorTypes DEF ControlType, Stages
<1>7. DeviceType /\ before \in [Addrs -> FlashCells]
    BY <1>3, <1>4 DEF Init, DeviceType
<1>8. InvocationType
    <2>1. /\ done = 0 /\ buf = << >> /\ asked = 0 /\ output = NoOutput
          /\ issued = FALSE /\ received = 0 /\ executed = {}
          /\ live = FALSE
        BY DEF Init
    <2>2. /\ buf \in Seq(FlashCells)
          /\ output \in [state : {"none", "torn", "whole"},
                          data : Seq(FlashCells)]
        BY <2>1, NothingRead
    <2>3. /\ done \in Nat /\ asked \in 0 .. 5 /\ received \in Nat
          /\ executed \subseteq Ops
        BY <2>1
    <2>4. issued \in BOOLEAN /\ live \in BOOLEAN
        BY <2>1, Zenon
    <2> QED
        BY <2>2, <2>3, <2>4 DEF InvocationType
<1> QED
    BY <1>2, <1>6, <1>7, <1>8
       DEF TypeInv, TypeOK, ControlType, DeviceType, InvocationType

LEMMA TypeStep == ASSUME TypeInv, [Next]_vars PROVE TypeInv'
BY PlainType, InvokeType, OpenType, SendWriteType, SendReadType, EmitType,
   SendSingleType, AskType, ResetType, StutterType DEF Next, Step, Plain

\* Every variable keeps its type, and every handler stays in the stages of its
\* kind: cmd, pc, the counters, the flash, the exit codes.
THEOREM JlubootTypeCorrect == Spec => []TypeOK
<1>1. Spec => []TypeInv
    BY TypeInit, TypeStep, PTL DEF Spec
<1>2. TypeInv => TypeOK
    BY DEF TypeInv
<1> QED
    BY <1>1, <1>2, PTL

-----------------------------------------------------------------------------
(* The invariants behind the exit codes and the operations executed. *)

\* What may end a handler without a word from the protocol.
Interruptions == {"StdIo", "Killed"} \union TransportErrors

\* No command is sent before the device was asked for, and once a bulk
\* transfer has sent a chunk no later one is rejected.
SentFits ==
    /\ pc \in {"resolve", "open", "input"} => ~issued
    /\ pc = "write" /\ issued /\ MoreToWrite => WriteCheck = NoError
    /\ pc = "read" /\ issued /\ MoreToRead => ReadCheck = NoError
    /\ (/\ pc = "exited" /\ cmd.op \in WriteOps \union ReadOps
        /\ err \in ProtocolErrors) => ~issued

\* A read delivers when its loop is over, and nothing before.
Delivered ==
    /\ Running /\ pc # "report" => output = NoOutput
    /\ pc = "report" /\ cmd.op \in ReadOps => output.state = "whole"
    /\ pc = "exited" /\ cmd.op \in ReadOps =>
          /\ err \in {"NotFound", "TransportOther"} \union ProtocolErrors
                => output = NoOutput
          /\ err = NoError => output.state = "whole"

\* What the device ran was asked for by a command that was not refused.
RanWhatWasAsked ==
    /\ pc = "idle" => executed = {}
    /\ pc # "idle" =>
          /\ executed # {} => Refusal(cmd) = NoError
          /\ cmd.op \in Harmless => executed \subseteq Harmless
          /\ executed \intersect Destructive # {} =>
                \/ cmd.op \in Destructive
                \/ /\ dproto # cmd.proto
                   /\ cmd.op \in {"mem_write", "flash_select"}

\* A single command that passed its check and got its reply was run.
Acknowledged ==
    (/\ pc = "report" \/ (pc = "exited" /\ err = NoError)
     /\ cmd.op \in SingleOps \ {"loader_version", "set_flash_cmds"}
     /\ cmd.proto = dproto) => cmd.op \in executed

ControlInv == SentFits /\ Delivered /\ RanWhatWasAsked /\ Acknowledged

LEMMA OpClasses ==
    /\ Destructive \intersect Harmless = {}
    /\ \A op \in Destructive : Gated(op)
    /\ WriteOps \intersect ReadOps = {}
    /\ SingleOps \intersect (WriteOps \union ReadOps) = {}
    /\ "probe" \in Harmless
    /\ "probe" \notin SingleOps \union WriteOps \union ReadOps
    /\ ReadOps \subseteq Harmless
BY OpsAre DEF Destructive, Harmless, Gated, EraseOps, WriteOps, ReadOps,
              SingleOps

LEMMA ErrorClasses ==
    /\ NoError \notin Interruptions /\ NoError \notin ProtocolErrors
    /\ Interruptions \intersect ProtocolErrors = {}
    /\ ExecErrors \subseteq Interruptions \ {"NotFound"}
    /\ Failures \subseteq Interruptions
    /\ ResolveErrors \subseteq Interruptions
    /\ OpenErrors \subseteq Interruptions
    /\ {"StdIo", "Killed"} \subseteq Interruptions
    /\ WriteCheck \in ProtocolErrors \union {NoError}
    /\ ReadCheck \in ProtocolErrors \union {NoError}
    /\ SingleCheck \in ProtocolErrors \union {NoError}
BY DEF NoError, Interruptions, ProtocolErrors, TransportErrors, ExecErrors,
       Failures, ResolveErrors, OpenErrors, WriteCheck, ReadCheck, SingleCheck

\* Where a plain step leads.
LEMMA PlainSteps ==
    ASSUME Plain
    PROVE  /\ UNCHANGED <<cmd, done, buf, output, issued, executed, live,
                           before, dproto, flash, ram>>
           /\ \/ pc = "resolve" /\ pc' = "open"
              \/ pc = "input" /\ pc' = "write"
              \/ pc = "write" /\ ~MoreToWrite /\ pc' = "report"
              \/ pc = "read" /\ ~MoreToRead /\ pc' = "emit"
              \/ pc = "inquiry" /\ pc' = "probe"
              \/ pc = "probe" /\ pc' = "report"
              \/ /\ Running /\ pc' = "exited" /\ err' \in Interruptions
                 /\ pc = "report" => err' \in {"StdIo", "Killed"}
              \/ pc = "report" /\ pc' = "exited" /\ err' = NoError
              \/ /\ pc' = "exited" /\ err' \in ProtocolErrors
                 /\ \/ pc = "write" /\ MoreToWrite /\ WriteCheck # NoError
                    \/ pc = "read" /\ MoreToRead /\ ReadCheck # NoError
                    \/ pc = "single"
<1>1. UNCHANGED <<cmd, done, buf, output, issued, executed, live, before,
                  dproto, flash, ram>>
    BY DEF Plain, Resolve, ReadInput, RejectWrite, WriteDone, RejectRead,
       ReadDone, RejectSingle, Inquiry, ProbeDone, Report, Kill, invocation,
       device
<1> USE <1>1, ErrorClasses DEF Advance, End
<1>2. CASE Resolve       BY <1>2 DEF Resolve, Running
<1>3. CASE ReadInput     BY <1>3 DEF ReadInput, Running
<1>4. CASE RejectWrite   BY <1>4 DEF RejectWrite
<1>5. CASE WriteDone     BY <1>5 DEF WriteDone
<1>6. CASE RejectRead    BY <1>6 DEF RejectRead
<1>7. CASE ReadDone      BY <1>7 DEF ReadDone
<1>8. CASE RejectSingle  BY <1>8 DEF RejectSingle
<1>9. CASE Inquiry       BY <1>9 DEF Inquiry, Running
<1>10. CASE ProbeDone    BY <1>10 DEF ProbeDone
<1>11. CASE Report       BY <1>11 DEF Report, Running
<1>12. CASE Kill         BY <1>12 DEF Kill
<1> QED
    BY <1>2, <1>3, <1>4, <1>5, <1>6, <1>7, <1>8, <1>9, <1>10, <1>11, <1>12
       DEF Plain

LEMMA ControlInit == ASSUME Init PROVE ControlInv
<1>1. pc = "idle" /\ executed = {} /\ output = NoOutput
    BY DEF Init
<1> QED
    BY <1>1 DEF ControlInv, SentFits, Delivered, RanWhatWasAsked, Acknowledged,
                Running

LEMMA ControlInvoke == ASSUME TypeInv, Invoke PROVE ControlInv'
<1>1. /\ pc' = "resolve" \/ (pc' = "exited" /\ err' # NoError)
      /\ output' = NoOutput /\ issued' = FALSE /\ executed' = {}
    BY DEF Invoke
<1> QED
    BY <1>1 DEF ControlInv, SentFits, Delivered, RanWhatWasAsked, Acknowledged,
                Running

LEMMA ControlStutter ==
    ASSUME ControlInv,
           UNCHANGED <<cmd, pc, err, done, output, issued, executed, dproto>>
    PROVE  ControlInv'
BY DEF ControlInv, SentFits, Delivered, RanWhatWasAsked, Acknowledged, Running,
       MoreToWrite, WriteCheck, MoreToRead, ReadCheck, WriteLen, NextRead,
       Total, Chunk

-----------------------------------------------------------------------------
(* A protocol error comes before the first command. *)

LEMMA LaterChunksFit ==
    ASSUME NEW len \in Nat, NEW cs \in Nat \ {0}, NEW idx \in Nat
    PROVE  /\ HasChunk(len, cs, idx + 1)
                => /\ HasChunk(len, cs, idx)
                   /\ FitsU16(ChunkLen(len, cs, idx))
                        => FitsU16(ChunkLen(len, cs, idx + 1))
           /\ \A d \in Nat : FitsU16(ReadLen(len, cs, idx))
                                => FitsU16(ReadLen(len, cs, idx + d))
<1>1. (idx + 1) * cs = idx * cs + cs /\ idx * cs \in Nat
    OBVIOUS
<1> QED
    BY <1>1, ChunksAssumption
       DEF HasChunk, ChunkStart, ChunkLen, FitsU16, ReadLen

LEMMA SentFitsStep == ASSUME TypeInv, SentFits, Next PROVE SentFits'
<1> USE DEF SentFits
<1>1. CASE Invoke
    BY <1>1, ControlInvoke DEF ControlInv
<1>2. CASE Plain
    <2>1. cmd' = cmd /\ done' = done /\ issued' = issued
        BY <1>2, PlainSteps
    <2>2. pc \in {"write"} => cmd.op \in WriteOps
        BY DEF TypeInv, StageOK
    <2>3. pc \in {"read"} => cmd.op \in ReadOps
        BY DEF TypeInv, StageOK
    <2>4. pc = "single" => cmd.op \notin WriteOps \union ReadOps
        BY OpClasses DEF TypeInv, StageOK
    <2> QED
        BY <1>2, <2>1, <2>4, PlainSteps, ErrorClasses
<1>3. CASE Open
    <2>1. pc = "open" /\ issued' = issued /\ ~issued
        BY <1>3 DEF Open
    <2> QED
        BY <2>1
<1>4. CASE SendWrite
    <2>1. /\ pc = "write" /\ pc' = "write" /\ cmd' = cmd /\ done' = done + 1
          /\ MoreToWrite /\ WriteCheck = NoError
        BY <1>4 DEF SendWrite, Writing
    <2>2. done \in Nat /\ Chunk \in Nat \ {0} /\ Total \in Nat
        BY <2>1, WriteType, LineTypes DEF Total
    <2>3. MoreToWrite' => WriteCheck' = NoError
        BY <2>1, <2>2, LaterChunksFit
           DEF MoreToWrite, WriteCheck, WriteLen, Total, Chunk, NoError
    <2> QED
        BY <2>1, <2>3
<1>5. CASE SendRead
    <2>1. /\ pc = "read" /\ pc' = "read" /\ cmd' = cmd
          /\ done' = done + NextRead /\ MoreToRead /\ ReadCheck = NoError
        BY <1>5 DEF SendRead, Reading
    <2>2. done \in Nat /\ Chunk \in Nat \ {0} /\ NextRead \in Nat
             /\ cmd.len \in Nat
        BY <2>1, ReadLenType, LineTypes
    <2>3. ReadCheck' = NoError
        BY <2>1, <2>2, LaterChunksFit
           DEF ReadCheck, NextRead, Chunk, NoError
    <2> QED
        BY <2>1, <2>3
<1>6. CASE SendWriteFails \/ SendReadFails
    <2>1. pc' = "exited" /\ err' \in Interruptions
        BY <1>6, ErrorClasses DEF SendWriteFails, SendReadFails, End
    <2> QED
        BY <2>1, ErrorClasses
<1>7. CASE Emit
    <2>1. pc' \in {"report", "exited"} /\ err' \in {err, NoError, "StdIo"}
             /\ pc = "emit"
        BY <1>7 DEF Emit, Advance, End
    <2>2. err = NoError
        BY <2>1 DEF TypeInv, StageOK, Running
    <2> QED
        BY <2>1, <2>2, ErrorClasses
<1>8. CASE SendSingle \/ SendSingleFails
    <2>1. pc = "single" /\ cmd' = cmd /\ pc' \in {"report", "exited"}
        BY <1>8 DEF SendSingle, SendSingleFails, Asking, Advance, End
    <2>2. cmd.op \notin WriteOps \union ReadOps
        BY <2>1, OpClasses DEF TypeInv, StageOK
    <2> QED
        BY <2>1, <2>2
<1>9. CASE Ask
    <2>1. pc = "probe" /\ cmd' = cmd /\ pc' \in {"probe", "exited"}
        BY <1>9 DEF Ask, End
    <2>2. cmd.op \notin WriteOps \union ReadOps
        BY <2>1, OpClasses DEF TypeInv, StageOK
    <2> QED
        BY <2>1, <2>2
<1>10. CASE Reset
    BY <1>10 DEF Reset, MoreToWrite, WriteCheck, MoreToRead, ReadCheck,
                 WriteLen, NextRead, Total, Chunk
<1> QED
    BY <1>1, <1>2, <1>3, <1>4, <1>5, <1>6, <1>7, <1>8, <1>9, <1>10
       DEF Next, Step, Plain

-----------------------------------------------------------------------------
(* A read delivers once, at its end. *)

LEMMA DeliveredStep == ASSUME TypeInv, Delivered, Next PROVE Delivered'
<1> USE DEF Delivered
<1>1. CASE Invoke
    BY <1>1, ControlInvoke DEF ControlInv
<1>2. CASE Plain
    <2>1. cmd' = cmd /\ output' = output
        BY <1>2, PlainSteps
    <2>2. pc \in {"write", "probe", "single"} => cmd.op \notin ReadOps
        BY OpClasses DEF TypeInv, StageOK
    <2>3. pc = "report" \/ output = NoOutput
        BY <1>2, PlainSteps DEF Running
    <2>4. CASE pc = "report"
        <3>1. pc' = "exited" /\ err' \in {NoError, "StdIo", "Killed"}
            BY <1>2, <2>4, PlainSteps
        <3>2. {"StdIo", "Killed"} \intersect
                 ({NoError, "NotFound", "TransportOther"}
                    \union ProtocolErrors) = {}
            BY DEF NoError, ProtocolErrors
        <3>3. NoError \notin {"NotFound", "TransportOther"}
                               \union ProtocolErrors
            BY DEF NoError, ProtocolErrors
        <3> QED
            BY <2>1, <2>4, <3>1, <3>2, <3>3 DEF Running
    <2>5. CASE pc # "report" /\ pc' = "exited"
        <3>1. err' # NoError
            BY <1>2, <2>5, PlainSteps, ErrorClasses
        <3> QED
            BY <2>1, <2>3, <2>5, <3>1 DEF Running
    <2>6. CASE pc # "report" /\ pc' = "report"
        <3>1. pc \in {"write", "probe"}
            BY <1>2, <2>6, PlainSteps
        <3> QED
            BY <2>1, <2>2, <2>6, <3>1 DEF Running
    <2>7. CASE pc # "report" /\ pc' \notin {"report", "exited"}
        BY <2>1, <2>3, <2>7 DEF Running
    <2> QED
        BY <2>4, <2>5, <2>6, <2>7
<1>3. CASE Open
    <2>1. pc = "open" /\ cmd' = cmd /\ output' = output
        BY <1>3 DEF Open
    <2>2. cmd \in Commands
        BY <2>1 DEF TypeInv, StageOK
    <2>3. \/ pc' \in {"input", "read", "single", "inquiry"}
          \/ pc' = "exited" /\ err' \in Interruptions
        BY <1>3, <2>2, BodyType, ErrorClasses DEF Open, Advance, End
    <2>4. output = NoOutput
        BY <2>1 DEF Running
    <2> QED
        BY <2>1, <2>3, <2>4, ErrorClasses DEF Running
<1>4. CASE SendWrite \/ SendRead
    <2>1. UNCHANGED <<cmd, pc, err, output>>
        BY <1>4 DEF SendWrite, SendRead, Writing, Reading
    <2> QED
        BY <2>1 DEF Running
<1>5. CASE SendWriteFails \/ SendReadFails
    <2>1. /\ pc \in {"write", "read"} /\ cmd' = cmd /\ output' = output
          /\ pc' = "exited" /\ err' \in Interruptions
        BY <1>5, ErrorClasses
           DEF SendWriteFails, SendReadFails, Writing, Reading, End
    <2>2. output = NoOutput
        BY <2>1 DEF Running
    <2> QED
        BY <2>1, <2>2, ErrorClasses DEF Running
<1>6. CASE Emit
    <2>1. /\ cmd' = cmd
          /\ \/ /\ output' = [state |-> "whole", data |-> buf]
                /\ \/ pc' = "report"
                   \/ pc' = "exited" /\ err' = NoError
             \/ pc' = "exited" /\ err' = "StdIo"
        BY <1>6 DEF Emit, Advance, End
    <2> QED
        BY <2>1, ErrorClasses DEF Running, NoError, ProtocolErrors
<1>7. CASE SendSingle \/ SendSingleFails
    <2>1. /\ pc = "single" /\ cmd' = cmd /\ output' = output
          /\ pc' \in {"report", "exited"}
        BY <1>7 DEF SendSingle, SendSingleFails, Asking, Advance, End
    <2>2. cmd.op \notin ReadOps
        BY <2>1, OpClasses DEF TypeInv, StageOK
    <2> QED
        BY <2>1, <2>2 DEF Running
<1>8. CASE Ask
    <2>1. /\ pc = "probe" /\ cmd' = cmd /\ output' = output
          /\ pc' \in {"probe", "exited"}
        BY <1>8 DEF Ask, End
    <2>2. cmd.op \notin ReadOps /\ output = NoOutput
        BY <2>1, OpClasses DEF TypeInv, StageOK, Running
    <2> QED
        BY <2>1, <2>2 DEF Running
<1>9. CASE Reset
    BY <1>9 DEF Reset, Running
<1> QED
    BY <1>1, <1>2, <1>3, <1>4, <1>5, <1>6, <1>7, <1>8, <1>9
       DEF Next, Step, Plain

-----------------------------------------------------------------------------
(* What the device is made to run. *)

\* Only the command of the invocation, or a question of a probe, is sent.
LEMMA ExecutedGrows ==
    ASSUME TypeInv, Next, ~Invoke
    PROVE  /\ cmd' = cmd /\ dproto' = dproto
           /\ pc = "idle" <=> pc' = "idle"
           /\ \/ executed' = executed
              \/ /\ Running
                 /\ \E op : /\ \/ op = cmd.op
                               \/ cmd.op = "probe" /\ op \in Harmless
                            /\ executed' = executed
                                  \union Runs(dproto, cmd.proto, op)
<1> DEFINE Grows ==
        \E op : /\ op = cmd.op \/ (cmd.op = "probe" /\ op \in Harmless)
                /\ executed' = executed \union Runs(dproto, cmd.proto, op)
<1>1. CASE Plain
    BY <1>1, PlainSteps DEF Running
<1>2. CASE Open
    <2>1. pc = "open" /\ UNCHANGED <<cmd, dproto, executed>>
        BY <1>2 DEF Open, device
    <2>2. cmd \in Commands
        BY <2>1 DEF TypeInv, StageOK
    <2> QED
        BY <1>2, <2>1, <2>2, BodyType DEF Open, Advance, End
<1>3. CASE SendWrite \/ SendWriteFails
    <2>1. /\ pc = "write" /\ cmd' = cmd
          /\ pc' \in {"write", "exited"}
        BY <1>3 DEF SendWrite, SendWriteFails, Writing, End
    <2>2. (\E n : Writes(n)) \/ Ignores
        BY <1>3 DEF SendWrite, SendWriteFails
    <2>3. dproto' = dproto /\ (executed' = executed \/ Grows)
        BY <2>2 DEF Writes, Performs, Ignores, device
    <2> QED
        BY <2>1, <2>3 DEF Running
<1>4. CASE SendRead
    <2>1. /\ pc = "read" /\ UNCHANGED <<cmd, pc, dproto>>
          /\ executed' = executed \union Runs(dproto, cmd.proto, cmd.op)
        BY <1>4 DEF SendRead, Reading, device
    <2> QED
        BY <2>1 DEF Running
<1>5. CASE SendReadFails \/ Emit
    <2>1. /\ pc \in {"read", "emit"} /\ UNCHANGED <<cmd, dproto, executed>>
          /\ pc' \in {"report", "exited"}
        BY <1>5 DEF SendReadFails, Reading, Emit, End, Advance, device
    <2> QED
        BY <2>1
<1>6. CASE SendSingle \/ SendSingleFails
    <2>1. /\ pc = "single" /\ cmd' = cmd /\ pc' \in {"report", "exited"}
          /\ Performs(cmd.op, cmd.address, 0, 0) \/ Ignores
        BY <1>6 DEF SendSingle, SendSingleFails, Asking, Advance, End
    <2>2. dproto' = dproto /\ (executed' = executed \/ Grows)
        BY <2>1 DEF Performs, Ignores, device
    <2> QED
        BY <2>1, <2>2 DEF Running
<1>7. CASE Ask
    <2>1. /\ pc = "probe" /\ cmd' = cmd /\ pc' \in {"probe", "exited"}
          /\ asked < 5
          /\ Performs(Questions[asked + 1], 0, 0, 0) \/ Ignores
        BY <1>7 DEF Ask, End, Questions
    <2>2. cmd.op = "probe" /\ asked \in 0 .. 4
        BY <2>1 DEF TypeInv, TypeOK, StageOK
    <2>3. Questions[asked + 1] \in Harmless
        BY <2>2 DEF Questions, Harmless
    <2>4. dproto' = dproto /\ (executed' = executed \/ Grows)
        BY <2>1, <2>2, <2>3 DEF Performs, Ignores, device
    <2> QED
        BY <2>1, <2>4 DEF Running
<1>8. CASE Reset
    BY <1>8 DEF Reset
<1> QED
    BY <1>1, <1>2, <1>3, <1>4, <1>5, <1>6, <1>7, <1>8 DEF Next, Step, Plain

LEMMA RanWhatWasAskedStep ==
    ASSUME TypeInv, RanWhatWasAsked, Next PROVE RanWhatWasAsked'
<1>1. CASE Invoke
    BY <1>1, ControlInvoke DEF ControlInv
<1>2. CASE ~Invoke /\ executed' = executed
    BY <1>2, ExecutedGrows DEF RanWhatWasAsked
<1>3. CASE ~Invoke /\ executed' # executed
    <2>1. PICK op : /\ op = cmd.op \/ (cmd.op = "probe" /\ op \in Harmless)
                    /\ executed' = executed \union Runs(dproto, cmd.proto, op)
        BY <1>3, ExecutedGrows
    <2>2. cmd' = cmd /\ dproto' = dproto /\ Running
        BY <1>3, ExecutedGrows
    <2>3. Refusal(cmd) = NoError /\ pc # "idle"
        BY <2>2 DEF TypeInv, StageOK, Running
    <2>4. cmd.op \in Harmless => executed' \subseteq Harmless
        BY <2>1, <2>3, RunsHarmless, OpClasses DEF RanWhatWasAsked
    <2>5. ASSUME executed' \intersect Destructive # {}
          PROVE  \/ cmd.op \in Destructive
                 \/ /\ dproto # cmd.proto
                    /\ cmd.op \in {"mem_write", "flash_select"}
        <3>1. CASE executed \intersect Destructive # {}
            BY <2>3, <3>1 DEF RanWhatWasAsked
        <3>2. CASE Runs(dproto, cmd.proto, op) \intersect Destructive # {}
            <4>1. op \notin Harmless
                BY <3>2, RunsHarmless, OpClasses
            <4> QED
                BY <2>1, <3>2, <4>1, RunsDestructive
        <3> QED
            BY <2>1, <2>5, <3>1, <3>2
    <2> QED
        BY <1>3, <2>2, <2>3, <2>4, <2>5, ExecutedGrows DEF RanWhatWasAsked
<1> QED
    BY <1>1, <1>2, <1>3

-----------------------------------------------------------------------------
(* A reply that passes its checks. *)

LEMMA RepliesOfTheUnwilling ==
    ASSUME NEW op, op \notin {"loader_version", "set_flash_cmds"},
           NEW reply \in {"other", "empty"}
    PROVE  NoError \notin ReplyError(op, reply)
BY DEF ReplyError, NoError

\* The device executed a command whose reply was accepted.
LEMMA SingleReplies ==
    ASSUME SendSingle, Known(cmd.op),
           cmd.op \notin {"loader_version", "set_flash_cmds"},
           pc' = "report" \/ (pc' = "exited" /\ err' = NoError)
    PROVE  Performs(cmd.op, cmd.address, 0, 0)
<1>1. PICK reply \in Replies :
         /\ \/ Performs(cmd.op, cmd.address, 0, 0)
            \/ reply \in {"other", "empty"} \/ ~Known(cmd.op)
         /\ \E e \in ReplyError(cmd.op, reply) :
               \/ e = NoError /\ Advance("report")
               \/ e # NoError /\ End(e)
    BY DEF SendSingle
<1>2. NoError \in ReplyError(cmd.op, reply)
    BY <1>1 DEF Advance, End
<1>3. reply \notin {"other", "empty"}
    BY <1>2, RepliesOfTheUnwilling
<1> QED
    BY <1>1, <1>3

LEMMA AcknowledgedStep ==
    ASSUME TypeInv, Acknowledged, Next PROVE Acknowledged'
<1> DEFINE Judged == cmd.op \in SingleOps \ {"loader_version", "set_flash_cmds"}
<1> USE DEF Acknowledged
<1>1. CASE Invoke
    BY <1>1, ControlInvoke DEF ControlInv
<1>2. CASE Plain
    <2>1. UNCHANGED <<cmd, executed, dproto>>
        BY <1>2, PlainSteps
    <2>2. pc \in {"write", "read", "probe"} => ~Judged
        BY OpClasses DEF TypeInv, StageOK
    <2> QED
        BY <1>2, <2>1, <2>2, PlainSteps, ErrorClasses
<1>3. CASE Open
    <2>1. pc = "open" /\ cmd \in Commands
        BY <1>3 DEF Open, TypeInv, StageOK
    <2>2. \/ pc' \in {"input", "read", "single", "inquiry"}
          \/ pc' = "exited" /\ err' \in Interruptions
        BY <1>3, <2>1, BodyType, ErrorClasses DEF Open, Advance, End
    <2> QED
        BY <2>2, ErrorClasses
<1>4. CASE SendWrite \/ SendRead
    <2>1. pc' \in {"write", "read"}
        BY <1>4 DEF SendWrite, SendRead, Writing, Reading
    <2> QED
        BY <2>1
<1>5. CASE SendWriteFails \/ SendReadFails \/ SendSingleFails
    <2>1. pc' = "exited" /\ err' \in Interruptions
        BY <1>5, ErrorClasses
           DEF SendWriteFails, SendReadFails, SendSingleFails, End
    <2> QED
        BY <2>1, ErrorClasses
<1>6. CASE Emit \/ Ask
    <2>1. cmd' = cmd /\ pc \in {"emit", "probe"}
        BY <1>6 DEF Emit, Ask
    <2>2. ~Judged
        BY <2>1, OpClasses DEF TypeInv, StageOK
    <2> QED
        BY <2>1, <2>2
<1>7. CASE SendSingle
    <2> SUFFICES ASSUME Judged, cmd.proto = dproto,
                        pc' = "report" \/ (pc' = "exited" /\ err' = NoError)
                 PROVE  cmd.op \in executed'
        <3>1. cmd' = cmd /\ dproto' = dproto
            BY <1>7 DEF SendSingle, Asking, Performs, Ignores, device
        <3> QED
            BY <3>1
    <2>1. SingleCheck = NoError
        BY <1>7 DEF SendSingle, Asking
    <2>2. Supported(dproto, cmd.op)
        BY <2>1 DEF SingleCheck, NoError
    <2>3. Known(cmd.op)
        BY <2>2, RunsItself DEF Known
    <2>4. Performs(cmd.op, cmd.address, 0, 0)
        BY <1>7, <2>3, SingleReplies
    <2> QED
        BY <2>3, <2>4 DEF Performs, Known
<1>8. CASE Reset
    BY <1>8 DEF Reset
<1> QED
    BY <1>1, <1>2, <1>3, <1>4, <1>5, <1>6, <1>7, <1>8 DEF Next, Step, Plain

-----------------------------------------------------------------------------
(* The theorems. *)

LEMMA ControlStep ==
    ASSUME TypeInv, ControlInv, [Next]_vars PROVE ControlInv'
<1>1. CASE Next
    BY <1>1, SentFitsStep, DeliveredStep, RanWhatWasAskedStep,
       AcknowledgedStep DEF ControlInv
<1>2. CASE UNCHANGED vars
    BY <1>2, ControlStutter DEF vars, invocation, device
<1> QED
    BY <1>1, <1>2

LEMMA Invariants == Spec => [](TypeInv /\ ControlInv)
<1>1. Init => TypeInv /\ ControlInv
    BY TypeInit, ControlInit
<1>2. TypeInv /\ ControlInv /\ [Next]_vars => (TypeInv /\ ControlInv)'
    BY TypeStep, ControlStep
<1> QED
    BY <1>1, <1>2, PTL DEF Spec

\* Which errors an exit code of the properties stands for.
LEMMA ErrorsOfCodes ==
    ASSUME TypeInv
    PROVE  /\ ExitCode = PROTOCOL => err \in ProtocolErrors
           /\ ExitCode = OK => err = NoError
           /\ ExitCode \in {DEVICE_NOT_FOUND, TRANSPORT, PROTOCOL} =>
                 err \in {"NotFound", "TransportOther"} \union ProtocolErrors
<1>1. err \in ErrorKinds
    BY DEF TypeInv, TypeOK
<1> QED
    BY <1>1 DEF ExitCode, ExitCodeFor, ErrorKinds, NoError, TransportErrors,
       ProtocolErrors, OK, USAGE, IO, DEVICE_NOT_FOUND, TRANSPORT, PROTOCOL,
       CLI, KILLED

\* Exit 13 of a bulk transfer means that nothing was sent: the checks a chunk
\* can fail are passed by the first chunk or never.  (validate_transfer_len,
\* write_flash_chunked and its siblings)
THEOREM JlubootBulkProtocolErrorIsClean == Spec => []BulkProtocolErrorIsClean
<1>1. TypeInv /\ ControlInv => BulkProtocolErrorIsClean
    BY ErrorsOfCodes DEF BulkProtocolErrorIsClean, ControlInv, SentFits
<1> QED
    BY <1>1, Invariants, PTL

\* A read that the device or the protocol failed leaves the output file alone,
\* and exit 0 means that the output was delivered.  (emit_read_output comes
\* after the loop of the chunked reads)
THEOREM JlubootOutputMatchesExit == Spec => []OutputMatchesExit
<1>1. TypeInv /\ ControlInv => OutputMatchesExit
    BY ErrorsOfCodes DEF OutputMatchesExit, ControlInv, Delivered
<1> QED
    BY <1>1, Invariants, PTL

\* Exit 0 of a single command means that the device executed it, if both sides
\* speak the same protocol and the method compares the opcode of the reply.
THEOREM JlubootExitZeroMeansExecuted == Spec => []ExitZeroMeansExecuted
<1>1. TypeInv /\ ControlInv => ExitZeroMeansExecuted
    BY ErrorsOfCodes
       DEF ExitZeroMeansExecuted, ControlInv, Acknowledged, Succeeded, Matched
<1> QED
    BY <1>1, Invariants, PTL

\* Without --yes no device runs a destructive operation, but for the two
\* ungated commands whose opcode another protocol uses for one.  (require_yes)
THEOREM JlubootDestructionNeedsYes == Spec => []DestructionNeedsYes
<1>1. ASSUME TypeInv, ControlInv PROVE DestructionNeedsYes
    <2> SUFFICES ASSUME executed \intersect Destructive # {},
                        cmd.yes # "global"
                 PROVE  ~Matched /\ cmd.op \in {"mem_write", "flash_select"}
        BY DEF DestructionNeedsYes
    <2>1. pc # "idle" /\ Refusal(cmd) = NoError
        BY <1>1 DEF ControlInv, RanWhatWasAsked
    <2>2. cmd.yes \in {"absent", "trailing"}
        BY <1>1, <2>1, LineTypes DEF TypeInv, StageOK
    <2>3. ~Gated(cmd.op)
        BY <2>1, <2>2 DEF Refusal, NoError, CommandLineParses
    <2> QED
        BY <1>1, <2>1, <2>3, OpClasses DEF ControlInv, RanWhatWasAsked, Matched
<1> QED
    BY <1>1, Invariants, PTL

\* A query or a read is never taken for a command that changes anything,
\* whatever protocols host and device speak.  (the opcode table of commands.rs)
THEOREM JlubootQueriesAreHarmless == Spec => []QueriesAreHarmless
<1>1. TypeInv /\ ControlInv => QueriesAreHarmless
    BY DEF QueriesAreHarmless, ControlInv, RanWhatWasAsked, TypeInv, StageOK
<1> QED
    BY <1>1, Invariants, PTL
=============================================================================
