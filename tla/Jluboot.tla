------------------------------ MODULE Jluboot -------------------------------
(***************************************************************************)
(* jluboot: one command after another against one device.                  *)
(*                                                                         *)
(* An invocation is a command of Commands.  Its handler is one of four     *)
(* skeletons: a single command with a 16-byte reply, a chunked write of a  *)
(* file, a chunked read into a file or onto stdout, and the probe, which   *)
(* asks five questions and survives the failure of each.  The device has   *)
(* NOR flash, RAM, and a protocol of its own that need not be the one the  *)
(* user named with --protocol.  How a device is found is in Discovery.     *)
(***************************************************************************)
EXTENDS Images, Loader, Sequences

CONSTANTS
    Commands,        \* the command lines considered
    SectorSize,      \* flash erase units of the device (external)
    BlockSize,
    DeviceProtocols, \* the protocols the device may speak
    MaxRuns,         \* bound: invocations in a row
    MaxResets,       \* bound: device resets
    ShortTransfers   \* may a successful SG_IO move fewer bytes than asked?

WriteOps == {"flash_write", "mem_write", "mem_write_rxgp"}
ReadOps == {"flash_read", "mem_read"}
EraseOps == {"flash_erase_sector", "flash_erase_block", "flash_erase_chip"}
SingleOps == Ops \ (WriteOps \union ReadOps)

ASSUME JlubootAssumption ==
    /\ Commands \subseteq
         [op : Ops \union {"probe"}, proto : Protocols,
          yes : {"absent", "global", "trailing"}, address : Addrs,
          file : Files, len : Nat, chunk : Nat, arg : Nat,
          sink : {"file", "stdout"}]
    /\ SectorSize \in Nat \ {0} /\ BlockSize \in Nat \ {0}
    /\ DeviceProtocols \subseteq Protocols
    /\ MaxRuns \in Nat /\ MaxResets \in Nat
    /\ ShortTransfers \in BOOLEAN

VARIABLES
    cmd,       \* the command line of the current (or last) invocation
    pc,        \* what it does next
    done,      \* chunks acknowledged (writes) or bytes asked for (reads)
    buf,       \* bytes read so far
    asked,     \* probe: questions already asked
    err,       \* the error it ended with
    output,    \* what reached the output file or stdout
    issued,    \* has it handed a vendor command to SG_IO?
    received,  \* payload bytes the device has been sent by it
    executed,  \* the operations the device ran on its behalf
    live,      \* does its open file still refer to the device?
    before,    \* flash when it began
    history,   \* the finished invocations, and which ended with exit 0
    dproto,    \* the protocol the device speaks
    flash,
    ram,
    resets

invocation == <<done, buf, asked, output, issued, received, executed, live>>
device == <<dproto, flash, ram, resets>>
vars == <<cmd, pc, err, invocation, before, history, device>>

Erased == <<"erased", 0>>
Garbled == <<"garbled", 0>>
FlashCells == Cells \union {Erased, Garbled}
NoCommand == [op |-> "none"]
NoOutput == [state |-> "none", data |-> << >>]
Stages == {"idle", "resolve", "open", "inquiry", "input", "write", "read",
           "single", "probe", "emit", "report", "exited"}

TypeOK ==
    /\ cmd \in Commands \union {NoCommand}
    /\ pc \in Stages
    /\ done \in Nat
    /\ buf \in Seq(FlashCells)
    /\ asked \in 0 .. 5
    /\ err \in ErrorKinds
    /\ output \in [state : {"none", "torn", "whole"}, data : Seq(FlashCells)]
    /\ issued \in BOOLEAN
    /\ received \in Nat
    /\ executed \subseteq Ops
    /\ live \in BOOLEAN
    /\ before \in [Addrs -> FlashCells]
    /\ history \in Seq([cmd : Commands, ok : BOOLEAN])
    /\ dproto \in Protocols
    /\ flash \in [Addrs -> FlashCells]
    /\ ram \in [Addrs -> FlashCells]
    /\ resets \in 0 .. MaxResets

Init ==
    /\ cmd = NoCommand
    /\ pc = "idle"
    /\ done = 0 /\ buf = << >> /\ asked = 0
    /\ err = NoError
    /\ output = NoOutput
    /\ issued = FALSE /\ received = 0 /\ executed = {} /\ live = FALSE
    /\ history = << >>
    /\ dproto \in DeviceProtocols
    /\ flash = [a \in Addrs |-> Old]
    /\ before = flash
    /\ ram = [a \in Addrs |-> Old]
    /\ resets = 0

-----------------------------------------------------------------------------
(* Pieces of a handler. *)

Running == pc \notin {"idle", "exited"}
ExitCode == ExitCodeFor(err)

Advance(stage) == pc' = stage /\ UNCHANGED <<err, history>>

End(kind) ==
    /\ pc' = "exited"
    /\ err' = kind
    /\ history' = Append(history, [cmd |-> cmd, ok |-> kind = NoError])

GatedForgetsErase(op) ==   \* mutant: one handler without require_yes
    op \in {"flash_write", "flash_erase_block", "flash_erase_chip",
            "set_flash_cmds", "write_chipkey", "mem_jump", "run_app"}

\* The handlers that begin with require_yes.
Gated(op) ==
    op \in {"flash_write", "flash_erase_sector", "flash_erase_block",
            "flash_erase_chip", "set_flash_cmds", "write_chipkey", "mem_jump",
            "run_app"}

\* `--yes' is an option of jluboot itself: clap rejects it after the
\* subcommand.
CommandLineParses(c) == c.yes # "trailing"

\* The commands whose method puts a user value into a u16 field.
Narrow(op) == op \in {"mem_jump", "flash_crc16", "flash_crc16_raw",
                      "set_flash_cmds"}

Chunk == EffectiveChunk(cmd.chunk)

\* Where the handler goes once the device is open.
Body(op) ==
    CASE op = "probe"      -> "inquiry"
      [] op \in WriteOps   -> "input"
      [] op \in ReadOps    -> "read"
      [] op \in SingleOps  -> "single"

\* The five questions of cmd_probe, in its order.
Questions == <<"online", "read_id", "usb_buffer_size", "loader_version",
               "maskrom_id">>

ReadLenWhole(len, cs, off) == cs   \* mutant: last read not shortened

\* `(length - offset).min(chunk_size)'
ReadLen(len, cs, off) == IF len - off < cs THEN len - off ELSE cs

ReadAddrNoOffset(base, off) == base   \* mutant: every read at the start

\* `address.wrapping_add(offset as u32)'
ReadAddr(base, off) == (base + (off % AddrSpace)) % AddrSpace

-----------------------------------------------------------------------------
(* The device. *)

Known(op) == op \in Runs(dproto, cmd.proto, op)

\* Programming NOR flash can only clear bits: a byte comes out right on an
\* erased cell or on one that already holds it.
Burn(old, new) == IF old \in {Erased, new} THEN new ELSE Garbled

Unit(op, addr) ==
    CASE op = "flash_erase_sector" ->
            { a \in Addrs : a \div SectorSize = addr \div SectorSize }
      [] op = "flash_erase_block" ->
            { a \in Addrs : a \div BlockSize = addr \div BlockSize }
      [] op = "flash_erase_chip" -> Addrs

\* The device runs the command, with the first n bytes of its data.  What a
\* device of another protocol does to its cells is not tracked, only which
\* operation it took the command for.
Performs(op, addr, off, n) ==
    /\ executed' = executed \union Runs(dproto, cmd.proto, op)
    /\ LET new == Stored(flash, addr, cmd.file, off, n) IN
       flash' =
         CASE Known(op) /\ op = "flash_write" ->
                [a \in Addrs |-> IF (a - addr) % AddrSpace < n
                                 THEN Burn(flash[a], new[a]) ELSE flash[a]]
           [] Known(op) /\ op \in EraseOps ->
                [a \in Addrs |-> IF a \in Unit(op, addr)
                                 THEN Erased ELSE flash[a]]
           [] OTHER -> flash
    /\ ram' = IF Known(op) /\ op \in {"mem_write", "mem_write_rxgp"}
              THEN Stored(ram, addr, cmd.file, off, n) ELSE ram
    /\ UNCHANGED <<dproto, resets>>

Ignores == UNCHANGED <<executed, device>>

\* n bytes of the device's memory from addr on.
Contents(op, addr, n) ==
    [i \in 1 .. n |->
        IF ~Known(op) THEN Old
        ELSE IF op = "flash_read" THEN flash[(addr + (i - 1)) % AddrSpace]
        ELSE ram[(addr + (i - 1)) % AddrSpace]]

\* How many of n bytes a successful command moves; the residue is ignored.
Moved(n) == IF ShortTransfers THEN 0 .. n ELSE {n}

FailuresWhenAlive == IF live THEN ExecErrors ELSE {}   \* mutant: no timeout

\* An SG_IO may always fail, and does so by its timeout at the latest, also
\* when the device behind the open file is gone.
Failures == ExecErrors

-----------------------------------------------------------------------------
(* The beginning, common to all handlers. *)

\* What ends an invocation before it looks for a device.
Refusal(c) ==
    CASE ~CommandLineParses(c) -> "Usage"
      [] CommandLineParses(c) /\ Gated(c.op) /\ c.yes = "absent" -> "Refused"
      [] OTHER -> NoError

Invoke ==
    /\ pc \in {"idle", "exited"}
    /\ Len(history) < MaxRuns
    /\ cmd' \in Commands
    /\ done' = 0 /\ buf' = << >> /\ asked' = 0 /\ output' = NoOutput
    /\ issued' = FALSE /\ received' = 0 /\ executed' = {} /\ live' = FALSE
    /\ before' = flash
    /\ err' = Refusal(cmd')
    /\ \/ /\ err' = NoError
          /\ pc' = "resolve"
          /\ UNCHANGED history
       \/ /\ err' # NoError
          /\ pc' = "exited"
          /\ history' = Append(history, [cmd |-> cmd', ok |-> FALSE])
    /\ UNCHANGED device

Resolve ==
    /\ pc = "resolve"
    /\ Advance("open") \/ \E e \in ResolveErrors : End(e)
    /\ UNCHANGED <<cmd, invocation, before, device>>

Open ==
    /\ pc = "open"
    /\ \/ /\ Advance(Body(cmd.op))
          /\ live' = TRUE
       \/ /\ \E e \in OpenErrors : End(e)
          /\ UNCHANGED live
    /\ UNCHANGED <<cmd, done, buf, asked, output, issued, received, executed,
                   before, device>>

-----------------------------------------------------------------------------
(* cmd_flash_write, cmd_mem_write, cmd_mem_write_rxgp *)

Total == Size[cmd.file]
MoreToWrite == HasChunk(Total, Chunk, done)
WriteLen == ChunkLen(Total, Chunk, done)

\* std::fs::read of --input comes after the device was opened.
ReadInput ==
    /\ pc = "input"
    /\ Advance("write") \/ End("StdIo")
    /\ UNCHANGED <<cmd, invocation, before, device>>

\* The method's own checks: the protocol arm first, then the length.
WriteCheck ==
    CASE ~Supported(cmd.proto, cmd.op) -> "Unsupported"
      [] Supported(cmd.proto, cmd.op) /\ ~FitsU16(WriteLen) -> "LengthTooLarge"
      [] OTHER -> NoError

RejectWrite ==
    /\ pc = "write" /\ MoreToWrite
    /\ WriteCheck # NoError
    /\ End(WriteCheck)
    /\ UNCHANGED <<cmd, invocation, before, device>>

\* The next chunk goes to SG_IO, and n bytes of it reach the device.
Writing ==
    /\ pc = "write" /\ MoreToWrite
    /\ WriteCheck = NoError
    /\ issued' = TRUE
    /\ UNCHANGED <<cmd, buf, asked, output, live, before>>

Writes(n) ==
    /\ live
    /\ Performs(cmd.op, ChunkAddr(cmd.address, Chunk, done),
                ChunkStart(Chunk, done), n)
    /\ received' = received + n

SendWrite ==
    /\ Writing
    /\ \E n \in Moved(WriteLen) : Writes(n)
    /\ done' = done + 1
    /\ UNCHANGED <<pc, err, history>>

\* A failed or timed-out command may have written any part of the chunk.
SendWriteFails ==
    /\ Writing
    /\ \E e \in Failures : End(e)
    /\ \/ \E n \in 1 .. WriteLen : Writes(n)
       \/ Ignores /\ UNCHANGED received
    /\ UNCHANGED done

WriteDone ==
    /\ pc = "write" /\ ~MoreToWrite
    /\ Advance("report")
    /\ UNCHANGED <<cmd, invocation, before, device>>

-----------------------------------------------------------------------------
(* cmd_flash_read, cmd_mem_read *)

MoreToRead == done < cmd.len
NextRead == ReadLen(cmd.len, Chunk, done)

ReadCheck ==
    CASE ~Supported(cmd.proto, cmd.op) -> "Unsupported"
      [] Supported(cmd.proto, cmd.op) /\ ~FitsU16(NextRead) -> "LengthTooLarge"
      [] OTHER -> NoError

RejectRead ==
    /\ pc = "read" /\ MoreToRead
    /\ ReadCheck # NoError
    /\ End(ReadCheck)
    /\ UNCHANGED <<cmd, invocation, before, device>>

Reading ==
    /\ pc = "read" /\ MoreToRead
    /\ ReadCheck = NoError
    /\ issued' = TRUE
    /\ UNCHANGED <<cmd, asked, output, received, live, before, device>>

\* The reply of a read is its data: no opcode is repeated, and the loop goes
\* on by the length it asked for, not by the length it got.
SendRead ==
    /\ Reading
    /\ live
    /\ \E n \in Moved(NextRead) :
          buf' = buf \o Contents(cmd.op, ReadAddr(cmd.address, done), n)
    /\ done' = done + NextRead
    /\ executed' = executed \union Runs(dproto, cmd.proto, cmd.op)
    /\ UNCHANGED <<pc, err, history>>

SendReadFails ==
    /\ Reading
    /\ \E e \in Failures : End(e)
    /\ UNCHANGED <<buf, done, executed>>

ReadDone ==
    /\ pc = "read" /\ ~MoreToRead
    /\ Advance("emit")
    /\ UNCHANGED <<cmd, invocation, before, device>>

\* emit_read_output: std::fs::write truncates the file before it writes, and
\* a line on stdout follows it; --stdout and --hexdump end the handler.
Emit ==
    /\ pc = "emit"
    /\ \/ /\ output' = [state |-> "whole", data |-> buf]
          /\ \/ cmd.sink = "file" /\ Advance("report")
             \/ cmd.sink = "stdout" /\ End(NoError)
       \/ /\ output' \in {NoOutput, [state |-> "torn", data |-> << >>]}
          /\ End("StdIo")
    /\ UNCHANGED <<cmd, done, buf, asked, issued, received, executed, live,
                   before, device>>

-----------------------------------------------------------------------------
(* The handlers that send one command and judge its reply. *)

SingleCheck ==
    CASE ~Supported(cmd.proto, cmd.op) -> "Unsupported"
      [] Supported(cmd.proto, cmd.op) /\ Narrow(cmd.op) /\ ~FitsU16(cmd.arg)
            -> "LengthTooLarge"
      [] OTHER -> NoError

RejectSingle ==
    /\ pc = "single"
    /\ SingleCheck # NoError
    /\ End(SingleCheck)
    /\ UNCHANGED <<cmd, invocation, before, device>>

Asking ==
    /\ pc = "single"
    /\ SingleCheck = NoError
    /\ issued' = TRUE
    /\ UNCHANGED <<cmd, done, buf, asked, output, received, live, before>>

\* A reply with the right opcode comes from a device that ran the command,
\* unless the command is one it does not know.
SendSingle ==
    /\ Asking
    /\ live
    /\ \E reply \in Replies :
          /\ \/ Performs(cmd.op, cmd.address, 0, 0)
             \/ /\ reply \in {"other", "empty"} \/ ~Known(cmd.op)
                /\ Ignores
          /\ \E e \in ReplyError(cmd.op, reply) :
                \/ e = NoError /\ Advance("report")
                \/ e # NoError /\ End(e)

\* An erase that outlasts the timeout is reported as failed and still happens.
SendSingleFails ==
    /\ Asking
    /\ \E e \in Failures : End(e)
    /\ \/ live /\ Performs(cmd.op, cmd.address, 0, 0)
       \/ Ignores

-----------------------------------------------------------------------------
(* cmd_probe *)

\* A failing INQUIRY ends the probe, and so does a failing line about it ...
Inquiry ==
    /\ pc = "inquiry"
    /\ \/ live /\ Advance("probe")
       \/ live /\ End("StdIo")
       \/ \E e \in Failures : End(e)
    /\ UNCHANGED <<cmd, invocation, before, device>>

\* ... a failing question does not; its line, though, may not reach stdout.
Ask ==
    /\ pc = "probe" /\ asked < Len(Questions)
    /\ asked' = asked + 1
    /\ LET op == Questions[asked + 1] IN
       \/ /\ Supported(cmd.proto, op)
          /\ issued' = TRUE
          /\ \/ live /\ Performs(op, 0, 0, 0)
             \/ Failures # {} /\ Ignores
       \/ /\ ~Supported(cmd.proto, op)
          /\ UNCHANGED issued
          /\ Ignores
    /\ \/ UNCHANGED <<pc, err, history>>
       \/ End("StdIo")
    /\ UNCHANGED <<cmd, done, buf, output, received, live, before>>

ProbeDone ==
    /\ pc = "probe" /\ asked = Len(Questions)
    /\ Advance("report")
    /\ UNCHANGED <<cmd, invocation, before, device>>

-----------------------------------------------------------------------------
\* The closing line on stdout, which may fail after everything was done.
Report ==
    /\ pc = "report"
    /\ \E e \in {NoError, "StdIo"} : End(e)
    /\ UNCHANGED <<cmd, invocation, before, device>>

Kill ==
    /\ Running
    /\ End("Killed")
    /\ UNCHANGED <<cmd, invocation, before, device>>

\* A reset empties RAM, keeps flash and orphans the open file.
Reset ==
    /\ resets < MaxResets
    /\ resets' = resets + 1
    /\ ram' = [a \in Addrs |-> Old]
    /\ live' = FALSE
    /\ UNCHANGED <<cmd, pc, err, done, buf, asked, output, issued, received,
                   executed, before, history, dproto, flash>>

\* What the program does next; each SG_IO ends by its timeout.
Step ==
    \/ Resolve \/ Open
    \/ ReadInput \/ RejectWrite \/ SendWrite \/ SendWriteFails \/ WriteDone
    \/ RejectRead \/ SendRead \/ SendReadFails \/ ReadDone \/ Emit
    \/ RejectSingle \/ SendSingle \/ SendSingleFails
    \/ Inquiry \/ Ask \/ ProbeDone
    \/ Report

Next == Invoke \/ Step \/ Kill \/ Reset

Spec == Init /\ [][Next]_vars
FairSpec == Spec /\ WF_vars(Step)

-----------------------------------------------------------------------------
(* Correctness. *)

Succeeded == pc = "exited" /\ cmd # NoCommand /\ ExitCode = OK
Matched == cmd # NoCommand /\ cmd.proto = dproto

\* What `wrote N bytes' says: at exit 0 the whole file is in place.  Flash can
\* only be programmed where it was erased; RAM loses it with the device.
\* (write_flash_chunked, write_memory_chunked, write_memory_rxgp_chunked)
WroteWhatItSaid ==
    Succeeded /\ Matched /\ cmd.op \in WriteOps =>
        \A a \in Window(cmd) :
            IF cmd.op = "flash_write"
            THEN before[a] \in {Erased, Target(cmd, a)}
                    => flash[a] = Target(cmd, a)
            ELSE live => ram[a] = Target(cmd, a)

\* Flash changes only in what the command was told to write or erase, and a
\* write leaves every byte it meets correctly programmed, unless the cell was
\* not erased: this holds after any failure, kill or reset on the way.
FlashChangesOnlyAsAsked ==
    Matched =>
        \A a \in Addrs : flash[a] # before[a] =>
            /\ cmd.yes = "global"
            /\ \/ /\ cmd.op = "flash_write" /\ InWindow(cmd, a)
                  /\ IF before[a] = Erased THEN flash[a] = Target(cmd, a)
                                           ELSE flash[a] = Garbled
               \/ /\ cmd.op \in EraseOps /\ a \in Unit(cmd.op, cmd.address)
                  /\ flash[a] = Erased

\* Data that reaches the output file or stdout is what the device holds at
\* [address, address + length), in order and complete, whatever the chunk size.
ReadIsFaithful ==
    (/\ Matched /\ cmd.op \in ReadOps
     /\ output.state = "whole"
     /\ cmd.op = "mem_read" => live)
        => output.data = Contents(cmd.op, cmd.address, cmd.len)

\* A read that fails on the device leaves the output file as it was, and a
\* read that exits 0 has delivered its output.
OutputMatchesExit ==
    pc = "exited" /\ cmd # NoCommand /\ cmd.op \in ReadOps =>
        /\ ExitCode \in {DEVICE_NOT_FOUND, TRANSPORT, PROTOCOL}
              => output = NoOutput
        /\ ExitCode = OK => output.state = "whole"

\* Exit 13 of a bulk transfer means that no command was sent: no partial
\* write hides behind a protocol error.
BulkProtocolErrorIsClean ==
    (/\ pc = "exited" /\ cmd # NoCommand
     /\ cmd.op \in WriteOps \union ReadOps
     /\ ExitCode = PROTOCOL) => ~issued

\* Exit 0 of a single command means that the device ran it.  Exempt are the
\* two methods that do not compare the opcode of the reply.
ExitZeroMeansExecuted ==
    (/\ Succeeded /\ Matched
     /\ cmd.op \in SingleOps \ {"loader_version", "set_flash_cmds"})
        => cmd.op \in executed

\* What changes flash, keys or how flash is driven, or starts code.
Destructive == EraseOps \union {"flash_write", "set_flash_cmds",
                                "write_chipkey", "mem_jump", "run_app"}

\* PROJECT_STATUS.md: `destructive operations require --yes'.  Without it no
\* device runs one, whatever protocol it speaks - but for the two ungated
\* commands whose opcode means destruction in another protocol.
DestructionNeedsYes ==
    executed \intersect Destructive # {} /\ cmd.yes # "global"
        => ~Matched /\ cmd.op \in {"mem_write", "flash_select"}

\* The operations that leave the device as it is, in the eyes of the host.
Harmless == {"probe", "online", "read_id", "usb_buffer_size", "loader_version",
             "maskrom_id", "read_status", "flash_crc16", "flash_crc16_raw",
             "chip_key", "read_key_raw"} \union ReadOps

\* A query or a read sent under the wrong --protocol is never a command that
\* changes anything: probing an unknown device is safe.
QueriesAreHarmless ==
    cmd # NoCommand /\ cmd.op \in Harmless => executed \subseteq Harmless

\* REAL_DEVICE_TEST_PLAN.md, Phase 4: erase, write, read back, compare.  The
\* data read back are the file whenever, after an erase that succeeded, only
\* attempts to write this very file were made, one of them successful: failed
\* or killed attempts, other chunk sizes and resets in between do no harm.
RoundTrip ==
    \A e, w \in DOMAIN history :
        (/\ Succeeded /\ e < w /\ w < Len(history)
         /\ cmd.op = "flash_read" /\ cmd.len = Size[history[w].cmd.file]
         /\ cmd.address = history[w].cmd.address
         /\ history[e].ok /\ history[e].cmd.op \in EraseOps
         /\ Window(history[w].cmd)
              \subseteq Unit(history[e].cmd.op, history[e].cmd.address)
         /\ history[w].ok /\ history[w].cmd.op = "flash_write"
         /\ \A i \in e + 1 .. Len(history) :
               LET c == history[i].cmd IN
               \/ c.op \in Harmless
               \/ /\ c.op = "flash_write"
                  /\ c.file = history[w].cmd.file
                  /\ c.address = history[w].cmd.address
         /\ \A i \in e .. Len(history) : history[i].cmd.proto = dproto)
            => output.data = [i \in 1 .. cmd.len |->
                                 <<history[w].cmd.file, i - 1>>]

\* Every invocation comes to an end, whatever the device does.
Terminates == Running ~> pc = "exited"

-----------------------------------------------------------------------------
(* Claims of the documentation the code does not meet; each is the property *)
(* of a violation run.                                                      *)

\* REAL_DEVICE_TEST_PLAN.md: `file length matches request'.
ReadIsComplete ==
    Succeeded /\ cmd.op \in ReadOps => Len(output.data) = cmd.len

\* USAGE.md: set-flash-cmds sends the command bytes to the device.
FlashCmdsAreSent ==
    Succeeded /\ cmd.op = "set_flash_cmds" => received = cmd.arg
=============================================================================
