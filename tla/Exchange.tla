------------------------------ MODULE Exchange -------------------------------
(***************************************************************************)
(* Requests and replies on the wire, one SG_IO after another, from one     *)
(* invocation or several.  A device that answers too late keeps its reply, *)
(* and the next request that asks for bytes gets it: from then on the      *)
(* replies are behind the questions until the device is reset.             *)
(*                                                                         *)
(* The device is external.  It decodes the command block, computes CRCs as *)
(* remainders of polynomials, and encodes its payloads by definitions of   *)
(* its own, so that an encoding of the host is checked against arithmetic. *)
(***************************************************************************)
EXTENDS Wire

CONSTANTS
    Requests,   \* the requests considered
    Cells,      \* the addresses with memory behind them
    Facts,      \* what the device is asked about itself
    MaxLate     \* bound: replies the device keeps

\* What the types of the parameters allow: u32, but a u8 for flash_select, and
\* a usize where a length is meant.  What a method does not take is zero.
Unsigned(n, high) == n \in Nat /\ n \div 16777216 <= high
Lengths == DataIn \union {"flash_crc16", "flash_crc16_raw", "mem_jump"}
TakesAddress(op) ==
    op \in {"run_app", "chip_key", "read_key_raw", "write_chipkey",
           "flash_erase_sector", "flash_erase_block", "flash_select",
           "flash_crc16", "flash_crc16_raw", "mem_jump", "flash_read",
           "mem_read"} \union DataOut

ASSUME RequestAssumption ==
    \A r \in Requests :
        /\ DOMAIN r = {"op", "a", "b", "data"} /\ r.op \in Ops
        /\ Unsigned(r.a, 255) /\ r.b \in Nat /\ r.data \in Seq(Bytes)
        /\ r.op = "flash_select" => r.a \in Bytes
        /\ r.op = "write_chipkey" => Unsigned(r.b, 255)
        /\ ~TakesAddress(r.op) => r.a = 0
        /\ r.op \notin Lengths \union {"write_chipkey"} => r.b = 0
        /\ r.op \notin DataOut => r.data = << >>

\* A device whose numbers fit their fields - its kind need not be one the host
\* knows - with a version of at most four characters.
ASSUME DeviceAssumption ==
    /\ \A p \in Protocols : Facts.kind[p] \in Bytes
    /\ Unsigned(Facts.id, 255) /\ Unsigned(Facts.flash, 0)
    /\ Unsigned(Facts.buffer, 255) /\ Unsigned(Facts.maskrom, 255)
    /\ Facts.version \in Seq(1 .. 127) /\ Len(Facts.version) <= 4
    /\ Facts.key \in Nat /\ Facts.key < 65536
    /\ Cells \subseteq Nat /\ MaxLate \in Nat

VARIABLES
    proto,    \* the protocol both sides speak
    flash,
    ram,
    acted,    \* what it took the last command block for
    replies,  \* replies the device has kept, oldest first
    blurred,  \* history: have data of a read been left over?
    failed,   \* history: has a flash_crc16 ended in an error?
    last      \* the last request and what became of it

device == <<flash, ram, acted, replies>>
history == <<blurred, failed>>
vars == <<proto, device, history, last>>

Reads == {"flash_read", "mem_read"}
NoRequest == [op |-> "none", a |-> 0, b |-> 0, data |-> << >>]
Idle == [op |-> "none", a |-> 0, b |-> 0]
Nowhere == [req |-> NoRequest, err |-> NoError, value |-> << >>]

TypeOK ==
    /\ proto \in Protocols
    /\ flash \in [Cells -> Bytes] /\ ram \in [Cells -> Bytes]
    /\ acted \in [op : Ops \union {"none"}, a : Nat, b : Nat]
    /\ replies \in Seq(Seq(Bytes)) /\ Len(replies) <= MaxLate
    /\ blurred \in BOOLEAN /\ failed \in BOOLEAN
    /\ last.req \in Requests \union {NoRequest}
    /\ last.err \in ErrorKinds
    /\ last.value \in Seq(Int)

Init ==
    /\ proto \in Protocols
    /\ flash = [c \in Cells |-> 255] /\ ram = [c \in Cells |-> 0]
    /\ acted = Idle
    /\ replies = << >> /\ blurred = FALSE /\ failed = FALSE /\ last = Nowhere

-----------------------------------------------------------------------------
(* The device. *)

\* A message as the exponents of a polynomial.
Message(data) ==
    UNION { { 8 * (Len(data) - i) + e : e \in Bits(data[i]) } :
            i \in DOMAIN data }
Shifted(s, n) == { e + n : e \in s }

\* x^16 + x^12 + x^5 + 1, and the remainder by it, highest power first.
Generator == {16, 12, 5, 0}
Reduced(s, power) ==
    IF power \in s THEN Plus(s, Shifted(Generator, power - 16)) ELSE s
Remainder(s, width) ==
    LET rest[n \in 0 .. width] ==
          IF n = 0 THEN s ELSE Reduced(rest[n - 1], width + 16 - n)
    IN  rest[width]
Crc(data, seed) ==
    Remainder(Plus(Shifted(Message(data), 16), Shifted(seed, 8 * Len(data))),
              8 * Len(data))

\* The two key bytes as they leave the device, high byte last but one.
Masked(byte, magic) ==
    Octet(Plus(Bits(byte), Crc(<<255, 255>> \o magic, 0 .. 15)))

Padded(bytes, n) == bytes \o [i \in 1 .. n - Len(bytes) |-> 0]

\* Fields of the command block.
Addr(cdb) == U32(cdb, 3)
Short(cdb) == U16(cdb, 7)

Range16(mem, cdb) ==
    [i \in 1 .. Short(cdb) |->
        IF Addr(cdb) + i - 1 \in Cells THEN mem[Addr(cdb) + i - 1] ELSE 255]

\* The operation a device takes a command block for (read_key_raw has the
\* opcode and the reply of chip_key).
Meant(cdb) ==
    (CHOOSE r \in Rows : /\ r[1] = proto /\ r[2] # "read_key_raw"
                         /\ Number[r[3]] = U16(cdb, 1))[2]

Understood(cdb) ==
    LET op == Meant(cdb) IN
    [op |-> op,
     a |-> CASE op = "flash_select" -> cdb[3]
             [] op # "flash_select" /\ TakesAddress(op) -> Addr(cdb)
             [] OTHER -> 0,
     b |-> CASE op = "write_chipkey" -> U32(cdb, 8)
             [] op \in Lengths \union DataOut -> Short(cdb)
             [] OTHER -> 0]

Payload(op, cdb) ==
    CASE op = "online" -> <<Facts.kind[proto], 0, Facts.id % 256,
                            (Facts.id \div 256) % 256,
                            (Facts.id \div 65536) % 256,
                            Facts.id \div 16777216>>
      [] op = "read_id" -> Tail(BE32(Facts.flash))
      [] op = "usb_buffer_size" -> BE32(Facts.buffer)
      [] op = "loader_version" ->
            [i \in DOMAIN Facts.version |->
                Facts.version[Len(Facts.version) + 1 - i]]
      [] op = "maskrom_id" -> BE32(Facts.maskrom)
      [] op = "flash_crc16" -> BE16(Word(Crc(Range16(flash, cdb), {})))
      [] op = "chip_key"
            -> <<0, 0, 0, 0, Masked(Facts.key \div 256, <<\hC3, \hCF>>),
                 Masked(Facts.key % 256, <<\hC3>>)>>
      [] OTHER -> << >>

\* The command block is obeyed, and answered.
Obeys(cdb) == acted' = Understood(cdb)

\* The reply of a query: the opcode, the payload, zeros.
Reply(cdb) ==
    CASE Meant(cdb) = "flash_read" -> Range16(flash, cdb)
      [] Meant(cdb) = "mem_read"   -> Range16(ram, cdb)
      [] OTHER -> Padded(SubSeq(cdb, 1, 2) \o Payload(Meant(cdb), cdb), 16)

\* Data are stored where the block says, if they are what the block says.
HasCrc(op) == ~(proto = "loaderv1" /\ op = "mem_write")
Accepts(op, cdb, data) ==
    /\ Short(cdb) = Len(data)
    /\ HasCrc(op) => cdb[9] = 0 /\ cdb[10] + 256 * cdb[11] = Word(Crc(data, {}))
Put(mem, cdb, data) ==
    [c \in Cells |-> IF c - Addr(cdb) \in 0 .. Len(data) - 1
                     THEN data[c - Addr(cdb) + 1] ELSE mem[c]]

Stores(cdb, data) ==
    LET op == Meant(cdb) IN
    /\ flash' = IF op = "flash_write" /\ Accepts(op, cdb, data)
                THEN Put(flash, cdb, data) ELSE flash
    /\ ram' = IF op \in {"mem_write", "mem_write_rxgp"} /\ Accepts(op, cdb, data)
              THEN Put(ram, cdb, data) ELSE ram

-----------------------------------------------------------------------------
(* The host: a method of JlDevice over one SG_IO. *)

CdbOf(r) == Cdb(Opcode(proto, r.op), Args(proto, r))
HasReply(r) == r.op \notin DataOut

\* How many bytes SG_IO is asked for.
Wanted(r) == IF r.op \in DataIn THEN r.b ELSE 16
Fetched(r, bytes) == SubSeq(bytes, 1, IF Len(bytes) < Wanted(r) THEN Len(bytes)
                                                                ELSE Wanted(r))

Check(r) ==
    CASE ~Supported(proto, r.op) -> "Unsupported"
      [] Supported(proto, r.op) /\ Narrowed(r) > 65535 -> "LengthTooLarge"
      [] OTHER -> NoError

End(r, kind, value) ==
    /\ last' = [req |-> r, err |-> kind, value |-> value]
    /\ failed' = (failed \/ (kind # NoError /\ r.op = "flash_crc16"))

Refuse(r) ==
    /\ Check(r) # NoError
    /\ End(r, Check(r), << >>)
    /\ acted' = Idle
    /\ UNCHANGED <<proto, flash, ram, replies, blurred>>

\* The command runs, and the host reads the oldest reply there is.
Answer(r) ==
    /\ Check(r) = NoError /\ HasReply(r)
    /\ \E queue \in {Append(replies, Reply(CdbOf(r)))} :
       \E got \in {Judged(proto, r.op, Fetched(r, Head(queue)))} :
          replies' = Tail(queue) /\ End(r, got.err, got.value)
    /\ blurred' = (blurred \/ (replies # << >> /\ r.op \in Reads))
    /\ Obeys(CdbOf(r))
    /\ UNCHANGED <<proto, flash, ram>>

\* The command runs, but SG_IO has timed out before the reply is there.
AnswerLate(r) ==
    /\ Check(r) = NoError /\ HasReply(r)
    /\ Len(replies) < MaxLate
    /\ replies' = Append(replies, Reply(CdbOf(r)))
    /\ blurred' = (blurred \/ r.op \in Reads)
    /\ \E e \in ExecErrors : End(r, e, << >>)
    /\ Obeys(CdbOf(r))
    /\ UNCHANGED <<proto, flash, ram>>

\* Data go out; the host learns of no more than the end of the transfer.
Write(r) ==
    /\ Check(r) = NoError /\ ~HasReply(r)
    /\ Obeys(CdbOf(r))
    /\ Stores(CdbOf(r), r.data)
    /\ \/ LET got == Judged(proto, r.op, << >>) IN End(r, got.err, got.value)
       \/ \E e \in ExecErrors : End(r, e, << >>)
    /\ UNCHANGED <<proto, replies, blurred>>

\* The command never gets there.
Lose(r) ==
    /\ Check(r) = NoError
    /\ \E e \in ExecErrors : End(r, e, << >>)
    /\ acted' = Idle
    /\ UNCHANGED <<proto, flash, ram, replies, blurred>>

Reset ==
    /\ ram' = [c \in Cells |-> 0] /\ acted' = Idle
    /\ replies' = << >> /\ blurred' = FALSE /\ failed' = FALSE /\ last' = Nowhere
    /\ UNCHANGED <<proto, flash>>

Next ==
    \/ \E r \in Requests :
          Refuse(r) \/ Answer(r) \/ AnswerLate(r) \/ Write(r) \/ Lose(r)
    \/ Reset

Spec == Init /\ [][Next]_vars

-----------------------------------------------------------------------------
(* Correctness. *)

Answered(ops) == last.req.op \in ops /\ last.err = NoError

\* What a request is about, as the device has it.
Contents(mem, r) ==
    [i \in 1 .. r.b |-> IF r.a + i - 1 \in Cells THEN mem[r.a + i - 1] ELSE 255]
Truth(r) ==
    CASE r.op = "online" -> <<Facts.kind[proto], IF proto = "loaderv1" THEN NoId
                                                 ELSE Facts.id>>
      [] r.op = "read_id" -> <<Facts.flash>>
      [] r.op = "usb_buffer_size" -> <<Facts.buffer>>
      [] r.op = "loader_version" -> Facts.version
      [] r.op = "maskrom_id" -> <<Facts.maskrom>>
      [] r.op = "chip_key" -> <<Facts.key>>
      [] r.op = "flash_crc16" -> <<Word(Crc(Contents(flash, r), {}))>>
      [] r.op = "flash_read" -> Contents(flash, r)
      [] r.op = "mem_read" -> Contents(ram, r)

Questions == {"online", "read_id", "usb_buffer_size", "maskrom_id", "chip_key"}

\* As long as no reply is left over, what a method returns is what the device
\* has: the id, the version, the key, the CRC of the range asked about, the
\* bytes of the range asked for - through every change of byte order, the
\* cipher and the CRC.
InStepAnswersAreTrue ==
    replies = << >> /\ Answered(Questions \union Reads
                                  \union {"loader_version", "flash_crc16"})
        => last.value = Truth(last.req)

\* Late replies do not falsify what is said about the device, because the
\* opcode is compared and the answer to the same question is the same: probe
\* tells the truth or reports an error even when it runs behind.  A CRC may be
\* that of another range, but not before a flash_crc16 has failed.  The rest is
\* exempt: data carry no opcode, loader_version looks at none, and data left
\* over could be taken for a reply.
LateAnswersAreTrue ==
    ~blurred =>
        /\ Answered(Questions) => last.value = Truth(last.req)
        /\ Answered({"flash_crc16"}) =>
              last.value = Truth(last.req) \/ failed

\* Success of a method means that the device has run this command with this
\* address, this argument and, when it is a write, these data in place: it
\* found opcode, arguments, length and CRC where it looks for them.
CommandsArriveIntact ==
    Answered(Ops) =>
        /\ \/ acted.op = last.req.op
           \/ {acted.op, last.req.op} = {"chip_key", "read_key_raw"}
        /\ acted.a = last.req.a
        /\ acted.b = IF last.req.op \in DataOut THEN Len(last.req.data)
                                                ELSE last.req.b
        /\ last.req.op \in DataOut =>
             LET mem == IF last.req.op = "flash_write" THEN flash ELSE ram IN
             \A i \in DOMAIN last.req.data :
                 last.req.a + i - 1 \in Cells
                     => mem[last.req.a + i - 1] = last.req.data[i]
=============================================================================
