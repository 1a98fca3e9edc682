-------------------------------- MODULE Wire ---------------------------------
(***************************************************************************)
(* Bytes on the wire: the 16-byte command block of crates/jl-msc, the      *)
(* argument layouts and payload decodings of crates/jl-uboot, its CRC and  *)
(* its chip-key cipher.                                                    *)
(*                                                                         *)
(* A request is [op, a, b, data]: `a' is the address or the 32-bit         *)
(* argument, `b' the length, the 16-bit argument or vpp.  The register of  *)
(* the CRC, a u16, is the set of the numbers of its one bits.              *)
(***************************************************************************)
EXTENDS Loader, Sequences

Bytes == 0 .. 255

\* u16::to_be_bytes, u16::to_le_bytes, u32::to_be_bytes
BE16(v) == <<v \div 256, v % 256>>
LE16(v) == <<v % 256, v \div 256>>
BE32(v) == <<v \div 16777216, (v \div 65536) % 256, (v \div 256) % 256, v % 256>>

\* from_be_bytes and from_le_bytes of the bytes of s from the i-th on
U16(s, i) == 256 * s[i] + s[i + 1]
U24(s, i) == 256 * U16(s, i) + s[i + 2]
U32(s, i) == 256 * U24(s, i) + s[i + 3]
U32Back(s, i) == s[i] + 256 * (s[i + 1] + 256 * (s[i + 2] + 256 * s[i + 3]))

Number ==
    [ FC00 |-> \hFC00, FC03 |-> \hFC03, FC09 |-> \hFC09, FC0A |-> \hFC0A,
      FC0B |-> \hFC0B, FC0C |-> \hFC0C, FC0D |-> \hFC0D, FC0E |-> \hFC0E,
      FC12 |-> \hFC12, FC13 |-> \hFC13, FC14 |-> \hFC14, FC15 |-> \hFC15,
      FC16 |-> \hFC16, FD01 |-> \hFD01, FD05 |-> \hFD05, FD07 |-> \hFD07,
      FB00 |-> \hFB00, FB01 |-> \hFB01, FB02 |-> \hFB02, FB03 |-> \hFB03,
      FB04 |-> \hFB04, FB06 |-> \hFB06, FB08 |-> \hFB08, FB09 |-> \hFB09,
      FB31 |-> \hFB31 ]

Opcode(proto, op) ==
    Number[(CHOOSE r \in Rows : r[1] = proto /\ r[2] = op)[3]]

-----------------------------------------------------------------------------
(* jl_crc16_seed and jl_crc_cipher_bytes *)

\* `^' of two numbers, by their bits.
Plus(s, t) == (s \ t) \union (t \ s)

\* The bits of a byte, and the low byte that bits make up.
Weight == <<1, 2, 4, 8, 16, 32, 64, 128>>
Bits(byte) == { e \in 0 .. 7 : (byte \div Weight[e + 1]) % 2 = 1 }
Octet(bits) ==
    LET Of(e) == IF e \in bits THEN Weight[e + 1] ELSE 0
    IN  Of(0) + Of(1) + Of(2) + Of(3) + Of(4) + Of(5) + Of(6) + Of(7)
Word(bits) == 256 * Octet({ e - 8 : e \in bits \ (0 .. 7) }) + Octet(bits)

CrcShiftWide(crc) ==   \* mutant: the bit is tested after the shift
    LET s == { e + 1 : e \in crc \ {15} }
    IN  IF 15 \in s THEN Plus(s, {12, 5, 0}) ELSE s

\* One bit: `crc & 0x8000', then shift a u16; 0x1021 has the bits 12, 5, 0.
CrcShift(crc) ==
    LET s == { e + 1 : e \in crc \ {15} }
    IN  IF 15 \in crc THEN Plus(s, {12, 5, 0}) ELSE s

CrcByte(crc, byte) ==
    LET reg[k \in 0 .. 8] ==
          IF k = 0 THEN Plus(crc, { e + 8 : e \in Bits(byte) })
                   ELSE CrcShift(reg[k - 1])
    IN  reg[8]

Crc16Seed(data, crc) ==
    LET reg[n \in 0 .. Len(data)] ==
          IF n = 0 THEN crc ELSE CrcByte(reg[n - 1], data[n])
    IN  reg[Len(data)]
Crc16(data) == Crc16Seed(data, {})

Magic == <<\hC3, \hCF, \hC0, \hE8, \hCE, \hD2, \hB0, \hAE,
           \hC4, \hE3, \hA3, \hAC, \hD3, \hF1, \hC1, \hD6>>

CipherRestarted(data, high, low) ==   \* mutant: crc not carried on
    LET start == Crc16Seed(high, low)
        Mask(i) == Crc16Seed(<<Magic[1 + ((i - 1) % 16)]>>, start)
    IN  [i \in DOMAIN data |-> Octet(Plus(Bits(data[i]), Mask(i)))]

\* The key is given as the two bytes of its high half, and its low half.  Byte
\* i is masked with the low byte of the CRC carried on over the first i bytes
\* of MAGIC.
Cipher(data, high, low) ==
    LET start == Crc16Seed(high, low)
        Mask(i) == Crc16Seed([j \in 1 .. i |-> Magic[1 + ((j - 1) % 16)]], start)
    IN  [i \in DOMAIN data |-> Octet(Plus(Bits(data[i]), Mask(i)))]

-----------------------------------------------------------------------------
(* The command block. *)

DataIn == {"flash_read", "mem_read", "set_flash_cmds"}
DataOut == {"flash_write", "mem_write", "mem_write_rxgp"}

\* What has to fit a u16: the length asked for, or the 16-bit argument.
Narrowed(r) ==
    CASE r.op \in DataOut -> Len(r.data)
      [] r.op \in DataIn \union {"flash_crc16", "flash_crc16_raw", "mem_jump"}
            -> r.b
      [] OTHER -> 0

\* The loaders want the CRC least significant byte first, after a zero byte;
\* mem_write of LoaderV1 sends none.
Args(proto, r) ==
    CASE r.op \in DataOut /\ ~(proto = "loaderv1" /\ r.op = "mem_write")
            -> BE32(r.a) \o BE16(Len(r.data)) \o <<0>>
                         \o LE16(Word(Crc16(r.data)))
      [] proto = "loaderv1" /\ r.op = "mem_write"
            -> BE32(r.a) \o BE16(Len(r.data))
      [] r.op \in {"flash_read", "mem_read", "flash_crc16", "flash_crc16_raw",
                   "mem_jump"} -> BE32(r.a) \o BE16(r.b)
      [] r.op = "set_flash_cmds" -> BE32(0) \o BE16(r.b)
      [] r.op \in {"run_app", "chip_key", "read_key_raw",
                   "flash_erase_sector", "flash_erase_block"} -> BE32(r.a)
      [] r.op = "write_chipkey" -> BE32(r.a) \o <<0>> \o BE32(r.b)
      [] r.op = "flash_select" -> <<r.a>>
      [] OTHER -> << >>

\* build_cdb; no method has more than nine bytes of arguments.
Cdb(opcode, args) ==
    BE16(opcode) \o args \o [i \in 1 .. 14 - Len(args) |-> 255]

-----------------------------------------------------------------------------
(* What a method makes of the bytes it gets back. *)

NeededPayload(op) ==
    CASE op \in {"online", "read_status"} -> 1
      [] op \in {"flash_crc16", "flash_crc16_raw"} -> 2
      [] op = "read_id" -> 3
      [] op \in {"usb_buffer_size", "maskrom_id", "write_chipkey"} -> 4
      [] op = "chip_key" -> 6
      [] OTHER -> 0

\* mutant: validate_response_command not called
ReplyFaultUnechoed(opcode, op, bytes) ==
    IF Len(bytes) - 2 < NeededPayload(op) THEN "PayloadTooShort" ELSE NoError

\* validate_response_command, then ensure_payload_len
ReplyFault(opcode, op, bytes) ==
    IF Len(bytes) < 2 \/ U16(bytes, 1) # opcode THEN "BadReply"
    ELSE IF Len(bytes) - 2 < NeededPayload(op) THEN "PayloadTooShort"
    ELSE NoError

KnownKinds(proto) ==
    IF proto = "loaderv1" THEN 0 .. 2 ELSE (0 .. 5) \union {\h16, \h17}

Value(v) == [err |-> NoError, value |-> v]
Fault(e) == [err |-> e, value |-> << >>]
NoId == -1

\* The numbers a method returns for an accepted reply with payload p.
Decoded(proto, op, p) ==
    CASE op = "online" -> IF p[1] \notin KnownKinds(proto) THEN Fault("BadReply")
                          ELSE Value(<<p[1],
                                 IF proto = "loaderv1" \/ Len(p) < 6 THEN NoId
                                 ELSE U32Back(p, 3)>>)
      [] op \in {"usb_buffer_size", "maskrom_id", "write_chipkey"}
            -> Value(<<U32(p, 1)>>)
      [] op = "read_id" -> Value(<<U24(p, 1)>>)
      [] op = "read_status" -> Value(<<p[1]>>)
      [] op \in {"flash_crc16", "flash_crc16_raw"}
            -> Value(<<U16(p, 1)>>)
      [] op = "chip_key"
            -> LET key == Cipher(<<p[6], p[5]>>, <<255, 255>>, 0 .. 15)
               IN  Value(<<key[1] + 256 * key[2]>>)
      [] op = "read_key_raw" -> Value(p)
      [] OTHER -> Value(<< >>)

\* loader_version: four characters backwards, zeros trimmed at both ends.
\* (Text with bytes above 127 counts as not UTF-8.)
Version(bytes) ==
    LET raw == [i \in 1 .. 4 |-> bytes[7 - i]]
        kept == { i \in 1 .. 4 : raw[i] # 0 }
        first == CHOOSE i \in kept : \A j \in kept : i <= j
        final == CHOOSE i \in kept : \A j \in kept : j <= i
    IN  IF Len(bytes) < 6 \/ kept = {} THEN Value(<< >>)
        ELSE IF \E i \in 1 .. 4 : raw[i] > 127 THEN Fault("BadReply")
        ELSE Value(SubSeq(raw, first, final))

\* cmd_exec, cmd_exec_datain, cmd_exec_dataout, and what their callers return.
Judged(proto, op, bytes) ==
    LET fault == ReplyFault(Opcode(proto, op), op, bytes) IN
    CASE op \in {"flash_read", "mem_read"} -> Value(bytes)
      [] op \in DataOut \union {"set_flash_cmds"} -> Value(<< >>)
      [] op = "loader_version" -> Version(bytes)
      [] OTHER -> IF fault # NoError THEN Fault(fault)
                  ELSE Decoded(proto, op, SubSeq(bytes, 3, Len(bytes)))
=============================================================================
