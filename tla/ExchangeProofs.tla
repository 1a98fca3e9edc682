--------------------------- MODULE ExchangeProofs ----------------------------
(***************************************************************************)
(* Safety properties of Exchange for any requests the methods can be asked *)
(* for, any memory, any device and any number of late replies.  Numbers    *)
(* beyond a few hundred are kept from Zenon, which counts in unary.        *)
(***************************************************************************)
EXTENDS CrcProofs

-----------------------------------------------------------------------------
(* Numbers and their bytes. *)

\* A set of its own, as the provers write out a range of numbers.
Words == { n \in Nat : n < 65536 }

LEMMA Be16Bytes ==
    ASSUME NEW v \in Words
    PROVE  /\ v \div 256 \in Bytes /\ v % 256 \in Bytes
           /\ 256 * (v \div 256) + (v % 256) = v
           /\ (v % 256) + 256 * (v \div 256) = v
BY SMT DEF Words, Bytes

LEMMA Be32Bytes ==
    ASSUME NEW v, Unsigned(v, 255)
    PROVE  /\ v \div 16777216 \in Bytes /\ (v \div 65536) % 256 \in Bytes
           /\ (v \div 256) % 256 \in Bytes /\ v % 256 \in Bytes
           /\ 256 * (256 * (256 * (v \div 16777216) + ((v \div 65536) % 256))
                + ((v \div 256) % 256)) + (v % 256) = v
           /\ (v % 256) + 256 * (((v \div 256) % 256)
                + 256 * (((v \div 65536) % 256) + 256 * (v \div 16777216))) = v
<1>1. v \in Nat /\ v \div 16777216 <= 255
    BY SMT DEF Unsigned
<1>2. /\ v \div 16777216 \in Bytes /\ (v \div 65536) % 256 \in Bytes
      /\ (v \div 256) % 256 \in Bytes /\ v % 256 \in Bytes
    BY SMT, <1>1 DEF Bytes
<1>3. /\ v = 256 * (v \div 256) + (v % 256)
      /\ v \div 256 = 256 * (v \div 65536) + ((v \div 256) % 256)
      /\ v \div 65536 = 256 * (v \div 16777216) + ((v \div 65536) % 256)
    BY SMT, <1>1
<1>4. /\ v \div 256 \in Int /\ v \div 65536 \in Int
      /\ v \div 16777216 \in Int
    BY SMT, <1>1
<1> QED
    BY SMT, <1>1, <1>2, <1>3, <1>4 DEF Bytes

LEMMA WeightValues ==
    /\ Weight[1] = 1 /\ Weight[2] = 2 /\ Weight[3] = 4 /\ Weight[4] = 8
    /\ Weight[5] = 16 /\ Weight[6] = 32 /\ Weight[7] = 64 /\ Weight[8] = 128
BY SMT DEF Weight

\* The bits of a byte, one by one.
LEMMA BitsOf ==
    ASSUME NEW v
    PROVE  /\ 0 \in Bits(v) <=> (v \div 1) % 2 = 1
           /\ 1 \in Bits(v) <=> (v \div 2) % 2 = 1
           /\ 2 \in Bits(v) <=> (v \div 4) % 2 = 1
           /\ 3 \in Bits(v) <=> (v \div 8) % 2 = 1
           /\ 4 \in Bits(v) <=> (v \div 16) % 2 = 1
           /\ 5 \in Bits(v) <=> (v \div 32) % 2 = 1
           /\ 6 \in Bits(v) <=> (v \div 64) % 2 = 1
           /\ 7 \in Bits(v) <=> (v \div 128) % 2 = 1
BY SMT, WeightValues DEF Bits

LEMMA OctetSum ==
    ASSUME NEW s
    PROVE  Octet(s) = (IF 0 \in s THEN 1 ELSE 0) + (IF 1 \in s THEN 2 ELSE 0)
             + (IF 2 \in s THEN 4 ELSE 0) + (IF 3 \in s THEN 8 ELSE 0)
             + (IF 4 \in s THEN 16 ELSE 0) + (IF 5 \in s THEN 32 ELSE 0)
             + (IF 6 \in s THEN 64 ELSE 0) + (IF 7 \in s THEN 128 ELSE 0)
BY SMT, WeightValues DEF Octet

LEMMA OctetType == ASSUME NEW s PROVE Octet(s) \in Bytes
BY SMT, OctetSum DEF Bytes

LEMMA WordType == ASSUME NEW s PROVE Word(s) \in Words
<1>1. Octet({ e - 8 : e \in s \ (0 .. 7) }) \in Bytes /\ Octet(s) \in Bytes
    BY OctetType
<1>2. PICK a \in Bytes : a = Octet({ e - 8 : e \in s \ (0 .. 7) })
    BY <1>1
<1>3. PICK b \in Bytes : b = Octet(s)
    BY <1>1
<1>4. Word(s) = 256 * a + b
    BY SMT, <1>2, <1>3 DEF Word
<1>5. 256 * a + b \in Words
    BY SMT DEF Words, Bytes
<1> QED
    BY SMT, <1>4, <1>5

LEMMA OctetOfBits == ASSUME NEW v \in Bytes PROVE Octet(Bits(v)) = v
<1>1. (v % 2) + 2 * ((v \div 2) % 2) + 4 * ((v \div 4) % 2)
         + 8 * ((v \div 8) % 2) + 16 * ((v \div 16) % 2)
         + 32 * ((v \div 32) % 2) + 64 * ((v \div 64) % 2)
         + 128 * ((v \div 128) % 2) = v
    BY SMT DEF Bytes
<1>2. v \div 1 = v
    BY SMT DEF Bytes
<1> DEFINE d(w) == (v \div w) % 2
           B(e) == IF e \in Bits(v) THEN 1 ELSE 0
<1>3. /\ d(1) \in {0, 1} /\ d(2) \in {0, 1} /\ d(4) \in {0, 1}
      /\ d(8) \in {0, 1} /\ d(16) \in {0, 1} /\ d(32) \in {0, 1}
      /\ d(64) \in {0, 1} /\ d(128) \in {0, 1}
    BY SMT DEF Bytes
<1>4. /\ B(0) = d(1) /\ B(1) = d(2) /\ B(2) = d(4) /\ B(3) = d(8)
      /\ B(4) = d(16) /\ B(5) = d(32) /\ B(6) = d(64) /\ B(7) = d(128)
    BY SMT, <1>3, BitsOf
<1>5. Octet(Bits(v)) = B(0) + 2 * B(1) + 4 * B(2) + 8 * B(3) + 16 * B(4)
                          + 32 * B(5) + 64 * B(6) + 128 * B(7)
    BY SMT, OctetSum
<1>6. d(1) + 2 * d(2) + 4 * d(4) + 8 * d(8) + 16 * d(16) + 32 * d(32)
         + 64 * d(64) + 128 * d(128) = v
    BY <1>1, <1>2
<1> HIDE DEF d, B
<1> QED
    BY SMT, <1>4, <1>5, <1>6

\* A byte with bit e set or not has bit e set or not.
LEMMA BitsOfOctet ==
    ASSUME NEW s
    PROVE  Bits(Octet(s)) = s \intersect (0 .. 7)
<1> DEFINE B(e) == IF e \in s THEN 1 ELSE 0
<1>1. PICK b0, b1, b2, b3, b4, b5, b6, b7 \in {0, 1} :
         /\ b0 = B(0) /\ b1 = B(1) /\ b2 = B(2) /\ b3 = B(3)
         /\ b4 = B(4) /\ b5 = B(5) /\ b6 = B(6) /\ b7 = B(7)
    BY SMT
<1> DEFINE v == b0 + 2 * b1 + 4 * b2 + 8 * b3 + 16 * b4 + 32 * b5
                   + 64 * b6 + 128 * b7
<1>2. Octet(s) = v
    BY SMT, <1>1, OctetSum
<1>3. /\ (v \div 1) % 2 = b0 /\ (v \div 2) % 2 = b1 /\ (v \div 4) % 2 = b2
      /\ (v \div 8) % 2 = b3 /\ (v \div 16) % 2 = b4 /\ (v \div 32) % 2 = b5
      /\ (v \div 64) % 2 = b6 /\ (v \div 128) % 2 = b7
    BY SMTT(30), <1>1
<1> HIDE DEF v
<1>4. ASSUME NEW e \in 0 .. 7
      PROVE  e \in Bits(Octet(s)) <=> e \in s
    <2>1. e = 0 \/ e = 1 \/ e = 2 \/ e = 3 \/ e = 4 \/ e = 5 \/ e = 6 \/ e = 7
        OBVIOUS
    <2> QED
        BY SMTT(30), <1>1, <1>2, <1>3, <2>1, BitsOf
<1> QED
    BY <1>4, BitsType

LEMMA OctetOfLow ==
    ASSUME NEW s, NEW t, s \intersect (0 .. 7) = t \intersect (0 .. 7)
    PROVE  Octet(s) = Octet(t)
<1>1. ASSUME NEW e \in 0 .. 7
      PROVE  e \in s <=> e \in t
    OBVIOUS
<1> QED
    BY SMT, <1>1, OctetSum

\* What has been masked is unmasked by the same mask.
LEMMA Unmasked ==
    ASSUME NEW v \in Bytes, NEW mask
    PROVE  Octet(Plus(Bits(Octet(Plus(Bits(v), mask))), mask)) = v
<1>1. Bits(Octet(Plus(Bits(v), mask))) = Plus(Bits(v), mask) \intersect (0 .. 7)
    BY BitsOfOctet
<1>2. Plus(Plus(Bits(v), mask) \intersect (0 .. 7), mask) \intersect (0 .. 7)
         = Bits(v) \intersect (0 .. 7)
    BY Zenon DEF Plus
<1>3. Octet(Plus(Plus(Bits(v), mask) \intersect (0 .. 7), mask))
         = Octet(Bits(v))
    BY <1>2, OctetOfLow
<1> QED
    BY <1>1, <1>3, OctetOfBits

-----------------------------------------------------------------------------
(* The command block. *)

LEMMA NumberTypes ==
    \A d \in DOMAIN Number : Number[d] \in Words
<1>1. \A d \in DOMAIN Number :
         Number[d] \in Int /\ 0 <= Number[d] /\ Number[d] <= 65535
    BY SMT DEF Number
<1>2. \A n \in Int : 0 <= n /\ n <= 65535 => n \in Words
    BY SMT DEF Words
<1> QED
    BY <1>1, <1>2, SMT

\* No two opcodes have the same number.
LEMMA NumbersDiffer ==
    \A c, d \in DOMAIN Number : Number[c] = Number[d] => c = d
BY SMTT(60) DEF Number

LEMMA RowCodes == \A r \in Rows : r[3] \in DOMAIN Number
BY SMTT(60) DEF Number, Rows, InfoCommands, DeviceCommands, FlashCommands,
   MemCommands

\* A protocol has one opcode for an operation, and one operation for an opcode
\* if chip_key and read_key_raw are one.
LEMMA RowsByOperation ==
    \A r, s \in Rows : r[1] = s[1] /\ r[2] = s[2] => r[3] = s[3]
BY SMTT(60) DEF Rows, InfoCommands, DeviceCommands, FlashCommands, MemCommands

LEMMA RowsByOpcode ==
    \A r, s \in Rows : r[1] = s[1] /\ r[3] = s[3] =>
        r[2] = s[2] \/ {r[2], s[2]} = {"chip_key", "read_key_raw"}
BY SMTT(60) DEF Rows, InfoCommands, DeviceCommands, FlashCommands, MemCommands

LEMMA RawTwin ==
    \A r \in Rows : r[2] = "read_key_raw" =>
        \E s \in Rows : s[1] = r[1] /\ s[2] = "chip_key" /\ s[3] = r[3]
BY SMTT(60) DEF Rows, InfoCommands, DeviceCommands, FlashCommands, MemCommands

LEMMA OpcodeRow ==
    ASSUME NEW p, NEW op, Supported(p, op)
    PROVE  \E r \in Rows : r[1] = p /\ r[2] = op /\ Opcode(p, op) = Number[r[3]]
<1>1. PICK r \in Rows : r[1] = p /\ r[2] = op
    BY DEF Supported
<1> QED
    BY <1>1 DEF Opcode

LEMMA OpcodeType ==
    ASSUME NEW p, NEW op, Supported(p, op)
    PROVE  Opcode(p, op) \in Words /\ op \in Ops
<1>1. PICK r \in Rows : r[1] = p /\ r[2] = op /\ Opcode(p, op) = Number[r[3]]
    BY OpcodeRow
<1>2. op \in Ops
    BY <1>1 DEF Ops
<1> QED
    BY <1>1, <1>2, NumberTypes, RowCodes

\* The same operation under two names, for the device.
Alias(op) == IF op = "read_key_raw" THEN "chip_key" ELSE op

LEMMA OpcodesDiffer ==
    ASSUME NEW p, NEW a, NEW b, Supported(p, a), Supported(p, b),
           Opcode(p, a) = Opcode(p, b)
    PROVE  Alias(a) = Alias(b)
<1>1. PICK r \in Rows : r[1] = p /\ r[2] = a /\ Opcode(p, a) = Number[r[3]]
    BY OpcodeRow
<1>2. PICK s \in Rows : s[1] = p /\ s[2] = b /\ Opcode(p, b) = Number[s[3]]
    BY OpcodeRow
<1>3. r[3] = s[3]
    BY <1>1, <1>2, RowCodes, NumbersDiffer
<1>4. a = b \/ {a, b} = {"chip_key", "read_key_raw"}
    BY <1>1, <1>2, <1>3, RowsByOpcode
<1>5. CASE a # b
    <2>1. /\ a \in {"chip_key", "read_key_raw"}
          /\ b \in {"chip_key", "read_key_raw"}
        BY <1>4, <1>5
    <2> QED
        BY <1>5, <2>1 DEF Alias
<1> QED
    BY <1>5

\* The device takes a command for what the host means by it.
LEMMA MeantIs ==
    ASSUME NEW cdb, NEW op, Supported(proto, op),
           U16(cdb, 1) = Opcode(proto, op)
    PROVE  Meant(cdb) = Alias(op)
<1> DEFINE Is(r) == /\ r[1] = proto /\ r[2] # "read_key_raw"
                    /\ Number[r[3]] = U16(cdb, 1)
<1>1. PICK r \in Rows : r[1] = proto /\ r[2] = op
                           /\ Opcode(proto, op) = Number[r[3]]
    BY OpcodeRow
<1>2. \E s \in Rows : Is(s)
    <2>1. CASE op = "read_key_raw"
        <3>1. PICK s \in Rows :
                 s[1] = r[1] /\ s[2] = "chip_key" /\ s[3] = r[3]
            BY <1>1, <2>1, RawTwin
        <3>2. Is(s)
            BY <1>1, <3>1
        <3> QED
            BY <3>2
    <2>2. CASE op # "read_key_raw"
        BY <1>1, <2>2
    <2> QED
        BY <2>1, <2>2
<1> DEFINE s == CHOOSE x \in Rows : Is(x)
<1>3. s \in Rows /\ Is(s)
    BY <1>2
<1>4. Meant(cdb) = s[2]
    BY DEF Meant
<1> HIDE DEF s
<1>5. r[3] = s[3] /\ r[1] = s[1]
    BY <1>1, <1>3, RowCodes, NumbersDiffer
<1>6. op = s[2] \/ {op, s[2]} = {"chip_key", "read_key_raw"}
    BY <1>1, <1>3, <1>5, RowsByOpcode
<1>7. CASE op # s[2]
    <2>1. /\ s[2] \in {"chip_key", "read_key_raw"}
          /\ op \in {"chip_key", "read_key_raw"}
        BY <1>6, <1>7
    <2> QED
        BY <1>3, <1>4, <1>7, <2>1 DEF Alias
<1>8. CASE op = s[2]
    BY <1>3, <1>4, <1>8 DEF Alias
<1> QED
    BY <1>7, <1>8

\* Sixteen bytes that begin with an opcode.
Block(cdb, opcode) ==
    /\ cdb \in Seq(Bytes) /\ Len(cdb) = 16
    /\ cdb[1] = opcode \div 256 /\ cdb[2] = opcode % 256

\* The layouts of the arguments, byte by byte.
LEMMA CdbShort ==
    ASSUME NEW o \in Words, NEW a \in Bytes
    PROVE  /\ Block(Cdb(o, << >>), o)
           /\ Block(Cdb(o, <<a>>), o) /\ Cdb(o, <<a>>)[3] = a
<1>1. 255 \in Bytes /\ o \div 256 \in Bytes /\ o % 256 \in Bytes
    BY SMT, Be16Bytes DEF Bytes
<1>2. Block(Cdb(o, << >>), o)
    BY SMT, <1>1 DEF Block, Cdb, BE16
<1>3. Block(Cdb(o, <<a>>), o) /\ Cdb(o, <<a>>)[3] = a
    BY SMT, <1>1 DEF Block, Cdb, BE16
<1> QED
    BY <1>2, <1>3

LEMMA CdbAddress ==
    ASSUME NEW o \in Words,
           NEW a \in Bytes, NEW b \in Bytes, NEW c \in Bytes, NEW d \in Bytes
    PROVE  LET cdb == Cdb(o, <<a, b, c, d>>) IN
           /\ Block(cdb, o)
           /\ cdb[3] = a /\ cdb[4] = b /\ cdb[5] = c /\ cdb[6] = d
<1>1. 255 \in Bytes /\ o \div 256 \in Bytes /\ o % 256 \in Bytes
    BY SMT, Be16Bytes DEF Bytes
<1> QED
    BY SMT, <1>1 DEF Block, Cdb, BE16

LEMMA CdbLength ==
    ASSUME NEW o \in Words,
           NEW a \in Bytes, NEW b \in Bytes, NEW c \in Bytes, NEW d \in Bytes,
           NEW e \in Bytes, NEW f \in Bytes
    PROVE  LET cdb == Cdb(o, <<a, b, c, d>> \o <<e, f>>) IN
           /\ Block(cdb, o)
           /\ cdb[3] = a /\ cdb[4] = b /\ cdb[5] = c /\ cdb[6] = d
           /\ cdb[7] = e /\ cdb[8] = f
<1>1. 255 \in Bytes /\ o \div 256 \in Bytes /\ o % 256 \in Bytes
    BY SMT, Be16Bytes DEF Bytes
<1> QED
    BY SMT, <1>1 DEF Block, Cdb, BE16

LEMMA CdbKey ==
    ASSUME NEW o \in Words,
           NEW a \in Bytes, NEW b \in Bytes, NEW c \in Bytes, NEW d \in Bytes,
           NEW e \in Bytes, NEW f \in Bytes, NEW g \in Bytes, NEW h \in Bytes
    PROVE  LET cdb == Cdb(o, <<a, b, c, d>> \o <<0>> \o <<e, f, g, h>>) IN
           /\ Block(cdb, o)
           /\ cdb[3] = a /\ cdb[4] = b /\ cdb[5] = c /\ cdb[6] = d
           /\ cdb[8] = e /\ cdb[9] = f /\ cdb[10] = g /\ cdb[11] = h
<1>1. /\ 255 \in Bytes /\ o \div 256 \in Bytes /\ o % 256 \in Bytes
      /\ 0 \in Bytes
    BY SMT, Be16Bytes DEF Bytes
<1> QED
    BY SMT, <1>1 DEF Block, Cdb, BE16

\* The arguments of a write: address, length, zero, CRC.
WriteArgs(a, b, c, d, e, f, g, h) ==
    <<a, b, c, d>> \o <<e, f>> \o <<0>> \o <<g, h>>
WriteBlock(cdb, o, a, b, c, d, e, f, g, h) ==
    /\ Block(cdb, o)
    /\ cdb[3] = a /\ cdb[4] = b /\ cdb[5] = c /\ cdb[6] = d
    /\ cdb[7] = e /\ cdb[8] = f
    /\ cdb[9] = 0 /\ cdb[10] = g /\ cdb[11] = h

LEMMA CdbCrc ==
    ASSUME NEW o \in Words,
           NEW a \in Bytes, NEW b \in Bytes, NEW c \in Bytes, NEW d \in Bytes,
           NEW e \in Bytes, NEW f \in Bytes, NEW g \in Bytes, NEW h \in Bytes
    PROVE  WriteBlock(Cdb(o, WriteArgs(a, b, c, d, e, f, g, h)),
                      o, a, b, c, d, e, f, g, h)
<1>1. /\ 255 \in Bytes /\ o \div 256 \in Bytes /\ o % 256 \in Bytes
      /\ 0 \in Bytes
    BY SMT, Be16Bytes DEF Bytes
<1> QED
    BY SMT, <1>1 DEF WriteBlock, Block, Cdb, BE16, WriteArgs

LEMMA Fits ==
    ASSUME NEW r \in Requests, Check(r) = NoError
    PROVE  /\ Supported(proto, r.op) /\ r.op \in Ops
           /\ Opcode(proto, r.op) \in Words
           /\ Unsigned(r.a, 255) /\ r.data \in Seq(Bytes)
           /\ r.op \in Lengths => r.b \in Words
           /\ r.op \in DataOut => Len(r.data) \in Words
<1>1. /\ r.op \in Ops /\ Unsigned(r.a, 255) /\ r.b \in Nat
      /\ r.data \in Seq(Bytes)
    BY RequestAssumption
<1>2. Supported(proto, r.op) /\ ~(Narrowed(r) > 65535)
    BY SMT DEF Check, NoError
<1>3. ASSUME r.op \in Lengths
      PROVE  r.b \in Words
    <2>1. Narrowed(r) = r.b
        BY SMT, <1>3 DEF Narrowed, Lengths, DataIn, DataOut
    <2> QED
        BY SMT, <1>1, <1>2, <2>1 DEF Words
<1>4. ASSUME r.op \in DataOut
      PROVE  Len(r.data) \in Words
    <2>1. Narrowed(r) = Len(r.data)
        BY SMT, <1>4 DEF Narrowed, DataIn, DataOut
    <2>2. Len(r.data) \in Nat
        BY <1>1, LenProperties
    <2> QED
        BY SMT, <1>2, <2>1, <2>2 DEF Words
<1> QED
    BY <1>1, <1>2, <1>3, <1>4, OpcodeType

\* Where the device finds what the host has sent.
Carries(cdb, r) ==
    /\ Block(cdb, Opcode(proto, r.op))
    /\ r.op = "flash_select" => cdb[3] = r.a
    /\ r.op # "flash_select" /\ TakesAddress(r.op) => Addr(cdb) = r.a
    /\ r.op = "write_chipkey" => U32(cdb, 8) = r.b
    /\ r.op \in Lengths => Short(cdb) = r.b
    /\ r.op \in DataOut => Short(cdb) = Len(r.data)
    /\ r.op \in DataOut /\ HasCrc(r.op) =>
          cdb[9] = 0 /\ cdb[10] + 256 * cdb[11] = Word(Crc16(r.data))

LEMMA FourBytes ==
    ASSUME NEW v, Unsigned(v, 255)
    PROVE  \E a, b, c, d \in Bytes :
              /\ BE32(v) = <<a, b, c, d>>
              /\ 256 * (256 * (256 * a + b) + c) + d = v
              /\ d + 256 * (c + 256 * (b + 256 * a)) = v
<1>1. BE32(v) = <<v \div 16777216, (v \div 65536) % 256, (v \div 256) % 256,
                  v % 256>>
    BY SMT DEF BE32
<1> QED
    BY SMT, <1>1, Be32Bytes

LEMMA TwoBytes ==
    ASSUME NEW v \in Words
    PROVE  \E e, f \in Bytes :
              /\ BE16(v) = <<e, f>> /\ LE16(v) = <<f, e>>
              /\ 256 * e + f = v /\ f + 256 * e = v
<1>1. BE16(v) = <<v \div 256, v % 256>> /\ LE16(v) = <<v % 256, v \div 256>>
    BY SMT DEF BE16, LE16
<1> QED
    BY SMT, <1>1, Be16Bytes

LEMMA HostCarries ==
    ASSUME NEW r \in Requests, Check(r) = NoError
    PROVE  Carries(CdbOf(r), r)
<1> DEFINE o == Opcode(proto, r.op)
           cdb == CdbOf(r)
<1>0. /\ Supported(proto, r.op) /\ r.op \in Ops /\ o \in Words
      /\ Unsigned(r.a, 255) /\ r.data \in Seq(Bytes)
      /\ r.op \in Lengths => r.b \in Words
      /\ r.op \in DataOut => Len(r.data) \in Words
    BY Fits
<1>1. PICK a, b, c, d \in Bytes :
         /\ BE32(r.a) = <<a, b, c, d>>
         /\ 256 * (256 * (256 * a + b) + c) + d = r.a
    BY <1>0, FourBytes
<1>2. cdb = Cdb(o, Args(proto, r))
    BY DEF CdbOf
<1>3. /\ r.op = "flash_select" => r.a \in Bytes
      /\ r.op = "write_chipkey" => Unsigned(r.b, 255)
    BY RequestAssumption
<1> HIDE DEF o, cdb
<1>4. CASE r.op \in DataOut /\ HasCrc(r.op)
    <2>1. PICK e, f \in Bytes :
             BE16(Len(r.data)) = <<e, f>> /\ 256 * e + f = Len(r.data)
        BY <1>0, <1>4, TwoBytes
    <2>2. PICK g, h \in Bytes :
             /\ LE16(Word(Crc16(r.data))) = <<g, h>>
             /\ g + 256 * h = Word(Crc16(r.data))
        BY WordType, TwoBytes
    <2>3. Args(proto, r) = <<a, b, c, d>> \o <<e, f>> \o <<0>> \o <<g, h>>
        <3>1. Args(proto, r) = BE32(r.a) \o BE16(Len(r.data)) \o <<0>>
                                  \o LE16(Word(Crc16(r.data)))
            BY SMT, <1>4 DEF Args, HasCrc, DataOut
        <3> QED
            BY <1>1, <2>1, <2>2, <3>1
    <2>4. /\ Block(cdb, o)
          /\ cdb[3] = a /\ cdb[4] = b /\ cdb[5] = c /\ cdb[6] = d
          /\ cdb[7] = e /\ cdb[8] = f
          /\ cdb[9] = 0 /\ cdb[10] = g /\ cdb[11] = h
        <3>1. cdb = Cdb(o, WriteArgs(a, b, c, d, e, f, g, h))
            BY Zenon, <1>2, <2>3 DEF WriteArgs
        <3>2. WriteBlock(cdb, o, a, b, c, d, e, f, g, h)
            BY <1>0, <3>1, CdbCrc
        <3> QED
            BY Zenon, <3>2 DEF WriteBlock
    <2>5. Addr(cdb) = r.a /\ Short(cdb) = Len(r.data)
        BY SMT, <1>1, <2>1, <2>4 DEF Addr, Short, U16, U24, U32
    <2> QED
        BY SMT, <1>4, <2>2, <2>4, <2>5
        DEF Carries, DataOut, DataIn, Lengths, o, cdb
<1>5. CASE r.op \in DataOut /\ ~HasCrc(r.op)
    <2>1. PICK e, f \in Bytes :
             BE16(Len(r.data)) = <<e, f>> /\ 256 * e + f = Len(r.data)
        BY <1>0, <1>5, TwoBytes
    <2>2. Args(proto, r) = <<a, b, c, d>> \o <<e, f>>
        BY SMT, <1>1, <1>5, <2>1 DEF Args, HasCrc
    <2>3. /\ Block(cdb, o)
          /\ cdb[3] = a /\ cdb[4] = b /\ cdb[5] = c /\ cdb[6] = d
          /\ cdb[7] = e /\ cdb[8] = f
        BY <1>0, <1>2, <2>2, CdbLength
    <2>4. Addr(cdb) = r.a /\ Short(cdb) = Len(r.data)
        BY SMT, <1>1, <2>1, <2>3 DEF Addr, Short, U16, U24, U32
    <2> QED
        BY SMT, <1>5, <2>3, <2>4
        DEF Carries, DataOut, DataIn, Lengths, o, cdb
<1>6. CASE r.op \in {"flash_read", "mem_read", "flash_crc16",
                     "flash_crc16_raw", "mem_jump"}
    <2>1. PICK e, f \in Bytes : BE16(r.b) = <<e, f>> /\ 256 * e + f = r.b
        <3>1. r.op \in Lengths
            BY SMT, <1>6 DEF Lengths, DataIn
        <3> QED
            BY <1>0, <3>1, TwoBytes
    <2>2. Args(proto, r) = <<a, b, c, d>> \o <<e, f>>
        BY SMT, <1>1, <1>6, <2>1 DEF Args, DataOut
    <2>3. /\ Block(cdb, o)
          /\ cdb[3] = a /\ cdb[4] = b /\ cdb[5] = c /\ cdb[6] = d
          /\ cdb[7] = e /\ cdb[8] = f
        BY <1>0, <1>2, <2>2, CdbLength
    <2>4. Addr(cdb) = r.a /\ Short(cdb) = r.b
        BY SMT, <1>1, <2>1, <2>3 DEF Addr, Short, U16, U24, U32
    <2> QED
        BY SMT, <1>6, <2>3, <2>4 DEF Carries, DataOut, o, cdb
<1>7. CASE r.op = "set_flash_cmds"
    <2>1. PICK e, f \in Bytes : BE16(r.b) = <<e, f>> /\ 256 * e + f = r.b
        <3>1. r.op \in Lengths
            BY SMT, <1>7 DEF Lengths, DataIn
        <3> QED
            BY <1>0, <3>1, TwoBytes
    <2>2. Args(proto, r) = <<0, 0, 0, 0>> \o <<e, f>>
        <3>1. BE32(0) = <<0, 0, 0, 0>>
            BY SMT DEF BE32
        <3>2. Args(proto, r) = BE32(0) \o BE16(r.b)
            BY SMT, <1>7 DEF Args, DataOut
        <3> QED
            BY <2>1, <3>1, <3>2
    <2>3. Block(cdb, o) /\ cdb[7] = e /\ cdb[8] = f
        <3>1. 0 \in Bytes
            BY SMT DEF Bytes
        <3> QED
            BY <1>0, <1>2, <2>2, <3>1, CdbLength
    <2>4. Short(cdb) = r.b
        BY SMT, <2>1, <2>3 DEF Short, U16
    <2> QED
        BY SMT, <1>7, <2>3, <2>4
        DEF Carries, DataOut, TakesAddress, o, cdb
<1>8. CASE r.op \in {"run_app", "chip_key", "read_key_raw",
                     "flash_erase_sector", "flash_erase_block"}
    <2>1. Args(proto, r) = <<a, b, c, d>>
        BY SMT, <1>1, <1>8 DEF Args, DataOut
    <2>2. /\ Block(cdb, o)
          /\ cdb[3] = a /\ cdb[4] = b /\ cdb[5] = c /\ cdb[6] = d
        BY <1>0, <1>2, <2>1, CdbAddress
    <2>3. Addr(cdb) = r.a
        BY SMT, <1>1, <2>2 DEF Addr, U16, U24, U32
    <2> QED
        BY SMT, <1>8, <2>2, <2>3
        DEF Carries, DataOut, DataIn, Lengths, o, cdb
<1>9. CASE r.op = "write_chipkey"
    <2>1. PICK e, f, g, h \in Bytes :
             /\ BE32(r.b) = <<e, f, g, h>>
             /\ 256 * (256 * (256 * e + f) + g) + h = r.b
        BY <1>3, <1>9, FourBytes
    <2>2. Args(proto, r) = <<a, b, c, d>> \o <<0>> \o <<e, f, g, h>>
        BY SMT, <1>1, <1>9, <2>1 DEF Args, DataOut
    <2>3. /\ Block(cdb, o)
          /\ cdb[3] = a /\ cdb[4] = b /\ cdb[5] = c /\ cdb[6] = d
          /\ cdb[8] = e /\ cdb[9] = f /\ cdb[10] = g /\ cdb[11] = h
        BY <1>0, <1>2, <2>2, CdbKey
    <2>4. Addr(cdb) = r.a /\ U32(cdb, 8) = r.b
        BY SMT, <1>1, <2>1, <2>3 DEF Addr, U16, U24, U32
    <2> QED
        BY SMT, <1>9, <2>3, <2>4
        DEF Carries, DataOut, DataIn, Lengths, o, cdb
<1>10. CASE r.op = "flash_select"
    <2>1. Args(proto, r) = <<r.a>>
        BY SMT, <1>10 DEF Args, DataOut
    <2>2. Block(cdb, o) /\ cdb[3] = r.a
        BY <1>0, <1>2, <1>3, <1>10, <2>1, CdbShort
    <2> QED
        BY SMT, <1>10, <2>2
        DEF Carries, DataOut, DataIn, Lengths, o, cdb
<1>11. CASE r.op \notin {"flash_read", "mem_read", "flash_crc16",
               "flash_crc16_raw", "mem_jump", "set_flash_cmds", "run_app",
               "chip_key", "read_key_raw", "flash_erase_sector",
               "flash_erase_block", "write_chipkey", "flash_select"}
            /\ r.op \notin DataOut
    <2>1. Args(proto, r) = << >>
        BY SMT, <1>11 DEF Args, DataOut
    <2>2. Block(cdb, o)
        <3>1. 0 \in Bytes
            BY SMT DEF Bytes
        <3> QED
            BY <1>0, <1>2, <2>1, <3>1, CdbShort
    <2> QED
        BY SMT, <1>11, <2>2
        DEF Carries, DataOut, DataIn, Lengths, TakesAddress, o, cdb
<1> QED
    BY SMT, <1>4, <1>5, <1>6, <1>7, <1>8, <1>9, <1>10, <1>11 DEF cdb

\* The device understands the request that was made.
LEMMA UnderstoodIs ==
    ASSUME NEW r \in Requests, Check(r) = NoError
    PROVE  /\ Meant(CdbOf(r)) = Alias(r.op)
           /\ Understood(CdbOf(r)).op = Alias(r.op)
           /\ Understood(CdbOf(r)).a = r.a
           /\ Understood(CdbOf(r)).b = IF r.op \in DataOut THEN Len(r.data)
                                                           ELSE r.b
<1> DEFINE cdb == CdbOf(r)
           op == Alias(r.op)
<1>1. Supported(proto, r.op) /\ Opcode(proto, r.op) \in Words
    BY Fits
<1>2. Carries(cdb, r)
    BY HostCarries
<1> HIDE DEF cdb
<1>3. Meant(cdb) = op
    <2>1. U16(cdb, 1) = Opcode(proto, r.op)
        BY SMT, <1>1, <1>2, Be16Bytes DEF Carries, Block, U16
    <2> QED
        BY <1>1, <2>1, MeantIs
<1>4. /\ ~TakesAddress(r.op) => r.a = 0
      /\ r.op \notin Lengths \union {"write_chipkey"} => r.b = 0
    BY RequestAssumption
<1>5. Understood(cdb).op = op
    BY <1>3 DEF Understood
<1>6. Understood(cdb).a =
         CASE op = "flash_select" -> cdb[3]
           [] op # "flash_select" /\ TakesAddress(op) -> Addr(cdb)
           [] OTHER -> 0
    BY <1>3 DEF Understood
<1>7. Understood(cdb).b =
         CASE op = "write_chipkey" -> U32(cdb, 8)
           [] op \in Lengths \union DataOut -> Short(cdb)
           [] OTHER -> 0
    BY <1>3 DEF Understood
<1>8. TakesAddress(op) <=> TakesAddress(r.op)
    BY SMT DEF TakesAddress, DataOut, Alias
<1>9. Understood(cdb).a = r.a
    <2>1. CASE r.op = "flash_select"
        <3>1. op = "flash_select"
            BY SMT, <2>1 DEF Alias
        <3> QED
            BY SMT, <1>2, <1>6, <2>1, <3>1 DEF Carries
    <2>2. CASE r.op # "flash_select" /\ TakesAddress(r.op)
        <3>1. op # "flash_select"
            BY SMT, <2>2 DEF Alias
        <3> QED
            BY SMT, <1>2, <1>6, <1>8, <2>2, <3>1 DEF Carries
    <2>3. CASE ~TakesAddress(r.op)
        <3>1. op # "flash_select"
            BY SMT, <1>8, <2>3 DEF TakesAddress
        <3> QED
            BY SMT, <1>4, <1>6, <1>8, <2>3, <3>1
    <2> QED
        BY <2>1, <2>2, <2>3
<1>10. Understood(cdb).b = IF r.op \in DataOut THEN Len(r.data) ELSE r.b
    <2>1. CASE r.op = "write_chipkey"
        <3>1. op = "write_chipkey" /\ r.op \notin DataOut
            BY SMT, <2>1 DEF Alias, DataOut
        <3> QED
            BY SMT, <1>2, <1>7, <2>1, <3>1 DEF Carries
    <2>2. CASE r.op \in DataOut
        <3>1. op # "write_chipkey" /\ op \in Lengths \union DataOut
            BY SMT, <2>2 DEF Alias, DataOut
        <3> QED
            BY Zenon, <1>2, <1>7, <2>2, <3>1 DEF Carries
    <2>3. CASE r.op \in Lengths
        <3>1. /\ op # "write_chipkey" /\ op \in Lengths \union DataOut
              /\ r.op \notin DataOut
            BY SMT, <2>3 DEF Alias, Lengths, DataIn, DataOut
        <3> QED
            BY SMT, <1>2, <1>7, <2>3, <3>1 DEF Carries
    <2>4. CASE r.op \notin Lengths \union DataOut \union {"write_chipkey"}
        <3>1. op \notin Lengths \union DataOut \union {"write_chipkey"}
            BY SMT, <2>4 DEF Alias, Lengths, DataIn, DataOut
        <3> QED
            BY SMT, <1>4, <1>7, <2>4, <3>1
    <2> QED
        BY <2>1, <2>2, <2>3, <2>4
<1> QED
    BY <1>3, <1>5, <1>9, <1>10 DEF cdb

\* It finds the length and the CRC that it computes itself.
LEMMA WriteAccepted ==
    ASSUME NEW r \in Requests, Check(r) = NoError, r.op \in DataOut
    PROVE  Accepts(r.op, CdbOf(r), r.data)
<1>1. Carries(CdbOf(r), r)
    BY HostCarries
<1>2. r.data \in Seq(Bytes)
    BY Fits
<1>3. Crc16(r.data) = Crc(r.data, {})
    BY <1>2, CrcIsTheRemainder DEF Crc16, Register
<1> QED
    BY <1>1, <1>3 DEF Carries, Accepts

-----------------------------------------------------------------------------
(* The chip key: the mask of the host is the mask of the device. *)

LEMMA SeedOfOne ==
    ASSUME NEW c \in Register, NEW x \in Bytes
    PROVE  Crc16Seed(<<x>>, c) = CrcByte(c, x)
<1> DEFINE s == <<x>>
<1>1. s \in Seq(Bytes) /\ Len(s) = 1 /\ s[1] = x
    OBVIOUS
<1> HIDE DEF s
<1>2. PICK reg \in [0 .. Len(s) -> Register] :
         /\ reg[0] = c
         /\ \A n \in 1 .. Len(s) : reg[n] = CrcByte(reg[n - 1], s[n])
         /\ Crc16Seed(s, c) = reg[Len(s)]
    BY <1>1, SeedByBytes
<1>3. reg[1] = CrcByte(reg[1 - 1], s[1])
    BY <1>1, <1>2
<1>4. Crc16Seed(s, c) = CrcByte(c, x)
    BY <1>1, <1>2, <1>3
<1> QED
    BY <1>4 DEF s

LEMMA SeedOfTwo ==
    ASSUME NEW c \in Register, NEW x \in Bytes, NEW y \in Bytes
    PROVE  Crc16Seed(<<x, y>>, c) = CrcByte(CrcByte(c, x), y)
<1> DEFINE s == <<x, y>>
<1>1. s \in Seq(Bytes) /\ Len(s) = 2 /\ s[1] = x /\ s[2] = y
    OBVIOUS
<1> HIDE DEF s
<1>2. PICK reg \in [0 .. Len(s) -> Register] :
         /\ reg[0] = c
         /\ \A n \in 1 .. Len(s) : reg[n] = CrcByte(reg[n - 1], s[n])
         /\ Crc16Seed(s, c) = reg[Len(s)]
    BY <1>1, SeedByBytes
<1>3. reg[1] = CrcByte(reg[1 - 1], s[1]) /\ reg[2] = CrcByte(reg[2 - 1], s[2])
    BY <1>1, <1>2
<1>4. Crc16Seed(s, c) = CrcByte(CrcByte(c, x), y)
    BY <1>1, <1>2, <1>3
<1> QED
    BY <1>4 DEF s

LEMMA SeedOfThree ==
    ASSUME NEW c \in Register, NEW x \in Bytes, NEW y \in Bytes,
           NEW z \in Bytes
    PROVE  Crc16Seed(<<x, y, z>>, c) = CrcByte(CrcByte(CrcByte(c, x), y), z)
<1> DEFINE s == <<x, y, z>>
<1>1. s \in Seq(Bytes) /\ Len(s) = 3 /\ s[1] = x /\ s[2] = y /\ s[3] = z
    OBVIOUS
<1> HIDE DEF s
<1>2. PICK reg \in [0 .. Len(s) -> Register] :
         /\ reg[0] = c
         /\ \A n \in 1 .. Len(s) : reg[n] = CrcByte(reg[n - 1], s[n])
         /\ Crc16Seed(s, c) = reg[Len(s)]
    BY <1>1, SeedByBytes
<1>3. /\ reg[1] = CrcByte(reg[1 - 1], s[1]) /\ reg[2] = CrcByte(reg[2 - 1], s[2])
      /\ reg[3] = CrcByte(reg[3 - 1], s[3])
    BY <1>1, <1>2
<1>4. Crc16Seed(s, c) = CrcByte(CrcByte(CrcByte(c, x), y), z)
    BY <1>1, <1>2, <1>3
<1> QED
    BY <1>4 DEF s

LEMMA SeedOfFour ==
    ASSUME NEW c \in Register, NEW x \in Bytes, NEW y \in Bytes,
           NEW z \in Bytes, NEW w \in Bytes
    PROVE  Crc16Seed(<<x, y, z, w>>, c)
              = CrcByte(CrcByte(CrcByte(CrcByte(c, x), y), z), w)
<1> DEFINE s == <<x, y, z, w>>
<1>1. /\ s \in Seq(Bytes) /\ Len(s) = 4
      /\ s[1] = x /\ s[2] = y /\ s[3] = z /\ s[4] = w
    OBVIOUS
<1> HIDE DEF s
<1>2. PICK reg \in [0 .. Len(s) -> Register] :
         /\ reg[0] = c
         /\ \A n \in 1 .. Len(s) : reg[n] = CrcByte(reg[n - 1], s[n])
         /\ Crc16Seed(s, c) = reg[Len(s)]
    BY <1>1, SeedByBytes
<1>3. /\ reg[1] = CrcByte(reg[1 - 1], s[1]) /\ reg[2] = CrcByte(reg[2 - 1], s[2])
      /\ reg[3] = CrcByte(reg[3 - 1], s[3]) /\ reg[4] = CrcByte(reg[4 - 1], s[4])
    BY <1>1, <1>2
<1>4. Crc16Seed(s, c) = CrcByte(CrcByte(CrcByte(CrcByte(c, x), y), z), w)
    BY <1>1, <1>2, <1>3
<1> QED
    BY <1>4 DEF s

LEMMA Joined ==
    ASSUME NEW x \in Bytes, NEW y \in Bytes, NEW z \in Bytes, NEW w \in Bytes
    PROVE  /\ <<x, y>> \o <<z>> = <<x, y, z>>
           /\ <<x, y>> \o <<z, w>> = <<x, y, z, w>>
<1>1. <<x, y>> \o <<z>> = <<x, y, z>>
    <2> DEFINE s == <<x, y>> \o <<z>>
               t == <<x, y, z>>
    <2>1. /\ s \in Seq(Bytes) /\ Len(s) = 3
          /\ s[1] = x /\ s[2] = y /\ s[3] = z
        BY SMT
    <2>2. /\ t \in Seq(Bytes) /\ Len(t) = 3
          /\ t[1] = x /\ t[2] = y /\ t[3] = z
        BY SMT
    <2> HIDE DEF s, t
    <2>3. \A i \in 1 .. Len(s) : s[i] = t[i]
        BY SMT, <2>1, <2>2
    <2>4. s = t
        BY <2>1, <2>2, <2>3, SeqEqual
    <2> QED
        BY <2>4 DEF s, t
<1>2. <<x, y>> \o <<z, w>> = <<x, y, z, w>>
    <2> DEFINE s == <<x, y>> \o <<z, w>>
               t == <<x, y, z, w>>
    <2>1. /\ s \in Seq(Bytes) /\ Len(s) = 4
          /\ s[1] = x /\ s[2] = y /\ s[3] = z /\ s[4] = w
        BY SMT
    <2>2. /\ t \in Seq(Bytes) /\ Len(t) = 4
          /\ t[1] = x /\ t[2] = y /\ t[3] = z /\ t[4] = w
        BY SMT
    <2> HIDE DEF s, t
    <2>3. \A i \in 1 .. Len(s) : s[i] = t[i]
        BY SMT, <2>1, <2>2
    <2>4. s = t
        BY <2>1, <2>2, <2>3, SeqEqual
    <2> QED
        BY <2>4 DEF s, t
<1> QED
    BY <1>1, <1>2

\* The CRC over the key and the magic bytes in one go, as the device has it,
\* is the one carried on from the key to the magic bytes.
LEMMA OneMask ==
    ASSUME NEW x \in Bytes, NEW y \in Bytes
    PROVE  /\ Crc(<<255, 255>> \o <<x>>, 0 .. 15)
                = Crc16Seed(<<x>>, Crc16Seed(<<255, 255>>, 0 .. 15))
           /\ Crc(<<255, 255>> \o <<x, y>>, 0 .. 15)
                = Crc16Seed(<<x, y>>, Crc16Seed(<<255, 255>>, 0 .. 15))
<1> DEFINE start == Crc16Seed(<<255, 255>>, 0 .. 15)
<1>1. 255 \in Bytes /\ 0 .. 15 \in Register
    BY SMT DEF Bytes, Register
<1>2. <<255, 255>> \in Seq(Bytes)
    BY <1>1
<1>3. start \in Register
    BY <1>1, <1>2, SeedType
<1>4. start = CrcByte(CrcByte(0 .. 15, 255), 255)
    BY <1>1, SeedOfTwo
<1>5. /\ <<255, 255>> \o <<x>> = <<255, 255, x>>
      /\ <<255, 255>> \o <<x, y>> = <<255, 255, x, y>>
    <2>1. PICK f \in Bytes : f = 255
        BY <1>1
    <2>2. /\ <<f, f>> \o <<x>> = <<f, f, x>>
          /\ <<f, f>> \o <<x, y>> = <<f, f, x, y>>
        <3> HIDE <2>1
        <3> QED
            BY Zenon, Joined
    <2> QED
        BY Zenon, <2>1, <2>2
<1>6. <<255, 255, x>> \in Seq(Bytes) /\ <<255, 255, x, y>> \in Seq(Bytes)
    BY <1>1
<1> HIDE DEF start
<1>7. Crc16Seed(<<255, 255, x>>, 0 .. 15) = CrcByte(start, x)
    BY <1>1, <1>4, SeedOfThree
<1>8. Crc16Seed(<<255, 255, x, y>>, 0 .. 15) = CrcByte(CrcByte(start, x), y)
    BY <1>1, <1>4, SeedOfFour
<1>9. /\ Crc16Seed(<<x>>, start) = CrcByte(start, x)
       /\ Crc16Seed(<<x, y>>, start) = CrcByte(CrcByte(start, x), y)
    BY <1>3, SeedOfOne, SeedOfTwo
<1>10. /\ Crc16Seed(<<255, 255, x>>, 0 .. 15)
             = Crc(<<255, 255, x>>, 0 .. 15)
       /\ Crc16Seed(<<255, 255, x, y>>, 0 .. 15)
             = Crc(<<255, 255, x, y>>, 0 .. 15)
    BY <1>1, <1>6, CrcIsTheRemainder
<1>11. Crc(<<255, 255>> \o <<x>>, 0 .. 15) = Crc16Seed(<<x>>, start)
    BY <1>5, <1>7, <1>9, <1>10, Zenon
<1>12. Crc(<<255, 255>> \o <<x, y>>, 0 .. 15) = Crc16Seed(<<x, y>>, start)
    BY <1>5, <1>8, <1>9, <1>10, Zenon
<1> QED
    BY <1>11, <1>12, Zenon DEF start

LEMMA KeyDeciphered ==
    ASSUME NEW high \in Bytes, NEW low \in Bytes
    PROVE  LET key == Cipher(<<Masked(low, <<\hC3>>), Masked(high, <<\hC3, \hCF>>)>>,
                             <<255, 255>>, 0 .. 15)
           IN  key[1] = low /\ key[2] = high
<1> DEFINE start == Crc16Seed(<<255, 255>>, 0 .. 15)
           a == Masked(low, <<\hC3>>)
           b == Masked(high, <<\hC3, \hCF>>)
           Mask(i) ==
               Crc16Seed([j \in 1 .. i |-> Magic[1 + ((j - 1) % 16)]], start)
           key == Cipher(<<a, b>>, <<255, 255>>, 0 .. 15)
<1>1. \hC3 \in Bytes /\ \hCF \in Bytes
    BY SMT DEF Bytes
<1>2. /\ a = Octet(Plus(Bits(low), Crc16Seed(<<\hC3>>, start)))
      /\ b = Octet(Plus(Bits(high), Crc16Seed(<<\hC3, \hCF>>, start)))
    BY <1>1, OneMask DEF Masked
<1>3. [j \in 1 .. 1 |-> Magic[1 + ((j - 1) % 16)]] = <<\hC3>>
    BY SMT DEF Magic
<1>4. [j \in 1 .. 2 |-> Magic[1 + ((j - 1) % 16)]] = <<\hC3, \hCF>>
    BY SMT DEF Magic
<1>5. key = [i \in DOMAIN <<a, b>> |->
                Octet(Plus(Bits(<<a, b>>[i]), Mask(i)))]
    BY DEF Cipher
<1>6. Mask(1) = Crc16Seed(<<\hC3>>, start)
    BY <1>3
<1>7. Mask(2) = Crc16Seed(<<\hC3, \hCF>>, start)
    BY <1>4
<1> HIDE DEF a, b, start, key, Mask
<1>8. key[1] = Octet(Plus(Bits(a), Mask(1)))
    BY <1>5
<1>9. key[2] = Octet(Plus(Bits(b), Mask(2)))
    BY <1>5
<1>10. key[1] = low
    BY <1>2, <1>6, <1>8, Unmasked
<1>11. key[2] = high
    BY <1>2, <1>7, <1>9, Unmasked
<1> QED
    BY <1>10, <1>11 DEF key, a, b

-----------------------------------------------------------------------------
(* Replies. *)

LEMMA Concatenated ==
    ASSUME NEW s \in Seq(Bytes), NEW t \in Seq(Bytes)
    PROVE  /\ s \o t \in Seq(Bytes) /\ Len(s \o t) = Len(s) + Len(t)
           /\ Len(s) \in Nat /\ Len(t) \in Nat
           /\ \A i \in 1 .. Len(s) : (s \o t)[i] = s[i]
           /\ \A i \in 1 .. Len(t) : (s \o t)[Len(s) + i] = t[i]
<1>1. Len(s) \in Nat /\ Len(t) \in Nat
    BY LenProperties
<1>2. /\ s \o t \in Seq(Bytes) /\ Len(s \o t) = Len(s) + Len(t)
      /\ \A i \in 1 .. Len(s) + Len(t) :
            (s \o t)[i] = IF i <= Len(s) THEN s[i] ELSE t[i - Len(s)]
    BY ConcatProperties
<1>3. ASSUME NEW i \in 1 .. Len(s)
      PROVE  (s \o t)[i] = s[i]
    BY <1>1, <1>2
<1>4. ASSUME NEW i \in 1 .. Len(t)
      PROVE  (s \o t)[Len(s) + i] = t[i]
    <2>1. /\ Len(s) + i \in 1 .. Len(s) + Len(t)
          /\ ~(Len(s) + i <= Len(s)) /\ (Len(s) + i) - Len(s) = i
        BY <1>1
    <2> QED
        BY <1>2, <2>1
<1> QED
    BY <1>1, <1>2, <1>3, <1>4

LEMMA Padding ==
    ASSUME NEW s \in Seq(Bytes), NEW n \in Nat, Len(s) <= n
    PROVE  /\ Padded(s, n) \in Seq(Bytes) /\ Len(Padded(s, n)) = n
           /\ \A i \in 1 .. Len(s) : Padded(s, n)[i] = s[i]
           /\ \A i \in Len(s) + 1 .. n : Padded(s, n)[i] = 0
<1> DEFINE t == [i \in 1 .. n - Len(s) |-> 0]
<1>1. Len(s) \in Nat /\ n - Len(s) \in Nat
    BY LenProperties
<1>2. t \in Seq(Bytes) /\ Len(t) = n - Len(s) /\ DOMAIN t = 1 .. n - Len(s)
    <2>1. 0 \in Bytes
        BY SMT DEF Bytes
    <2> QED
        BY <1>1, <2>1
<1>3. \A i \in 1 .. Len(t) : t[i] = 0
    BY <1>2
<1>4. Padded(s, n) = s \o t
    BY DEF Padded
<1> HIDE DEF t
<1>5. ASSUME NEW i \in Len(s) + 1 .. n
      PROVE  (s \o t)[i] = 0
    <2>1. i - Len(s) \in 1 .. Len(t) /\ i = Len(s) + (i - Len(s))
        BY <1>1, <1>2
    <2> QED
        BY <1>2, <1>3, <2>1, Concatenated
<1>6. Len(s) + Len(t) = n
    BY <1>1, <1>2
<1> QED
    BY <1>2, <1>4, <1>5, <1>6, Concatenated

\* The opcode that came in goes back, before the payload.  (A length that is a
\* numeral makes the provers unfold the sequence, so the lengths have names.)
LEMMA QueryReply ==
    ASSUME NEW cdb \in Seq(Bytes), Len(cdb) >= 2,
           NEW p \in Seq(Bytes), NEW n \in Nat, Len(p) + 2 <= n
    PROVE  LET b == Padded(SubSeq(cdb, 1, 2) \o p, n) IN
           /\ b \in Seq(Bytes) /\ Len(b) = n
           /\ b[1] = cdb[1] /\ b[2] = cdb[2]
           /\ \A i \in 1 .. Len(p) : b[2 + i] = p[i]
           /\ \A i \in Len(p) + 1 .. n - 2 : b[2 + i] = 0
<1> DEFINE h == SubSeq(cdb, 1, 2)
           b == Padded(h \o p, n)
<1>0. PICK two \in Nat : two = 2
    OBVIOUS
<1>1. /\ h \in Seq(Bytes) /\ Len(h) = two
      /\ h[1] = cdb[1] /\ h[2] = cdb[2]
    <2>1. ASSUME NEW i \in 1 .. two
          PROVE  cdb[i] \in Bytes
        <3>1. i \in 1 .. Len(cdb)
            BY <1>0, LenProperties
        <3> QED
            BY <3>1, ElementOfSeq
    <2>2. h = SubSeq(cdb, 1, two)
        BY <1>0
    <2> HIDE DEF h
    <2>3. /\ h \in Seq(Bytes)
          /\ Len(h) = (IF 1 <= two THEN two - 1 + 1 ELSE 0)
          /\ \A i \in 1 .. two - 1 + 1 : h[i] = cdb[1 + i - 1]
        <3>1. 1 \in Int /\ two \in Int
            OBVIOUS
        <3>2. /\ SubSeq(cdb, 1, two) \in Seq(Bytes)
              /\ Len(SubSeq(cdb, 1, two))
                    = (IF 1 <= two THEN two - 1 + 1 ELSE 0)
              /\ \A i \in 1 .. two - 1 + 1 :
                    SubSeq(cdb, 1, two)[i] = cdb[1 + i - 1]
            BY <2>1, <3>1, SubSeqProperties
        <3> QED
            BY <2>2, <3>2
    <2>4. (IF 1 <= two THEN two - 1 + 1 ELSE 0) = two
        BY <1>0
    <2>5. /\ 1 \in 1 .. two - 1 + 1 /\ 2 \in 1 .. two - 1 + 1
          /\ 1 + 1 - 1 = 1 /\ 1 + 2 - 1 = 2
        BY <1>0
    <2>6. Len(h) = two
        BY <2>3, <2>4
    <2>7. h[1] = cdb[1] /\ h[2] = cdb[2]
        BY <2>3, <2>5
    <2> QED
        BY Zenon, <2>3, <2>6, <2>7
<1>2. Len(p) \in Nat
    BY LenProperties
<1> HIDE DEF h
<1>3. /\ h \o p \in Seq(Bytes) /\ Len(h \o p) = two + Len(p)
      /\ \A i \in 1 .. two : (h \o p)[i] = h[i]
      /\ \A i \in 1 .. Len(p) : (h \o p)[two + i] = p[i]
    BY Zenon, <1>1, Concatenated
<1>4. two + Len(p) <= n
    BY <1>0, <1>2
<1>5. /\ b \in Seq(Bytes) /\ Len(b) = n
      /\ \A i \in 1 .. two + Len(p) : b[i] = (h \o p)[i]
      /\ \A i \in two + Len(p) + 1 .. n : b[i] = 0
    <2>1. PICK w \in Seq(Bytes) : w = h \o p
        BY <1>3
    <2>2. Len(w) = two + Len(p)
        BY Zenon, <1>3, <2>1
    <2>3. Len(w) <= n
        BY Zenon, <1>4, <2>2
    <2>4. /\ Padded(w, n) \in Seq(Bytes) /\ Len(Padded(w, n)) = n
          /\ \A i \in 1 .. Len(w) : Padded(w, n)[i] = w[i]
          /\ \A i \in Len(w) + 1 .. n : Padded(w, n)[i] = 0
        BY <2>3, Padding
    <2>5. b = Padded(w, n)
        BY <2>1
    <2> QED
        BY Zenon, <2>1, <2>2, <2>4, <2>5
<1> HIDE DEF b
<1>6. b[1] = h[1] /\ b[2] = h[2]
    <2>1. /\ 1 \in 1 .. two + Len(p) /\ 2 \in 1 .. two + Len(p)
          /\ 1 \in 1 .. two /\ 2 \in 1 .. two
        BY <1>0, <1>2
    <2>2. b[1] = (h \o p)[1] /\ b[2] = (h \o p)[2]
        BY Zenon, <1>5, <2>1
    <2> QED
        BY Zenon, <1>3, <2>1, <2>2
<1>7. ASSUME NEW i \in 1 .. Len(p)
      PROVE  b[2 + i] = p[i]
    <2>1. two + i \in 1 .. two + Len(p) /\ two + i = 2 + i
        BY <1>0, <1>2
    <2>2. b[two + i] = p[i]
        BY Zenon, <1>3, <1>5, <2>1
    <2> QED
        BY Zenon, <2>1, <2>2
<1>8. ASSUME NEW i \in Len(p) + 1 .. n - 2
      PROVE  b[2 + i] = 0
    <2>1. 2 + i \in two + Len(p) + 1 .. n
        BY <1>0, <1>2
    <2> QED
        BY Zenon, <1>5, <2>1
<1> QED
    BY Zenon, <1>1, <1>5, <1>6, <1>7, <1>8 DEF b, h

\* The reply of a query has the opcode of the command block, and room.
Frame(b, cdb, p) ==
    /\ b \in Seq(Bytes) /\ Len(b) = 16
    /\ b[1] = cdb[1] /\ b[2] = cdb[2]
    /\ \A i \in 1 .. Len(p) : b[2 + i] = p[i]
    /\ \A i \in Len(p) + 1 .. 14 : b[2 + i] = 0

LEMMA Framed ==
    ASSUME NEW cdb \in Seq(Bytes), Len(cdb) >= 2,
           NEW p \in Seq(Bytes), Len(p) <= 14
    PROVE  Frame(Padded(SubSeq(cdb, 1, 2) \o p, 16), cdb, p)
<1>1. PICK n \in Nat : n = 16
    OBVIOUS
<1>2. Len(p) + 2 <= n /\ n - 2 = 14
    BY <1>1, LenProperties
<1>3. Frame(Padded(SubSeq(cdb, 1, 2) \o p, n), cdb, p)
    <2> DEFINE b == Padded(SubSeq(cdb, 1, 2) \o p, n)
    <2>1. /\ b \in Seq(Bytes) /\ Len(b) = n
          /\ b[1] = cdb[1] /\ b[2] = cdb[2]
          /\ \A i \in 1 .. Len(p) : b[2 + i] = p[i]
          /\ \A i \in Len(p) + 1 .. n - 2 : b[2 + i] = 0
        BY <1>2, QueryReply
    <2> HIDE DEF b
    <2>2. Frame(b, cdb, p)
        BY Zenon, <1>1, <1>2, <2>1 DEF Frame
    <2> QED
        BY <2>2 DEF b
<1> QED
    BY Zenon, <1>1, <1>3

LEMMA DeviceNumbers ==
    /\ Unsigned(Facts.id, 255) /\ Unsigned(Facts.buffer, 255)
    /\ Unsigned(Facts.maskrom, 255) /\ Unsigned(Facts.flash, 255)
    /\ Facts.flash \div 16777216 = 0
    /\ Facts.key \div 256 \in Bytes /\ Facts.key % 256 \in Bytes
    /\ (Facts.key % 256) + 256 * (Facts.key \div 256) = Facts.key
<1>1. Facts.key \in Words
    BY SMT, DeviceAssumption DEF Words
<1>2. /\ Facts.flash \in Nat /\ Facts.flash \div 16777216 <= 0
      /\ Facts.flash \div 16777216 \in Nat
    BY SMT, DeviceAssumption DEF Unsigned
<1> QED
    BY SMT, <1>1, <1>2, Be16Bytes, DeviceAssumption DEF Unsigned

LEMMA KindType ==
    ASSUME proto \in Protocols
    PROVE  Facts.kind[proto] \in Bytes
BY DeviceAssumption

\* What the reply to a question tells, whenever it was asked.
Told(op, b) ==
    /\ op = "online" => b[3] = Facts.kind[proto] /\ U32Back(b, 5) = Facts.id
    /\ op = "read_id" => U24(b, 3) = Facts.flash
    /\ op = "usb_buffer_size" => U32(b, 3) = Facts.buffer
    /\ op = "maskrom_id" => U32(b, 3) = Facts.maskrom
    /\ op = "chip_key" => /\ b[7] = Masked(Facts.key \div 256, <<\hC3, \hCF>>)
                          /\ b[8] = Masked(Facts.key % 256, <<\hC3>>)

LEMMA OnlineTold ==
    ASSUME NEW cdb \in Seq(Bytes), Len(cdb) >= 2, proto \in Protocols
    PROVE  LET p == Payload("online", cdb) IN
           /\ p \in Seq(Bytes) /\ Len(p) <= 14
           /\ \A b : Frame(b, cdb, p) => Told("online", b)
<1> DEFINE p == Payload("online", cdb)
<1>1. PICK k \in Bytes : k = Facts.kind[proto]
    BY KindType
<1>2. PICK x3, x2, x1, x0 \in Bytes :
         /\ BE32(Facts.id) = <<x3, x2, x1, x0>>
         /\ x0 + 256 * (x1 + 256 * (x2 + 256 * x3)) = Facts.id
    BY DeviceNumbers, FourBytes
<1>3. /\ Facts.id % 256 = x0 /\ (Facts.id \div 256) % 256 = x1
      /\ (Facts.id \div 65536) % 256 = x2 /\ Facts.id \div 16777216 = x3
    BY SMT, <1>2 DEF BE32
<1>4. p = <<k, 0, x0, x1, x2, x3>>
    BY SMT, <1>1, <1>3 DEF Payload
<1>5. 0 \in Bytes
    BY SMT DEF Bytes
<1> HIDE DEF p
<1>6. p \in Seq(Bytes) /\ Len(p) <= 14
    BY SMT, <1>4, <1>5
<1>7. ASSUME NEW b, Frame(b, cdb, p)
      PROVE  Told("online", b)
    <2>1. /\ b[3] = k /\ b[5] = x0 /\ b[6] = x1 /\ b[7] = x2 /\ b[8] = x3
        BY SMT, <1>4, <1>7 DEF Frame
    <2>2. U32Back(b, 5) = Facts.id
        BY SMT, <1>2, <2>1 DEF U32Back
    <2> QED
        BY SMT, <1>1, <2>1, <2>2 DEF Told
<1> QED
    BY <1>6, <1>7 DEF p

LEMMA NumberTold ==
    ASSUME NEW cdb \in Seq(Bytes), Len(cdb) >= 2,
           NEW op \in {"read_id", "usb_buffer_size", "maskrom_id"}
    PROVE  LET p == Payload(op, cdb) IN
           /\ p \in Seq(Bytes) /\ Len(p) <= 14
           /\ \A b : Frame(b, cdb, p) => Told(op, b)
<1> DEFINE p == Payload(op, cdb)
<1>1. CASE op = "read_id"
    <2>1. PICK a, b, c, d \in Bytes :
             /\ BE32(Facts.flash) = <<a, b, c, d>>
             /\ 256 * (256 * (256 * a + b) + c) + d = Facts.flash
        BY DeviceNumbers, FourBytes
    <2>2. a = 0
        BY SMT, <2>1, DeviceNumbers DEF BE32
    <2>3. p = Tail(<<a, b, c, d>>)
        BY SMT, <1>1, <2>1 DEF Payload
    <2>4. p = <<b, c, d>>
        BY SMT, <2>3
    <2> HIDE DEF p
    <2>5. p \in Seq(Bytes) /\ Len(p) <= 14
        BY SMT, <2>4
    <2>6. ASSUME NEW y, Frame(y, cdb, p)
          PROVE  Told(op, y)
        <3>1. y[3] = b /\ y[4] = c /\ y[5] = d
            BY SMT, <2>4, <2>6 DEF Frame
        <3>2. U24(y, 3) = Facts.flash
            BY SMT, <2>1, <2>2, <3>1 DEF U16, U24, Bytes
        <3> QED
            BY SMT, <1>1, <3>2 DEF Told
    <2> QED
        BY <2>5, <2>6 DEF p
<1>2. CASE op \in {"usb_buffer_size", "maskrom_id"}
    <2> DEFINE n == IF op = "maskrom_id" THEN Facts.maskrom ELSE Facts.buffer
    <2>1. Unsigned(n, 255)
        BY DeviceNumbers
    <2>2. p = BE32(n)
        BY SMT, <1>2 DEF Payload
    <2> HIDE DEF n
    <2>3. PICK a, b, c, d \in Bytes :
             /\ BE32(n) = <<a, b, c, d>>
             /\ 256 * (256 * (256 * a + b) + c) + d = n
        BY <2>1, FourBytes
    <2>4. p = <<a, b, c, d>>
        BY <2>2, <2>3
    <2> HIDE DEF p
    <2>5. p \in Seq(Bytes) /\ Len(p) <= 14
        BY SMT, <2>4
    <2>6. ASSUME NEW y, Frame(y, cdb, p)
          PROVE  Told(op, y)
        <3>1. y[3] = a /\ y[4] = b /\ y[5] = c /\ y[6] = d
            BY SMT, <2>4, <2>6 DEF Frame
        <3>2. U32(y, 3) = n
            BY SMT, <2>3, <3>1 DEF U16, U24, U32
        <3> QED
            BY SMT, <1>2, <3>2 DEF Told, n
    <2> QED
        BY <2>5, <2>6 DEF p
<1> QED
    BY <1>1, <1>2

LEMMA KeyTold ==
    ASSUME NEW cdb \in Seq(Bytes), Len(cdb) >= 2
    PROVE  LET p == Payload("chip_key", cdb) IN
           /\ p \in Seq(Bytes) /\ Len(p) <= 14
           /\ \A b : Frame(b, cdb, p) => Told("chip_key", b)
<1> DEFINE p == Payload("chip_key", cdb)
           u == Masked(Facts.key \div 256, <<\hC3, \hCF>>)
           v == Masked(Facts.key % 256, <<\hC3>>)
<1>1. p = <<0, 0, 0, 0, u, v>>
    BY SMT DEF Payload
<1>2. u \in Bytes /\ v \in Bytes /\ 0 \in Bytes
    BY SMT, OctetType DEF Masked, Bytes
<1> HIDE DEF p, u, v
<1>3. p \in Seq(Bytes) /\ Len(p) <= 14
    BY SMT, <1>1, <1>2
<1>4. ASSUME NEW b, Frame(b, cdb, p)
      PROVE  Told("chip_key", b)
    <2>1. b[7] = u /\ b[8] = v
        BY SMT, <1>1, <1>4 DEF Frame
    <2> QED
        BY SMT, <2>1 DEF Told, u, v
<1> QED
    BY <1>3, <1>4 DEF p

\* What the reply to loader_version and to flash_crc16 tells.
LEMMA VersionTold ==
    ASSUME NEW cdb \in Seq(Bytes), Len(cdb) >= 2
    PROVE  LET p == Payload("loader_version", cdb)
               v == Facts.version
           IN  /\ p \in Seq(Bytes) /\ Len(p) <= 14
               /\ \A b : Frame(b, cdb, p) =>
                     \A i \in 1 .. 4 :
                        b[2 + i] = IF i <= Len(v) THEN v[Len(v) + 1 - i] ELSE 0
<1> DEFINE p == Payload("loader_version", cdb)
           v == Facts.version
<1>1. v \in Seq(1 .. 127) /\ Len(v) <= 4 /\ Len(v) \in Nat
    BY DeviceAssumption, LenProperties
<1>2. p = [i \in 1 .. Len(v) |-> v[Len(v) + 1 - i]]
    <2>1. DOMAIN v = 1 .. Len(v)
        BY <1>1, LenProperties
    <2> QED
        BY SMT, <2>1 DEF Payload
<1> HIDE DEF p, v
<1>3. ASSUME NEW i \in 1 .. Len(v)
      PROVE  v[Len(v) + 1 - i] \in Bytes
    <2>1. Len(v) + 1 - i \in 1 .. Len(v)
        BY <1>1
    <2>2. v[Len(v) + 1 - i] \in 1 .. 127
        BY <1>1, <2>1, ElementOfSeq
    <2> QED
        BY SMT, <2>2 DEF Bytes
<1>4. p \in Seq(Bytes) /\ Len(p) = Len(v)
    BY <1>1, <1>2, <1>3
<1>5. ASSUME NEW b, Frame(b, cdb, p), NEW i \in 1 .. 4
      PROVE  b[2 + i] = IF i <= Len(v) THEN v[Len(v) + 1 - i] ELSE 0
    <2>1. CASE i <= Len(v)
        <3>1. i \in 1 .. Len(p)
            BY <1>4, <2>1
        <3>2. b[2 + i] = p[i]
            BY Zenon, <1>5, <3>1 DEF Frame
        <3> QED
            BY <1>2, <1>4, <2>1, <3>1, <3>2
    <2>2. CASE ~(i <= Len(v))
        <3>1. i \in Len(p) + 1 .. 14
            BY <1>1, <1>4, <2>2
        <3>2. b[2 + i] = 0
            BY Zenon, <1>5, <3>1 DEF Frame
        <3> QED
            BY <2>2, <3>2
    <2> QED
        BY <2>1, <2>2
<1> QED
    BY <1>1, <1>4, <1>5 DEF p, v

LEMMA CrcTold ==
    ASSUME NEW cdb \in Seq(Bytes), Len(cdb) >= 2
    PROVE  LET p == Payload("flash_crc16", cdb) IN
           /\ p \in Seq(Bytes) /\ Len(p) <= 14
           /\ \A b : Frame(b, cdb, p) =>
                 U16(b, 3) = Word(Crc(Range16(flash, cdb), {}))
<1> DEFINE p == Payload("flash_crc16", cdb)
           w == Word(Crc(Range16(flash, cdb), {}))
<1>1. w \in Words
    BY WordType
<1>2. p = BE16(w)
    BY SMT DEF Payload
<1> HIDE DEF p, w
<1>3. PICK e, f \in Bytes : BE16(w) = <<e, f>> /\ 256 * e + f = w
    BY <1>1, TwoBytes
<1>4. p = <<e, f>>
    BY <1>2, <1>3
<1>5. p \in Seq(Bytes) /\ Len(p) <= 14
    BY SMT, <1>4
<1>6. ASSUME NEW b, Frame(b, cdb, p)
      PROVE  U16(b, 3) = w
    <2>1. b[3] = e /\ b[4] = f
        BY SMT, <1>4, <1>6 DEF Frame
    <2> QED
        BY SMT, <1>3, <2>1 DEF U16
<1> QED
    BY <1>5, <1>6 DEF p, w

LEMMA AllTold ==
    ASSUME NEW cdb \in Seq(Bytes), Len(cdb) >= 2, NEW op, proto \in Protocols
    PROVE  LET p == Payload(op, cdb) IN
           /\ p \in Seq(Bytes) /\ Len(p) <= 14
           /\ \A b : Frame(b, cdb, p) => Told(op, b)
<1> DEFINE named == {"online", "read_id", "usb_buffer_size", "maskrom_id",
                     "chip_key", "loader_version", "flash_crc16"}
<1>1. CASE op \in {"online", "chip_key"}
    BY <1>1, OnlineTold, KeyTold
<1>2. CASE op \in {"read_id", "usb_buffer_size", "maskrom_id"}
    BY <1>2, NumberTold
<1>3. CASE op \in {"loader_version", "flash_crc16"}
    <2>1. \A b : Told(op, b)
        BY SMT, <1>3 DEF Told
    <2>2. Payload(op, cdb) \in Seq(Bytes) /\ Len(Payload(op, cdb)) <= 14
        <3>1. CASE op = "loader_version"
            BY <3>1, VersionTold
        <3>2. CASE op = "flash_crc16"
            BY <3>2, CrcTold
        <3> QED
            BY <1>3, <3>1, <3>2
    <2> QED
        BY <2>1, <2>2
<1>4. CASE op \notin named
    <2>1. Payload(op, cdb) = << >>
        BY SMT, <1>4 DEF Payload
    <2>2. \A b : Told(op, b)
        BY SMT, <1>4 DEF Told
    <2>3. << >> \in Seq(Bytes) /\ Len(<< >>) <= 14
        OBVIOUS
    <2> QED
        BY <2>1, <2>2, <2>3
<1> QED
    BY <1>1, <1>2, <1>3, <1>4

LEMMA BlockOfHost ==
    ASSUME NEW r \in Requests, Check(r) = NoError
    PROVE  LET cdb == CdbOf(r) IN
           /\ cdb \in Seq(Bytes) /\ Len(cdb) >= 2
           /\ cdb[1] = Opcode(proto, r.op) \div 256
           /\ cdb[2] = Opcode(proto, r.op) % 256
<1>1. Carries(CdbOf(r), r)
    BY HostCarries
<1> QED
    BY SMT, <1>1 DEF Carries, Block

\* A device that keeps the reply to a query keeps its opcode and what it tells.
Query(b, op) ==
    /\ b \in Seq(Bytes) /\ Len(b) = 16
    /\ U16(b, 1) = Opcode(proto, op)
    /\ Told(Alias(op), b)

LEMMA QueryAnswer ==
    ASSUME NEW r \in Requests, Check(r) = NoError,
           r.op \notin Reads, proto \in Protocols
    PROVE  /\ Frame(Reply(CdbOf(r)), CdbOf(r), Payload(Alias(r.op), CdbOf(r)))
           /\ Query(Reply(CdbOf(r)), r.op)
<1> DEFINE cdb == CdbOf(r)
           op == Alias(r.op)
           b == Reply(cdb)
           p == Payload(op, cdb)
<1>1. Meant(cdb) = op /\ op \notin Reads
    BY UnderstoodIs DEF Alias, Reads
<1>2. b = Padded(SubSeq(cdb, 1, 2) \o p, 16)
    BY SMT, <1>1 DEF Reply, Reads
<1>3. /\ cdb \in Seq(Bytes) /\ Len(cdb) >= 2
      /\ cdb[1] = Opcode(proto, r.op) \div 256
      /\ cdb[2] = Opcode(proto, r.op) % 256
    BY BlockOfHost
<1> HIDE DEF cdb
<1>4. /\ p \in Seq(Bytes) /\ Len(p) <= 14
      /\ \A y : Frame(y, cdb, p) => Told(op, y)
    BY <1>3, AllTold
<1> HIDE DEF p, b, op
<1>5. Frame(b, cdb, p)
    BY <1>2, <1>3, <1>4, Framed
<1>6. U16(b, 1) = Opcode(proto, r.op)
    <2>1. b[1] = cdb[1] /\ b[2] = cdb[2]
        BY <1>5 DEF Frame
    <2>2. Opcode(proto, r.op) \in Words
        BY Fits
    <2> QED
        BY SMT, <1>3, <2>1, <2>2, Be16Bytes DEF U16
<1>7. Query(b, r.op)
    BY Zenon, <1>4, <1>5, <1>6 DEF Query, Frame, op
<1> QED
    BY <1>5, <1>7 DEF b, cdb, op, p

LEMMA RangeIsContents ==
    ASSUME NEW r \in Requests, Check(r) = NoError, r.op \in Lengths,
           TakesAddress(r.op), NEW mem
    PROVE  Range16(mem, CdbOf(r)) = Contents(mem, r)
<1>1. Carries(CdbOf(r), r)
    BY HostCarries
<1>2. r.op # "flash_select"
    <2>1. "flash_select" \notin Lengths
        BY SMT DEF Lengths, DataIn
    <2> QED
        BY <2>1
<1>3. Addr(CdbOf(r)) = r.a /\ Short(CdbOf(r)) = r.b
    BY <1>1, <1>2 DEF Carries
<1> QED
    BY Zenon, <1>3 DEF Range16, Contents

LEMMA ContentsType ==
    ASSUME NEW r \in Requests, NEW mem \in [Cells -> Bytes]
    PROVE  Contents(mem, r) \in Seq(Bytes) /\ Len(Contents(mem, r)) = r.b
<1>1. r.b \in Nat
    BY RequestAssumption
<1>2. 255 \in Bytes
    BY SMT DEF Bytes
<1>3. \A i \in 1 .. r.b :
         (IF r.a + i - 1 \in Cells THEN mem[r.a + i - 1] ELSE 255) \in Bytes
    BY <1>2
<1> QED
    BY SMT, <1>1, <1>3 DEF Contents

LEMMA ReadAnswer ==
    ASSUME NEW r \in Requests, Check(r) = NoError, r.op \in Reads,
           flash \in [Cells -> Bytes], ram \in [Cells -> Bytes]
    PROVE  /\ Reply(CdbOf(r)) = Truth(r)
           /\ Truth(r) \in Seq(Bytes) /\ Len(Truth(r)) = r.b
<1>1. /\ r.op \in Lengths /\ TakesAddress(r.op)
      /\ r.op = "flash_read" \/ r.op = "mem_read"
      /\ Alias(r.op) = r.op
    BY SMT DEF Reads, Lengths, DataIn, TakesAddress, Alias
<1>2. Meant(CdbOf(r)) = r.op
    BY <1>1, UnderstoodIs
<1>3. /\ Range16(flash, CdbOf(r)) = Contents(flash, r)
      /\ Range16(ram, CdbOf(r)) = Contents(ram, r)
    BY <1>1, RangeIsContents
<1>4. CASE r.op = "flash_read"
    <2>1. Reply(CdbOf(r)) = Range16(flash, CdbOf(r))
        BY SMT, <1>2, <1>4 DEF Reply
    <2>2. Truth(r) = Contents(flash, r)
        BY SMT, <1>4 DEF Truth
    <2> QED
        BY <1>3, <2>1, <2>2, ContentsType
<1>5. CASE r.op = "mem_read"
    <2>1. Reply(CdbOf(r)) = Range16(ram, CdbOf(r))
        BY SMT, <1>2, <1>5 DEF Reply
    <2>2. Truth(r) = Contents(ram, r)
        BY SMT, <1>5 DEF Truth
    <2> QED
        BY <1>3, <2>1, <2>2, ContentsType
<1> QED
    BY <1>1, <1>4, <1>5

-----------------------------------------------------------------------------
(* What the host makes of a reply. *)

LEMMA PayloadPart ==
    ASSUME NEW b \in Seq(Bytes), Len(b) >= 2
    PROVE  LET p == SubSeq(b, 3, Len(b)) IN
           /\ p \in Seq(Bytes) /\ Len(p) = Len(b) - 2
           /\ \A i \in 1 .. Len(b) - 2 : p[i] = b[2 + i]
<1> DEFINE n == Len(b)
<1>1. n \in Nat
    BY LenProperties
<1>2. \A i \in 3 .. n : b[i] \in Bytes
    <2> SUFFICES ASSUME NEW i \in 3 .. n
                 PROVE  b[i] \in Bytes
        OBVIOUS
    <2>1. i \in 1 .. n
        BY <1>1
    <2> QED
        BY <2>1, ElementOfSeq
<1> HIDE DEF n
<1>3. n >= 2
    BY DEF n
<1>4. /\ SubSeq(b, 3, n) \in Seq(Bytes)
      /\ Len(SubSeq(b, 3, n)) = (IF 3 <= n THEN n - 3 + 1 ELSE 0)
      /\ \A i \in 1 .. n - 3 + 1 : SubSeq(b, 3, n)[i] = b[3 + i - 1]
    BY <1>1, <1>2, SubSeqProperties
<1>5. (IF 3 <= n THEN n - 3 + 1 ELSE 0) = n - 2
    BY <1>1, <1>3
<1>6. ASSUME NEW i \in 1 .. n - 2
      PROVE  SubSeq(b, 3, n)[i] = b[2 + i]
    <2>1. i \in 1 .. n - 3 + 1 /\ 3 + i - 1 = 2 + i
        BY <1>1
    <2> QED
        BY Zenon, <1>4, <2>1
<1> QED
    BY <1>4, <1>5, <1>6 DEF n

LEMMA FetchedType ==
    ASSUME NEW r \in Requests, NEW b \in Seq(Bytes)
    PROVE  Fetched(r, b) \in Seq(Bytes)
<1> DEFINE n == IF Len(b) < Wanted(r) THEN Len(b) ELSE Wanted(r)
<1>1. r.b \in Nat
    BY RequestAssumption
<1>2. Len(b) \in Nat /\ Wanted(r) \in Nat
    BY <1>1, LenProperties DEF Wanted
<1>3. n \in Int /\ n <= Len(b)
    BY <1>2
<1> HIDE DEF n
<1>4. \A i \in 1 .. n : b[i] \in Bytes
    <2> SUFFICES ASSUME NEW i \in 1 .. n
                 PROVE  b[i] \in Bytes
        OBVIOUS
    <2>1. i \in 1 .. Len(b)
        BY <1>2, <1>3
    <2> QED
        BY <2>1, ElementOfSeq
<1>5. SubSeq(b, 1, n) \in Seq(Bytes)
    BY <1>3, <1>4, SubSeqProperties
<1> QED
    BY <1>5 DEF n, Fetched

\* All of a reply is fetched when it is as long as it is expected to be.
LEMMA FetchedWhole ==
    ASSUME NEW r \in Requests, NEW b \in Seq(Bytes), Len(b) = Wanted(r)
    PROVE  Fetched(r, b) = b
<1>1. Len(b) \in Nat
    BY LenProperties
<1>2. (IF Len(b) < Wanted(r) THEN Len(b) ELSE Wanted(r)) = Len(b)
    BY <1>1
<1> QED
    BY <1>2, SubSeqFull DEF Fetched

LEMMA Received ==
    ASSUME NEW v, NEW e
    PROVE  /\ Value(v).err = NoError /\ Value(v).value = v
           /\ Fault(e).err = e /\ Fault(e).value = << >>
BY DEF Value, Fault

\* The methods that compare the opcode accept no reply to another command.
LEMMA OnlyEchoes ==
    ASSUME NEW op, NEW b,
           op \in Questions \union {"flash_crc16"},
           Judged(proto, op, b).err = NoError
    PROVE  /\ ~(Len(b) < 2) /\ U16(b, 1) = Opcode(proto, op)
           /\ Judged(proto, op, b) = Decoded(proto, op, SubSeq(b, 3, Len(b)))
<1> DEFINE fault == ReplyFault(Opcode(proto, op), op, b)
<1>1. Judged(proto, op, b) =
         IF fault # NoError THEN Fault(fault)
         ELSE Decoded(proto, op, SubSeq(b, 3, Len(b)))
    BY SMT DEF Judged, Questions, DataOut
<1>2. fault = NoError
    BY <1>1, Received
<1>3. ~(Len(b) < 2 \/ U16(b, 1) # Opcode(proto, op))
    BY <1>2 DEF ReplyFault, NoError
<1> QED
    BY <1>1, <1>2, <1>3

LEMMA OnlineDecoded ==
    ASSUME NEW p, ~(Len(p) < 6)
    PROVE  Decoded(proto, "online", p) =
              IF p[1] \notin KnownKinds(proto) THEN Fault("BadReply")
              ELSE Value(<<p[1], IF proto = "loaderv1" THEN NoId
                                 ELSE U32Back(p, 3)>>)
BY SMT DEF Decoded

\* The answers come out of what is told as they went in.
LEMMA QuestionDecoded ==
    ASSUME NEW r \in Requests, r.op \in Questions, proto \in Protocols,
           NEW b \in Seq(Bytes), Len(b) = 16, Told(r.op, b),
           Decoded(proto, r.op, SubSeq(b, 3, Len(b))).err = NoError
    PROVE  Decoded(proto, r.op, SubSeq(b, 3, Len(b))) = Value(Truth(r))
<1> DEFINE p == SubSeq(b, 3, Len(b))
<1>1. PICK n \in Nat : n = 16
    OBVIOUS
<1>2. /\ Len(p) = n - 2 /\ Len(p) >= 6
      /\ \A i \in 1 .. 14 : p[i] = b[2 + i]
    <2>1. n >= 2 /\ n - 2 = 14 /\ n - 2 >= 6
        BY <1>1
    <2>2. Len(b) = n
        BY Zenon, <1>1
    <2> QED
        BY <2>1, <2>2, PayloadPart
<1> HIDE DEF p
<1>3. /\ p[1] = b[3] /\ p[2] = b[4] /\ p[3] = b[5] /\ p[4] = b[6]
      /\ p[5] = b[7] /\ p[6] = b[8]
    BY SMT, <1>2
<1>4. CASE r.op = "online"
    <2>1. p[1] = Facts.kind[proto] /\ U32Back(p, 3) = Facts.id
        <3>1. /\ b[3] = Facts.kind[proto]
              /\ b[5] + 256 * (b[6] + 256 * (b[7] + 256 * b[8])) = Facts.id
            BY SMT, <1>4 DEF Told, U32Back
        <3>2. U32Back(p, 3) = p[3] + 256 * (p[4] + 256 * (p[5] + 256 * p[6]))
            BY SMT DEF U32Back
        <3> QED
            BY SMT, <1>3, <3>1, <3>2
    <2>2. ~(Len(p) < 6)
        <3>1. Len(p) \in Int
            BY <1>1, <1>2
        <3> QED
            BY <1>2, <3>1
    <2>3. p[1] \in KnownKinds(proto)
        <3>1. SUFFICES ASSUME p[1] \notin KnownKinds(proto)
                       PROVE  FALSE
            OBVIOUS
        <3>2. Decoded(proto, "online", p) = Fault("BadReply")
            BY Zenon, <2>2, <3>1, OnlineDecoded
        <3>3. Decoded(proto, "online", p).err = NoError
            BY Zenon, <1>4 DEF p
        <3> QED
            BY <3>2, <3>3, Received DEF NoError
    <2>4. Decoded(proto, "online", p) =
             Value(<<p[1], IF proto = "loaderv1" THEN NoId ELSE U32Back(p, 3)>>)
        BY Zenon, <2>2, <2>3, OnlineDecoded
    <2>5. Truth(r) = <<Facts.kind[proto], IF proto = "loaderv1" THEN NoId
                                          ELSE Facts.id>>
        BY SMT, <1>4 DEF Truth
    <2> QED
        BY Zenon, <1>4, <2>1, <2>4, <2>5 DEF p
<1>5. CASE r.op = "read_id"
    <2>1. U24(p, 1) = Facts.flash
        BY SMT, <1>3, <1>5 DEF Told, U24, U16
    <2>2. Decoded(proto, "read_id", p) = Value(<<U24(p, 1)>>)
        BY SMT DEF Decoded
    <2>3. Truth(r) = <<Facts.flash>>
        BY SMT, <1>5 DEF Truth
    <2> QED
        BY Zenon, <1>5, <2>1, <2>2, <2>3 DEF p
<1>6. CASE r.op \in {"usb_buffer_size", "maskrom_id"}
    <2> DEFINE fact == IF r.op = "maskrom_id" THEN Facts.maskrom ELSE Facts.buffer
    <2>1. U32(p, 1) = fact
        BY SMT, <1>3, <1>6 DEF Told, U32, U24, U16
    <2>2. Decoded(proto, r.op, p) = Value(<<U32(p, 1)>>)
        BY SMT, <1>6 DEF Decoded
    <2>3. Truth(r) = <<fact>>
        BY SMT, <1>6 DEF Truth
    <2> QED
        BY <2>1, <2>2, <2>3 DEF p
<1>7. CASE r.op = "chip_key"
    <2> DEFINE high == Facts.key \div 256
               low == Facts.key % 256
               key == Cipher(<<p[6], p[5]>>, <<255, 255>>, 0 .. 15)
    <2>1. p[5] = Masked(high, <<\hC3, \hCF>>) /\ p[6] = Masked(low, <<\hC3>>)
        BY SMT, <1>3, <1>7 DEF Told
    <2>2. high \in Bytes /\ low \in Bytes /\ low + 256 * high = Facts.key
        BY DeviceNumbers
    <2>3. key[1] = low /\ key[2] = high
        <3> HIDE DEF high, low
        <3> DEFINE sent == Cipher(<<Masked(low, <<\hC3>>),
                                    Masked(high, <<\hC3, \hCF>>)>>,
                                  <<255, 255>>, 0 .. 15)
        <3>1. sent[1] = low /\ sent[2] = high
            BY <2>2, KeyDeciphered
        <3>2. key = sent
            BY <2>1
        <3> HIDE DEF sent, key
        <3> QED
            BY <3>1, <3>2
    <2>4. Decoded(proto, "chip_key", p) = Value(<<key[1] + 256 * key[2]>>)
        BY SMT DEF Decoded
    <2>5. Truth(r) = <<Facts.key>>
        BY SMT, <1>7 DEF Truth
    <2> HIDE DEF key, high, low
    <2>6. Decoded(proto, "chip_key", p) = Value(<<Facts.key>>)
        BY <2>2, <2>3, <2>4
    <2> QED
        BY <1>7, <2>5, <2>6 DEF p
<1> QED
    BY <1>4, <1>5, <1>6, <1>7 DEF Questions, p

\* Reversed and filled up with zeros by the device, the version is found again.
LEMMA VersionDecoded ==
    ASSUME NEW b \in Seq(Bytes), Len(b) = 16,
           \A i \in 1 .. 4 :
              b[2 + i] = IF i <= Len(Facts.version)
                         THEN Facts.version[Len(Facts.version) + 1 - i] ELSE 0
    PROVE  Version(b) = Value(Facts.version)
<1> DEFINE v == Facts.version
           n == Len(v)
           raw == [i \in 1 .. 4 |-> b[7 - i]]
           kept == { i \in 1 .. 4 : raw[i] # 0 }
           first == CHOOSE i \in kept : \A j \in kept : i <= j
           final == CHOOSE i \in kept : \A j \in kept : j <= i
<1>0. v \in Seq(1 .. 127) /\ n <= 4 /\ n \in Nat
    BY DeviceAssumption, LenProperties
<1>1. Version(b) =
         IF Len(b) < 6 \/ kept = {} THEN Value(<< >>)
         ELSE IF \E i \in 1 .. 4 : raw[i] > 127 THEN Fault("BadReply")
         ELSE Value(SubSeq(raw, first, final))
    BY DEF Version
<1>2. ~(Len(b) < 6)
    <2>1. PICK m \in Nat : m = 16
        OBVIOUS
    <2>2. Len(b) = m
        BY Zenon, <2>1
    <2> QED
        BY <2>1, <2>2
<1>3. ASSUME NEW i \in 1 .. 4
      PROVE  raw[i] = IF 5 - i <= n THEN v[n + 1 - (5 - i)] ELSE 0
    <2>1. 5 - i \in 1 .. 4 /\ 2 + (5 - i) = 7 - i
        OBVIOUS
    <2>2. b[2 + (5 - i)] = IF 5 - i <= n THEN v[n + 1 - (5 - i)] ELSE 0
        BY Zenon, <2>1
    <2>3. raw[i] = b[2 + (5 - i)]
        BY <2>1
    <2> HIDE DEF raw, n, v
    <2> QED
        BY <2>2, <2>3
<1>4. DOMAIN raw = 1 .. 4
    OBVIOUS
<1> HIDE DEF raw, n, v
<1>5. ASSUME NEW i \in 1 .. 4, 5 - i <= n
      PROVE  raw[i] = v[n + i - 4] /\ raw[i] \in 1 .. 127 /\ i \in kept
    <2>1. n + i - 4 \in 1 .. n /\ n + 1 - (5 - i) = n + i - 4
        BY <1>0, <1>5
    <2>2. raw[i] = v[n + 1 - (5 - i)]
        BY <1>3, <1>5
    <2>3. v[n + i - 4] \in 1 .. 127
        BY <1>0, <2>1, ElementOfSeq DEF n
    <2>4. raw[i] = v[n + i - 4]
        BY Zenon, <2>1, <2>2
    <2>5. raw[i] \in 1 .. 127 /\ raw[i] # 0
        <3>1. \A x \in 1 .. 127 : x # 0
            OBVIOUS
        <3>2. raw[i] \in 1 .. 127
            BY Zenon, <2>3, <2>4
        <3> QED
            BY Zenon, <3>1, <3>2
    <2> QED
        BY Zenon, <2>4, <2>5
<1>6. ASSUME NEW i \in 1 .. 4, ~(5 - i <= n)
      PROVE  raw[i] = 0 /\ i \notin kept
    BY <1>3, <1>6
<1>7. kept = { i \in 1 .. 4 : 5 - i <= n }
    BY <1>5, <1>6
<1>8. ~ \E i \in 1 .. 4 : raw[i] > 127
    <2> SUFFICES ASSUME NEW i \in 1 .. 4
                 PROVE  ~(raw[i] > 127)
        OBVIOUS
    <2>1. raw[i] \in 1 .. 127 \/ raw[i] = 0
        BY Zenon, <1>5, <1>6
    <2>2. (\A x \in 1 .. 127 : ~(x > 127)) /\ ~(0 > 127)
        OBVIOUS
    <2> QED
        BY Zenon, <2>1, <2>2
<1> HIDE DEF kept
<1>9. CASE n = 0
    <2>1. kept = {}
        BY <1>7, <1>9
    <2>2. v = << >>
        BY <1>0, <1>9, EmptySeq DEF n
    <2> QED
        BY <1>1, <2>1, <2>2 DEF v
<1>10. CASE n # 0
    <2>1. 5 - n \in kept /\ 4 \in kept
        BY <1>0, <1>7, <1>10
    <2>2. \A j \in kept : 5 - n <= j /\ j <= 4
        BY <1>0, <1>7
    <2>3. kept \subseteq Int
        BY <1>7
    <2>4. first = 5 - n
        <3>1. first \in kept /\ \A j \in kept : first <= j
            BY <2>1, <2>2
        <3> HIDE DEF first
        <3> QED
            BY <1>0, <2>1, <2>2, <2>3, <3>1
    <2>5. final = 4
        <3>1. final \in kept /\ \A j \in kept : j <= final
            BY <2>1, <2>2
        <3> HIDE DEF final
        <3> QED
            BY <2>1, <2>2, <2>3, <3>1
    <2> DEFINE s == SubSeq(raw, 5 - n, 4)
    <2>6. \A i \in 5 - n .. 4 : raw[i] \in 1 .. 127
        <3> SUFFICES ASSUME NEW i \in 5 - n .. 4
                     PROVE  raw[i] \in 1 .. 127
            OBVIOUS
        <3>1. i \in 1 .. 4 /\ 5 - i <= n
            BY <1>0
        <3> QED
            BY <1>5, <3>1
    <2>7. 5 - n \in Int /\ 4 \in Int
        BY <1>0
    <2>8. /\ s \in Seq(1 .. 127)
          /\ Len(s) = (IF 5 - n <= 4 THEN 4 - (5 - n) + 1 ELSE 0)
          /\ \A i \in 1 .. 4 - (5 - n) + 1 : s[i] = raw[(5 - n) + i - 1]
        <3>1. PICK m \in Int : m = 5 - n
            BY <2>7
        <3>2. PICK z \in Int : z = 4
            OBVIOUS
        <3>3. \A i \in m .. z : raw[i] \in 1 .. 127
            BY <2>6, <3>1, <3>2
        <3>4. s = SubSeq(raw, m, z)
            BY <3>1, <3>2
        <3> HIDE DEF s, raw
        <3>5. /\ SubSeq(raw, m, z) \in Seq(1 .. 127)
              /\ Len(SubSeq(raw, m, z)) = IF m <= z THEN z - m + 1 ELSE 0
              /\ \A i \in 1 .. z - m + 1 :
                    SubSeq(raw, m, z)[i] = raw[m + i - 1]
            BY <3>3, SubSeqProperties
        <3> QED
            BY Zenon, <3>1, <3>2, <3>4, <3>5
    <2>9. (IF 5 - n <= 4 THEN 4 - (5 - n) + 1 ELSE 0) = n
        BY <1>0, <1>10
    <2> HIDE DEF s
    <2>10. Len(s) = n
        BY <2>8, <2>9
    <2>11. ASSUME NEW i \in 1 .. n
           PROVE  s[i] = v[i]
        <3>1. i \in 1 .. 4 - (5 - n) + 1
            BY <1>0
        <3>2. s[i] = raw[(5 - n) + i - 1]
            BY Zenon, <2>8, <3>1
        <3>3. (5 - n) + i - 1 \in 1 .. 4 /\ 5 - ((5 - n) + i - 1) <= n
            BY <1>0
        <3>4. raw[(5 - n) + i - 1] = v[n + ((5 - n) + i - 1) - 4]
            BY <1>5, <3>3
        <3>5. n + ((5 - n) + i - 1) - 4 = i
            BY <1>0
        <3> QED
            BY <3>2, <3>4, <3>5
    <2>12. s = v
        <3>1. \A i \in 1 .. Len(s) : s[i] = v[i]
            BY <2>10, <2>11
        <3>2. Len(s) = Len(v)
            BY <2>10 DEF n
        <3> QED
            BY <1>0, <2>8, <3>1, <3>2, SeqEqual
    <2>13. SubSeq(raw, first, final) = v
        BY <2>4, <2>5, <2>12 DEF s
    <2>14. kept # {}
        BY <2>1
    <2> HIDE DEF first, final
    <2> QED
        BY <1>1, <1>2, <1>8, <2>13, <2>14 DEF v
<1> QED
    BY <1>9, <1>10

\* A reply that tells the truth, taken for what it is.
LEMMA ToldIsTrue ==
    ASSUME NEW r \in Requests, r.op \in Questions, proto \in Protocols,
           NEW b \in Seq(Bytes), Len(b) = 16, Told(r.op, b),
           Judged(proto, r.op, b).err = NoError
    PROVE  Judged(proto, r.op, b).value = Truth(r)
<1>1. Judged(proto, r.op, b) = Decoded(proto, r.op, SubSeq(b, 3, Len(b)))
    BY OnlyEchoes
<1>2. Decoded(proto, r.op, SubSeq(b, 3, Len(b))) = Value(Truth(r))
    BY Zenon, <1>1, QuestionDecoded
<1> QED
    BY Zenon, <1>1, <1>2, Received

LEMMA CrcIsTrue ==
    ASSUME NEW r \in Requests, Check(r) = NoError, r.op = "flash_crc16",
           proto \in Protocols
    PROVE  LET b == Reply(CdbOf(r)) IN
           Judged(proto, r.op, b).err = NoError
              => Judged(proto, r.op, b).value = Truth(r)
<1> DEFINE cdb == CdbOf(r)
           b == Reply(cdb)
           p == SubSeq(b, 3, Len(b))
<1>1. r.op \notin Reads /\ Alias(r.op) = "flash_crc16"
    BY SMT DEF Reads, Alias
<1>2. Frame(b, cdb, Payload("flash_crc16", cdb)) /\ Query(b, r.op)
    BY <1>1, QueryAnswer
<1>3. cdb \in Seq(Bytes) /\ Len(cdb) >= 2
    BY BlockOfHost
<1>4. Range16(flash, cdb) = Contents(flash, r)
    <2>1. r.op \in Lengths /\ TakesAddress(r.op)
        BY SMT DEF Lengths, TakesAddress
    <2> QED
        BY <2>1, RangeIsContents
<1> HIDE DEF cdb, b
<1>5. U16(b, 3) = Word(Crc(Contents(flash, r), {}))
    <2>1. U16(b, 3) = Word(Crc(Range16(flash, cdb), {}))
        BY <1>2, <1>3, CrcTold
    <2> QED
        BY Zenon, <1>4, <2>1
<1>6. PICK n \in Nat : n = 16
    OBVIOUS
<1>7. b \in Seq(Bytes) /\ Len(b) = n
    BY Zenon, <1>2, <1>6 DEF Query
<1>8. p[1] = b[3] /\ p[2] = b[4]
    <2>1. Len(b) >= 2 /\ 1 \in 1 .. Len(b) - 2 /\ 2 \in 1 .. Len(b) - 2
        BY <1>6, <1>7
    <2>2. \A i \in 1 .. Len(b) - 2 : p[i] = b[2 + i]
        BY <1>7, <2>1, PayloadPart
    <2>3. p[1] = b[2 + 1] /\ p[2] = b[2 + 2]
        BY Zenon, <2>1, <2>2
    <2> HIDE DEF p
    <2> QED
        BY <2>3
<1> HIDE DEF p
<1>9. U16(p, 1) = U16(b, 3)
    BY SMT, <1>8 DEF U16
<1>10. Decoded(proto, r.op, p) = Value(<<U16(p, 1)>>)
    BY SMT DEF Decoded
<1>11. Truth(r) = <<Word(Crc(Contents(flash, r), {}))>>
    BY SMT DEF Truth
<1>12. ASSUME Judged(proto, r.op, b).err = NoError
       PROVE  Judged(proto, r.op, b).value = Truth(r)
    <2>1. Judged(proto, r.op, b) = Decoded(proto, r.op, SubSeq(b, 3, Len(b)))
        BY <1>12, OnlyEchoes
    <2>2. Judged(proto, r.op, b) = Value(<<U16(p, 1)>>)
        BY Zenon, <1>10, <2>1 DEF p
    <2>3. Judged(proto, r.op, b).value = <<U16(p, 1)>>
        BY Zenon, <2>2, Received
    <2>4. U16(p, 1) = Word(Crc(Contents(flash, r), {}))
        BY Zenon, <1>5, <1>9
    <2> QED
        BY Zenon, <1>11, <2>3, <2>4
<1> QED
    BY <1>12 DEF b, cdb

\* The answer to a request is true when it is the reply to that request.
LEMMA OwnAnswerTrue ==
    ASSUME NEW r \in Requests, Check(r) = NoError,
           r.op \in Questions \union Reads \union {"loader_version",
                                                   "flash_crc16"},
           proto \in Protocols,
           flash \in [Cells -> Bytes], ram \in [Cells -> Bytes],
           NEW got, got = Judged(proto, r.op, Fetched(r, Reply(CdbOf(r)))),
           got.err = NoError
    PROVE  got.value = Truth(r)
<1> DEFINE b == Reply(CdbOf(r))
<1>1. CASE r.op \in Reads
    <2>1. b = Truth(r) /\ b \in Seq(Bytes) /\ Len(b) = r.b
        BY <1>1, ReadAnswer
    <2>2. Wanted(r) = r.b
        BY SMT, <1>1 DEF Wanted, DataIn, Reads
    <2> HIDE DEF b
    <2>3. Fetched(r, b) = b
        BY <2>1, <2>2, FetchedWhole
    <2>4. Judged(proto, r.op, b) = Value(b)
        BY SMT, <1>1 DEF Judged, Reads, DataOut
    <2> QED
        BY Zenon, <2>1, <2>3, <2>4, Received DEF b
<1>2. CASE r.op \notin Reads
    <2>1. Query(b, r.op) /\ Frame(b, CdbOf(r), Payload(Alias(r.op), CdbOf(r)))
        BY <1>2, QueryAnswer
    <2> HIDE DEF b
    <2>2. Fetched(r, b) = b
        <3>1. Wanted(r) = 16
            BY SMT, <1>2 DEF Wanted, DataIn, Reads, Questions
        <3>2. Len(b) = Wanted(r)
            BY Zenon, <2>1, <3>1 DEF Query
        <3> QED
            BY <2>1, <3>2, FetchedWhole DEF Query
    <2>3. got = Judged(proto, r.op, b)
        BY <2>2 DEF b
    <2>4. CASE r.op \in Questions
        <3>1. Alias(r.op) = r.op
            BY SMT, <2>4 DEF Alias, Questions
        <3>2. b \in Seq(Bytes) /\ Len(b) = 16 /\ Told(r.op, b)
            BY Zenon, <2>1, <3>1 DEF Query
        <3> QED
            BY Zenon, <2>3, <2>4, <3>2, ToldIsTrue
    <2>5. CASE r.op = "flash_crc16"
        BY <2>3, <2>5, CrcIsTrue DEF b
    <2>6. CASE r.op = "loader_version"
        <3>1. Alias(r.op) = "loader_version"
            BY SMT, <2>6 DEF Alias
        <3>2. Frame(b, CdbOf(r), Payload("loader_version", CdbOf(r)))
            BY <2>1, <3>1
        <3>3. CdbOf(r) \in Seq(Bytes) /\ Len(CdbOf(r)) >= 2
            BY BlockOfHost
        <3>4. \A i \in 1 .. 4 :
                 b[2 + i] = IF i <= Len(Facts.version)
                            THEN Facts.version[Len(Facts.version) + 1 - i]
                            ELSE 0
            BY <3>2, <3>3, VersionTold
        <3>5. b \in Seq(Bytes) /\ Len(b) = 16
            BY Zenon, <2>1 DEF Query
        <3>6. Version(b) = Value(Facts.version)
            BY Zenon, <3>4, <3>5, VersionDecoded
        <3>7. Judged(proto, r.op, b) = Version(b)
            BY SMT, <2>6 DEF Judged, DataOut
        <3>8. Truth(r) = Facts.version
            BY SMT, <2>6 DEF Truth
        <3>9. got = Value(Facts.version)
            BY Zenon, <2>3, <3>6, <3>7
        <3> QED
            BY Zenon, <3>8, <3>9, Received
    <2> QED
        BY <1>2, <2>4, <2>5, <2>6
<1> QED
    BY <1>1, <1>2

\* What a method may return.
Typed(got) == got.err \in ErrorKinds /\ got.value \in Seq(Int)

LEMMA BytesAreNumbers ==
    ASSUME NEW s \in Seq(Bytes)
    PROVE  s \in Seq(Int) /\ \A i \in 1 .. Len(s) : s[i] \in Int
<1>1. Bytes \subseteq Int
    BY SMT DEF Bytes
<1>2. \A i \in 1 .. Len(s) : s[i] \in Bytes
    BY ElementOfSeq
<1>3. s \in Seq(Int)
    <2>1. Len(s) \in Nat /\ s \in [1 .. Len(s) -> Bytes]
        BY LenProperties
    <2>2. s \in [1 .. Len(s) -> Int]
        BY <1>1, <2>1
    <2> QED
        BY <2>1, <2>2
<1> QED
    BY <1>1, <1>2, <1>3

LEMMA ValueTyped == ASSUME NEW v \in Seq(Int) PROVE Typed(Value(v))
<1>1. NoError \in ErrorKinds
    BY DEF ErrorKinds
<1> QED
    BY <1>1, Received DEF Typed

LEMMA NumberTyped == ASSUME NEW n \in Int PROVE Typed(Value(<<n>>))
<1>1. <<n>> \in Seq(Int)
    OBVIOUS
<1> QED
    BY <1>1, ValueTyped

LEMMA FaultTyped == ASSUME NEW e \in ErrorKinds PROVE Typed(Fault(e))
<1>1. << >> \in Seq(Int)
    OBVIOUS
<1> QED
    BY <1>1, Received DEF Typed

LEMMA Ends ==
    ASSUME NEW S \in SUBSET (1 .. 4), S # {}
    PROVE  /\ \E i \in S : \A j \in S : i <= j
           /\ \E i \in S : \A j \in S : j <= i
<1>1. \A j \in S : j = 1 \/ j = 2 \/ j = 3 \/ j = 4
    OBVIOUS
<1>2. \E i \in S : \A j \in S : i <= j
    <2>1. CASE 1 \in S
        <3>1. \A j \in S : 1 <= j
            BY <1>1
        <3> QED
            BY <2>1, <3>1
    <2>2. CASE 1 \notin S /\ 2 \in S
        <3>1. \A j \in S : 2 <= j
            BY <1>1, <2>2
        <3> QED
            BY <2>2, <3>1
    <2>3. CASE 1 \notin S /\ 2 \notin S /\ 3 \in S
        <3>1. \A j \in S : 3 <= j
            BY <1>1, <2>3
        <3> QED
            BY <2>3, <3>1
    <2>4. CASE 1 \notin S /\ 2 \notin S /\ 3 \notin S
        <3>1. S = {4}
            BY Zenon, <1>1, <2>4
        <3> QED
            BY <3>1
    <2> QED
        BY <2>1, <2>2, <2>3, <2>4
<1>3. \E i \in S : \A j \in S : j <= i
    <2>1. CASE 4 \in S
        <3>1. \A j \in S : j <= 4
            BY <1>1
        <3> QED
            BY <2>1, <3>1
    <2>2. CASE 4 \notin S /\ 3 \in S
        <3>1. \A j \in S : j <= 3
            BY <1>1, <2>2
        <3> QED
            BY <2>2, <3>1
    <2>3. CASE 4 \notin S /\ 3 \notin S /\ 2 \in S
        <3>1. \A j \in S : j <= 2
            BY <1>1, <2>3
        <3> QED
            BY <2>3, <3>1
    <2>4. CASE 4 \notin S /\ 3 \notin S /\ 2 \notin S
        <3>1. S = {1}
            BY Zenon, <1>1, <2>4
        <3> QED
            BY <3>1
    <2> QED
        BY <2>1, <2>2, <2>3, <2>4
<1> QED
    BY <1>2, <1>3

LEMMA VersionTyped == ASSUME NEW b \in Seq(Bytes) PROVE Typed(Version(b))
<1> DEFINE raw == [i \in 1 .. 4 |-> b[7 - i]]
           kept == { i \in 1 .. 4 : raw[i] # 0 }
           first == CHOOSE i \in kept : \A j \in kept : i <= j
           final == CHOOSE i \in kept : \A j \in kept : j <= i
<1>1. Version(b) =
         IF Len(b) < 6 \/ kept = {} THEN Value(<< >>)
         ELSE IF \E i \in 1 .. 4 : raw[i] > 127 THEN Fault("BadReply")
         ELSE Value(SubSeq(raw, first, final))
    BY DEF Version
<1>2. << >> \in Seq(Int) /\ "BadReply" \in ErrorKinds
    BY DEF ErrorKinds, ProtocolErrors
<1>3. CASE ~(Len(b) < 6) /\ kept # {}
    <2>1. \A i \in 1 .. 4 : raw[i] \in Int
        <3> SUFFICES ASSUME NEW i \in 1 .. 4
                     PROVE  raw[i] \in Int
            OBVIOUS
        <3>1. 7 - i \in 1 .. Len(b)
            BY <1>3, LenProperties
        <3>2. raw[i] = b[7 - i]
            OBVIOUS
        <3> HIDE DEF raw
        <3> QED
            BY <3>1, <3>2, BytesAreNumbers
    <2>2. kept \subseteq 1 .. 4
        OBVIOUS
    <2> HIDE DEF raw, kept
    <2>3. /\ \E i \in kept : \A j \in kept : i <= j
          /\ \E i \in kept : \A j \in kept : j <= i
        BY <1>3, <2>2, Ends
    <2>4. first \in 1 .. 4 /\ final \in 1 .. 4
        BY <2>2, <2>3
    <2> HIDE DEF first, final
    <2>5. \A i \in first .. final : raw[i] \in Int
        BY <2>1, <2>4
    <2>6. SubSeq(raw, first, final) \in Seq(Int)
        BY <2>4, <2>5, SubSeqProperties
    <2> QED
        BY <1>1, <1>2, <1>3, <2>6, ValueTyped, FaultTyped
<1>4. CASE Len(b) < 6 \/ kept = {}
    BY <1>1, <1>2, <1>4, ValueTyped
<1> QED
    BY <1>3, <1>4

LEMMA DecodedTyped ==
    ASSUME NEW op, NEW p \in Seq(Bytes), Len(p) >= NeededPayload(op)
    PROVE  Typed(Decoded(proto, op, p))
<1>1. "BadReply" \in ErrorKinds /\ << >> \in Seq(Int)
    BY DEF ErrorKinds, ProtocolErrors
<1>2. Len(p) \in Nat /\ p \in Seq(Int) /\ \A i \in 1 .. Len(p) : p[i] \in Int
    BY LenProperties, BytesAreNumbers
<1>3. CASE op = "online"
    <2>1. Len(p) >= 1
        BY SMT, <1>2, <1>3 DEF NeededPayload
    <2>2. p[1] \in Int
        BY <1>2, <2>1
    <2>3. CASE Len(p) < 6
        <3>1. \/ Decoded(proto, op, p) = Fault("BadReply")
              \/ Decoded(proto, op, p) = Value(<<p[1], NoId>>)
            BY SMT, <1>3, <2>3 DEF Decoded
        <3>2. <<p[1], NoId>> \in Seq(Int)
            BY SMT, <2>2 DEF NoId
        <3> QED
            BY <1>1, <3>1, <3>2, ValueTyped, FaultTyped
    <2>4. CASE ~(Len(p) < 6)
        <3>1. U32Back(p, 3) \in Int
            <4>1. p[3] \in Int /\ p[4] \in Int /\ p[5] \in Int /\ p[6] \in Int
                BY <1>2, <2>4
            <4> QED
                BY SMT, <4>1 DEF U32Back
        <3>2. \/ Decoded(proto, op, p) = Fault("BadReply")
              \/ Decoded(proto, op, p) = Value(<<p[1], NoId>>)
              \/ Decoded(proto, op, p) = Value(<<p[1], U32Back(p, 3)>>)
            BY SMT, <1>3 DEF Decoded
        <3>3. <<p[1], NoId>> \in Seq(Int) /\ <<p[1], U32Back(p, 3)>> \in Seq(Int)
            BY SMT, <2>2, <3>1 DEF NoId
        <3> QED
            BY <1>1, <3>2, <3>3, ValueTyped, FaultTyped
    <2> QED
        BY <2>3, <2>4
<1>4. CASE op \in {"usb_buffer_size", "maskrom_id", "write_chipkey"}
    <2>1. Len(p) >= 4
        BY SMT, <1>2, <1>4 DEF NeededPayload
    <2>2. p[1] \in Int /\ p[2] \in Int /\ p[3] \in Int /\ p[4] \in Int
        BY <1>2, <2>1
    <2>3. U32(p, 1) \in Int
        BY SMT, <2>2 DEF U32, U24, U16
    <2>4. Decoded(proto, op, p) = Value(<<U32(p, 1)>>)
        BY SMT, <1>4 DEF Decoded
    <2> QED
        BY <2>3, <2>4, NumberTyped
<1>5. CASE op = "read_id"
    <2>1. Len(p) >= 3
        BY SMT, <1>2, <1>5 DEF NeededPayload
    <2>2. p[1] \in Int /\ p[2] \in Int /\ p[3] \in Int
        BY <1>2, <2>1
    <2>3. U24(p, 1) \in Int
        BY SMT, <2>2 DEF U24, U16
    <2>4. Decoded(proto, op, p) = Value(<<U24(p, 1)>>)
        BY SMT, <1>5 DEF Decoded
    <2> QED
        BY <2>3, <2>4, NumberTyped
<1>6. CASE op = "read_status"
    <2>1. Len(p) >= 1
        BY SMT, <1>2, <1>6 DEF NeededPayload
    <2>2. p[1] \in Int
        BY <1>2, <2>1
    <2>3. Decoded(proto, op, p) = Value(<<p[1]>>)
        BY SMT, <1>6 DEF Decoded
    <2> QED
        BY <2>2, <2>3, NumberTyped
<1>7. CASE op \in {"flash_crc16", "flash_crc16_raw"}
    <2>1. Len(p) >= 2
        BY SMT, <1>2, <1>7 DEF NeededPayload
    <2>2. p[1] \in Int /\ p[2] \in Int
        BY <1>2, <2>1
    <2>3. U16(p, 1) \in Int
        BY SMT, <2>2 DEF U16
    <2>4. Decoded(proto, op, p) = Value(<<U16(p, 1)>>)
        BY SMT, <1>7 DEF Decoded
    <2> QED
        BY <2>3, <2>4, NumberTyped
<1>8. CASE op = "chip_key"
    <2> DEFINE key == Cipher(<<p[6], p[5]>>, <<255, 255>>, 0 .. 15)
    <2>1. key[1] \in Int /\ key[2] \in Int
        <3>1. key[1] \in Bytes /\ key[2] \in Bytes
            <4> DEFINE start == Crc16Seed(<<255, 255>>, 0 .. 15)
                       Mask(i) == Crc16Seed([j \in 1 .. i |->
                                      Magic[1 + ((j - 1) % 16)]], start)
                       s == <<p[6], p[5]>>
            <4>1. key = [i \in DOMAIN s |-> Octet(Plus(Bits(s[i]), Mask(i)))]
                BY DEF Cipher
            <4>2. 1 \in DOMAIN s /\ 2 \in DOMAIN s
                OBVIOUS
            <4> HIDE DEF key, Mask, s
            <4>3. /\ key[1] = Octet(Plus(Bits(s[1]), Mask(1)))
                  /\ key[2] = Octet(Plus(Bits(s[2]), Mask(2)))
                BY <4>1, <4>2
            <4> QED
                BY Zenon, <4>3, OctetType
        <3>2. Bytes \subseteq Int
            BY SMT DEF Bytes
        <3> QED
            BY Zenon, <3>1, <3>2
    <2>2. Decoded(proto, op, p) = Value(<<key[1] + 256 * key[2]>>)
        BY SMT, <1>8 DEF Decoded
    <2> HIDE DEF key
    <2>3. key[1] + 256 * key[2] \in Int
        BY <2>1
    <2> QED
        BY <2>2, <2>3, NumberTyped
<1>9. CASE op \notin {"online", "usb_buffer_size", "maskrom_id", "write_chipkey",
                      "read_id", "read_status", "flash_crc16",
                      "flash_crc16_raw", "chip_key"}
    <2>1. \/ Decoded(proto, op, p) = Value(p)
          \/ Decoded(proto, op, p) = Value(<< >>)
        BY SMT, <1>9 DEF Decoded
    <2> QED
        BY <1>1, <1>2, <2>1, ValueTyped
<1> QED
    BY <1>3, <1>4, <1>5, <1>6, <1>7, <1>8, <1>9

LEMMA JudgedTyped ==
    ASSUME NEW op, NEW b \in Seq(Bytes)
    PROVE  Typed(Judged(proto, op, b))
<1> DEFINE fault == ReplyFault(Opcode(proto, op), op, b)
           p == SubSeq(b, 3, Len(b))
<1>1. b \in Seq(Int) /\ Len(b) \in Nat /\ << >> \in Seq(Int)
    BY BytesAreNumbers, LenProperties
<1>2. \/ Judged(proto, op, b) = Value(b)
      \/ Judged(proto, op, b) = Value(<< >>)
      \/ Judged(proto, op, b) = Version(b)
      \/ Judged(proto, op, b) = Fault(fault)
      \/ fault = NoError /\ Judged(proto, op, b) = Decoded(proto, op, p)
    BY SMT DEF Judged, DataOut
<1>3. fault \in ErrorKinds
    BY DEF ReplyFault, ErrorKinds, ProtocolErrors
<1>4. CASE fault = NoError /\ Judged(proto, op, b) = Decoded(proto, op, p)
    <2>1. ~(Len(b) < 2) /\ ~(Len(b) - 2 < NeededPayload(op))
        BY SMT, <1>4 DEF ReplyFault, NoError
    <2>2. NeededPayload(op) \in Int
        BY SMT DEF NeededPayload
    <2>3. Len(b) >= 2
        BY <1>1, <2>1
    <2>4. p \in Seq(Bytes) /\ Len(p) = Len(b) - 2
        BY <2>3, PayloadPart
    <2> HIDE DEF p
    <2>5. Len(p) >= NeededPayload(op)
        BY <1>1, <2>1, <2>2, <2>4
    <2> QED
        BY <1>4, <2>4, <2>5, DecodedTyped
<1> HIDE DEF fault, p
<1> QED
    BY <1>1, <1>2, <1>3, <1>4, ValueTyped, VersionTyped, FaultTyped

-----------------------------------------------------------------------------
(* The queue of late replies. *)

\* Unless data have been left over, every reply kept is that of a query, with
\* its opcode and the truth; and a flash_crc16 has failed that left one behind.
Kept(b, op) ==
    Supported(proto, op) /\ Query(b, op) /\ (op = "flash_crc16" => failed)
QueueOK ==
    ~blurred => \A i \in 1 .. Len(replies) : \E op : Kept(replies[i], op)

LEMMA ReplyType ==
    ASSUME TypeOK, NEW r \in Requests, Check(r) = NoError
    PROVE  Reply(CdbOf(r)) \in Seq(Bytes)
<1>1. CASE r.op \in Reads
    BY <1>1, ReadAnswer DEF TypeOK
<1>2. CASE r.op \notin Reads
    BY <1>2, QueryAnswer DEF TypeOK, Query
<1> QED
    BY <1>1, <1>2

\* What is read is the oldest reply, or the own one when there is none.
LEMMA Oldest ==
    ASSUME TypeOK, NEW own \in Seq(Bytes)
    PROVE  LET queue == Append(replies, own) IN
           /\ queue \in Seq(Seq(Bytes)) /\ queue # << >>
           /\ Head(queue) = (IF replies = << >> THEN own ELSE replies[1])
           /\ Head(queue) \in Seq(Bytes)
           /\ Tail(queue) \in Seq(Seq(Bytes))
           /\ Len(Tail(queue)) = Len(replies)
           /\ \A i \in 1 .. Len(replies) :
                 Tail(queue)[i] = IF i = Len(replies) THEN own
                                                      ELSE replies[i + 1]
<1> DEFINE queue == Append(replies, own)
           n == Len(replies)
<1>1. replies \in Seq(Seq(Bytes)) /\ n \in Nat
    BY LenProperties DEF TypeOK
<1>2. /\ queue \in Seq(Seq(Bytes)) /\ queue # << >> /\ Len(queue) = n + 1
      /\ \A i \in 1 .. n : queue[i] = replies[i]
      /\ queue[n + 1] = own
    BY <1>1, AppendProperties
<1>3. Head(queue) = (IF replies = << >> THEN own ELSE Head(replies))
    BY <1>1, HeadTailAppend
<1> HIDE DEF queue
<1>4. /\ Head(queue) \in Seq(Bytes) /\ Tail(queue) \in Seq(Seq(Bytes))
      /\ Len(Tail(queue)) = Len(queue) - 1
      /\ \A i \in 1 .. Len(Tail(queue)) : Tail(queue)[i] = queue[i + 1]
    BY <1>2, HeadTailProperties
<1>5. Len(Tail(queue)) = n
    BY <1>1, <1>2, <1>4
<1>6. Head(replies) = replies[1]
    OBVIOUS
<1>7. ASSUME NEW i \in 1 .. n
      PROVE  Tail(queue)[i] = IF i = n THEN own ELSE replies[i + 1]
    <2>1. Tail(queue)[i] = queue[i + 1]
        BY Zenon, <1>4, <1>5
    <2>2. CASE i = n
        BY <1>2, <2>1, <2>2
    <2>3. CASE i # n
        <3>1. i + 1 \in 1 .. n
            BY <1>1, <2>3
        <3> QED
            BY Zenon, <1>2, <2>1, <2>3, <3>1
    <2> QED
        BY <2>2, <2>3
<1> QED
    BY <1>2, <1>3, <1>4, <1>5, <1>6, <1>7 DEF queue

LEMMA ExecFails ==
    ASSUME NEW e \in ExecErrors
    PROVE  e \in ErrorKinds /\ e # NoError
BY DEF ExecErrors, ErrorKinds, TransportErrors, NoError

LEMMA CheckFails ==
    ASSUME NEW r, Check(r) # NoError
    PROVE  Check(r) \in ErrorKinds
BY SMT DEF Check, ErrorKinds, ProtocolErrors, NoError

LEMMA UnderstoodType ==
    ASSUME NEW r \in Requests, Check(r) = NoError
    PROVE  Understood(CdbOf(r)) \in [op : Ops \union {"none"}, a : Nat, b : Nat]
<1> DEFINE u == Understood(CdbOf(r))
<1>1. /\ u.op = Alias(r.op) /\ u.a = r.a
      /\ u.b = IF r.op \in DataOut THEN Len(r.data) ELSE r.b
    BY UnderstoodIs
<1>2. u.a \in Nat /\ u.b \in Nat
    <2>1. r.a \in Nat /\ r.b \in Nat /\ r.data \in Seq(Bytes)
        BY RequestAssumption DEF Unsigned
    <2> QED
        BY <1>1, <2>1, LenProperties
<1>3. u.op \in Ops
    <2>1. r.op \in Ops /\ Supported(proto, r.op)
        BY Fits
    <2>2. CASE r.op = "read_key_raw"
        <3>1. PICK row \in Rows : row[1] = proto /\ row[2] = r.op
            BY <2>1 DEF Supported
        <3>2. \E s \in Rows : s[2] = "chip_key"
            BY <2>2, <3>1, RawTwin
        <3> QED
            BY <1>1, <2>2, <3>2 DEF Ops, Alias
    <2>3. CASE r.op # "read_key_raw"
        BY <1>1, <2>1, <2>3 DEF Alias
    <2> QED
        BY <2>2, <2>3
<1>4. u = [op |-> u.op, a |-> u.a, b |-> u.b]
    BY DEF Understood
<1> HIDE DEF u
<1> QED
    BY <1>2, <1>3, <1>4 DEF u

LEMMA EndTyped ==
    ASSUME NEW r \in Requests, NEW e \in ErrorKinds, NEW v \in Seq(Int),
           failed \in BOOLEAN, End(r, e, v)
    PROVE  /\ failed' \in BOOLEAN
           /\ last'.req \in Requests \union {NoRequest}
           /\ last'.err \in ErrorKinds /\ last'.value \in Seq(Int)
<1>1. last' = [req |-> r, err |-> e, value |-> v]
    BY DEF End
<1>2. last'.req = r /\ last'.err = e /\ last'.value = v
    BY <1>1
<1>3. failed' \in BOOLEAN
    BY DEF End
<1> QED
    BY <1>2, <1>3

-----------------------------------------------------------------------------
(* Steps. *)

LEMMA InitTyped == Init => TypeOK
<1> SUFFICES ASSUME Init
             PROVE  TypeOK
    OBVIOUS
<1>1. 255 \in Bytes /\ 0 \in Bytes
    BY SMT DEF Bytes
<1>2. flash \in [Cells -> Bytes] /\ ram \in [Cells -> Bytes]
    BY <1>1 DEF Init
<1>3. acted \in [op : Ops \union {"none"}, a : Nat, b : Nat]
    BY DEF Init, Idle
<1>4. replies \in Seq(Seq(Bytes)) /\ Len(replies) <= MaxLate
    BY DeviceAssumption DEF Init
<1>5. /\ last.req \in Requests \union {NoRequest}
      /\ last.err \in ErrorKinds /\ last.value \in Seq(Int)
    BY DEF Init, Nowhere, ErrorKinds
<1> QED
    BY <1>2, <1>3, <1>4, <1>5 DEF Init, TypeOK

LEMMA TypeStep ==
    ASSUME TypeOK, [Next]_vars
    PROVE  TypeOK'
<1> USE DEF TypeOK
<1>1. ASSUME NEW r \in Requests, Refuse(r)
      PROVE  TypeOK'
    <2>1. /\ failed' \in BOOLEAN
          /\ last'.req \in Requests \union {NoRequest}
          /\ last'.err \in ErrorKinds /\ last'.value \in Seq(Int)
        <3>1. Check(r) \in ErrorKinds /\ << >> \in Seq(Int)
            BY <1>1, CheckFails DEF Refuse
        <3>2. End(r, Check(r), << >>)
            BY <1>1 DEF Refuse
        <3> QED
            BY <3>1, <3>2, EndTyped
    <2>2. acted' \in [op : Ops \union {"none"}, a : Nat, b : Nat]
        BY <1>1 DEF Refuse, Idle
    <2> QED
        BY <1>1, <2>1, <2>2 DEF Refuse
<1>2. ASSUME NEW r \in Requests, Answer(r)
      PROVE  TypeOK'
    <2> DEFINE own == Reply(CdbOf(r))
               queue == Append(replies, own)
               got == Judged(proto, r.op, Fetched(r, Head(queue)))
    <2>1. Check(r) = NoError
        BY <1>2 DEF Answer
    <2>2. own \in Seq(Bytes)
        BY <2>1, ReplyType
    <2>3. replies' = Tail(queue) /\ End(r, got.err, got.value)
        BY <1>2 DEF Answer
    <2> HIDE DEF own
    <2>4. /\ Head(queue) \in Seq(Bytes) /\ Tail(queue) \in Seq(Seq(Bytes))
          /\ Len(Tail(queue)) = Len(replies)
        BY <2>2, Oldest
    <2> HIDE DEF queue
    <2>5. got.err \in ErrorKinds /\ got.value \in Seq(Int)
        BY <2>4, FetchedType, JudgedTyped DEF Typed
    <2> HIDE DEF got
    <2>6. /\ failed' \in BOOLEAN
          /\ last'.req \in Requests \union {NoRequest}
          /\ last'.err \in ErrorKinds /\ last'.value \in Seq(Int)
        BY <2>3, <2>5, EndTyped
    <2>7. acted' \in [op : Ops \union {"none"}, a : Nat, b : Nat]
        BY <1>2, <2>1, UnderstoodType DEF Answer, Obeys
    <2>8. /\ proto' = proto /\ flash' = flash /\ ram' = ram
          /\ blurred' \in BOOLEAN
        BY <1>2 DEF Answer
    <2>9. replies' \in Seq(Seq(Bytes)) /\ Len(replies') <= MaxLate
        BY <2>3, <2>4
    <2> QED
        BY <2>6, <2>7, <2>8, <2>9
<1>3. ASSUME NEW r \in Requests, AnswerLate(r)
      PROVE  TypeOK'
    <2>1. Check(r) = NoError
        BY <1>3 DEF AnswerLate
    <2>2. Reply(CdbOf(r)) \in Seq(Bytes)
        BY <2>1, ReplyType
    <2>3. replies' \in Seq(Seq(Bytes)) /\ Len(replies') <= MaxLate
        <3>1. replies' = Append(replies, Reply(CdbOf(r)))
            BY <1>3 DEF AnswerLate
        <3>2. Len(replies) < MaxLate /\ Len(replies) \in Nat /\ MaxLate \in Nat
            BY <1>3, DeviceAssumption, LenProperties DEF AnswerLate
        <3>3. replies' \in Seq(Seq(Bytes)) /\ Len(replies') = Len(replies) + 1
            BY <2>2, <3>1, AppendProperties
        <3> QED
            BY <3>2, <3>3
    <2>4. PICK e \in ExecErrors : End(r, e, << >>)
        BY <1>3 DEF AnswerLate
    <2>5. /\ failed' \in BOOLEAN
          /\ last'.req \in Requests \union {NoRequest}
          /\ last'.err \in ErrorKinds /\ last'.value \in Seq(Int)
        <3>1. e \in ErrorKinds /\ << >> \in Seq(Int)
            BY ExecFails
        <3> QED
            BY <2>4, <3>1, EndTyped
    <2>6. acted' \in [op : Ops \union {"none"}, a : Nat, b : Nat]
        BY <1>3, <2>1, UnderstoodType DEF AnswerLate, Obeys
    <2>7. /\ proto' = proto /\ flash' = flash /\ ram' = ram
          /\ blurred' \in BOOLEAN
        BY <1>3 DEF AnswerLate
    <2> QED
        BY <2>3, <2>5, <2>6, <2>7
<1>4. ASSUME NEW r \in Requests, Write(r)
      PROVE  TypeOK'
    <2>1. Check(r) = NoError
        BY <1>4 DEF Write
    <2>2. /\ failed' \in BOOLEAN
          /\ last'.req \in Requests \union {NoRequest}
          /\ last'.err \in ErrorKinds /\ last'.value \in Seq(Int)
        <3>1. << >> \in Seq(Int) /\ << >> \in Seq(Bytes)
            OBVIOUS
        <3>2. \E e \in ErrorKinds, v \in Seq(Int) : End(r, e, v)
            <4>1. Typed(Judged(proto, r.op, << >>))
                BY <3>1, JudgedTyped
            <4> QED
                BY <1>4, <3>1, <4>1, ExecFails DEF Write, Typed
        <3> QED
            BY <3>2, EndTyped
    <2>3. acted' \in [op : Ops \union {"none"}, a : Nat, b : Nat]
        BY <1>4, <2>1, UnderstoodType DEF Write, Obeys
    <2>4. flash' \in [Cells -> Bytes] /\ ram' \in [Cells -> Bytes]
        <3>1. /\ flash' = flash \/ flash' = Put(flash, CdbOf(r), r.data)
              /\ ram' = ram \/ ram' = Put(ram, CdbOf(r), r.data)
            BY <1>4 DEF Write, Stores
        <3>2. ASSUME NEW mem \in [Cells -> Bytes]
              PROVE  Put(mem, CdbOf(r), r.data) \in [Cells -> Bytes]
            <4> DEFINE at(c) == c - Addr(CdbOf(r))
            <4>1. /\ r.data \in Seq(Bytes)
                  /\ Len(r.data) \in Nat
                BY RequestAssumption, LenProperties
            <4>2. ASSUME NEW c \in Cells, at(c) \in 0 .. Len(r.data) - 1
                  PROVE  r.data[at(c) + 1] \in Bytes
                <5> HIDE DEF at
                <5>1. at(c) + 1 \in 1 .. Len(r.data)
                    BY <4>1, <4>2
                <5> QED
                    BY <4>1, <5>1, ElementOfSeq
            <4> QED
                BY <4>2 DEF Put
        <3> QED
            BY <3>1, <3>2
    <2>5. /\ proto' = proto /\ replies' = replies /\ blurred' = blurred
        BY <1>4 DEF Write
    <2> QED
        BY <2>2, <2>3, <2>4, <2>5
<1>5. ASSUME NEW r \in Requests, Lose(r)
      PROVE  TypeOK'
    <2>1. PICK e \in ExecErrors : End(r, e, << >>)
        BY <1>5 DEF Lose
    <2>2. /\ failed' \in BOOLEAN
          /\ last'.req \in Requests \union {NoRequest}
          /\ last'.err \in ErrorKinds /\ last'.value \in Seq(Int)
        <3>1. e \in ErrorKinds /\ << >> \in Seq(Int)
            BY ExecFails
        <3> QED
            BY <2>1, <3>1, EndTyped
    <2>3. acted' \in [op : Ops \union {"none"}, a : Nat, b : Nat]
        BY <1>5 DEF Lose, Idle
    <2> QED
        BY <1>5, <2>2, <2>3 DEF Lose
<1>6. ASSUME Reset
      PROVE  TypeOK'
    <2>1. 0 \in Bytes
        BY SMT DEF Bytes
    <2>2. ram' \in [Cells -> Bytes]
        BY <1>6, <2>1 DEF Reset
    <2>3. acted' \in [op : Ops \union {"none"}, a : Nat, b : Nat]
        BY <1>6 DEF Reset, Idle
    <2>4. replies' \in Seq(Seq(Bytes)) /\ Len(replies') <= MaxLate
        BY <1>6, DeviceAssumption DEF Reset
    <2>5. /\ last'.req \in Requests \union {NoRequest}
          /\ last'.err \in ErrorKinds /\ last'.value \in Seq(Int)
        BY <1>6 DEF Reset, Nowhere, ErrorKinds
    <2> QED
        BY <1>6, <2>2, <2>3, <2>4, <2>5 DEF Reset
<1>7. CASE UNCHANGED vars
    BY <1>7 DEF vars, device, history
<1> QED
    BY <1>1, <1>2, <1>3, <1>4, <1>5, <1>6, <1>7 DEF Next

\* TypeOK is an invariant of Exchange: whatever a reply holds, a method
\* returns a value or one of the errors the exit codes know, and never reads
\* past the end of a payload.
THEOREM ExchangeTypes == Spec => []TypeOK
<1> QED
    BY InitTyped, TypeStep, PTL DEF Spec

-----------------------------------------------------------------------------
(* A step that ends in an error, or begins anew, claims nothing. *)

LEMMA NoOperation ==
    "none" \notin Ops \union Questions \union Reads
                      \union {"loader_version", "flash_crc16"}
<1>1. "none" \notin Questions \union Reads \union {"loader_version",
                                                   "flash_crc16"}
    BY SMT DEF Questions, Reads
<1>2. "none" \notin Ops
    <2>1. \A r \in Rows : r[2] # "none"
        BY SMTT(60) DEF Rows, InfoCommands, DeviceCommands, FlashCommands,
           MemCommands
    <2> QED
        BY <2>1 DEF Ops
<1> QED
    BY <1>1, <1>2

\* The steps after which a method has an answer: the others end in an error.
LEMMA OtherSteps ==
    ASSUME Next
    PROVE  \/ \E r \in Requests : Answer(r) \/ Write(r)
           \/ last'.err # NoError
           \/ last' = Nowhere
<1>1. ASSUME NEW r \in Requests, Refuse(r)
      PROVE  last'.err # NoError
    BY <1>1 DEF Refuse, End
<1>2. ASSUME NEW r \in Requests, AnswerLate(r)
      PROVE  last'.err # NoError
    BY <1>2, ExecFails DEF AnswerLate, End
<1>3. ASSUME NEW r \in Requests, Lose(r)
      PROVE  last'.err # NoError
    BY <1>3, ExecFails DEF Lose, End
<1>4. ASSUME Reset
      PROVE  last' = Nowhere
    BY <1>4 DEF Reset
<1> QED
    BY <1>1, <1>2, <1>3, <1>4 DEF Next

-----------------------------------------------------------------------------
(* Commands. *)

LEMMA DataInPlace ==
    ASSUME NEW r \in Requests, Check(r) = NoError, r.op \in DataOut,
           NEW mem, NEW i \in DOMAIN r.data, r.a + i - 1 \in Cells
    PROVE  Put(mem, CdbOf(r), r.data)[r.a + i - 1] = r.data[i]
<1>1. Carries(CdbOf(r), r)
    BY HostCarries
<1>2. Addr(CdbOf(r)) = r.a
    <2>1. r.op # "flash_select" /\ TakesAddress(r.op)
        BY SMT DEF DataOut, TakesAddress
    <2> QED
        BY <1>1, <2>1 DEF Carries
<1>3. r.a \in Nat /\ r.data \in Seq(Bytes) /\ Len(r.data) \in Nat
    BY RequestAssumption, LenProperties DEF Unsigned
<1>4. i \in 1 .. Len(r.data)
    BY <1>3, LenProperties
<1> DEFINE c == r.a + i - 1
<1>5. c - r.a \in 0 .. Len(r.data) - 1 /\ c - r.a + 1 = i
    BY <1>3, <1>4
<1>6. Put(mem, CdbOf(r), r.data) =
         [x \in Cells |-> IF x - r.a \in 0 .. Len(r.data) - 1
                          THEN r.data[x - r.a + 1] ELSE mem[x]]
    BY Zenon, <1>2 DEF Put
<1>7. c \in Cells
    OBVIOUS
<1> HIDE DEF c
<1>8. Put(mem, CdbOf(r), r.data)[c] = r.data[c - r.a + 1]
    BY Zenon, <1>5, <1>6, <1>7
<1> QED
    BY Zenon, <1>5, <1>8 DEF c

LEMMA IntactStep ==
    ASSUME TypeOK, CommandsArriveIntact, [Next]_vars
    PROVE  CommandsArriveIntact'
<1>1. ASSUME NEW r \in Requests, Answer(r)
      PROVE  CommandsArriveIntact'
    <2>1. Check(r) = NoError /\ r.op \notin DataOut
        BY <1>1 DEF Answer, HasReply
    <2>2. last'.req = r
        BY <1>1 DEF Answer, End
    <2>3. acted' = Understood(CdbOf(r))
        BY <1>1 DEF Answer, Obeys
    <2>4. acted'.op = Alias(r.op) /\ acted'.a = r.a /\ acted'.b = r.b
        BY <2>1, <2>3, UnderstoodIs
    <2>5. acted'.op = r.op \/ {acted'.op, r.op} = {"chip_key", "read_key_raw"}
        BY <2>4 DEF Alias
    <2> QED
        BY <2>1, <2>2, <2>4, <2>5 DEF CommandsArriveIntact, Answered
<1>2. ASSUME NEW r \in Requests, Write(r)
      PROVE  CommandsArriveIntact'
    <2>1. Check(r) = NoError /\ r.op \in DataOut
        BY <1>2 DEF Write, HasReply
    <2>2. last'.req = r
        BY <1>2 DEF Write, End
    <2>3. acted' = Understood(CdbOf(r))
        BY <1>2 DEF Write, Obeys
    <2>4. /\ acted'.op = Alias(r.op) /\ acted'.a = r.a
          /\ acted'.b = Len(r.data)
        BY <2>1, <2>3, UnderstoodIs
    <2>5. Alias(r.op) = r.op
        BY SMT, <2>1 DEF Alias, DataOut
    <2>6. Meant(CdbOf(r)) = r.op
        BY <2>1, <2>5, UnderstoodIs
    <2>7. Accepts(r.op, CdbOf(r), r.data)
        BY <2>1, WriteAccepted
    <2>8. (IF r.op = "flash_write" THEN flash' ELSE ram')
             = Put(IF r.op = "flash_write" THEN flash ELSE ram,
                   CdbOf(r), r.data)
        <3>1. Stores(CdbOf(r), r.data)
            BY <1>2 DEF Write
        <3>2. CASE r.op = "flash_write"
            BY <2>6, <2>7, <3>1, <3>2 DEF Stores
        <3>3. CASE r.op # "flash_write"
            <4>1. r.op \in {"mem_write", "mem_write_rxgp"}
                BY SMT, <2>1, <3>3 DEF DataOut
            <4> QED
                BY <2>6, <2>7, <3>1, <3>3, <4>1 DEF Stores
        <3> QED
            BY <3>2, <3>3
    <2>9. \A i \in DOMAIN r.data : r.a + i - 1 \in Cells =>
             (IF r.op = "flash_write" THEN flash' ELSE ram')[r.a + i - 1]
                = r.data[i]
        <3> DEFINE mem == IF r.op = "flash_write" THEN flash ELSE ram
        <3>1. \A i \in DOMAIN r.data : r.a + i - 1 \in Cells =>
                 Put(mem, CdbOf(r), r.data)[r.a + i - 1] = r.data[i]
            <4> HIDE DEF mem
            <4> QED
                BY <2>1, DataInPlace
        <3> QED
            BY Zenon, <2>8, <3>1
    <2> QED
        BY Zenon, <2>1, <2>2, <2>4, <2>5, <2>9
        DEF CommandsArriveIntact, Answered
<1>3. CASE UNCHANGED vars
    BY <1>3 DEF vars, device, history, CommandsArriveIntact, Answered
<1>4. CASE last'.err # NoError
    BY <1>4 DEF CommandsArriveIntact, Answered
<1>5. ASSUME last' = Nowhere
      PROVE  CommandsArriveIntact'
    BY <1>5, NoOperation
    DEF CommandsArriveIntact, Answered, Nowhere, NoRequest
<1> QED
    BY <1>1, <1>2, <1>3, <1>4, <1>5, OtherSteps

\* CommandsArriveIntact is an invariant of Exchange.
THEOREM ExchangeCommands == Spec => []CommandsArriveIntact
<1>1. Init => CommandsArriveIntact
    BY NoOperation
    DEF Init, CommandsArriveIntact, Answered, Nowhere, NoRequest
<1> QED
    BY <1>1, ExchangeTypes, IntactStep, PTL DEF Spec

-----------------------------------------------------------------------------
(* Answers. *)

\* An answer changes nothing that a question is about.
LEMMA SameTruth ==
    ASSUME NEW r, UNCHANGED <<proto, flash, ram>>
    PROVE  Truth(r)' = Truth(r)
BY Zenon DEF Truth, Contents

LEMMA InStepStep ==
    ASSUME TypeOK, InStepAnswersAreTrue, [Next]_vars
    PROVE  InStepAnswersAreTrue'
<1> DEFINE named == Questions \union Reads \union {"loader_version",
                                                   "flash_crc16"}
<1>1. ASSUME NEW r \in Requests, Answer(r)
      PROVE  InStepAnswersAreTrue'
    <2> DEFINE own == Reply(CdbOf(r))
               queue == Append(replies, own)
               got == Judged(proto, r.op, Fetched(r, Head(queue)))
    <2>1. Check(r) = NoError
        BY <1>1 DEF Answer
    <2>2. own \in Seq(Bytes)
        BY <2>1, ReplyType
    <2>3. replies' = Tail(queue) /\ End(r, got.err, got.value)
        BY <1>1 DEF Answer
    <2>4. UNCHANGED <<proto, flash, ram>>
        BY <1>1 DEF Answer
    <2> HIDE DEF own
    <2>5. /\ Head(queue) = (IF replies = << >> THEN own ELSE replies[1])
          /\ Len(Tail(queue)) = Len(replies)
        BY <2>2, Oldest
    <2> HIDE DEF queue
    <2>6. CASE replies # << >>
        <3>1. Len(replies) # 0
            BY <2>6, EmptySeq DEF TypeOK
        <3>2. replies' # << >>
            BY <2>3, <2>5, <3>1
        <3> QED
            BY <3>2 DEF InStepAnswersAreTrue
    <2>7. CASE replies = << >>
        <3>1. got = Judged(proto, r.op, Fetched(r, own))
            BY <2>5, <2>7
        <3> HIDE DEF got
        <3>2. last' = [req |-> r, err |-> got.err, value |-> got.value]
            BY <2>3 DEF End
        <3>3. /\ last'.req = r /\ last'.err = got.err
              /\ last'.value = got.value
            BY <3>2
        <3>4. ASSUME r.op \in named, got.err = NoError
              PROVE  last'.value = Truth(r)'
            <4>1. got.value = Truth(r)
                BY <2>1, <3>1, <3>4, OwnAnswerTrue DEF TypeOK, own
            <4> QED
                BY <2>4, <3>3, <4>1, SameTruth
        <3>5. Truth(last.req)' = Truth(r)'
            BY <3>3
        <3> QED
            BY <3>3, <3>4, <3>5 DEF InStepAnswersAreTrue, Answered
    <2> QED
        BY <2>6, <2>7
<1>2. ASSUME NEW r \in Requests, Write(r)
      PROVE  InStepAnswersAreTrue'
    <2>1. last'.req = r /\ r.op \in DataOut
        BY <1>2 DEF Write, End, HasReply
    <2>2. r.op \notin named
        BY SMT, <2>1 DEF DataOut, Questions, Reads
    <2> QED
        BY <2>1, <2>2 DEF InStepAnswersAreTrue, Answered
<1>3. CASE UNCHANGED vars
    <2>1. Truth(last.req)' = Truth(last.req)
        BY <1>3 DEF vars, device, Truth, Contents
    <2> QED
        BY <1>3, <2>1 DEF vars, device, history, InStepAnswersAreTrue, Answered
<1>4. CASE last'.err # NoError
    BY <1>4 DEF InStepAnswersAreTrue, Answered
<1>5. ASSUME last' = Nowhere
      PROVE  InStepAnswersAreTrue'
    BY <1>5, NoOperation
    DEF InStepAnswersAreTrue, Answered, Nowhere, NoRequest
<1> QED
    BY <1>1, <1>2, <1>3, <1>4, <1>5, OtherSteps

\* InStepAnswersAreTrue is an invariant of Exchange.
THEOREM ExchangeInStep == Spec => []InStepAnswersAreTrue
<1>1. Init => InStepAnswersAreTrue
    BY NoOperation
    DEF Init, InStepAnswersAreTrue, Answered, Nowhere, NoRequest
<1> QED
    BY <1>1, ExchangeTypes, InStepStep, PTL DEF Spec

-----------------------------------------------------------------------------
(* Late answers. *)

LEMMA KeptOn ==
    ASSUME NEW b, NEW op, Kept(b, op), proto' = proto, failed => failed'
    PROVE  Kept(b, op)'
BY Zenon DEF Kept, Query, Told, Supported, Opcode

\* A reply that was kept and is accepted is the reply to the same question.
LEMMA KeptAnswer ==
    ASSUME TypeOK, NEW r \in Requests, Check(r) = NoError,
           r.op \in Questions \union {"flash_crc16"},
           NEW b, NEW op, Kept(b, op),
           NEW got, got = Judged(proto, r.op, Fetched(r, b)),
           got.err = NoError
    PROVE  /\ r.op \in Questions => got.value = Truth(r)
           /\ r.op = "flash_crc16" => failed
<1>1. Query(b, op) /\ Supported(proto, op)
    BY DEF Kept
<1>2. Fetched(r, b) = b
    <2>1. Wanted(r) = 16
        BY SMT DEF Wanted, DataIn, Questions
    <2>2. Len(b) = Wanted(r)
        BY Zenon, <1>1, <2>1 DEF Query
    <2> QED
        BY <1>1, <2>2, FetchedWhole DEF Query
<1>3. got = Judged(proto, r.op, b)
    BY <1>2
<1>4. U16(b, 1) = Opcode(proto, r.op)
    BY <1>3, OnlyEchoes
<1>5. Opcode(proto, op) = Opcode(proto, r.op) /\ Supported(proto, r.op)
    BY Zenon, <1>1, <1>4, Fits DEF Query
<1>6. Alias(op) = Alias(r.op)
    BY <1>1, <1>5, OpcodesDiffer
<1>7. Alias(r.op) = r.op
    BY SMT DEF Alias, Questions
<1>8. ASSUME r.op \in Questions
      PROVE  got.value = Truth(r)
    <2>1. b \in Seq(Bytes) /\ Len(b) = 16 /\ Told(r.op, b)
        BY Zenon, <1>1, <1>6, <1>7 DEF Query
    <2>2. proto \in Protocols
        BY DEF TypeOK
    <2> QED
        BY Zenon, <1>3, <1>8, <2>1, <2>2, ToldIsTrue
<1>9. ASSUME r.op = "flash_crc16"
      PROVE  failed
    <2>1. op = "flash_crc16"
        BY SMT, <1>6, <1>7, <1>9 DEF Alias
    <2> QED
        BY <2>1 DEF Kept
<1> QED
    BY <1>8, <1>9

LEMMA OwnKept ==
    ASSUME TypeOK, NEW r \in Requests, Check(r) = NoError, r.op \notin Reads,
           r.op = "flash_crc16" => failed', proto' = proto,
           NEW b, b = Reply(CdbOf(r))
    PROVE  Kept(b, r.op)'
<1>1. Query(b, r.op) /\ Supported(proto, r.op)
    BY QueryAnswer, Fits DEF TypeOK
<1> QED
    BY Zenon, <1>1 DEF Kept, Query, Told, Supported, Opcode

LEMMA QueueSame ==
    ASSUME QueueOK, UNCHANGED <<proto, replies, blurred>>, failed => failed'
    PROVE  QueueOK'
<1> SUFFICES ASSUME ~blurred', NEW i \in 1 .. Len(replies)
             PROVE  \E op : Kept(replies[i], op)'
    BY Zenon DEF QueueOK
<1>1. PICK op : Kept(replies[i], op)
    BY DEF QueueOK
<1>2. PICK b : b = replies[i]
    OBVIOUS
<1>3. Kept(b, op)'
    BY <1>1, <1>2, KeptOn
<1>4. b = replies'[i]
    BY <1>2
<1> QED
    BY Zenon, <1>3, <1>4

LEMMA QueueStep ==
    ASSUME TypeOK, QueueOK, [Next]_vars
    PROVE  QueueOK'
<1>1. ASSUME NEW r \in Requests, Refuse(r)
      PROVE  QueueOK'
    BY <1>1, QueueSame DEF Refuse, End
<1>2. ASSUME NEW r \in Requests, Lose(r)
      PROVE  QueueOK'
    BY <1>2, QueueSame DEF Lose, End
<1>3. ASSUME NEW r \in Requests, Write(r)
      PROVE  QueueOK'
    BY <1>3, QueueSame DEF Write, End
<1>4. ASSUME Reset
      PROVE  QueueOK'
    BY <1>4 DEF Reset, QueueOK
<1>5. CASE UNCHANGED vars
    BY <1>5, QueueSame DEF vars, device, history
<1>6. ASSUME NEW r \in Requests, AnswerLate(r)
      PROVE  QueueOK'
    <2>1. PICK own : own = Reply(CdbOf(r))
        OBVIOUS
    <2>2. /\ Check(r) = NoError /\ replies' = Append(replies, own)
          /\ proto' = proto /\ (blurred' <=> blurred \/ r.op \in Reads)
        BY <1>6, <2>1 DEF AnswerLate, TypeOK
    <2>3. /\ failed => failed'
          /\ r.op = "flash_crc16" => failed'
        BY <1>6, ExecFails DEF AnswerLate, End
    <2>4. own \in Seq(Bytes)
        BY <2>1, <2>2, ReplyType
    <2>5. /\ Len(replies') = Len(replies) + 1 /\ Len(replies) \in Nat
          /\ \A i \in 1 .. Len(replies) : replies'[i] = replies[i]
          /\ replies'[Len(replies) + 1] = own
        BY <2>2, <2>4, AppendProperties, LenProperties DEF TypeOK
    <2>6. SUFFICES ASSUME ~blurred'
                   PROVE  \A i \in 1 .. Len(replies)' :
                             \E op : Kept(replies[i], op)'
        BY DEF QueueOK
    <2>7. SUFFICES ASSUME NEW i \in 1 .. Len(replies')
                   PROVE  \E op : Kept(replies[i], op)'
        OBVIOUS
    <2>8. CASE i = Len(replies) + 1
        <3>1. Kept(own, r.op)'
            BY <2>1, <2>2, <2>3, <2>6, OwnKept
        <3>2. replies'[i] = own
            BY <2>5, <2>8
        <3> QED
            BY Zenon, <3>1, <3>2
    <2>9. CASE i # Len(replies) + 1
        <3>1. i \in 1 .. Len(replies)
            BY <2>5, <2>7, <2>9
        <3>2. PICK op : Kept(replies[i], op)
            BY <2>2, <2>6, <3>1 DEF QueueOK
        <3>3. PICK b : b = replies[i]
            OBVIOUS
        <3>4. Kept(b, op)'
            BY <2>2, <2>3, <3>2, <3>3, KeptOn
        <3>5. b = replies'[i]
            BY <2>5, <3>1, <3>3
        <3> QED
            BY Zenon, <3>4, <3>5
    <2> QED
        BY <2>8, <2>9
<1>7. ASSUME NEW r \in Requests, Answer(r)
      PROVE  QueueOK'
    <2>1. PICK own : own = Reply(CdbOf(r))
        OBVIOUS
    <2> DEFINE queue == Append(replies, own)
               got == Judged(proto, r.op, Fetched(r, Head(queue)))
    <2>2. /\ Check(r) = NoError /\ replies' = Tail(queue)
          /\ proto' = proto
          /\ blurred' <=> blurred \/ (replies # << >> /\ r.op \in Reads)
          /\ End(r, got.err, got.value)
        BY <1>7, <2>1 DEF Answer, TypeOK
    <2>3. own \in Seq(Bytes)
        BY <2>1, <2>2, ReplyType
    <2>4. /\ Head(queue) = (IF replies = << >> THEN own ELSE replies[1])
          /\ Len(replies') = Len(replies) /\ Len(replies) \in Nat
          /\ \A i \in 1 .. Len(replies) :
                replies'[i] = IF i = Len(replies) THEN own ELSE replies[i + 1]
        BY <2>2, <2>3, Oldest, LenProperties DEF TypeOK
    <2> HIDE DEF queue
    <2>5. SUFFICES ASSUME ~blurred', NEW i \in 1 .. Len(replies')
                   PROVE  \E op : Kept(replies[i], op)'
        BY Zenon DEF QueueOK
    <2>6. i \in 1 .. Len(replies) /\ replies # << >>
        BY <2>4, <2>5
    <2>7. ~blurred /\ r.op \notin Reads
        BY <2>2, <2>5, <2>6
    <2>8. failed => failed'
        BY <2>2 DEF End
    <2>9. CASE i = Len(replies)
        <3>1. ASSUME r.op = "flash_crc16"
              PROVE  failed'
            <4>1. CASE got.err # NoError
                BY <2>2, <3>1, <4>1 DEF End
            <4>2. CASE got.err = NoError
                <5>1. 1 \in 1 .. Len(replies)
                    BY <2>4, <2>6
                <5>2. PICK op : Kept(replies[1], op)
                    BY <2>7, <5>1 DEF QueueOK
                <5>3. got = Judged(proto, r.op, Fetched(r, replies[1]))
                    BY <2>4, <2>6
                <5> HIDE DEF got
                <5>4. failed
                    BY <2>2, <3>1, <4>2, <5>2, <5>3, KeptAnswer
                <5> QED
                    BY <2>8, <5>4
            <4> QED
                BY <4>1, <4>2
        <3>2. Kept(own, r.op)'
            BY <2>1, <2>2, <2>7, <3>1, OwnKept
        <3>3. replies'[i] = own
            BY <2>4, <2>6, <2>9
        <3> QED
            BY Zenon, <3>2, <3>3
    <2>10. CASE i # Len(replies)
        <3>1. i + 1 \in 1 .. Len(replies)
            BY <2>4, <2>6, <2>10
        <3>2. PICK op : Kept(replies[i + 1], op)
            BY <2>7, <3>1 DEF QueueOK
        <3>3. PICK b : b = replies[i + 1]
            OBVIOUS
        <3>4. Kept(b, op)'
            BY <2>2, <2>8, <3>2, <3>3, KeptOn
        <3>5. b = replies'[i]
            BY Zenon, <2>4, <2>6, <2>10, <3>3
        <3> QED
            BY Zenon, <3>4, <3>5
    <2> QED
        BY <2>9, <2>10
<1> QED
    BY <1>1, <1>2, <1>3, <1>4, <1>5, <1>6, <1>7 DEF Next

LEMMA LateStep ==
    ASSUME TypeOK, QueueOK, LateAnswersAreTrue, [Next]_vars
    PROVE  LateAnswersAreTrue'
<1>1. ASSUME NEW r \in Requests, Answer(r)
      PROVE  LateAnswersAreTrue'
    <2> DEFINE own == Reply(CdbOf(r))
               queue == Append(replies, own)
               got == Judged(proto, r.op, Fetched(r, Head(queue)))
    <2>1. Check(r) = NoError
        BY <1>1 DEF Answer
    <2>2. own \in Seq(Bytes)
        BY <2>1, ReplyType
    <2>3. End(r, got.err, got.value) /\ (blurred => blurred')
        BY <1>1 DEF Answer, TypeOK
    <2>4. UNCHANGED <<proto, flash, ram>>
        BY <1>1 DEF Answer
    <2> HIDE DEF own
    <2>5. Head(queue) = (IF replies = << >> THEN own ELSE replies[1])
        BY <2>2, Oldest
    <2> HIDE DEF queue
    <2>6. /\ last'.req = r /\ last'.err = got.err
          /\ last'.value = got.value
        <3> HIDE DEF got
        <3>1. last' = [req |-> r, err |-> got.err, value |-> got.value]
            BY <2>3 DEF End
        <3> QED
            BY <3>1
    <2>7. failed => failed'
        BY <2>3 DEF End
    <2>8. ASSUME ~blurred', got.err = NoError,
                 r.op \in Questions \union {"flash_crc16"}
          PROVE  \/ got.value = Truth(r)
                 \/ r.op = "flash_crc16" /\ failed
        <3>1. CASE replies = << >>
            <4>1. got = Judged(proto, r.op, Fetched(r, own))
                BY <2>5, <3>1
            <4> HIDE DEF got
            <4> QED
                BY <2>1, <2>8, <4>1, OwnAnswerTrue DEF TypeOK, own
        <3>2. CASE replies # << >>
            <4>1. 1 \in 1 .. Len(replies)
                <5>1. replies \in Seq(Seq(Bytes)) /\ Len(replies) \in Nat
                    BY LenProperties DEF TypeOK
                <5>2. Len(replies) # 0
                    BY <3>2, <5>1, EmptySeq
                <5> QED
                    BY <5>1, <5>2
            <4>2. PICK op : Kept(replies[1], op)
                BY <2>3, <2>8, <4>1 DEF QueueOK
            <4>3. got = Judged(proto, r.op, Fetched(r, replies[1]))
                BY <2>5, <3>2
            <4> HIDE DEF got
            <4>4. /\ r.op \in Questions => got.value = Truth(r)
                  /\ r.op = "flash_crc16" => failed
                BY <2>1, <2>8, <4>2, <4>3, KeptAnswer
            <4> QED
                BY <2>8, <4>4
        <3> QED
            BY <3>1, <3>2
    <2>9. Truth(last.req)' = Truth(r)
        <3>1. Truth(r)' = Truth(r)
            BY <2>4, SameTruth
        <3> QED
            BY <2>6, <3>1
    <2>10. r.op \in Questions => r.op # "flash_crc16"
        BY SMT DEF Questions
    <2> HIDE DEF got
    <2> QED
        BY <2>6, <2>7, <2>8, <2>9, <2>10 DEF LateAnswersAreTrue, Answered
<1>2. ASSUME NEW r \in Requests, Write(r)
      PROVE  LateAnswersAreTrue'
    <2>1. last'.req = r /\ r.op \in DataOut
        BY <1>2 DEF Write, End, HasReply
    <2>2. r.op \notin Questions \union {"flash_crc16"}
        BY SMT, <2>1 DEF DataOut, Questions
    <2> QED
        BY <2>1, <2>2 DEF LateAnswersAreTrue, Answered
<1>3. CASE UNCHANGED vars
    <2>1. Truth(last.req)' = Truth(last.req)
        BY <1>3 DEF vars, device, Truth, Contents
    <2> QED
        BY <1>3, <2>1 DEF vars, device, history, LateAnswersAreTrue, Answered
<1>4. CASE last'.err # NoError
    BY <1>4 DEF LateAnswersAreTrue, Answered
<1>5. ASSUME last' = Nowhere
      PROVE  LateAnswersAreTrue'
    BY <1>5, NoOperation
    DEF LateAnswersAreTrue, Answered, Nowhere, NoRequest
<1> QED
    BY <1>1, <1>2, <1>3, <1>4, <1>5, OtherSteps

\* The queue never holds a reply that could be taken for the answer to another
\* question: the inductive invariant behind LateAnswersAreTrue.
THEOREM ExchangeQueue == Spec => []QueueOK
<1>1. Init => QueueOK
    BY DEF Init, QueueOK
<1> QED
    BY <1>1, ExchangeTypes, QueueStep, PTL DEF Spec

\* LateAnswersAreTrue is an invariant of Exchange, however many replies are
\* late.
THEOREM ExchangeLate == Spec => []LateAnswersAreTrue
<1>1. Init => LateAnswersAreTrue
    BY NoOperation
    DEF Init, LateAnswersAreTrue, Answered, Nowhere, NoRequest
<1> QED
    BY <1>1, ExchangeTypes, ExchangeQueue, LateStep, PTL DEF Spec
=============================================================================
