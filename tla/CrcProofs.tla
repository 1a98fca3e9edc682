----------------------------- MODULE CrcProofs ------------------------------
(***************************************************************************)
(* The CRC of the host, bit by bit in a 16-bit register, is the remainder  *)
(* of the polynomial division the device does, for byte strings of any     *)
(* length.  The library's induction theorems take an operator; induction   *)
(* and recursion are stated here about sets and functions instead.         *)
(***************************************************************************)
EXTENDS Exchange, SequenceTheorems, WellFoundedInduction, TLAPS

\* A set that has 0 and with each number the next has them all.
LEMMA Induction ==
    ASSUME NEW S, 0 \in S, \A n \in Nat : n \in S => n + 1 \in S
    PROVE  Nat \subseteq S
<1> SUFFICES ASSUME Nat \ S # {}
             PROVE  FALSE
    OBVIOUS
<1>1. PICK m \in Nat \ S : \A k \in Nat \ S : ~(<<k, m>> \in OpToRel(<, Nat))
    BY NatLessThanWellFounded, WFMin
<1>2. m - 1 \in Nat /\ m - 1 < m /\ m \in Nat /\ m \notin S
    <2>1. m \in Nat /\ m \notin S
        OBVIOUS
    <2>2. m # 0
        BY <2>1
    <2> QED
        BY <2>1, <2>2
<1>3. m - 1 \notin S
    <2> SUFFICES ASSUME m - 1 \in S
                 PROVE  FALSE
        OBVIOUS
    <2>1. (m - 1) + 1 \in S
        BY <1>2
    <2>2. (m - 1) + 1 = m
        BY <1>2
    <2> QED
        BY <1>2, <2>1, <2>2
<1>4. m - 1 \in Nat \ S
    BY <1>2, <1>3
<1>5. <<m - 1, m>> \in { ss \in Nat \X Nat : ss[1] < ss[2] }
    BY <1>1, <1>2
<1>6. <<m - 1, m>> \in OpToRel(<, Nat)
    BY <1>5 DEF OpToRel
<1> QED
    BY <1>1, <1>4, <1>6

\* f counts up from base by step.
Steps(f, base, step, N) ==
    /\ f = [n \in 0 .. N |-> f[n]]
    /\ f[0] = base /\ \A n \in 1 .. N : f[n] = step[n][f[n - 1]]

\* A recursion over 0 .. N has a solution,
LEMMA RecursionExists ==
    ASSUME NEW V, NEW base \in V, NEW step \in [Nat -> [V -> V]], NEW N \in Nat
    PROVE  \E f \in [0 .. N -> V] : Steps(f, base, step, N)
<1> DEFINE S == { n \in Nat :
                    \E f \in [0 .. n -> V] : Steps(f, base, step, n) }
<1>1. 0 \in S
    <2> DEFINE f == [n \in 0 .. 0 |-> base]
    <2>1. f \in [0 .. 0 -> V] /\ Steps(f, base, step, 0)
        BY DEF Steps
    <2> QED
        BY <2>1
<1>2. ASSUME NEW n \in Nat, n \in S
      PROVE  n + 1 \in S
    <2>1. PICK f \in [0 .. n -> V] : Steps(f, base, step, n)
        BY <1>2
    <2> DEFINE g == [k \in 0 .. n + 1 |-> IF k \in 0 .. n THEN f[k]
                                          ELSE step[n + 1][f[n]]]
    <2>2. step[n + 1][f[n]] \in V
        OBVIOUS
    <2>3. g \in [0 .. n + 1 -> V]
        BY <2>2
    <2>4. g[0] = base
        BY <2>1 DEF Steps
    <2>5. ASSUME NEW k \in 1 .. n + 1
          PROVE  g[k] = step[k][g[k - 1]]
        <3>1. CASE k = n + 1
            BY <3>1
        <3>2. CASE k # n + 1
            <4>1. k \in 1 .. n /\ k \in 0 .. n /\ k - 1 \in 0 .. n
                BY <3>2
            <4>2. f[k] = step[k][f[k - 1]]
                BY <2>1, <4>1 DEF Steps
            <4> QED
                BY <4>1, <4>2
        <3> QED
            BY <3>1, <3>2
    <2>6. Steps(g, base, step, n + 1)
        BY <2>4, <2>5 DEF Steps
    <2> QED
        BY <2>3, <2>6
<1> QED
    BY <1>1, <1>2, Induction

LEMMA BoundedInduction ==
    ASSUME NEW N \in Nat, NEW S, 0 \in S, \A n \in 1 .. N : n - 1 \in S => n \in S
    PROVE  0 .. N \subseteq S
<1> DEFINE T == { n \in Nat : n \in 0 .. N => n \in S }
<1>1. 0 \in T
    OBVIOUS
<1>2. ASSUME NEW n \in Nat, n \in T
      PROVE  n + 1 \in T
    <2> SUFFICES ASSUME n + 1 \in 0 .. N
                 PROVE  n + 1 \in S
        OBVIOUS
    <2>1. n \in S /\ n + 1 \in 1 .. N /\ (n + 1) - 1 = n
        BY <1>2
    <2> QED
        BY <2>1
<1>3. Nat \subseteq T
    <2> HIDE DEF T
    <2> QED
        BY <1>1, <1>2, Induction
<1> QED
    BY <1>3

\* What each step of a recursion keeps, all of it has.
LEMMA RecursionType ==
    ASSUME NEW V, NEW N \in Nat, NEW f, f[0] \in V,
           \A n \in 1 .. N : f[n - 1] \in V => f[n] \in V
    PROVE  \A n \in 0 .. N : f[n] \in V
<1> DEFINE S == { n \in 0 .. N : f[n] \in V }
<1>1. 0 \in S
    OBVIOUS
<1>2. \A n \in 1 .. N : n - 1 \in S => n \in S
    OBVIOUS
<1>3. 0 .. N \subseteq S
    <2> HIDE DEF S
    <2> QED
        BY <1>1, <1>2, BoundedInduction
<1> QED
    BY <1>3

-----------------------------------------------------------------------------
(* The register of the host. *)

Register == SUBSET (0 .. 15)

LEMMA PlusType ==
    ASSUME NEW V, NEW s \in SUBSET V, NEW t \in SUBSET V
    PROVE  Plus(s, t) \in SUBSET V
BY DEF Plus

LEMMA BitsType == ASSUME NEW byte PROVE Bits(byte) \in SUBSET (0 .. 7)
BY DEF Bits

LEMMA ShiftType == ASSUME NEW c \in Register PROVE CrcShift(c) \in Register
<1> DEFINE s == { e + 1 : e \in c \ {15} }
<1>1. s \in SUBSET (0 .. 15)
    BY DEF Register
<1>2. {12, 5, 0} \in SUBSET (0 .. 15)
    OBVIOUS
<1>3. Plus(s, {12, 5, 0}) \in SUBSET (0 .. 15)
    <2> HIDE DEF s
    <2> QED
        BY <1>1, <1>2, Zenon DEF Plus
<1> QED
    BY <1>1, <1>3 DEF CrcShift, Register

Entered(c, byte) == Plus(c, { e + 8 : e \in Bits(byte) })

LEMMA EnteredType ==
    ASSUME NEW c \in Register, NEW byte
    PROVE  Entered(c, byte) \in Register
<1>1. { e + 8 : e \in Bits(byte) } \in SUBSET (0 .. 15)
    BY BitsType
<1> QED
    BY <1>1, Zenon DEF Entered, Register, Plus

\* The eight shifts of a byte, one after another.
LEMMA ByteByBits ==
    ASSUME NEW c \in Register, NEW byte
    PROVE  \E reg \in [0 .. 8 -> Register] :
              /\ reg[0] = Entered(c, byte)
              /\ \A k \in 1 .. 8 : reg[k] = CrcShift(reg[k - 1])
              /\ CrcByte(c, byte) = reg[8]
<1> DEFINE step == [n \in Nat |-> [r \in Register |-> CrcShift(r)]]
           Is(g) == g = [k \in 0 .. 8 |->
                           IF k = 0 THEN Plus(c, { e + 8 : e \in Bits(byte) })
                           ELSE CrcShift(g[k - 1])]
           reg == CHOOSE g : Is(g)
<1>1. step \in [Nat -> [Register -> Register]]
    BY ShiftType
<1>2. PICK f \in [0 .. 8 -> Register] : Steps(f, Entered(c, byte), step, 8)
    <2> HIDE DEF step
    <2> QED
        BY <1>1, EnteredType, RecursionExists
<1>3. ASSUME NEW k \in 1 .. 8
      PROVE  f[k] = CrcShift(f[k - 1])
    <2>1. k - 1 \in 0 .. 8 /\ k \in Nat
        OBVIOUS
    <2>2. f[k - 1] \in Register
        BY <2>1
    <2> QED
        BY <1>2, <2>1, <2>2 DEF Steps
<1>4. Is(f)
    <2>1. f = [k \in 0 .. 8 |-> f[k]]
        OBVIOUS
    <2>2. ASSUME NEW k \in 0 .. 8
          PROVE  f[k] = IF k = 0 THEN Plus(c, { e + 8 : e \in Bits(byte) })
                        ELSE CrcShift(f[k - 1])
        BY <1>2, <1>3 DEF Steps, Entered
    <2> QED
        BY <2>1, <2>2
<1>5. Is(reg)
    BY <1>4
<1>6. /\ DOMAIN reg = 0 .. 8 /\ reg = [k \in 0 .. 8 |-> reg[k]]
      /\ reg[0] = Entered(c, byte)
      /\ \A k \in 1 .. 8 : reg[k] = CrcShift(reg[k - 1])
    <2> HIDE DEF reg
    <2> QED
        BY <1>5 DEF Entered
<1>7. CrcByte(c, byte) = reg[8]
    BY DEF CrcByte
<1>8. \A k \in 0 .. 8 : reg[k] \in Register
    <2> HIDE DEF reg
    <2>1. \A k \in 1 .. 8 : reg[k - 1] \in Register => reg[k] \in Register
        BY <1>6, ShiftType
    <2> QED
        BY <1>6, <2>1, EnteredType, RecursionType
<1>9. reg \in [0 .. 8 -> Register]
    <2> HIDE DEF reg
    <2> QED
        BY <1>6, <1>8
<1> QED
    <2> HIDE DEF reg
    <2> QED
        BY <1>6, <1>7, <1>9

LEMMA ByteType ==
    ASSUME NEW c \in Register, NEW byte
    PROVE  CrcByte(c, byte) \in Register
BY ByteByBits

\* And the bytes of a string.
LEMMA SeedByBytes ==
    ASSUME NEW c \in Register, NEW data \in Seq(Bytes)
    PROVE  \E reg \in [0 .. Len(data) -> Register] :
              /\ reg[0] = c
              /\ \A n \in 1 .. Len(data) : reg[n] = CrcByte(reg[n - 1], data[n])
              /\ Crc16Seed(data, c) = reg[Len(data)]
<1> DEFINE step == [n \in Nat |-> [r \in Register |-> CrcByte(r, data[n])]]
           Is(g) == g = [n \in 0 .. Len(data) |->
                           IF n = 0 THEN c ELSE CrcByte(g[n - 1], data[n])]
           reg == CHOOSE g : Is(g)
<1> Len(data) \in Nat
    OBVIOUS
<1>1. step \in [Nat -> [Register -> Register]]
    BY ByteType
<1>2. PICK f \in [0 .. Len(data) -> Register] : Steps(f, c, step, Len(data))
    <2> HIDE DEF step
    <2> QED
        BY <1>1, RecursionExists
<1>3. ASSUME NEW n \in 1 .. Len(data)
      PROVE  f[n] = CrcByte(f[n - 1], data[n])
    <2>1. n - 1 \in 0 .. Len(data) /\ n \in Nat
        OBVIOUS
    <2>2. f[n - 1] \in Register
        BY <2>1
    <2> QED
        BY <1>2, <2>1, <2>2 DEF Steps
<1>4. Is(f)
    <2>1. f = [n \in 0 .. Len(data) |-> f[n]]
        OBVIOUS
    <2>2. ASSUME NEW n \in 0 .. Len(data)
          PROVE  f[n] = IF n = 0 THEN c ELSE CrcByte(f[n - 1], data[n])
        <3>1. CASE n = 0
            BY <1>2, <3>1 DEF Steps
        <3>2. CASE n # 0
            BY <1>3, <3>2
        <3> QED
            BY <3>1, <3>2
    <2> QED
        BY <2>1, <2>2
<1>5. Is(reg)
    BY <1>4
<1>6. /\ DOMAIN reg = 0 .. Len(data) /\ reg = [n \in 0 .. Len(data) |-> reg[n]]
      /\ reg[0] = c
      /\ \A n \in 1 .. Len(data) : reg[n] = CrcByte(reg[n - 1], data[n])
    <2> HIDE DEF reg
    <2> QED
        BY <1>5
<1>7. Crc16Seed(data, c) = reg[Len(data)]
    BY DEF Crc16Seed
<1> HIDE DEF reg
<1>8. \A n \in 0 .. Len(data) : reg[n] \in Register
    <2>1. \A n \in 1 .. Len(data) :
              reg[n - 1] \in Register => reg[n] \in Register
        BY <1>6, ByteType
    <2> QED
        BY <1>6, <2>1, RecursionType
<1>9. reg \in [0 .. Len(data) -> Register]
    BY <1>6, <1>8
<1> QED
    BY <1>6, <1>7, <1>9

LEMMA SeedType ==
    ASSUME NEW c \in Register, NEW data \in Seq(Bytes)
    PROVE  Crc16Seed(data, c) \in Register
<1>1. Len(data) \in 0 .. Len(data)
    BY LenProperties
<1> QED
    BY <1>1, SeedByBytes

-----------------------------------------------------------------------------
(* The division of the device. *)

LEMMA ShiftedType ==
    ASSUME NEW s \in SUBSET Int, NEW n \in Int
    PROVE  Shifted(s, n) \in SUBSET Int
BY DEF Shifted

LEMMA ReducedType ==
    ASSUME NEW s \in SUBSET Int, NEW power \in Int
    PROVE  Reduced(s, power) \in SUBSET Int
<1>1. Generator \in SUBSET Int /\ power - 16 \in Int
    BY DEF Generator
<1>2. Shifted(Generator, power - 16) \in SUBSET Int
    BY <1>1, ShiftedType
<1> QED
    BY <1>2, Zenon DEF Reduced, Plus

\* The division takes one power after another from the dividend.
LEMMA DivisionBySteps ==
    ASSUME NEW s \in SUBSET Nat, NEW width \in Nat
    PROVE  \E rest \in [0 .. width -> SUBSET Int] :
              /\ rest[0] = s
              /\ \A n \in 1 .. width :
                    rest[n] = Reduced(rest[n - 1], width + 16 - n)
              /\ Remainder(s, width) = rest[width]
<1> DEFINE step == [n \in Nat |-> [t \in SUBSET Int |->
                       Reduced(t, width + 16 - n)]]
           Is(g) == g = [n \in 0 .. width |->
                           IF n = 0 THEN s
                           ELSE Reduced(g[n - 1], width + 16 - n)]
           rest == CHOOSE g : Is(g)
<1>0. ASSUME NEW t \in SUBSET Int, NEW n \in Nat
      PROVE  Reduced(t, width + 16 - n) \in SUBSET Int
    <2>1. width + 16 - n \in Int
        OBVIOUS
    <2> QED
        BY <2>1, ReducedType
<1>1. step \in [Nat -> [SUBSET Int -> SUBSET Int]]
    BY <1>0
<1>2. PICK f \in [0 .. width -> SUBSET Int] : Steps(f, s, step, width)
    <2>1. s \in SUBSET Int
        OBVIOUS
    <2> HIDE DEF step
    <2> QED
        BY <1>1, <2>1, RecursionExists
<1>3. ASSUME NEW n \in 1 .. width
      PROVE  f[n] = Reduced(f[n - 1], width + 16 - n)
    <2>1. n - 1 \in 0 .. width /\ n \in Nat
        OBVIOUS
    <2>2. f[n - 1] \in SUBSET Int
        BY <2>1
    <2>3. f[n] = step[n][f[n - 1]]
        BY <1>2 DEF Steps
    <2> QED
        BY <2>1, <2>2, <2>3
<1>4. Is(f)
    <2>1. f = [n \in 0 .. width |-> f[n]]
        OBVIOUS
    <2>2. ASSUME NEW n \in 0 .. width
          PROVE  f[n] = IF n = 0 THEN s
                        ELSE Reduced(f[n - 1], width + 16 - n)
        <3>1. CASE n = 0
            BY <1>2, <3>1 DEF Steps
        <3>2. CASE n # 0
            BY <1>3, <3>2
        <3> QED
            BY <3>1, <3>2
    <2> QED
        BY <2>1, <2>2
<1>5. Is(rest)
    BY <1>4
<1>6. /\ DOMAIN rest = 0 .. width /\ rest = [n \in 0 .. width |-> rest[n]]
      /\ rest[0] = s
      /\ \A n \in 1 .. width : rest[n] = Reduced(rest[n - 1], width + 16 - n)
    <2> HIDE DEF rest
    <2>1. DOMAIN rest = 0 .. width /\ rest = [n \in 0 .. width |-> rest[n]]
        BY <1>5
    <2>2. \A n \in 0 .. width :
              rest[n] = IF n = 0 THEN s
                        ELSE Reduced(rest[n - 1], width + 16 - n)
        BY <1>5
    <2>3. 0 \in 0 .. width /\ \A n \in 1 .. width : n \in 0 .. width /\ n # 0
        OBVIOUS
    <2> HIDE DEF Is
    <2> QED
        BY <2>1, <2>2, <2>3
<1>7. Remainder(s, width) = rest[width]
    BY DEF Remainder
<1> HIDE DEF rest
<1>8. \A n \in 0 .. width : rest[n] \in SUBSET Int
    <2>1. \A n \in 1 .. width :
              rest[n - 1] \in SUBSET Int => rest[n] \in SUBSET Int
        <3> SUFFICES ASSUME NEW n \in 1 .. width, rest[n - 1] \in SUBSET Int
                     PROVE  rest[n] \in SUBSET Int
            OBVIOUS
        <3>1. rest[n] = Reduced(rest[n - 1], width + 16 - n)
            BY <1>6, Zenon
        <3>2. n \in Nat
            OBVIOUS
        <3> QED
            BY <1>0, <3>1, <3>2
    <2>2. rest[0] \in SUBSET Int
        BY <1>6
    <2> QED
        BY <2>1, <2>2, RecursionType
<1>9. rest \in [0 .. width -> SUBSET Int]
    BY <1>6, <1>8
<1> QED
    BY <1>6, <1>7, <1>9

LEMMA ShiftedMember ==
    ASSUME NEW s \in SUBSET Int, NEW n \in Int, NEW x \in Int
    PROVE  x \in Shifted(s, n) <=> x - n \in s
BY DEF Shifted

LEMMA PlusMember ==
    ASSUME NEW s, NEW t, NEW x
    PROVE  x \in Plus(s, t) <=> (x \in s <=> x \notin t)
BY DEF Plus

\* One step of the division is one shift of the register, as long as what is
\* left of the message does not reach up to the register's highest bit.
LEMMA OneBit ==
    ASSUME NEW low \in SUBSET Int, NEW c \in Register, NEW b \in Int,
           \A x \in low : x < b + 15
    PROVE  Reduced(Plus(low, Shifted(c, b)), b + 15)
              = Plus(low, Shifted(CrcShift(c), b - 1))
<1> c \in SUBSET Int
    BY DEF Register
<1>1. CrcShift(c) \in SUBSET Int
    BY ShiftType DEF Register
<1>2. b + 15 \in Plus(low, Shifted(c, b)) <=> 15 \in c
    <2>1. (b + 15) - b = 15 /\ b + 15 \notin low
        OBVIOUS
    <2> QED
        BY <2>1, ShiftedMember, PlusMember
<1>3. ASSUME NEW x \in Int
      PROVE  x \in Reduced(Plus(low, Shifted(c, b)), b + 15)
                <=> x \in Plus(low, Shifted(CrcShift(c), b - 1))
    <2> DEFINE y == (x - b) + 1
    <2>1. x - (b - 1) = y /\ x - b = y - 1 /\ y \in Int
        OBVIOUS
    <2>2. x \in Shifted(c, b) <=> y - 1 \in c
        BY <2>1, ShiftedMember
    <2>3. x \in Shifted(CrcShift(c), b - 1) <=> y \in CrcShift(c)
        BY <1>1, <2>1, ShiftedMember
    <2>4. y \in { e + 1 : e \in c \ {15} } <=> y - 1 \in c /\ y # 16
        BY <2>1
    <2>5. x \in Shifted(Generator, b - 1) <=> y \in {16, 12, 5, 0}
        BY <2>1, ShiftedMember DEF Generator
    <2>6. (b + 15) - 16 = b - 1
        OBVIOUS
    <2> HIDE DEF y
    <2>7. CASE 15 \in c
        <3>1. y \in CrcShift(c)
                <=> (y \in { e + 1 : e \in c \ {15} } <=> y \notin {12, 5, 0})
            BY <2>7, PlusMember DEF CrcShift
        <3>2. x \in Reduced(Plus(low, Shifted(c, b)), b + 15)
                <=> (x \in Plus(low, Shifted(c, b))
                        <=> x \notin Shifted(Generator, b - 1))
            BY <1>2, <2>6, <2>7, PlusMember DEF Reduced
        <3>3. y = 16 => y - 1 \in c
            BY <2>7
        <3> QED
            BY <2>2, <2>3, <2>4, <2>5, <3>1, <3>2, <3>3, PlusMember
    <2>8. CASE 15 \notin c
        <3>1. y \in CrcShift(c) <=> y \in { e + 1 : e \in c \ {15} }
            BY <2>8 DEF CrcShift
        <3>2. Reduced(Plus(low, Shifted(c, b)), b + 15)
                = Plus(low, Shifted(c, b))
            BY <1>2, <2>8 DEF Reduced
        <3>3. y = 16 => y - 1 \notin c
            BY <2>8
        <3> QED
            BY <2>2, <2>3, <2>4, <3>1, <3>2, <3>3, PlusMember
    <2> QED
        BY <2>7, <2>8
<1>4. /\ Reduced(Plus(low, Shifted(c, b)), b + 15) \in SUBSET Int
      /\ Plus(low, Shifted(CrcShift(c), b - 1)) \in SUBSET Int
    <2>1. b + 15 \in Int /\ b - 1 \in Int
        OBVIOUS
    <2>2. /\ Shifted(c, b) \in SUBSET Int
          /\ Shifted(CrcShift(c), b - 1) \in SUBSET Int
        BY <1>1, <2>1, ShiftedType
    <2>3. Plus(low, Shifted(c, b)) \in SUBSET Int
        BY <2>2, Zenon DEF Plus
    <2>4. Plus(low, Shifted(CrcShift(c), b - 1)) \in SUBSET Int
        BY <2>2, Zenon DEF Plus
    <2> QED
        BY <2>1, <2>3, <2>4, ReducedType
<1> QED
    BY <1>3, <1>4

-----------------------------------------------------------------------------
(* The two together. *)

\* What the bytes of a message after the j-th contribute to the dividend.
Left(data, j) ==
    { x \in Int : \E k \in j + 1 .. Len(data) : \E e \in Bits(data[k]) :
                     x = 8 * (Len(data) - k) + e + 16 }

LEMMA LeftEnds ==
    ASSUME NEW data \in Seq(Bytes)
    PROVE  /\ Left(data, 0) = Shifted(Message(data), 16)
           /\ Left(data, Len(data)) = {}
<1>1. DOMAIN data = 1 .. Len(data) /\ Len(data) \in Nat
    BY LenProperties
<1>2. ASSUME NEW x
      PROVE  x \in Left(data, 0) <=> x \in Shifted(Message(data), 16)
    <2>1. x \in Shifted(Message(data), 16) <=>
             \E k \in 1 .. Len(data) : \E e \in Bits(data[k]) :
                x = (8 * (Len(data) - k) + e) + 16
        <3>1. x \in Shifted(Message(data), 16)
                 <=> \E m \in Message(data) : x = m + 16
            BY DEF Shifted
        <3>2. \A m : m \in Message(data) <=>
                 \E k \in 1 .. Len(data) : \E e \in Bits(data[k]) :
                    m = 8 * (Len(data) - k) + e
            <4> SUFFICES ASSUME NEW m
                         PROVE  m \in Message(data) <=>
                                   \E k \in 1 .. Len(data) :
                                   \E e \in Bits(data[k]) :
                                      m = 8 * (Len(data) - k) + e
                OBVIOUS
            <4> DEFINE At(k) == { 8 * (Len(data) - k) + e : e \in Bits(data[k]) }
            <4>1. m \in Message(data)
                     <=> \E t \in { At(k) : k \in DOMAIN data } : m \in t
                BY DEF Message
            <4>2. m \in Message(data) <=> \E k \in DOMAIN data : m \in At(k)
                <5> HIDE DEF At
                <5> QED
                    BY <4>1
            <4>3. m \in Message(data) <=> \E k \in 1 .. Len(data) : m \in At(k)
                BY <1>1, <4>2
            <4> QED
                BY <4>3
        <3> HIDE DEF Message
        <3> QED
            BY <3>1, <3>2
    <2>2. \A k \in 1 .. Len(data) : \A e \in Bits(data[k]) :
             /\ (8 * (Len(data) - k) + e) + 16 \in Int
             /\ 8 * (Len(data) - k) + e + 16 = (8 * (Len(data) - k) + e) + 16
        BY <1>1, BitsType
    <2> QED
        BY <1>1, <2>1, <2>2 DEF Left
<1>3. Left(data, Len(data)) = {}
    BY <1>1 DEF Left
<1> QED
    BY <1>2, <1>3

\* The next byte is the highest of what is left.
LEMMA LeftStep ==
    ASSUME NEW data \in Seq(Bytes), NEW j \in 0 .. Len(data), j < Len(data),
           NEW c \in Register
    PROVE  LET b == 8 * (Len(data) - j) IN
           /\ Plus(Left(data, j), Shifted(c, b))
                = Plus(Left(data, j + 1), Shifted(Entered(c, data[j + 1]), b))
           /\ \A x \in Left(data, j + 1) : x < b + 8
<1>1. Len(data) \in Nat /\ j \in Nat /\ j + 1 \in 1 .. Len(data)
    BY LenProperties
<1> DEFINE b == 8 * (Len(data) - j)
           high == { e + 8 : e \in Bits(data[j + 1]) }
<1>2. b \in Int
    BY <1>1
<1>3. \A x \in Left(data, j + 1) : x < b + 8
    <2> SUFFICES ASSUME NEW k \in (j + 1) + 1 .. Len(data),
                        NEW e \in Bits(data[k])
                 PROVE  8 * (Len(data) - k) + e + 16 < b + 8
        BY DEF Left
    <2>1. e \in 0 .. 7
        BY BitsType
    <2> QED
        BY <1>1, <2>1
<1>4. high \in SUBSET Int /\ c \in SUBSET Int
    BY BitsType DEF Register
<1>5. ASSUME NEW x \in Int
      PROVE  x \in Left(data, j)
                <=> (x \in Left(data, j + 1) <=> x \notin Shifted(high, b))
    <2>1. x \in Shifted(high, b) <=> \E e \in Bits(data[j + 1]) :
                                        x = 8 * (Len(data) - (j + 1)) + e + 16
        <3>1. \A e \in Bits(data[j + 1]) :
                 (e + 8) + b = 8 * (Len(data) - (j + 1)) + e + 16
            BY <1>1, BitsType
        <3> QED
            BY <3>1 DEF Shifted
    <2>2. x \in Left(data, j) <=> x \in Left(data, j + 1)
                                    \/ x \in Shifted(high, b)
        <3>1. j + 1 .. Len(data)
                 = {j + 1} \union ((j + 1) + 1 .. Len(data))
            BY <1>1
        <3> HIDE DEF high, b
        <3> QED
            BY <2>1, <3>1, Zenon DEF Left
    <2>3. x \in Shifted(high, b) => x >= b + 8
        <3>1. \A e \in Bits(data[j + 1]) : (e + 8) + b >= b + 8
            BY <1>2, BitsType
        <3> QED
            BY <3>1 DEF Shifted
    <2>4. ~(x \in Left(data, j + 1) /\ x \in Shifted(high, b))
        BY <1>2, <1>3, <2>3
    <2> QED
        BY <2>2, <2>4
<1>6. ASSUME NEW x \in Int
      PROVE  x \in Shifted(Entered(c, data[j + 1]), b)
                <=> (x \in Shifted(c, b) <=> x \notin Shifted(high, b))
    <2>1. Entered(c, data[j + 1]) \in SUBSET Int
        BY EnteredType DEF Register
    <2>2. x \in Shifted(Entered(c, data[j + 1]), b)
             <=> x - b \in Entered(c, data[j + 1])
        BY <1>2, <2>1, ShiftedMember
    <2>3. x \in Shifted(c, b) <=> x - b \in c
        BY <1>2, <1>4, ShiftedMember
    <2>4. x \in Shifted(high, b) <=> x - b \in high
        BY <1>2, <1>4, ShiftedMember
    <2>5. x - b \in Entered(c, data[j + 1])
             <=> (x - b \in c <=> x - b \notin high)
        BY Zenon DEF Entered, Plus
    <2> QED
        BY <2>2, <2>3, <2>4, <2>5
<1>7. ASSUME NEW x \in Int
      PROVE  x \in Plus(Left(data, j), Shifted(c, b)) <=>
             x \in Plus(Left(data, j + 1), Shifted(Entered(c, data[j + 1]), b))
    <2> DEFINE P == x \in Left(data, j)
               Q == x \in Left(data, j + 1)
               R == x \in Shifted(c, b)
               S == x \in Shifted(Entered(c, data[j + 1]), b)
    <2>1. x \in Plus(Left(data, j), Shifted(c, b)) <=> (P <=> ~R)
        BY PlusMember
    <2>2. x \in Plus(Left(data, j + 1), Shifted(Entered(c, data[j + 1]), b))
             <=> (Q <=> ~S)
        BY PlusMember
    <2>3. (P <=> ~R) <=> (Q <=> ~S)
        BY <1>5, <1>6
    <2> HIDE DEF P, Q, R, S
    <2> QED
        BY <2>1, <2>2, <2>3
<1>8. /\ Plus(Left(data, j), Shifted(c, b)) \in SUBSET Int
      /\ Plus(Left(data, j + 1), Shifted(Entered(c, data[j + 1]), b))
            \in SUBSET Int
    <2>1. Left(data, j) \in SUBSET Int /\ Left(data, j + 1) \in SUBSET Int
        BY DEF Left
    <2>2. Entered(c, data[j + 1]) \in SUBSET Int
        BY EnteredType DEF Register
    <2>3. /\ Shifted(c, b) \in SUBSET Int
          /\ Shifted(Entered(c, data[j + 1]), b) \in SUBSET Int
        BY <1>2, <1>4, <2>2, ShiftedType
    <2> QED
        BY <2>1, <2>3, Zenon DEF Plus
<1> QED
    BY <1>3, <1>7, <1>8

\* Eight steps of the division are one byte of the host.
LEMMA OneByte ==
    ASSUME NEW data \in Seq(Bytes), NEW j \in 0 .. Len(data), j < Len(data),
           NEW c \in Register, NEW rest,
           \A n \in 1 .. 8 * Len(data) :
              rest[n] = Reduced(rest[n - 1], 8 * Len(data) + 16 - n),
           rest[8 * j] = Plus(Left(data, j), Shifted(c, 8 * (Len(data) - j)))
    PROVE  rest[8 * (j + 1)]
              = Plus(Left(data, j + 1),
                     Shifted(CrcByte(c, data[j + 1]), 8 * (Len(data) - (j + 1))))
<1>1. Len(data) \in Nat /\ j \in Nat
    BY LenProperties
<1> DEFINE b == 8 * (Len(data) - j)
<1>2. PICK reg \in [0 .. 8 -> Register] :
         /\ reg[0] = Entered(c, data[j + 1])
         /\ \A k \in 1 .. 8 : reg[k] = CrcShift(reg[k - 1])
         /\ CrcByte(c, data[j + 1]) = reg[8]
    BY ByteByBits
<1> DEFINE Is(i) == rest[8 * j + i]
                       = Plus(Left(data, j + 1), Shifted(reg[i], b - i))
           S == { i \in 0 .. 8 : Is(i) }
<1>3. 0 \in S
    <2>1. 8 * j + 0 = 8 * j /\ b - 0 = b /\ b \in Int
        BY <1>1
    <2>2. rest[8 * j] = Plus(Left(data, j + 1), Shifted(reg[0], b))
        BY <1>2, LeftStep
    <2> HIDE DEF b
    <2>3. Is(0)
        BY <2>1, <2>2
    <2> QED
        BY <2>3
<1>4. ASSUME NEW i \in 1 .. 8, i - 1 \in S
      PROVE  i \in S
    <2> DEFINE p == b - (i - 1)
    <2>1. b \in Int /\ p \in Int /\ p - 1 = b - i /\ p >= b - 7
        BY <1>1
    <2>2. /\ 8 * j + i \in 1 .. 8 * Len(data)
          /\ (8 * j + i) - 1 = 8 * j + (i - 1)
          /\ 8 * Len(data) + 16 - (8 * j + i) = p + 15
        BY <1>1
    <2>3. rest[8 * j + i] = Reduced(rest[8 * j + (i - 1)], p + 15)
        BY <2>2
    <2>4. rest[8 * j + (i - 1)]
             = Plus(Left(data, j + 1), Shifted(reg[i - 1], p))
        BY <1>4
    <2>5. \A x \in Left(data, j + 1) : x < p + 15
        <3>1. \A x \in Left(data, j + 1) : x \in Int /\ x < b + 8
            BY LeftStep DEF Left
        <3> HIDE DEF b, p
        <3> QED
            BY <2>1, <3>1
    <2>6. /\ reg[i - 1] \in Register /\ Left(data, j + 1) \in SUBSET Int
          /\ reg[i] = CrcShift(reg[i - 1])
        BY <1>2 DEF Left
    <2> HIDE DEF p
    <2>7. Reduced(Plus(Left(data, j + 1), Shifted(reg[i - 1], p)), p + 15)
             = Plus(Left(data, j + 1), Shifted(CrcShift(reg[i - 1]), p - 1))
        BY <2>1, <2>5, <2>6, OneBit
    <2>8. Is(i)
        BY <2>1, <2>3, <2>4, <2>6, <2>7
    <2> QED
        BY <2>8
<1>5. 8 \in S
    <2>1. 0 .. 8 \subseteq S
        <3> HIDE DEF S
        <3> QED
            BY <1>3, <1>4, BoundedInduction
    <2> QED
        BY <2>1
<1>6. 8 * j + 8 = 8 * (j + 1) /\ b - 8 = 8 * (Len(data) - (j + 1))
    BY <1>1
<1>7. Is(8)
    BY <1>5
<1> HIDE DEF b
<1> QED
    BY <1>2, <1>6, <1>7

\* The CRC jl_crc16_seed computes bit by bit, with any start value, is the
\* remainder of the data, shifted by 16 and with the start value added to its
\* highest powers, by x^16 + x^12 + x^5 + 1: host and device agree on the
\* checksum of every byte string.
THEOREM CrcIsTheRemainder ==
    ASSUME NEW data \in Seq(Bytes), NEW seed \in Register
    PROVE  Crc16Seed(data, seed) = Crc(data, seed)
<1>1. Len(data) \in Nat
    BY LenProperties
<1> DEFINE width == 8 * Len(data)
           dividend == Plus(Shifted(Message(data), 16), Shifted(seed, width))
<1>2. width \in Nat
    BY <1>1
<1>3. dividend = Plus(Left(data, 0), Shifted(seed, 8 * (Len(data) - 0)))
    BY <1>1, LeftEnds
<1>4. dividend \in SUBSET Nat
    <2>1. Shifted(seed, width) \in SUBSET Nat
        BY <1>2 DEF Shifted, Register
    <2>2. Left(data, 0) \in SUBSET Nat
        <3> SUFFICES ASSUME NEW k \in 0 + 1 .. Len(data),
                            NEW e \in Bits(data[k])
                     PROVE  8 * (Len(data) - k) + e + 16 \in Nat
            BY DEF Left
        <3>1. e \in 0 .. 7
            BY BitsType
        <3> QED
            BY <1>1, <3>1
    <2> QED
        BY <2>1, <2>2, LeftEnds, Zenon DEF Plus
<1>5. PICK rest \in [0 .. width -> SUBSET Int] :
         /\ rest[0] = dividend
         /\ \A n \in 1 .. width :
               rest[n] = Reduced(rest[n - 1], width + 16 - n)
         /\ Remainder(dividend, width) = rest[width]
    <2> HIDE DEF width, dividend
    <2> QED
        BY <1>2, <1>4, DivisionBySteps
<1>6. PICK reg \in [0 .. Len(data) -> Register] :
         /\ reg[0] = seed
         /\ \A n \in 1 .. Len(data) : reg[n] = CrcByte(reg[n - 1], data[n])
         /\ Crc16Seed(data, seed) = reg[Len(data)]
    BY SeedByBytes
<1> DEFINE Is(j) == rest[8 * j] = Plus(Left(data, j),
                                       Shifted(reg[j], 8 * (Len(data) - j)))
           S == { j \in 0 .. Len(data) : Is(j) }
<1>7. 0 \in S
    <2>1. 8 * 0 = 0
        OBVIOUS
    <2> HIDE DEF dividend
    <2> QED
        BY <1>1, <1>3, <1>5, <1>6, <2>1
<1>8. ASSUME NEW n \in 1 .. Len(data), n - 1 \in S
      PROVE  n \in S
    <2> DEFINE j == n - 1
    <2>1. j \in 0 .. Len(data) /\ j < Len(data) /\ j + 1 = n
        BY <1>1
    <2>2. reg[j] \in Register /\ reg[n] = CrcByte(reg[j], data[n])
        BY <1>6, <2>1
    <2>3. Is(j)
        BY <1>8
    <2> HIDE DEF j
    <2>4. \A m \in 1 .. 8 * Len(data) :
             rest[m] = Reduced(rest[m - 1], 8 * Len(data) + 16 - m)
        BY <1>5
    <2>5. rest[8 * (j + 1)]
             = Plus(Left(data, j + 1),
                    Shifted(CrcByte(reg[j], data[j + 1]),
                            8 * (Len(data) - (j + 1))))
        BY <2>1, <2>2, <2>3, <2>4, OneByte
    <2>6. Is(n)
        BY <2>1, <2>2, <2>5
    <2> QED
        BY <2>6
<1>9. Len(data) \in S
    <2>1. 0 .. Len(data) \subseteq S
        <3> HIDE DEF S
        <3> QED
            BY <1>1, <1>7, <1>8, BoundedInduction
    <2>2. Len(data) \in 0 .. Len(data)
        BY <1>1
    <2> HIDE DEF S
    <2> QED
        BY <2>1, <2>2
<1>10. rest[width] = reg[Len(data)]
    <2>1. rest[width] = Plus({}, Shifted(reg[Len(data)], 0))
        <3>1. Len(data) - Len(data) = 0 /\ 8 * 0 = 0
            BY <1>1
        <3> QED
            BY <1>9, <3>1, LeftEnds
    <2>2. reg[Len(data)] \in SUBSET Int
        <3>1. Len(data) \in 0 .. Len(data)
            BY <1>1
        <3>2. reg[Len(data)] \in Register
            BY <1>6, <3>1
        <3> QED
            BY <3>2 DEF Register
    <2>3. Shifted(reg[Len(data)], 0) = reg[Len(data)]
        BY <2>2 DEF Shifted
    <2> QED
        BY <2>1, <2>3, Zenon DEF Plus
<1> QED
    BY <1>5, <1>6, <1>10 DEF Crc

=============================================================================
