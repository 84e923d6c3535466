---------------------------- MODULE SignalProofs ----------------------------
(***************************************************************************)
(* Proofs about SignalCodec and SignalStream: dbc_codegen.py and           *)
(* extract_raw_signal together read every signal from the bits the DBC     *)
(* gives it, and the counter its sender wrote.  Bytes have eight bits; a   *)
(* frame has any number of bytes.                                          *)
(***************************************************************************)
EXTENDS SignalStream, CounterProofs, WellFoundedInduction

\* walk numbers the signal's bits, all of them in the frame, from start_bit on.
Numbers(s, walk) ==
    /\ walk \in [0 .. s.length - 1 -> Bit]
    /\ walk[0] = s.start_bit
    /\ \A i \in 1 .. s.length - 1 : walk[i] = Beside(s, walk[i - 1])

\* Every set of natural numbers has a least member.
LEMMA LeastNumber ==
    ASSUME NEW T, T \subseteq Nat, T # {}
    PROVE  \E x \in T : \A y \in T : x <= y
<1> DEFINE R == {ss \in Nat \X Nat : ss[1] < ss[2]}
<1>1. IsWellFoundedOn(R, Nat)
  BY NatLessThanWellFounded DEF OpToRel
<1> HIDE DEF R
<1>2. PICK x \in T : \A y \in T : ~ (<<y, x>> \in R)
  BY <1>1, WFMin
<1>3. \A y \in T : ~ (y < x)
  BY <1>2 DEF R
<1> QED
  BY <1>3

\* One step down a big-endian signal is one step up in the numbering of
\* extract_raw_signal.
LEMMA BelowIsNext ==
    ASSUME ByteBits = 8, NEW b \in Nat
    PROVE  Turned(Below(b)) = Turned(b) + 1
BY DEF Turned, Below

\* The i-th bit of the signal is i places after its first one.
LEMMA WalkIsStraight ==
    ASSUME ByteBits = 8, NEW s \in Configs, NEW walk, Numbers(s, walk)
    PROVE  \A i \in 0 .. s.length - 1 :
              IF s.is_big_endian THEN Turned(walk[i]) = Turned(s.start_bit) + i
                                 ELSE walk[i] = s.start_bit + i
<1> DEFINE Straight(i) == IF s.is_big_endian
                            THEN Turned(walk[i]) = Turned(s.start_bit) + i
                            ELSE walk[i] = s.start_bit + i
           T == {i \in 0 .. s.length - 1 : ~ Straight(i)}
<1>1. s.length \in Nat /\ s.start_bit \in Nat /\ Width \in Nat /\ s.is_big_endian \in BOOLEAN
  BY SizeAssumption DEF Configs, Bit, Width
<1>2. SUFFICES ASSUME T # {}
               PROVE  FALSE
  OBVIOUS
<1>3. T \subseteq Nat
  BY <1>1
<1> HIDE DEF T
<1>4. PICK i \in T : \A j \in T : i <= j
  BY <1>2, <1>3, LeastNumber
<1> USE DEF T
<1>5. i \in 0 .. s.length - 1 /\ ~ Straight(i)
  BY <1>4
<1>6. CASE i = 0
  <2>1. walk[0] = s.start_bit
    BY DEF Numbers
  <2>2. Turned(s.start_bit) \in Int
    BY <1>1 DEF Turned
  <2> QED
    BY <1>1, <1>5, <1>6, <2>1, <2>2
<1>7. CASE i # 0
  <2>1. i - 1 \in 0 .. s.length - 1 /\ i \in 1 .. s.length - 1 /\ i - 1 < i
    BY <1>1, <1>5, <1>7
  <2>2. Straight(i - 1)
    BY <1>4, <2>1
  <2>3. walk[i - 1] \in Nat
    BY <1>1, <2>1 DEF Numbers, Bit
  <2>4. walk[i] = Beside(s, walk[i - 1])
    BY <2>1 DEF Numbers
  <2>5. CASE s.is_big_endian
    <3>1. Turned(walk[i]) = Turned(walk[i - 1]) + 1
      BY <2>3, <2>4, <2>5, BelowIsNext DEF Beside
    <3>2. Turned(s.start_bit) \in Int
      BY <1>1 DEF Turned
    <3> QED
      BY <1>5, <2>1, <2>2, <2>5, <3>1, <3>2
  <2>6. CASE ~ s.is_big_endian
    BY <1>1, <1>5, <2>1, <2>2, <2>4, <2>6 DEF Beside
  <2> QED
    BY <1>1, <2>5, <2>6
<1> QED
  BY <1>6, <1>7
-----------------------------------------------------------------------------
\* The place in the container, after the shift, of each bit of the signal.
LEMMA ShiftFits ==
    ASSUME ByteBits = 8, NEW s \in Configs, NEW walk, Numbers(s, walk),
           NEW k \in 0 .. s.length - 1
    PROVE  LET n == walk[Place(s, k)]
               j == k + Shift(Registered(s))
           IN  /\ n \in Bit
               /\ j = IF s.is_big_endian THEN Width - 1 - Turned(n) ELSE n
<1>1. /\ s.length \in 1 .. Width /\ s.start_bit \in Bit /\ Width \in Nat
      /\ s.is_big_endian \in BOOLEAN
  BY SizeAssumption DEF Configs, Bit, Width
<1>2. Place(s, k) \in 0 .. s.length - 1
  BY <1>1 DEF Place
<1>3. walk[Place(s, k)] \in Bit
  BY <1>2 DEF Numbers
<1>4. /\ Registered(s).is_big_endian = s.is_big_endian
      /\ Registered(s).length = s.length
      /\ Registered(s).start_bit = final_start_bit(s)
  BY DEF Registered, Configs
<1>5. CASE s.is_big_endian
  <2>1. Turned(walk[Place(s, k)]) = Turned(s.start_bit) + (s.length - 1 - k)
    BY <1>2, <1>5, WalkIsStraight DEF Place
  <2>2. Turned(s.start_bit) \in Int
    BY <1>1 DEF Turned, Bit
  <2>3. Shift(Registered(s)) = (Width - 1 - Turned(s.start_bit)) - s.length + 1
    BY <1>4, <1>5 DEF Shift, final_start_bit
  <2> QED
    BY <1>1, <1>3, <1>5, <2>1, <2>2, <2>3
<1>6. CASE ~ s.is_big_endian
  <2>1. walk[Place(s, k)] = s.start_bit + k
    BY <1>2, <1>6, WalkIsStraight DEF Place
  <2>2. Shift(Registered(s)) = s.start_bit
    BY <1>4, <1>6 DEF Shift, final_start_bit
  <2> QED
    BY <1>1, <1>3, <1>6, <2>1, <2>2 DEF Bit
<1> QED
  BY <1>1, <1>5, <1>6

\* In the big-endian container bit n of the DBC is as far from the top as its
\* number, turned, is from zero.
LEMMA BigEndianHolds ==
    ASSUME ByteBits = 8, NEW data \in Payloads, NEW n \in Bit
    PROVE  BigEndian(data)[Width - 1 - Turned(n)] = data[n \div 8][n % 8]
<1> DEFINE j == Width - 1 - Turned(n)
<1>1. /\ Bytes \in Nat /\ Width = Bytes * 8 /\ n \in Nat /\ n < Width
      /\ Turned(n) = (n \div 8) * 8 + (7 - (n % 8))
  BY SizeAssumption DEF Width, Bit, Turned
<1>2. j \in Bit /\ Bytes - 1 - (j \div 8) = n \div 8 /\ j % 8 = n % 8
  BY <1>1 DEF Bit
<1> HIDE DEF j
<1>3. BigEndian(data)[j] = data[Bytes - 1 - (j \div 8)][j % 8]
  BY <1>2 DEF BigEndian
<1> QED
  BY <1>2, <1>3 DEF j

LEMMA LittleEndianHolds ==
    ASSUME ByteBits = 8, NEW data \in Payloads, NEW n \in Bit
    PROVE  LittleEndian(data)[n] = data[n \div 8][n % 8]
BY DEF LittleEndian

\* Every signal that lies in the frame: the shift is one that C++ defines, and
\* bit k of the value is the bit of the frame the DBC gives that place; above
\* the signal are zeros, or copies of its highest bit if it is signed.
THEOREM ReadsItsBits ==
    ASSUME ByteBits = 8, NEW s \in Configs, NEW data \in Payloads,
           NEW walk, Numbers(s, walk)
    PROVE  LET bit(k) == data[walk[Place(s, k)] \div 8][walk[Place(s, k)] % 8]
           IN  /\ ShiftDefined(Registered(s))
               /\ \A k \in 0 .. s.length - 1 :
                     extract_raw_signal(data, Registered(s))[k] = bit(k)
               /\ \A k \in s.length .. Width - 1 :
                     extract_raw_signal(data, Registered(s))[k]
                         = (s.is_signed /\ bit(s.length - 1))
<1> DEFINE r == Registered(s)
           container == IF r.is_big_endian THEN BigEndian(data) ELSE LittleEndian(data)
           raw == Masked(ShiftedRight(container, Shift(r)), r.length)
           bit(k) == data[walk[Place(s, k)] \div 8][walk[Place(s, k)] % 8]
<1>1. /\ s.length \in 1 .. Width /\ Width \in Nat
      /\ s.is_big_endian \in BOOLEAN /\ s.is_signed \in BOOLEAN
  BY SizeAssumption DEF Configs, Width
<1>2. /\ r.is_big_endian = s.is_big_endian
      /\ r.length = s.length
      /\ r.is_signed = s.is_signed
  BY DEF Registered, Configs
<1>3. Shift(r) \in Int
  <2>1. s.start_bit \in Nat
    BY DEF Configs, Bit
  <2>2. r.start_bit \in Int
    BY <2>1 DEF Registered, final_start_bit, Turned, Configs
  <2> QED
    BY <1>1, <1>2, <2>1, <2>2 DEF Shift
<1>4. \A k \in 0 .. s.length - 1 :
          /\ walk[Place(s, k)] \in Bit
          /\ k + Shift(r) = IF s.is_big_endian THEN Width - 1 - Turned(walk[Place(s, k)])
                                               ELSE walk[Place(s, k)]
  BY ShiftFits
<1>5. \A k \in 0 .. s.length - 1 : k + Shift(r) \in Bit
  <2>1. \A n \in Bit : Width - 1 - Turned(n) \in Bit
    BY <1>1, SizeAssumption DEF Bit, Turned, Width
  <2> QED
    BY <1>1, <1>4, <2>1
<1>6. ShiftDefined(r)
  BY <1>1, <1>3, <1>5 DEF ShiftDefined
<1>7. \A k \in 0 .. s.length - 1 : container[k + Shift(r)] = bit(k)
  <2>1. TAKE k \in 0 .. s.length - 1
  <2>2. CASE s.is_big_endian
    BY <1>2, <1>4, <2>2, BigEndianHolds
  <2>3. CASE ~ s.is_big_endian
    BY <1>2, <1>4, <2>3, LittleEndianHolds
  <2> QED
    BY <1>1, <2>2, <2>3
<1> HIDE DEF container, bit, r
<1>8. \A k \in 0 .. s.length - 1 : bit(k) \in BOOLEAN
  <2>1. \A n \in Bit : data[n \div 8][n % 8] \in BOOLEAN
    BY SizeAssumption DEF Bit, Width, Payloads
  <2> QED
    BY <1>4, <2>1 DEF bit
<1>9. \A k \in Bit : raw[k] = (k < s.length /\ k + Shift(r) < Width /\ container[k + Shift(r)])
  BY <1>2 DEF Masked, ShiftedRight
<1>10. \A k \in 0 .. s.length - 1 : raw[k] = bit(k)
  <2>1. TAKE k \in 0 .. s.length - 1
  <2>2. k \in Bit /\ k < s.length /\ k + Shift(r) < Width
    BY <1>1, <1>3, <1>5 DEF Bit
  <2> QED
    BY <1>7, <1>8, <1>9, <2>2
<1>11. \A k \in s.length .. Width - 1 : raw[k] = FALSE
  <2>1. TAKE k \in s.length .. Width - 1
  <2>2. k \in Bit /\ ~ (k < s.length)
    BY <1>1 DEF Bit
  <2> QED
    BY <1>9, <2>2
<1>12. extract_raw_signal(data, r) =
          IF s.is_signed /\ s.length < Width THEN SignExtended(raw, s.length) ELSE raw
  BY <1>2 DEF extract_raw_signal, container
<1> HIDE DEF raw
<1>13. CASE s.is_signed /\ s.length < Width
  <2>1. \A k \in Bit : extract_raw_signal(data, r)[k] =
                           raw[IF k < s.length THEN k ELSE s.length - 1]
    BY <1>12, <1>13 DEF SignExtended
  <2>2. \A k \in 0 .. s.length - 1 : extract_raw_signal(data, r)[k] = bit(k)
    BY <1>1, <1>10, <2>1 DEF Bit
  <2>3. \A k \in s.length .. Width - 1 :
            extract_raw_signal(data, r)[k] = bit(s.length - 1)
    BY <1>1, <1>10, <2>1 DEF Bit
  <2>4. bit(s.length - 1) \in BOOLEAN
    BY <1>1, <1>8
  <2> QED
    BY <1>6, <1>13, <2>2, <2>3, <2>4 DEF bit, r
<1>14. CASE ~ (s.is_signed /\ s.length < Width)
  <2>1. extract_raw_signal(data, r) = raw
    BY <1>12, <1>14
  <2>2. \A k \in s.length .. Width - 1 : ~ s.is_signed
    BY <1>1, <1>14
  <2> QED
    BY <1>6, <1>10, <1>11, <2>1, <2>2 DEF bit, r
<1> QED
  BY <1>13, <1>14
-----------------------------------------------------------------------------
\* The recursion that defines Walk has a solution, so Walk satisfies it.
LEMMA WalkSteps ==
    ASSUME ByteBits = 8, NEW s \in Configs
    PROVE  Walk(s) = [i \in 0 .. s.length - 1 |->
                         IF i = 0 THEN s.start_bit ELSE Beside(s, Walk(s)[i - 1])]
<1> DEFINE Solves(f) == f = [i \in 0 .. s.length - 1 |->
                                IF i = 0 THEN s.start_bit ELSE Beside(s, f[i - 1])]
           straight == [i \in 0 .. s.length - 1 |->
                           IF s.is_big_endian THEN Turned(Turned(s.start_bit) + i)
                                              ELSE s.start_bit + i]
<1>1. s.length \in Nat /\ s.start_bit \in Nat /\ s.is_big_endian \in BOOLEAN
  BY SizeAssumption DEF Configs, Bit, Width
<1>2. \A b \in Nat : /\ Turned(b) \in Nat
                     /\ Turned(Turned(b)) = b
                     /\ Below(Turned(b)) = Turned(b + 1)
  BY DEF Turned, Below
<1>3. ASSUME NEW i \in 0 .. s.length - 1
      PROVE  straight[i] = IF i = 0 THEN s.start_bit ELSE Beside(s, straight[i - 1])
  <2>1. CASE i = 0
    <3>1. Turned(s.start_bit) + 0 = Turned(s.start_bit) /\ s.start_bit + 0 = s.start_bit
      BY <1>1, <1>2
    <3>2. straight[0] = s.start_bit
      BY <1>1, <1>2, <2>1, <3>1
    <3> QED
      BY <2>1, <3>2
  <2>2. CASE i # 0 /\ s.is_big_endian
    <3>1. i - 1 \in 0 .. s.length - 1 /\ Turned(s.start_bit) + (i - 1) \in Nat
      BY <1>1, <1>2, <2>2
    <3>2. (Turned(s.start_bit) + (i - 1)) + 1 = Turned(s.start_bit) + i
      BY <1>1, <1>2
    <3>3. Below(straight[i - 1]) = straight[i]
      BY <1>2, <2>2, <3>1, <3>2
    <3> QED
      BY <2>2, <3>3 DEF Beside
  <2>3. CASE i # 0 /\ ~ s.is_big_endian
    BY <1>1, <2>3 DEF Beside
  <2> QED
    BY <1>1, <2>1, <2>2, <2>3
<1>4. Solves(straight)
  BY <1>3
<1>5. Walk(s) = CHOOSE f : Solves(f)
  BY DEF Walk
<1> HIDE DEF Solves
<1>6. Solves(Walk(s))
  BY <1>4, <1>5
<1> QED
  BY <1>6 DEF Solves

LEMMA WalkNumbers ==
    ASSUME ByteBits = 8, NEW s \in Configs, BitsOf(s) \subseteq Bit
    PROVE  Numbers(s, Walk(s))
<1>1. s.length \in 1 .. Width /\ Width \in Nat
  BY SizeAssumption DEF Configs, Width
<1>2. DOMAIN Walk(s) = 0 .. s.length - 1
  BY WalkSteps
<1>3. \A i \in 0 .. s.length - 1 : Walk(s)[i] \in Bit
  BY DEF BitsOf
<1>4. Walk(s) = [i \in 0 .. s.length - 1 |-> Walk(s)[i]]
  BY WalkSteps
<1>5. Walk(s)[0] = s.start_bit
  BY <1>1, WalkSteps
<1>6. \A i \in 1 .. s.length - 1 : Walk(s)[i] = Beside(s, Walk(s)[i - 1])
  BY <1>1, WalkSteps
<1> QED
  BY <1>3, <1>4, <1>5, <1>6 DEF Numbers
-----------------------------------------------------------------------------
\* The value read is the value meant: equal bit by bit.
LEMMA ReadIsMeant ==
    ASSUME ByteBits = 8, NEW s \in Configs, BitsOf(s) \subseteq Bit, NEW data \in Payloads
    PROVE  /\ ShiftDefined(Registered(s))
           /\ extract_raw_signal(data, Registered(s)) = Meant(data, s)
<1> DEFINE raw == extract_raw_signal(data, Registered(s))
           bit(k) == data[Walk(s)[Place(s, k)] \div 8][Walk(s)[Place(s, k)] % 8]
<1>1. /\ ShiftDefined(Registered(s))
      /\ \A k \in 0 .. s.length - 1 : raw[k] = bit(k)
      /\ \A k \in s.length .. Width - 1 : raw[k] = (s.is_signed /\ bit(s.length - 1))
  BY WalkNumbers, ReadsItsBits
<1>2. s.length \in 1 .. Width /\ Width \in Nat
  BY SizeAssumption DEF Configs, Width
<1>3. raw = [k \in Bit |-> raw[k]]
  BY DEF extract_raw_signal, SignExtended, Masked
<1> HIDE DEF raw
<1>4. Meant(data, s) =
          [k \in Bit |-> IF k < s.length THEN bit(k) ELSE s.is_signed /\ bit(s.length - 1)]
  BY DEF Meant
<1> HIDE DEF bit
<1>5. \A k \in Bit :
          raw[k] = IF k < s.length THEN bit(k) ELSE s.is_signed /\ bit(s.length - 1)
  <2>1. TAKE k \in Bit
  <2>2. CASE k < s.length
    <3>1. k \in 0 .. s.length - 1
      BY <1>2, <2>2 DEF Bit
    <3> QED
      BY <1>1, <2>2, <3>1
  <2>3. CASE ~ (k < s.length)
    <3>1. k \in s.length .. Width - 1
      BY <1>2, <2>3 DEF Bit
    <3> QED
      BY <1>1, <2>3, <3>1
  <2> QED
    BY <2>2, <2>3
<1>6. raw = Meant(data, s)
  BY <1>3, <1>4, <1>5
<1> QED
  BY <1>1, <1>6 DEF raw

LEMMA FrameIsPayload ==
    ASSUME NEW pattern \in Patterns
    PROVE  Frame(pattern) \in Payloads
<1>1. pattern \in Payloads
  BY StreamAssumption
<1>2. \A i \in 0 .. Bytes - 1, b \in 0 .. ByteBits - 1 : pattern[i][b] \in BOOLEAN
  BY <1>1 DEF Payloads
<1> DEFINE bit(i, b) == IF i * ByteBits + b \in CounterBits(counter_start)
                          THEN (next \div 2 ^ ((i * ByteBits + b) - counter_start)) % 2 = 1
                          ELSE pattern[i][b]
<1>3. \A i \in 0 .. Bytes - 1, b \in 0 .. ByteBits - 1 : bit(i, b) \in BOOLEAN
  BY <1>2
<1>4. Frame(pattern) = [i \in 0 .. Bytes - 1 |-> [b \in 0 .. ByteBits - 1 |-> bit(i, b)]]
  BY DEF Frame
<1> HIDE DEF bit
<1> QED
  BY <1>3, <1>4 DEF Payloads

\* Wherever the DBC puts a signal, in frames of any number of bytes and
\* whatever frames are lost, the value shown is the value sent.
THEOREM Shown == ASSUME ByteBits = 8 PROVE SignalSpec => []ShownAsMeant
<1> DEFINE Inv == agrees = TRUE /\ sg \in Configs /\ BitsOf(sg) \subseteq Bit
<1>1. SignalInit => Inv
  BY DEF SignalInit
<1>2. Inv /\ [SignalNext]_signalVars => Inv'
  <2>1. SUFFICES ASSUME Inv, [SignalNext]_signalVars
                 PROVE  Inv'
    OBVIOUS
  <2>2. sg' = sg
    BY <2>1 DEF SignalNext, Deliver, signalVars, layout
  <2>3. ASSUME NEW pattern \in Patterns, Deliver(Frame(pattern))
        PROVE  agrees' = TRUE
    <3>1. Extractions(Frame(pattern), Registered(sg)) = {Meant(Frame(pattern), sg)}
      BY <2>1, FrameIsPayload, ReadIsMeant DEF Extractions
    <3> QED
      BY <2>1, <2>3, <3>1 DEF Deliver
  <2>4. agrees' = TRUE
    BY <2>1, <2>3 DEF SignalNext, signalVars
  <2> QED
    BY <2>1, <2>2, <2>4
<1>3. Inv => ShownAsMeant
  BY DEF ShownAsMeant
<1> QED
  BY <1>1, <1>2, <1>3, PTL DEF SignalSpec
-----------------------------------------------------------------------------
(***************************************************************************)
(* The counter, written bit by bit and read back, is the one that was sent. *)
(***************************************************************************)

\* A byte is the sum of its bits.
LEMMA ByteIsItsBits ==
    ASSUME NEW n \in 0 .. 255
    PROVE  n = (n % 2) + 2 * ((n \div 2) % 2) + 4 * ((n \div 4) % 2)
                 + 8 * ((n \div 8) % 2) + 16 * ((n \div 16) % 2)
                 + 32 * ((n \div 32) % 2) + 64 * ((n \div 64) % 2)
                 + 128 * ((n \div 128) % 2)
BY SMTT(30)

\* The first powers of two, for an exponent the provers do not see as a number.
LEMMA PowerOf ==
    ASSUME NEW k
    PROVE  /\ k = 0 => 2 ^ k = 1
           /\ k = 1 => 2 ^ k = 2
           /\ k = 2 => 2 ^ k = 4
           /\ k = 3 => 2 ^ k = 8
           /\ k = 4 => 2 ^ k = 16
           /\ k = 5 => 2 ^ k = 32
           /\ k = 6 => 2 ^ k = 64
           /\ k = 7 => 2 ^ k = 128
<1>1. /\ k = 0 => 2 ^ k = 2 ^ 0
      /\ k = 1 => 2 ^ k = 2 ^ 1
      /\ k = 2 => 2 ^ k = 2 ^ 2
      /\ k = 3 => 2 ^ k = 2 ^ 3
      /\ k = 4 => 2 ^ k = 2 ^ 4
      /\ k = 5 => 2 ^ k = 2 ^ 5
      /\ k = 6 => 2 ^ k = 2 ^ 6
      /\ k = 7 => 2 ^ k = 2 ^ 7
  BY Zenon
<1> QED
  BY <1>1, SMT

\* A greater exponent gives a greater power.
LEMMA PowersGrow ==
    ASSUME NEW j \in 0 .. 7, NEW i \in 0 .. j
    PROVE  2 ^ i <= 2 ^ j /\ {2 ^ i, 2 ^ j} \subseteq Nat \ {0}
<1>1. \/ j = 0 \/ j = 1 \/ j = 2 \/ j = 3 \/ j = 4 \/ j = 5 \/ j = 6 \/ j = 7
  OBVIOUS
<1>2. \/ i = 0 \/ i = 1 \/ i = 2 \/ i = 3 \/ i = 4 \/ i = 5 \/ i = 6 \/ i = 7
  OBVIOUS
<1> DEFINE x == 2 ^ i
           y == 2 ^ j
<1>3. /\ (i = 0 => x = 1) /\ (i = 1 => x = 2) /\ (i = 2 => x = 4) /\ (i = 3 => x = 8)
      /\ (i = 4 => x = 16) /\ (i = 5 => x = 32) /\ (i = 6 => x = 64)
      /\ (i = 7 => x = 128)
  BY PowerOf
<1>4. /\ (j = 0 => y = 1) /\ (j = 1 => y = 2) /\ (j = 2 => y = 4) /\ (j = 3 => y = 8)
      /\ (j = 4 => y = 16) /\ (j = 5 => y = 32) /\ (j = 6 => y = 64)
      /\ (j = 7 => y = 128)
  BY PowerOf
<1> HIDE DEF x, y
<1>5. x <= y /\ x \in Nat \ {0} /\ y \in Nat \ {0}
  BY <1>1, <1>2, <1>3, <1>4
<1> QED
  BY <1>5 DEF x, y

\* Bit k of n, with its weight.
Weighed(n, k) == IF (n \div 2 ^ k) % 2 = 1 THEN 2 ^ k ELSE 0

\* So a byte is the sum of what its bits weigh.
LEMMA WeightsAdd ==
    ASSUME NEW n \in 0 .. 255
    PROVE  n = Weighed(n, 0) + Weighed(n, 1) + Weighed(n, 2) + Weighed(n, 3)
                 + Weighed(n, 4) + Weighed(n, 5) + Weighed(n, 6) + Weighed(n, 7)
<1>1. \A m \in Nat : m % 2 \in {0, 1}
  OBVIOUS
<1>2. /\ Weighed(n, 0) = n % 2 /\ Weighed(n, 1) = 2 * ((n \div 2) % 2)
      /\ Weighed(n, 2) = 4 * ((n \div 4) % 2) /\ Weighed(n, 3) = 8 * ((n \div 8) % 2)
  BY <1>1 DEF Weighed
<1>3. /\ Weighed(n, 4) = 16 * ((n \div 16) % 2) /\ Weighed(n, 5) = 32 * ((n \div 32) % 2)
      /\ Weighed(n, 6) = 64 * ((n \div 64) % 2) /\ Weighed(n, 7) = 128 * ((n \div 128) % 2)
  BY <1>1 DEF Weighed
<1> QED
  BY <1>2, <1>3, ByteIsItsBits

\* A counter has no bits beyond its length.
LEMMA NoHighBits ==
    ASSUME NEW n \in Counters, NEW k \in 0 .. 7, k >= CounterLength
    PROVE  Weighed(n, k) = 0
<1>1. CounterLength \in 1 .. 8 /\ n \in Nat /\ n < 2 ^ CounterLength
  BY StreamAssumption DEF Counters
<1>2. ASSUME NEW a \in Nat \ {0}, n < a
      PROVE  n \div a = 0
  BY <1>1, <1>2
<1>3. 2 ^ CounterLength <= 2 ^ k /\ {2 ^ CounterLength, 2 ^ k} \subseteq Nat \ {0}
  <2>1. CounterLength \in 0 .. k
    BY <1>1
  <2> QED
    BY <2>1, PowersGrow
<1>4. n < 2 ^ k
  BY <1>1, <1>3
<1>5. n \div 2 ^ k = 0
  BY <1>2, <1>3, <1>4
<1> QED
  BY <1>5 DEF Weighed

\* The counter the parser reads is the one the node wrote.
LEMMA CounterIsNext ==
    ASSUME ByteBits = 8, NEW pattern \in Patterns,
           counter_start \in CounterStarts, next \in Counters
    PROVE  CounterOf(Frame(pattern)) = next
<1> DEFINE config == [start_bit |-> counter_start, length |-> CounterLength,
                      is_big_endian |-> FALSE, is_signed |-> FALSE]
           word == extract_raw_signal(Frame(pattern), config)
           bit(k) == IF k \in Bit /\ word[k] THEN 2 ^ k ELSE 0
<1>1. /\ CounterLength \in 1 .. 8 /\ counter_start \in Nat /\ Bytes \in Nat \ {0}
      /\ Width = Bytes * 8 /\ Width \in Nat /\ Width >= 8
      /\ counter_start + CounterLength <= Width
  BY StreamAssumption, SizeAssumption DEF Width
<1>2. word = Masked(ShiftedRight(LittleEndian(Frame(pattern)), counter_start), CounterLength)
  BY DEF extract_raw_signal, Shift
<1>3. ASSUME NEW k \in 0 .. 7
      PROVE  bit(k) = Weighed(next, k)
  <2>1. k \in Bit
    BY <1>1 DEF Bit
  <2>2. word[k] = (k < CounterLength /\ k + counter_start < Width
                     /\ LittleEndian(Frame(pattern))[k + counter_start])
    BY <1>2, <2>1 DEF Masked, ShiftedRight
  <2>3. CASE k < CounterLength
    <3> DEFINE n == k + counter_start
    <3>1. n \in Bit /\ n < Width /\ n \in CounterBits(counter_start) /\ n - counter_start = k
      BY <1>1, <2>3 DEF Bit, CounterBits
    <3>2. n \div 8 \in 0 .. Bytes - 1 /\ n % 8 \in 0 .. 7 /\ (n \div 8) * 8 + (n % 8) = n
      BY <1>1, <3>1
    <3> HIDE DEF n
    <3>3. LittleEndian(Frame(pattern))[n] = Frame(pattern)[n \div 8][n % 8]
      BY <3>1 DEF LittleEndian
    <3>4. Frame(pattern)[n \div 8][n % 8] = ((next \div 2 ^ k) % 2 = 1)
      <4> DEFINE i == n \div 8
                 b == n % 8
      <4>1. i \in 0 .. Bytes - 1 /\ b \in 0 .. ByteBits - 1
        BY <3>2
      <4>2. i * ByteBits + b = n
        BY <3>2
      <4> HIDE DEF i, b
      <4>3. Frame(pattern)[i][b] = IF i * ByteBits + b \in CounterBits(counter_start)
               THEN (next \div 2 ^ ((i * ByteBits + b) - counter_start)) % 2 = 1
               ELSE pattern[i][b]
        BY <4>1 DEF Frame
      <4>4. Frame(pattern)[i][b] = ((next \div 2 ^ k) % 2 = 1)
        BY <3>1, <4>2, <4>3
      <4> QED
        BY <4>4 DEF i, b
    <3>5. word[k] = ((next \div 2 ^ k) % 2 = 1)
      BY <2>2, <2>3, <3>1, <3>3, <3>4 DEF n
    <3> HIDE DEF word
    <3> QED
      BY <2>1, <3>5 DEF Weighed
  <2>4. CASE ~ (k < CounterLength)
    <3>1. k >= CounterLength
      BY <1>1, <2>4
    <3>2. Weighed(next, k) = 0
      BY <3>1, NoHighBits
    <3> QED
      BY <2>2, <2>4, <3>2
  <2> QED
    BY <2>3, <2>4
<1>4. CounterOf(Frame(pattern))
          = bit(0) + bit(1) + bit(2) + bit(3) + bit(4) + bit(5) + bit(6) + bit(7)
  BY DEF CounterOf, Value
<1> HIDE DEF bit
<1>5. next \in 0 .. 255
  BY CounterAssumption DEF Counters
<1>6. /\ bit(0) = Weighed(next, 0) /\ bit(1) = Weighed(next, 1)
      /\ bit(2) = Weighed(next, 2) /\ bit(3) = Weighed(next, 3)
      /\ bit(4) = Weighed(next, 4) /\ bit(5) = Weighed(next, 5)
      /\ bit(6) = Weighed(next, 6) /\ bit(7) = Weighed(next, 7)
  BY <1>3
<1> QED
  BY <1>4, <1>5, <1>6, WeightsAdd

\* Wherever the counter is in the frame, the parser that finds it among the bits
\* behaves as the one that is told it: CounterStream, but for its fairness.
THEOREM ReadsTheCounter ==
    ASSUME ByteBits = 8
    PROVE  SignalSpec => Init /\ [][Next]_streamVars
<1> DEFINE Inv == TypeOK /\ counter_start \in CounterStarts
<1>1. SignalInit => Init /\ Inv
  BY DEF SignalInit, Init, TypeOK
<1>2. Inv /\ [SignalNext]_signalVars => [Next]_streamVars
  <2>1. SUFFICES ASSUME Inv, [SignalNext]_signalVars
                 PROVE  [Next]_streamVars
    OBVIOUS
  <2>2. ASSUME NEW pattern \in Patterns, Deliver(Frame(pattern))
        PROVE  Receive
    <3>1. CounterOf(Frame(pattern)) = next
      BY <2>1, CounterIsNext DEF TypeOK
    <3> QED
      BY <2>2, <3>1 DEF Deliver, Receive
  <2> QED
    BY <2>1, <2>2 DEF SignalNext, Next, signalVars
<1>3. Inv /\ [SignalNext]_signalVars => Inv'
  <2>1. Inv /\ [SignalNext]_signalVars => counter_start' \in CounterStarts
    BY DEF SignalNext, Deliver, signalVars, layout
  <2>2. TypeOK /\ [Next]_streamVars => TypeOK'
    BY CounterStepsTyped
  <2> QED
    BY <1>2, <2>1, <2>2
<1> QED
  BY <1>1, <1>2, <1>3, PTL DEF SignalSpec

\* So what CounterStream promises after a loss holds of the bits too.
THEOREM BlackoutsOfBits ==
    ASSUME ByteBits = 8
    PROVE  SignalSpec => [](TypeOK /\ BlackoutBounded)
<1>1. CounterInv => TypeOK /\ BlackoutBounded
  BY CounterInvBounds DEF CounterInv
<1> QED
  BY <1>1, ReadsTheCounter, InitCounterInv, CounterInvInductive, PTL
=============================================================================
