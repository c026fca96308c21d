--------------------------- MODULE NodeLinkProofs ---------------------------
(***************************************************************************)
(* Proofs about NodeLink, for all entities, numbers and commands.  The     *)
(* invariant LinkInv says of every packet a radio holds what it was made   *)
(* from; the round trips of the wire then say what is read from it.        *)
(***************************************************************************)
EXTENDS NodeLink, DeviceRegistryProofs, SequenceTheorems, TLAPS

-----------------------------------------------------------------------------
(***************************************************************************)
(* The wire: what is written on one side of the radio is what is read on   *)
(* the other, whatever the width of a byte.                                *)
(***************************************************************************)

\* Division with remainder.
LEMMA DivMod ==
    ASSUME NEW a \in Nat, NEW b \in Nat \ {0}
    PROVE  /\ a \div b \in Nat
           /\ a % b \in Nat
           /\ a = (a \div b) * b + (a % b)
  <1>1. /\ a \div b \in Nat
        /\ a % b \in Nat
    BY SMTT(30)
  <1>2. a = b * (a \div b) + (a % b)
    BY SMTT(30)
  <1> QED
    BY <1>1, <1>2, SMTT(30)

\* A quotient is below n when the dividend is below n divisors.
LEMMA QuotientBound ==
    ASSUME NEW a \in Nat, NEW b \in Nat \ {0}, NEW n \in Nat, a < n * b
    PROVE  a \div b < n
  <1>1. SUFFICES ASSUME n <= a \div b PROVE FALSE
    BY DivMod
  <1> DEFINE q == a \div b
  <1>2. /\ q \in Nat
        /\ a >= q * b
    BY DivMod
  <1> HIDE DEF q
  <1>3. n * b <= q * b
    BY <1>1, <1>2, SMTT(30) DEF q
  <1> QED
    BY <1>2, <1>3, SMTT(30)

\* A word has the values of four bytes.
LEMMA WordRangeIs ==
    /\ ByteRange \in Nat \ {0}
    /\ WordRange = ByteRange * ByteRange * ByteRange * ByteRange
    /\ WordRange \in Nat \ {0}
  <1>1. ByteRange \in 2 .. 256
    BY ByteRangeAssumption
  <1>2. WordRange = ByteRange * ByteRange * ByteRange * ByteRange
    BY DEF WordRange, RangeOf
  <1>3. ByteRange * ByteRange \in Nat \ {0}
    BY <1>1
  <1>4. ByteRange * ByteRange * ByteRange \in Nat \ {0}
    BY <1>1, <1>3
  <1>5. ByteRange * ByteRange * ByteRange * ByteRange \in Nat \ {0}
    BY <1>1, <1>4
  <1> QED
    BY <1>1, <1>2, <1>5

-----------------------------------------------------------------------------
\* A word written as four bytes is read back as the same word.
THEOREM WordRoundTrip ==
    ASSUME NEW w \in 0 .. (WordRange - 1)
    PROVE  wordFromBytes(wordToBytes(w), 1) = w
  <1> DEFINE B == ByteRange
             w1 == w \div B
             w2 == w1 \div B
             w3 == w2 \div B
  <1>1. /\ B \in Nat \ {0}
        /\ w \in Nat
        /\ w < ((B * B) * B) * B
    BY WordRangeIs
  <1>2. /\ B * B \in Nat
        /\ (B * B) * B \in Nat
    BY <1>1
  <1> HIDE DEF B
  <1>3. /\ w1 \in Nat
        /\ w1 < (B * B) * B
        /\ w = w1 * B + (w % B)
        /\ w % B \in Nat
    <2>1. /\ w1 \in Nat
          /\ w = w1 * B + (w % B)
          /\ w % B \in Nat
      BY <1>1, DivMod, Zenon
    <2>2. w1 < (B * B) * B
      BY <1>1, <1>2, QuotientBound
    <2> QED
      BY <2>1, <2>2
  <1>4. /\ w2 \in Nat
        /\ w2 < B * B
        /\ w1 = w2 * B + (w1 % B)
        /\ w1 % B \in Nat
    <2> HIDE DEF w1
    <2>1. /\ w2 \in Nat
          /\ w1 = w2 * B + (w1 % B)
          /\ w1 % B \in Nat
      BY <1>1, <1>3, DivMod, Zenon
    <2>2. w2 < B * B
      BY <1>1, <1>2, <1>3, QuotientBound
    <2> QED
      BY <2>1, <2>2
  <1>5. /\ w3 \in Nat
        /\ w3 < B
        /\ w2 = w3 * B + (w2 % B)
        /\ w2 % B \in Nat
    <2> HIDE DEF w1, w2
    <2>1. /\ w3 \in Nat
          /\ w2 = w3 * B + (w2 % B)
          /\ w2 % B \in Nat
      BY <1>1, <1>4, DivMod, Zenon
    <2>2. w3 < B
      BY <1>1, <1>4, QuotientBound
    <2> QED
      BY <2>1, <2>2
  <1>6. w3 % B = w3
    <2> HIDE DEF w3
    <2> QED BY <1>1, <1>5
  <1>7. wordToBytes(w) = <<w3, w2 % B, w1 % B, w % B>>
    BY <1>6 DEF wordToBytes, B
  <1>8. wordFromBytes(wordToBytes(w), 1)
          = ((w3 * B + (w2 % B)) * B + (w1 % B)) * B + (w % B)
    BY <1>7 DEF wordFromBytes, B
  <1> QED
    BY <1>3, <1>4, <1>5, <1>8

\* Every format survives its byte.
THEOREM FormatRoundTrip ==
    ASSUME NEW format \in Formats
    PROVE  fromByte(toByte(format)) = format
  <1>1. /\ format.isSigned \in BOOLEAN
        /\ format.size \in 0 .. 2
        /\ format.precision \in 0 .. 3
        /\ format = [isSigned |-> format.isSigned, size |-> format.size,
                     precision |-> format.precision]
    BY MaxPrecisionAssumption DEF Formats
  <1>2. CASE format.isSigned
    <2>1. toByte(format) = 16 + 4 * format.size + format.precision
      BY <1>2 DEF toByte
    <2>2. /\ (toByte(format) \div 16) % 2 = 1
          /\ toByte(format) % 4 = format.precision
          /\ (toByte(format) \div 4) % 4 = format.size
      BY <1>1, <2>1
    <2>3. ((toByte(format) \div 16) % 2 = 1) = format.isSigned
      BY <1>1, <1>2, <2>2, Zenon
    <2> QED
      BY <1>1, <2>2, <2>3 DEF fromByte
  <1>3. CASE ~ format.isSigned
    <2>1. toByte(format) = 4 * format.size + format.precision
      BY <1>1, <1>3 DEF toByte
    <2>2. /\ (toByte(format) \div 16) % 2 # 1
          /\ toByte(format) % 4 = format.precision
          /\ (toByte(format) \div 4) % 4 = format.size
      BY <1>1, <2>1
    <2>3. ((toByte(format) \div 16) % 2 = 1) = format.isSigned
      BY <1>1, <1>3, <2>2, Zenon
    <2> QED
      BY <1>1, <2>2, <2>3 DEF fromByte
  <1> QED
    BY <1>2, <1>3

-----------------------------------------------------------------------------
\* A signed value survives the cast to a word and back.
LEMMA SignRoundTrip ==
    ASSUME NEW h \in Nat \ {0}, NEW v \in -h .. (h - 1)
    PROVE  signExtend(v % (2 * h), 2 * h) = v
  <1> DEFINE r == 2 * h
  <1>1. CASE v >= 0
    <2>1. v % r = v
      BY <1>1
    <2> QED
      BY <1>1, <2>1 DEF signExtend
  <1>2. CASE v < 0
    <2>1. v % r = v + r
      BY <1>2
    <2>2. (v + r) % r = v + r
      BY <1>2
    <2> QED
      BY <1>2, <2>1, <2>2 DEF signExtend
  <1> QED
    BY <1>1, <1>2

\* A word has a sign bit: the number of its values is even.
LEMMA WordRangeEven == \E h \in Nat : WordRange = 2 * h
  <1>1. PICK k \in Nat : ByteRange = 2 * k
    <2>1. ByteRange \div 2 \in Nat /\ ByteRange = 2 * (ByteRange \div 2)
      BY ByteRangeAssumption
    <2> QED
      BY <2>1
  <1>2. ByteRange * ByteRange * ByteRange \in Nat
    BY WordRangeIs
  <1> DEFINE b3 == ByteRange * ByteRange * ByteRange
  <1>3. WordRange = b3 * ByteRange
    BY WordRangeIs
  <1> HIDE DEF b3
  <1>4. b3 \in Nat
    BY <1>2 DEF b3
  <1>5. WordRange = 2 * (b3 * k) /\ b3 * k \in Nat
    BY <1>1, <1>3, <1>4
  <1> QED
    BY <1>5

\* A word is read wherever its four bytes stand.
LEMMA WordAt ==
    ASSUME NEW w \in 0 .. (WordRange - 1), NEW buf, NEW p \in Nat,
           buf[p] = wordToBytes(w)[1], buf[p + 1] = wordToBytes(w)[2],
           buf[p + 2] = wordToBytes(w)[3], buf[p + 3] = wordToBytes(w)[4]
    PROVE  wordFromBytes(buf, p) = w
  <1>1. wordFromBytes(buf, p) = wordFromBytes(wordToBytes(w), 1)
    BY DEF wordFromBytes
  <1> QED
    BY <1>1, WordRoundTrip

\* A word has four bytes.
LEMMA WordLength ==
    ASSUME NEW w \in Nat
    PROVE  /\ wordToBytes(w) \in Seq(Byte)
           /\ Len(wordToBytes(w)) = 4
  <1> DEFINE w1 == w \div ByteRange
             w2 == w1 \div ByteRange
             w3 == w2 \div ByteRange
  <1>1. ByteRange \in Nat \ {0}
    BY WordRangeIs
  <1>2. w1 \in Nat /\ w % ByteRange \in Nat
    BY <1>1, DivMod, Zenon
  <1>3. w2 \in Nat /\ w1 % ByteRange \in Nat
    BY <1>1, <1>2, DivMod, Zenon
  <1>4. w3 \in Nat /\ w2 % ByteRange \in Nat
    BY <1>1, <1>3, DivMod, Zenon
  <1>5. /\ w3 % ByteRange \in Byte /\ w2 % ByteRange \in Byte
        /\ w1 % ByteRange \in Byte /\ w % ByteRange \in Byte
    BY <1>2, <1>3, <1>4, ByteRangeAssumption DEF Byte
  <1>6. wordToBytes(w) = <<w3 % ByteRange, w2 % ByteRange, w1 % ByteRange, w % ByteRange>>
    BY DEF wordToBytes
  <1> HIDE DEF w1, w2, w3
  <1> QED
    BY <1>5, <1>6

\* The entity and the value of a value item are read as they were written, a
\* negative value with its sign.
THEOREM ValueItemRoundTrip ==
    ASSUME NEW e \in Nat, NEW v \in Int,
           -WordRange <= 2 * v, 2 * v < WordRange
    PROVE  valueItemFromBytes(valueItemToBytes([entityId |-> e, value |-> v]), 1)
             = [entityId |-> e, value |-> v]
  <1> DEFINE w == asWord(v)
             buf == valueItemToBytes([entityId |-> e, value |-> v])
  <1>h. PICK h \in Nat : WordRange = 2 * h
    BY WordRangeEven
  <1>1. /\ h \in Nat \ {0}
        /\ v \in -h .. (h - 1)
    BY <1>h, WordRangeIs
  <1>2. w = v % (2 * h)
    BY <1>h DEF asWord
  <1>3. w \in 0 .. (WordRange - 1)
    BY <1>h, <1>1, <1>2
  <1> HIDE DEF w
  <1>4. w \in Nat
    BY <1>3, WordRangeIs
  <1>5. buf = <<e>> \o wordToBytes(w)
    BY DEF valueItemToBytes, w
  <1> HIDE DEF buf
  <1>6. /\ wordToBytes(w) \in Seq(Byte)
        /\ Len(wordToBytes(w)) = 4
    BY <1>4, WordLength
  <1>7. /\ buf[1] = e
        /\ buf[2] = wordToBytes(w)[1]
        /\ buf[3] = wordToBytes(w)[2]
        /\ buf[4] = wordToBytes(w)[3]
        /\ buf[5] = wordToBytes(w)[4]
    BY <1>5, <1>6
  <1>8. wordFromBytes(buf, 2) = w
    BY <1>3, <1>7, WordAt
  <1>9. signExtend(w, WordRange) = v
    BY <1>h, <1>1, <1>2, SignRoundTrip
  <1> QED
    BY <1>7, <1>8, <1>9 DEF valueItemFromBytes, buf

-----------------------------------------------------------------------------
\* Where the elements of two sequences stand in their concatenation.
LEMMA Concat ==
    ASSUME NEW s \in Seq(Byte), NEW t \in Seq(Byte)
    PROVE  /\ s \o t \in Seq(Byte)
           /\ Len(s \o t) = Len(s) + Len(t)
           /\ \A k \in 1 .. Len(s) : (s \o t)[k] = s[k]
           /\ \A k \in 1 .. Len(t) : (s \o t)[Len(s) + k] = t[k]
  <1>1. s \o t \in Seq(Byte) /\ Len(s \o t) = Len(s) + Len(t)
    BY Zenon, ConcatProperties
  <1>2. ASSUME NEW k \in 1 .. Len(s) PROVE (s \o t)[k] = s[k]
    <2>1. k \in 1 .. Len(s) + Len(t) /\ k <= Len(s)
      OBVIOUS
    <2> QED
      BY <2>1, ConcatProperties, Zenon
  <1>3. ASSUME NEW k \in 1 .. Len(t) PROVE (s \o t)[Len(s) + k] = t[k]
    <2>1. /\ Len(s) + k \in 1 .. Len(s) + Len(t)
          /\ (Len(s) + k) - Len(s) = k
          /\ ~ (Len(s) + k <= Len(s))
      OBVIOUS
    <2>2. (s \o t)[Len(s) + k] = IF Len(s) + k <= Len(s) THEN s[Len(s) + k]
                                 ELSE t[(Len(s) + k) - Len(s)]
      BY <2>1, ConcatProperties, Zenon
    <2> QED
      BY <2>1, <2>2, Zenon
  <1> QED
    BY <1>1, <1>2, <1>3

\* The bytes of an item, position by position.
LEMMA DiscoveryItemBytes ==
    ASSUME NEW item \in Items
    PROVE  LET buf == discoveryItemToBytes(item)
               n == Len(item.name)
           IN  /\ buf \in Seq(Byte)
               /\ Len(buf) = 15 + n
               /\ buf[1] = item.entityId /\ buf[2] = item.domain
               /\ buf[3] = item.deviceClass /\ buf[4] = item.category
               /\ buf[5] = item.unit /\ buf[6] = toByte(item.format)
               /\ \A k \in 1 .. 4 : buf[6 + k] = wordToBytes(item.minValue)[k]
               /\ \A k \in 1 .. 4 : buf[10 + k] = wordToBytes(item.maxValue)[k]
               /\ \A k \in 1 .. n : buf[14 + k] = item.name[k]
               /\ buf[15 + n] = 0
  <1> DEFINE head == <<item.entityId, item.domain, item.deviceClass, item.category,
                       item.unit, toByte(item.format)>>
             low == wordToBytes(item.minValue)
             high == wordToBytes(item.maxValue)
             buf == discoveryItemToBytes(item)
             n == Len(item.name)
  <1>1. /\ item.entityId \in Byte /\ item.domain \in Byte /\ item.deviceClass \in Byte
        /\ item.category \in Byte /\ item.unit \in Byte /\ item.format \in Formats
        /\ item.minValue \in 0 .. (WordRange - 1)
        /\ item.maxValue \in 0 .. (WordRange - 1)
        /\ item.name \in Seq(Byte \ {0})
    BY DEF Items
  <1>2. toByte(item.format) \in Byte
    <2>1. item.format.size \in 0 .. 2 /\ item.format.precision \in 0 .. 3
      BY <1>1, MaxPrecisionAssumption DEF Formats
    <2> QED
      BY <2>1 DEF toByte, Byte
  <1>3. head \in Seq(Byte) /\ Len(head) = 6
    BY <1>1, <1>2
  <1>4. /\ low \in Seq(Byte) /\ Len(low) = 4
        /\ high \in Seq(Byte) /\ Len(high) = 4
    BY <1>1, WordRangeIs, WordLength
  <1>5. item.name \in Seq(Byte) /\ n \in Nat
    BY <1>1
  <1>6. buf = head \o low \o high \o item.name \o <<0>>
    BY DEF discoveryItemToBytes
  <1>7. head[1] = item.entityId /\ head[2] = item.domain /\ head[3] = item.deviceClass
        /\ head[4] = item.category /\ head[5] = item.unit /\ head[6] = toByte(item.format)
    OBVIOUS
  <1> HIDE DEF head, low, high, buf, n
  <1>8. /\ buf \in Seq(Byte)
        /\ Len(buf) = 15 + n
        /\ \A k \in 1 .. 6 : buf[k] = head[k]
        /\ \A k \in 1 .. 4 : buf[6 + k] = low[k]
        /\ \A k \in 1 .. 4 : buf[10 + k] = high[k]
        /\ \A k \in 1 .. n : buf[14 + k] = item.name[k]
        /\ buf[15 + n] = 0
    <2> DEFINE s1 == head \o low
               s2 == s1 \o high
               s3 == s2 \o item.name
    <2>1. /\ s1 \in Seq(Byte) /\ Len(s1) = 10
          /\ \A k \in 1 .. 6 : s1[k] = head[k]
          /\ \A k \in 1 .. 4 : s1[6 + k] = low[k]
      <3> HIDE DEF s1
      <3>1. s1 = head \o low
        BY DEF s1
      <3>2. /\ s1 \in Seq(Byte) /\ Len(s1) = Len(head) + Len(low)
            /\ \A k \in 1 .. Len(head) : s1[k] = head[k]
            /\ \A k \in 1 .. Len(low) : s1[Len(head) + k] = low[k]
        BY <1>3, <1>4, <3>1, Concat
      <3> QED
        BY <1>3, <1>4, <3>2
    <2> HIDE DEF s1
    <2>2. /\ s2 \in Seq(Byte) /\ Len(s2) = 14
          /\ \A k \in 1 .. 10 : s2[k] = s1[k]
          /\ \A k \in 1 .. 4 : s2[10 + k] = high[k]
      <3> HIDE DEF s2
      <3>1. s2 = s1 \o high
        BY DEF s2
      <3>2. /\ s2 \in Seq(Byte) /\ Len(s2) = Len(s1) + Len(high)
            /\ \A k \in 1 .. Len(s1) : s2[k] = s1[k]
            /\ \A k \in 1 .. Len(high) : s2[Len(s1) + k] = high[k]
        BY <1>4, <2>1, <3>1, Concat
      <3> QED
        BY <1>4, <2>1, <3>2
    <2> HIDE DEF s2
    <2>3. /\ s3 \in Seq(Byte) /\ Len(s3) = 14 + n
          /\ \A k \in 1 .. 14 : s3[k] = s2[k]
          /\ \A k \in 1 .. n : s3[14 + k] = item.name[k]
      <3> HIDE DEF s3
      <3>1. s3 = s2 \o item.name
        BY DEF s3
      <3>2. /\ s3 \in Seq(Byte) /\ Len(s3) = Len(s2) + Len(item.name)
            /\ \A k \in 1 .. Len(s2) : s3[k] = s2[k]
            /\ \A k \in 1 .. Len(item.name) : s3[Len(s2) + k] = item.name[k]
        BY <1>5, <2>2, <3>1, Concat
      <3> QED
        BY <1>5, <2>2, <3>2 DEF n
    <2> HIDE DEF s3
    <2>4. buf = s3 \o <<0>>
      BY <1>6 DEF s1, s2, s3
    <2>5. /\ buf \in Seq(Byte) /\ Len(buf) = 15 + n
          /\ \A k \in 1 .. 14 + n : buf[k] = s3[k]
          /\ buf[15 + n] = 0
      <3> DEFINE end == <<0>>
      <3>1. end \in Seq(Byte) /\ Len(end) = 1 /\ end[1] = 0
        BY DEF Byte
      <3> HIDE DEF end
      <3>2. buf = s3 \o end
        BY <2>4 DEF end
      <3>3. /\ buf \in Seq(Byte) /\ Len(buf) = Len(s3) + Len(end)
            /\ \A k \in 1 .. Len(s3) : buf[k] = s3[k]
            /\ \A k \in 1 .. Len(end) : buf[Len(s3) + k] = end[k]
        BY <2>3, <3>1, <3>2, Concat
      <3> QED
        BY <1>5, <2>3, <3>1, <3>3
    <2>6. ASSUME NEW k \in 1 .. 6 PROVE buf[k] = head[k]
      <3>1. k \in 1 .. 10 /\ k \in 1 .. 14 /\ k \in 1 .. 14 + n
        BY <1>5
      <3> QED
        BY <2>1, <2>2, <2>3, <2>5, <3>1, Zenon
    <2>7. ASSUME NEW k \in 1 .. 4 PROVE buf[6 + k] = low[k]
      <3>1. 6 + k \in 1 .. 10 /\ 6 + k \in 1 .. 14 /\ 6 + k \in 1 .. 14 + n
        BY <1>5
      <3>2. buf[6 + k] = s1[6 + k]
        BY <2>2, <2>3, <2>5, <3>1, Zenon
      <3> QED
        BY <2>1, <3>2
    <2>8. ASSUME NEW k \in 1 .. 4 PROVE buf[10 + k] = high[k]
      <3>1. 10 + k \in 1 .. 14 /\ 10 + k \in 1 .. 14 + n
        BY <1>5
      <3> QED
        BY <2>2, <2>3, <2>5, <3>1, Zenon
    <2>9. ASSUME NEW k \in 1 .. n PROVE buf[14 + k] = item.name[k]
      <3>1. 14 + k \in 1 .. 14 + n
        BY <1>5
      <3> QED
        BY <2>3, <2>5, <3>1, Zenon
    <2> QED
      BY <2>5, <2>6, <2>7, <2>8, <2>9
  <1>9. \A k \in 1 .. 6 : buf[k] = head[k]
    BY <1>8
  <1>10. /\ buf[1] = head[1] /\ buf[2] = head[2] /\ buf[3] = head[3]
         /\ buf[4] = head[4] /\ buf[5] = head[5] /\ buf[6] = head[6]
    BY <1>9
  <1> QED
    BY <1>7, <1>8, <1>10, Zenon DEF low, high, buf, n

\* The metadata of an entity is read as it was written, whatever its format and
\* bounds, when its name is shorter than the name's buffer.
THEOREM DiscoveryItemRoundTrip ==
    ASSUME NEW item \in Items, Len(item.name) < MaxName
    PROVE  discoveryItemFromBytes(discoveryItemToBytes(item)) = item
  <1> DEFINE buf == discoveryItemToBytes(item)
             n == Len(item.name)
  <1>1. /\ item.entityId \in Byte /\ item.domain \in Byte /\ item.deviceClass \in Byte
        /\ item.category \in Byte /\ item.unit \in Byte /\ item.format \in Formats
        /\ item.minValue \in 0 .. (WordRange - 1)
        /\ item.maxValue \in 0 .. (WordRange - 1)
        /\ item.name \in Seq(Byte \ {0})
        /\ item = [entityId |-> item.entityId, domain |-> item.domain,
                   deviceClass |-> item.deviceClass, category |-> item.category,
                   unit |-> item.unit, format |-> item.format,
                   minValue |-> item.minValue, maxValue |-> item.maxValue,
                   name |-> item.name]
    BY DEF Items
  <1>2. n \in Nat /\ n <= MaxName
    BY <1>1 DEF MaxName
  <1>3. /\ buf \in Seq(Byte)
        /\ Len(buf) = 15 + n
        /\ buf[1] = item.entityId /\ buf[2] = item.domain
        /\ buf[3] = item.deviceClass /\ buf[4] = item.category
        /\ buf[5] = item.unit /\ buf[6] = toByte(item.format)
        /\ \A k \in 1 .. 4 : buf[6 + k] = wordToBytes(item.minValue)[k]
        /\ \A k \in 1 .. 4 : buf[10 + k] = wordToBytes(item.maxValue)[k]
        /\ \A k \in 1 .. n : buf[14 + k] = item.name[k]
        /\ buf[15 + n] = 0
    BY DiscoveryItemBytes
  <1> HIDE DEF buf, n
  <1>4. fromByte(buf[6]) = item.format
    BY <1>1, <1>3, FormatRoundTrip, Zenon
  <1>5. wordFromBytes(buf, 7) = item.minValue
    <2>1. /\ buf[7] = wordToBytes(item.minValue)[1]
          /\ buf[7 + 1] = wordToBytes(item.minValue)[2]
          /\ buf[7 + 2] = wordToBytes(item.minValue)[3]
          /\ buf[7 + 3] = wordToBytes(item.minValue)[4]
      BY <1>3
    <2> QED
      BY <1>1, <2>1, WordAt
  <1>6. wordFromBytes(buf, 11) = item.maxValue
    <2>1. /\ buf[11] = wordToBytes(item.maxValue)[1]
          /\ buf[11 + 1] = wordToBytes(item.maxValue)[2]
          /\ buf[11 + 2] = wordToBytes(item.maxValue)[3]
          /\ buf[11 + 3] = wordToBytes(item.maxValue)[4]
      BY <1>3
    <2> QED
      BY <1>1, <2>1, WordAt
  <1>7. nameLength(buf, 15) = n
    <2> DEFINE ends == {k \in 15 .. Len(buf) : buf[k] = 0}
    <2>1. \A k \in 1 .. n : item.name[k] # 0
      BY <1>1 DEF n
    <2>2. 15 + n \in ends /\ \A k \in ends : 15 + n <= k
      <3>1. 15 + n \in ends
        BY <1>2, <1>3
      <3>2. ASSUME NEW k \in ends, k < 15 + n PROVE FALSE
        <4>1. k - 14 \in 1 .. n /\ k = 14 + (k - 14)
          BY <1>2, <1>3, <3>2
        <4> QED
          BY <1>3, <2>1, <4>1, <3>2
      <3> QED
        BY <1>2, <1>3, <3>1, <3>2
    <2>3. (CHOOSE k \in ends : \A l \in ends : k <= l) = 15 + n
      <3>1. \A k, l \in ends : k <= l /\ l <= k => k = l
        BY <1>2, <1>3
      <3> HIDE DEF ends
      <3> QED
        BY <2>2, <3>1
    <2> QED
      <3> DEFINE first == CHOOSE k \in ends : \A l \in ends : k <= l
      <3>1. nameLength(buf, 15) = IF first - 15 > MaxName THEN MaxName - 1 ELSE first - 15
        BY DEF nameLength
      <3> HIDE DEF first
      <3>2. first = 15 + n
        BY <2>3 DEF first
      <3> QED
        <4>1. /\ first - 15 = n
              /\ ~ (n > MaxName)
          BY <1>2, <3>2 DEF MaxName
        <4> QED
          BY <3>1, <4>1, Zenon
  <1>8. SubSeq(buf, 15, 14 + n) = item.name
    <2>1. SubSeq(buf, 15, 14 + n) = [k \in 1 .. n |-> buf[14 + k]]
      <3> DEFINE m == 14 + n
                 name == SubSeq(buf, 15, m)
      <3>1. /\ 15 \in Int /\ m \in Int /\ m = Len(buf) - 1
            /\ \A k \in 15 .. m : buf[k] \in Byte
        <4>1. /\ 15 \in Int /\ m \in Int /\ m = Len(buf) - 1
          BY <1>2, <1>3
        <4>2. \A k \in 15 .. m : k \in 1 .. Len(buf)
          BY <4>1
        <4> QED
          BY <1>3, <4>1, <4>2, ElementOfSeq, Zenon
      <3> HIDE DEF m
      <3> HIDE DEF name
      <3>s. name = SubSeq(buf, 15, m)
        BY DEF name
      <3>2. /\ name \in Seq(Byte)
            /\ Len(name) = IF 15 <= m THEN m - 15 + 1 ELSE 0
            /\ \A k \in 1 .. m - 15 + 1 : name[k] = buf[15 + k - 1]
        BY <3>1, <3>s, SubSeqProperties
      <3>3. Len(name) = n /\ \A k \in 1 .. n : name[k] = buf[14 + k]
        BY <1>2, <3>2 DEF m
      <3>4. name = [k \in 1 .. n |-> buf[14 + k]]
        BY <3>2, <3>3
      <3> QED
        BY <3>4 DEF name, m
    <2>2. item.name = [k \in 1 .. n |-> item.name[k]]
      BY <1>1 DEF n
    <2> QED
      BY <1>3, <2>1, <2>2
  <1>9. discoveryItemFromBytes(buf)
           = [entityId |-> item.entityId, domain |-> item.domain,
              deviceClass |-> item.deviceClass, category |-> item.category,
              unit |-> item.unit, format |-> item.format,
              minValue |-> item.minValue, maxValue |-> item.maxValue,
              name |-> item.name]
    BY <1>3, <1>4, <1>5, <1>6, <1>7, <1>8 DEF discoveryItemFromBytes
  <1> QED
    BY <1>1, <1>9, Zenon DEF buf

-----------------------------------------------------------------------------
\* What can stand in a header: bytes, and a type of four bits.
Headers == [dst : Byte, src : Byte, id : Byte, ack_response : BOOLEAN,
            ack_request : BOOLEAN, msgType : 0 .. 15]

\* The flags and the type share a byte and come apart again.
LEMMA FlagsRoundTrip ==
    ASSUME NEW h \in Headers
    PROVE  LET b == flagsToByte(h)
           IN  /\ b \in Byte
               /\ (b \div 128 = 1) = h.ack_response
               /\ ((b \div 64) % 2 = 1) = h.ack_request
               /\ b % 16 = h.msgType
  <1> DEFINE t == h.msgType
             b == flagsToByte(h)
             fine(x, a, r) == /\ x \in Byte
                              /\ (x \div 128 = 1) = a
                              /\ ((x \div 64) % 2 = 1) = r
                              /\ x % 16 = t
  <1>1. t \in 0 .. 15 /\ h.ack_response \in BOOLEAN /\ h.ack_request \in BOOLEAN
    BY DEF Headers
  <1>2. b = (IF h.ack_response THEN 128 ELSE 0) + (IF h.ack_request THEN 64 ELSE 0) + t
    BY DEF flagsToByte
  <1> HIDE DEF t, b
  <1>3. /\ fine(192 + t, TRUE, TRUE) /\ fine(128 + t, TRUE, FALSE)
        /\ fine(64 + t, FALSE, TRUE) /\ fine(t, FALSE, FALSE)
    <2>1. fine(192 + t, TRUE, TRUE)
      BY <1>1 DEF Byte
    <2>2. fine(128 + t, TRUE, FALSE)
      BY <1>1 DEF Byte
    <2>3. fine(64 + t, FALSE, TRUE)
      BY <1>1 DEF Byte
    <2>4. fine(t, FALSE, FALSE)
      BY <1>1 DEF Byte
    <2> QED
      BY <2>1, <2>2, <2>3, <2>4
  <1> HIDE DEF fine
  <1>4. fine(b, h.ack_response, h.ack_request)
    <2>1. CASE h.ack_response = TRUE /\ h.ack_request = TRUE
      <3>1. b = 192 + t
        BY <1>1, <1>2, <2>1
      <3> QED
        BY <1>3, <2>1, <3>1, Zenon
    <2>2. CASE h.ack_response = TRUE /\ h.ack_request = FALSE
      <3>1. b = 128 + t
        BY <1>1, <1>2, <2>2
      <3> QED
        BY <1>3, <2>2, <3>1, Zenon
    <2>3. CASE h.ack_response = FALSE /\ h.ack_request = TRUE
      <3>1. b = 64 + t
        BY <1>1, <1>2, <2>3
      <3> QED
        BY <1>3, <2>3, <3>1, Zenon
    <2>4. CASE h.ack_response = FALSE /\ h.ack_request = FALSE
      <3>1. b = t
        BY <1>1, <1>2, <2>4
      <3> QED
        BY <1>3, <2>4, <3>1, Zenon
    <2> QED
      BY <1>1, <2>1, <2>2, <2>3, <2>4, Zenon
  <1> QED
    BY <1>4, Zenon DEF fine, b, t

\* A header is four bytes, in this order.
LEMMA HeaderBytes ==
    ASSUME NEW h \in Headers
    PROVE  /\ headerToBytes(h) \in Seq(Byte)
           /\ Len(headerToBytes(h)) = LORA_HEADER_LENGTH
           /\ headerToBytes(h)[1] = h.dst
           /\ headerToBytes(h)[2] = h.src
           /\ headerToBytes(h)[3] = h.id
           /\ headerToBytes(h)[4] = flagsToByte(h)
  <1>1. h.dst \in Byte /\ h.src \in Byte /\ h.id \in Byte
    BY DEF Headers
  <1>2. flagsToByte(h) \in Byte
    BY FlagsRoundTrip
  <1> QED
    BY <1>1, <1>2 DEF headerToBytes, LORA_HEADER_LENGTH

\* A header is read from its bytes as it was written.
LEMMA HeaderRead ==
    ASSUME NEW h \in Headers, NEW buf,
           \A k \in 1 .. 4 : buf[k] = headerToBytes(h)[k]
    PROVE  headerFromBytes(buf) = h
  <1>1. h = [dst |-> h.dst, src |-> h.src, id |-> h.id, ack_response |-> h.ack_response,
             ack_request |-> h.ack_request, msgType |-> h.msgType]
    BY DEF Headers
  <1>2. 1 \in 1 .. 4 /\ 2 \in 1 .. 4 /\ 3 \in 1 .. 4 /\ 4 \in 1 .. 4
    OBVIOUS
  <1>3. /\ buf[1] = h.dst /\ buf[2] = h.src /\ buf[3] = h.id
        /\ buf[4] = flagsToByte(h)
    BY <1>2, HeaderBytes, Zenon
  <1>4. headerFromBytes(buf)
          = [dst |-> h.dst, src |-> h.src, id |-> h.id, ack_response |-> h.ack_response,
             ack_request |-> h.ack_request, msgType |-> h.msgType]
    BY <1>3, FlagsRoundTrip, Zenon DEF headerFromBytes
  <1> QED
    BY <1>1, <1>4, Zenon

\* The bytes of a packet that fits: its header and then its payload.
LEMMA PacketBytes ==
    ASSUME NEW h \in Headers, NEW payload \in Seq(Byte),
           Len(payload) <= LORA_MAX_PAYLOAD_LENGTH
    PROVE  LET buf == encodeMessage(h, payload)
           IN  /\ buf \in Seq(Byte)
               /\ Len(buf) = 4 + Len(payload)
               /\ \A k \in 1 .. 4 : buf[k] = headerToBytes(h)[k]
               /\ \A k \in 1 .. Len(payload) : buf[4 + k] = payload[k]
               /\ Received(buf) = buf
  <1> DEFINE head == headerToBytes(h)
             buf == encodeMessage(h, payload)
             n == Len(payload)
  <1>1. head \in Seq(Byte) /\ Len(head) = 4
    BY HeaderBytes DEF LORA_HEADER_LENGTH
  <1>2. n \in Nat /\ n <= 146
    BY DEF LORA_MAX_PAYLOAD_LENGTH, LORA_MAX_MESSAGE_LENGTH, LORA_HEADER_LENGTH
  <1>3. buf = head \o payload
    BY <1>2 DEF encodeMessage, LORA_MAX_MESSAGE_LENGTH, LORA_HEADER_LENGTH
  <1> HIDE DEF head, buf
  <1>4. /\ buf \in Seq(Byte) /\ Len(buf) = Len(head) + n
        /\ \A k \in 1 .. Len(head) : buf[k] = head[k]
        /\ \A k \in 1 .. n : buf[Len(head) + k] = payload[k]
    BY <1>1, <1>3, Concat
  <1>5. Received(buf) = buf
    BY <1>1, <1>2, <1>4 DEF Received, LORA_MAX_MESSAGE_LENGTH
  <1> QED
    BY <1>1, <1>4, <1>5 DEF head, buf

\* A packet that fits is decoded into the header and the payload it was encoded
\* from (encodeMessage, readPacket and decodeMessage of LoRaHandler.cpp).
THEOREM PacketRoundTrip ==
    ASSUME NEW h \in Headers, NEW payload \in Seq(Byte),
           Len(payload) <= LORA_MAX_PAYLOAD_LENGTH
    PROVE  /\ decodes(encodeMessage(h, payload))
           /\ decodeMessage(encodeMessage(h, payload)) = [header |-> h, payload |-> payload]
  <1> DEFINE buf == encodeMessage(h, payload)
             n == Len(payload)
             m == Len(buf)
             read == SubSeq(buf, 5, m)
  <1>1. /\ buf \in Seq(Byte)
        /\ m = 4 + n
        /\ \A k \in 1 .. 4 : buf[k] = headerToBytes(h)[k]
        /\ \A k \in 1 .. n : buf[4 + k] = payload[k]
        /\ Received(buf) = buf
    BY PacketBytes
  <1>2. n \in Nat
    OBVIOUS
  <1> HIDE DEF buf, n, m, read
  <1>3. decodes(buf)
    BY <1>1, <1>2 DEF decodes, LORA_HEADER_LENGTH, m
  <1>4. headerFromBytes(buf) = h
    BY <1>1, HeaderRead
  <1>5. read = payload
    <2>1. /\ 5 \in Int /\ m \in Int
          /\ \A k \in 5 .. m : buf[k] \in Byte
      <3>1. \A k \in 5 .. m : k \in 1 .. Len(buf)
        BY <1>1, <1>2 DEF m
      <3>2. 5 \in Int /\ m \in Int
        BY <1>1, <1>2
      <3> QED
        BY <1>1, <3>1, <3>2, ElementOfSeq, Zenon
    <2>2. /\ read \in Seq(Byte)
          /\ Len(read) = IF 5 <= m THEN m - 5 + 1 ELSE 0
          /\ \A k \in 1 .. m - 5 + 1 : read[k] = buf[5 + k - 1]
      BY <2>1, SubSeqProperties DEF read
    <2>3. Len(read) = n /\ \A k \in 1 .. n : read[k] = payload[k]
      <3>1. m - 5 + 1 = n /\ (5 <= m) = (0 < n)
        BY <1>1, <1>2
      <3>2. ASSUME NEW k \in 1 .. n PROVE read[k] = payload[k]
        <4>1. 5 + k - 1 = 4 + k
          BY <1>2
        <4> QED
          BY <1>1, <2>2, <3>1, <4>1, Zenon
      <3>3. Len(read) = n
        BY <1>2, <2>2, <3>1
      <3> QED
        BY <3>2, <3>3
    <2>4. read = [k \in 1 .. n |-> payload[k]]
      BY <2>2, <2>3
    <2>5. payload = [k \in 1 .. n |-> payload[k]]
      BY DEF n
    <2> QED
      BY <2>4, <2>5
  <1>6. decodeMessage(buf) = [header |-> headerFromBytes(buf), payload |-> read]
    <2>1. LORA_HEADER_LENGTH + 1 = 5
      BY DEF LORA_HEADER_LENGTH
    <2> QED
      BY <1>1, <2>1, Zenon DEF decodeMessage, read, m
  <1> QED
    BY <1>3, <1>4, <1>5, <1>6, Zenon DEF buf
\* A value item: a byte and a number that a signed word can hold.
ValueItems == {item \in [entityId : Byte, value : Int] :
                 -WordRange <= 2 * item.value /\ 2 * item.value < WordRange}

\* A value item is five bytes, read back as it was.
LEMMA ValueItemBytes ==
    ASSUME NEW item \in ValueItems
    PROVE  /\ valueItemToBytes(item) \in Seq(Byte)
           /\ Len(valueItemToBytes(item)) = 5
           /\ valueItemFromBytes(valueItemToBytes(item), 1) = item
  <1>1. /\ item.entityId \in Byte /\ item.entityId \in Nat /\ item.value \in Int
        /\ -WordRange <= 2 * item.value /\ 2 * item.value < WordRange
        /\ item = [entityId |-> item.entityId, value |-> item.value]
    BY DEF ValueItems, Byte
  <1>2. valueItemFromBytes(valueItemToBytes(item), 1) = item
    BY <1>1, ValueItemRoundTrip, Zenon
  <1>3. asWord(item.value) \in Nat
    BY <1>1, WordRangeIs DEF asWord
  <1> DEFINE first == <<item.entityId>>
             word == wordToBytes(asWord(item.value))
  <1>4. first \in Seq(Byte) /\ Len(first) = 1
    BY <1>1
  <1>5. word \in Seq(Byte) /\ Len(word) = 4
    BY <1>3, WordLength
  <1>6. valueItemToBytes(item) = first \o word
    BY DEF valueItemToBytes
  <1> HIDE DEF first, word
  <1>7. first \o word \in Seq(Byte) /\ Len(first \o word) = Len(first) + Len(word)
    BY <1>4, <1>5, Concat
  <1>8. Len(first) + Len(word) = 5
    BY <1>4, <1>5
  <1> QED
    BY <1>2, <1>6, <1>7, <1>8, Zenon

\* An item is read from wherever its bytes are.
LEMMA ValueItemAt ==
    ASSUME NEW item \in ValueItems, NEW buf, NEW p \in Nat,
           \A j \in 1 .. 5 : buf[p + (j - 1)] = valueItemToBytes(item)[j]
    PROVE  valueItemFromBytes(buf, p) = item
  <1> DEFINE bytes == valueItemToBytes(item)
  <1>1. /\ buf[p] = bytes[1] /\ buf[p + 1] = bytes[2] /\ buf[p + 2] = bytes[3]
        /\ buf[p + 3] = bytes[4] /\ buf[p + 4] = bytes[5]
    BY SMT
  <1> HIDE DEF bytes
  <1>2. valueItemFromBytes(buf, p) = valueItemFromBytes(bytes, 1)
    <2>1. wordFromBytes(buf, p + 1) = wordFromBytes(bytes, 1 + 1)
      BY <1>1 DEF wordFromBytes
    <2> QED
      BY <1>1, <2>1, Zenon DEF valueItemFromBytes
  <1> QED
    BY <1>2, ValueItemBytes, Zenon DEF bytes

\* A value message is complete, and its items are read in their order as they
\* were written, as many as fit into a packet (handleValueMessage of
\* LoRaMsgHandler.cpp).
THEOREM ValueMessageRoundTrip ==
    ASSUME NEW items \in Seq(ValueItems),
           1 + 5 * Len(items) <= LORA_MAX_PAYLOAD_LENGTH
    PROVE  /\ valueMessagePayload(items) \in Seq(Byte)
           /\ Len(valueMessagePayload(items)) = 1 + 5 * Len(items)
           /\ valueMessageComplete(valueMessagePayload(items))
           /\ valueMessageItems(valueMessagePayload(items)) = items
  <1> DEFINE n == Len(items)
             at(k) == valueItemToBytes(items[((k - 1) \div 5) + 1])[((k - 1) % 5) + 1]
             body == [k \in 1 .. 5 * n |-> at(k)]
             payload == valueMessagePayload(items)
  <1>1. n \in Nat /\ \A i \in 1 .. n : items[i] \in ValueItems
    BY ElementOfSeq
  <1>b. n \in Byte
    <2>1. LORA_MAX_PAYLOAD_LENGTH = 146
      BY DEF LORA_MAX_PAYLOAD_LENGTH, LORA_MAX_MESSAGE_LENGTH, LORA_HEADER_LENGTH
    <2>2. 1 + 5 * n <= 146
      BY <2>1, Zenon
    <2> HIDE DEF n
    <2> QED
      BY <1>1, <2>2 DEF Byte
  <1>2. payload = <<n>> \o body
    BY DEF valueMessagePayload, ValueItemSize
  <1> HIDE DEF n
  <1>3. \A k \in 1 .. 5 * n : at(k) \in Byte
    <2>1. TAKE k \in 1 .. 5 * n
    <2> DEFINE i == ((k - 1) \div 5) + 1
               j == ((k - 1) % 5) + 1
    <2>2. i \in 1 .. n /\ j \in 1 .. 5
      BY <1>1
    <2> HIDE DEF i, j
    <2>3. /\ valueItemToBytes(items[i]) \in Seq(Byte)
          /\ Len(valueItemToBytes(items[i])) = 5
      BY <1>1, <2>2, ValueItemBytes
    <2>4. valueItemToBytes(items[i])[j] \in Byte
      BY <2>2, <2>3, ElementOfSeq
    <2> QED
      BY <2>4 DEF i, j
  <1>4. \A i \in 1 .. n : \A j \in 1 .. 5 :
          /\ 5 * (i - 1) + j \in 1 .. 5 * n
          /\ at(5 * (i - 1) + j) = valueItemToBytes(items[i])[j]
    <2>1. TAKE i \in 1 .. n, j \in 1 .. 5
    <2> DEFINE k == 5 * (i - 1) + j
    <2>2. k \in 1 .. 5 * n
      BY <1>1
    <2>3. /\ ((k - 1) \div 5) + 1 = i
          /\ ((k - 1) % 5) + 1 = j
      BY <1>1
    <2> HIDE DEF k
    <2>4. at(k) = valueItemToBytes(items[i])[j]
      BY <2>3, Zenon
    <2> QED
      BY <2>2, <2>4, Zenon DEF k
  <1>5. body \in Seq(Byte) /\ Len(body) = 5 * n
        /\ \A k \in 1 .. 5 * n : body[k] = at(k)
    BY <1>1, <1>3
  <1> HIDE DEF at, body, payload
  <1>6. /\ payload \in Seq(Byte)
        /\ Len(payload) = 1 + 5 * n
        /\ payload[1] = n
        /\ \A k \in 1 .. 5 * n : payload[1 + k] = body[k]
    <2> DEFINE first == <<n>>
    <2>1. first \in Seq(Byte) /\ Len(first) = 1 /\ first[1] = n
      BY <1>b
    <2>2. payload = first \o body
      BY <1>2
    <2> HIDE DEF first
    <2>3. /\ payload \in Seq(Byte) /\ Len(payload) = Len(first) + Len(body)
          /\ \A k \in 1 .. Len(first) : payload[k] = first[k]
          /\ \A k \in 1 .. Len(body) : payload[Len(first) + k] = body[k]
      BY <1>5, <2>1, <2>2, Concat
    <2>4. payload[1] = first[1]
      BY <2>1, <2>3
    <2> QED
      BY <1>1, <1>5, <2>1, <2>3, <2>4
  <1>7. ASSUME NEW i \in 1 .. n
        PROVE  valueItemFromBytes(payload, 2 + (i - 1) * 5) = items[i]
    <2> DEFINE p == 2 + (i - 1) * 5
    <2>1. p \in Nat
      BY <1>1
    <2>2. ASSUME NEW j \in 1 .. 5
          PROVE  payload[p + (j - 1)] = valueItemToBytes(items[i])[j]
      <3>1. p + (j - 1) = 1 + (5 * (i - 1) + j)
        BY <1>1
      <3>2. 5 * (i - 1) + j \in 1 .. 5 * n
        BY <1>4
      <3> QED
        BY <1>4, <1>5, <1>6, <3>1, <3>2, Zenon
    <2> HIDE DEF p
    <2>3. valueItemFromBytes(payload, p) = items[i]
      BY <1>1, <2>1, <2>2, ValueItemAt
    <2> QED
      BY <2>3 DEF p
  <1>8. valueMessageComplete(payload)
    BY <1>1, <1>6 DEF valueMessageComplete, ValueItemSize
  <1>9. valueMessageItems(payload) = items
    <2>1. valueMessageItems(payload)
            = [i \in 1 .. n |-> valueItemFromBytes(payload, 2 + (i - 1) * 5)]
      BY <1>6, Zenon DEF valueMessageItems, ValueItemSize
    <2>2. items = [i \in 1 .. n |-> items[i]]
      BY DEF n
    <2> QED
      BY <1>7, <2>1, <2>2
  <1> QED
    BY <1>6, <1>8, <1>9 DEF n, payload

-----------------------------------------------------------------------------
(* Numbers. *)

Steps == {1, 10, 100, 1000}

\* What a step can be.
LEMMA StepIs ==
    ASSUME NEW format \in Formats
    PROVE  Step(format) \in Steps
  <1>1. MaxPrecision - format.precision \in 0 .. 3
    BY MaxPrecisionAssumption DEF Formats
  <1> DEFINE k == MaxPrecision - format.precision
  <1>2. Step(format) = 10^k
    BY DEF Step
  <1> HIDE DEF k
  <1>3. k \in 0 .. 3
    BY <1>1 DEF k
  <1>4. CASE k = 0
    <2>1. Step(format) = 10^0
      BY <1>2, <1>4, Zenon
    <2> QED
      BY <2>1 DEF Steps
  <1>5. CASE k = 1
    <2>1. Step(format) = 10^1
      BY <1>2, <1>5, Zenon
    <2> QED
      BY <2>1 DEF Steps
  <1>6. CASE k = 2
    <2>1. Step(format) = 10^2
      BY <1>2, <1>6, Zenon
    <2> QED
      BY <2>1 DEF Steps
  <1>7. CASE k = 3
    <2>1. Step(format) = 10^3
      BY <1>2, <1>7, Zenon
    <2> QED
      BY <2>1 DEF Steps
  <1> QED
    BY <1>3, <1>4, <1>5, <1>6, <1>7

\* Rounding finds a nearest multiple of the step.
LEMMA RoundedNear ==
    ASSUME NEW n \in Int, NEW s \in Steps
    PROVE  /\ Rounded(n, s) \in Int
           /\ 2 * (n - s * Rounded(n, s)) <= s
           /\ -s <= 2 * (n - s * Rounded(n, s))
           /\ n >= 0 => Rounded(n, s) >= 0
  <1> DEFINE r == Rounded(n, s)
             near == /\ r \in Int
                     /\ 2 * (n - s * r) <= s
                     /\ -s <= 2 * (n - s * r)
                     /\ n >= 0 => r >= 0
  <1>1. CASE n >= 0
    <2>1. r = (2 * n + s) \div (2 * s)
      BY <1>1 DEF Rounded
    <2> HIDE DEF r
    <2>2. ASSUME s = 1 PROVE near
      BY <1>1, <2>1, <2>2
    <2>3. ASSUME s = 10 PROVE near
      BY <1>1, <2>1, <2>3
    <2>4. ASSUME s = 100 PROVE near
      BY <1>1, <2>1, <2>4
    <2>5. ASSUME s = 1000 PROVE near
      BY <1>1, <2>1, <2>5
    <2>6. near
      BY <2>2, <2>3, <2>4, <2>5 DEF Steps
    <2> QED
      BY <2>6 DEF r
  <1>2. CASE ~ (n >= 0)
    <2>1. r = -((s - 2 * n) \div (2 * s))
      BY <1>2 DEF Rounded
    <2> HIDE DEF r
    <2>2. ASSUME s = 1 PROVE near
      BY <1>2, <2>1, <2>2
    <2>3. ASSUME s = 10 PROVE near
      BY <1>2, <2>1, <2>3
    <2>4. ASSUME s = 100 PROVE near
      BY <1>2, <2>1, <2>4
    <2>5. ASSUME s = 1000 PROVE near
      BY <1>2, <2>1, <2>5
    <2>6. near
      BY <2>2, <2>3, <2>4, <2>5 DEF Steps
    <2> QED
      BY <2>6 DEF r
  <1> QED
    BY <1>1, <1>2

\* The integer a raw value stands for.
Val(format, raw) == IF format.isSigned THEN signExtend(raw, RangeOf(format.size)) ELSE raw

\* Every integer format fits into a word.
LEMMA RangeWithin ==
    ASSUME NEW size \in 0 .. 2
    PROVE  RangeOf(size) \in Nat \ {0} /\ RangeOf(size) <= WordRange
  <1> DEFINE B == ByteRange
             B2 == B * B
  <1>1. B \in Nat \ {0} /\ WordRange = B * B * B * B
    BY WordRangeIs
  <1>2. B2 \in Nat \ {0} /\ B <= B2
    BY <1>1
  <1>3. WordRange = B2 * B2
    BY <1>1
  <1> HIDE DEF B2
  <1>4. B2 * B2 \in Nat \ {0} /\ B2 <= B2 * B2
    BY <1>2
  <1>5. RangeOf(size) \in {B, B2, WordRange}
    BY DEF RangeOf, WordRange, B2
  <1> QED
    BY <1>1, <1>2, <1>3, <1>4, <1>5

\* A valid raw value is its integer or, for a negative one, that in a word.
LEMMA ValidValue ==
    ASSUME NEW format \in Formats, NEW raw \in 0 .. (WordRange - 1),
           isValidRawValue(format, raw),
           NEW h \in Nat, WordRange = 2 * h
    PROVE  /\ Val(format, raw) \in Int
           /\ format.isSigned => Val(format, raw) \in -h .. (h - 1)
           /\ \/ Val(format, raw) >= 0 /\ raw = Val(format, raw)
              \/ format.isSigned /\ Val(format, raw) < 0 /\ raw = Val(format, raw) + WordRange
  <1>1. CASE ~ format.isSigned
    BY <1>1 DEF Val
  <1>2. CASE format.isSigned
    <2> DEFINE R == RangeOf(format.size)
               v == signExtend(raw, R)
               low == raw % R
    <2>1. R \in Nat \ {0} /\ R <= WordRange
      BY RangeWithin DEF Formats
    <2> HIDE DEF R
    <2>2. low \in 0 .. (R - 1)
      BY <2>1
    <2>3. v = IF 2 * low >= R THEN low - R ELSE low
      BY DEF signExtend
    <2>4. asWord(v) = raw
      BY <1>2 DEF isValidRawValue, R
    <2> HIDE DEF v, low
    <2>5. v \in Int /\ v \in -h .. (h - 1)
      BY <2>1, <2>2, <2>3
    <2>6. v % WordRange = IF v >= 0 THEN v ELSE v + WordRange
      <3>1. CASE v >= 0
        BY <2>5, <3>1
      <3>2. CASE v < 0
        <4>1. v + WordRange \in 0 .. (WordRange - 1)
          BY <2>5, <3>2
        <4> QED
          BY <2>5, <3>2, <4>1, SMTT(30)
      <3> QED
        BY <2>5, <3>1, <3>2
    <2>7. Val(format, raw) = v
      BY <1>2, Zenon DEF Val, v, R
    <2> QED
      BY <1>2, <2>4, <2>5, <2>6, <2>7 DEF asWord
  <1>3. format.isSigned \in BOOLEAN
    BY DEF Formats
  <1> QED
    BY <1>1, <1>2

\* What the assumptions say of one entity.
LEMMA EntityFacts ==
    ASSUME NEW x \in Entities
    PROVE  /\ x = [deviceId |-> x.deviceId, item |-> x.item]
           /\ x.deviceId \in 1 .. 254
           /\ x.item \in Items /\ x.item.entityId \in 0 .. 254
           /\ Len(x.item.name) < MaxName
           /\ x.item.format \in Formats
           /\ x.item.minValue \in 0 .. (WordRange - 1)
           /\ x.item.maxValue \in 0 .. (WordRange - 1)
           /\ isValidRawValue(x.item.format, x.item.minValue)
           /\ isValidRawValue(x.item.format, x.item.maxValue)
           /\ fromRawValue(x.item.format, x.item.minValue)
                <= fromRawValue(x.item.format, x.item.maxValue)
           /\ x.item.format.isSigned \/ 2 * x.item.maxValue < WordRange
  <1>1. x.item \in Items /\ x.item.entityId <= 254
    BY EntitiesAssumption, Zenon
  <1>2. x.item.entityId \in 0 .. 254
    BY <1>1 DEF Items, Byte
  <1>3. /\ x.item.format \in Formats
        /\ x.item.minValue \in 0 .. (WordRange - 1)
        /\ x.item.maxValue \in 0 .. (WordRange - 1)
    BY <1>1 DEF Items
  <1> QED
    BY <1>1, <1>2, <1>3, EntitiesAssumption, Zenon

\* The number a raw value stands for is its integer in steps of the format.
LEMMA FromVal ==
    ASSUME NEW format, NEW raw
    PROVE  fromRawValue(format, raw) = Step(format) * Val(format, raw)
  BY Zenon DEF fromRawValue, Val

\* A raw value that passes both checks has its integer between those of the
\* bounds, though the comparison is one of words.
LEMMA AcceptedWithin ==
    ASSUME NEW x \in Entities, NEW raw \in 0 .. (WordRange - 1), Accepts(x.item, raw),
           NEW h \in Nat, WordRange = 2 * h
    PROVE  LET low == Val(x.item.format, x.item.minValue)
               high == Val(x.item.format, x.item.maxValue)
               v == Val(x.item.format, raw)
           IN  /\ low \in Int /\ high \in Int /\ v \in Int
               /\ low <= v /\ v <= high
               /\ -h <= low
               /\ raw < h => v = raw
               /\ raw >= h => /\ x.item.format.isSigned
                              /\ v = raw - WordRange /\ low < 0 /\ high < 0
               /\ low < 0 => x.item.minValue = low + WordRange
  <1> DEFINE f == x.item.format
             min == x.item.minValue
             max == x.item.maxValue
             low == Val(f, min)
             high == Val(f, max)
             v == Val(f, raw)
             s == Step(f)
  <1>1. /\ f \in Formats /\ min \in 0 .. (WordRange - 1) /\ max \in 0 .. (WordRange - 1)
        /\ isValidRawValue(f, min) /\ isValidRawValue(f, max)
        /\ fromRawValue(f, min) <= fromRawValue(f, max)
        /\ f.isSigned \/ 2 * max < WordRange
    BY EntityFacts
  <1>2. isValidRawValue(f, raw) /\ min <= raw /\ raw <= max
    BY DEF Accepts
  <1>3. s \in Steps
    BY <1>1, StepIs
  <1>4. s * low <= s * high
    BY <1>1, FromVal, Zenon
  <1> HIDE DEF f, min, max, low, high, v, s
  <1>5. /\ low \in Int
        /\ f.isSigned => low \in -h .. (h - 1)
        /\ \/ low >= 0 /\ min = low
           \/ f.isSigned /\ low < 0 /\ min = low + WordRange
    BY <1>1, ValidValue DEF low
  <1>6. /\ high \in Int
        /\ f.isSigned => high \in -h .. (h - 1)
        /\ \/ high >= 0 /\ max = high
           \/ f.isSigned /\ high < 0 /\ max = high + WordRange
    BY <1>1, ValidValue DEF high
  <1>7. /\ v \in Int
        /\ f.isSigned => v \in -h .. (h - 1)
        /\ \/ v >= 0 /\ raw = v
           \/ f.isSigned /\ v < 0 /\ raw = v + WordRange
    BY <1>1, <1>2, ValidValue DEF v
  <1>8. low <= high
    <2>1. CASE s = 1
      BY <1>4, <1>5, <1>6, <2>1
    <2>2. CASE s = 10
      BY <1>4, <1>5, <1>6, <2>2
    <2>3. CASE s = 100
      BY <1>4, <1>5, <1>6, <2>3
    <2>4. CASE s = 1000
      BY <1>4, <1>5, <1>6, <2>4
    <2> QED
      BY <1>3, <2>1, <2>2, <2>3, <2>4 DEF Steps
  <1>9. f.isSigned \in BOOLEAN
    BY <1>1 DEF Formats
  <1>10. low <= v /\ v <= high /\ -h <= low
    BY <1>1, <1>2, <1>5, <1>6, <1>7, <1>8, <1>9
  <1>11. raw < h => v = raw
    BY <1>1, <1>2, <1>5, <1>6, <1>7, <1>8, <1>9
  <1>12. raw >= h => f.isSigned /\ v = raw - WordRange /\ low < 0 /\ high < 0
    BY <1>1, <1>2, <1>5, <1>6, <1>7, <1>8, <1>9
  <1> QED
    BY <1>5, <1>6, <1>7, <1>10, <1>11, <1>12 DEF f, min, max, low, high, v

\* What toRawValue can make of a number, by its rounded value.
LEMMA RawOutcomes ==
    ASSUME NEW format, NEW number, Rounded(number, Step(format)) \in Int,
           NEW h \in Nat, WordRange = 2 * h,
           NEW raw \in toRawValue(format, number)
    PROVE  LET r == Rounded(number, Step(format))
           IN  /\ raw \in 0 .. (WordRange - 1)
               /\ \/ 0 <= r /\ r < WordRange /\ raw = r
                  \/ r >= WordRange /\ raw = WordRange - 1
                  \/ r < 0 /\ raw = 0
                  \/ -h <= r /\ r < 0 /\ raw = r + WordRange
                  \/ r < -h /\ raw = h
  <1> DEFINE r == Rounded(number, Step(format))
  <1>1. r \in Int
    OBVIOUS
  <1>2. h \in Nat \ {0}
    BY WordRangeIs
  <1>3. raw \in IF r < 0
                THEN {0, IF -2 * r <= WordRange THEN asWord(r) ELSE WordRange \div 2}
                ELSE IF r >= WordRange THEN {WordRange - 1} ELSE {r}
    BY Zenon DEF toRawValue
  <1> HIDE DEF r
  <1>4. WordRange \div 2 = h
    BY <1>2
  <1>5. ASSUME -h <= r, r < 0 PROVE asWord(r) = r + WordRange
    <2>1. r + WordRange \in 0 .. (WordRange - 1)
      BY <1>1, <1>2, <1>5
    <2> QED
      BY <1>1, <1>2, <1>5, <2>1, SMTT(30) DEF asWord
  <1>6. CASE r < 0
    <2>1. raw = 0 \/ raw = IF -2 * r <= WordRange THEN asWord(r) ELSE h
      BY <1>3, <1>4, <1>6
    <2>2. CASE -h <= r
      BY <1>1, <1>2, <1>5, <1>6, <2>1, <2>2 DEF r
    <2>3. CASE r < -h
      BY <1>1, <1>2, <1>6, <2>1, <2>3 DEF r
    <2> QED
      BY <1>1, <2>2, <2>3
  <1>7. CASE r >= 0
    BY <1>1, <1>2, <1>3, <1>7 DEF r
  <1> QED
    BY <1>1, <1>6, <1>7

\* An accepted number is applied as the one of the range that is nearest to it,
\* to half a step, unless its word is that of a negative number.
LEMMA AcceptedIsNear ==
    ASSUME NEW x \in Entities, NEW number \in Int,
           NEW raw \in toRawValue(x.item.format, number), Accepts(x.item, raw)
    PROVE  LET applies == fromRawValue(x.item.format, raw)
               off == applies - Clamped(x.item, number)
           IN  /\ Within(x.item, applies)
               /\ \/ 2 * off <= Step(x.item.format) /\ -2 * off <= Step(x.item.format)
                  \/ ReadAsNegative(x.item, number)
  <1> DEFINE f == x.item.format
             s == Step(f)
             r == Rounded(number, s)
             low == Val(f, x.item.minValue)
             high == Val(f, x.item.maxValue)
             v == Val(f, raw)
  <1>1. PICK h \in Nat : WordRange = 2 * h
    BY WordRangeEven
  <1>2. s \in Steps /\ f \in Formats
    BY EntityFacts, StepIs
  <1>3. /\ r \in Int
        /\ 2 * (number - s * r) <= s
        /\ -s <= 2 * (number - s * r)
        /\ number >= 0 => r >= 0
    BY <1>2, RoundedNear, Zenon
  <1>4. /\ raw \in 0 .. (WordRange - 1)
        /\ \/ 0 <= r /\ r < WordRange /\ raw = r
           \/ r >= WordRange /\ raw = WordRange - 1
           \/ r < 0 /\ raw = 0
           \/ -h <= r /\ r < 0 /\ raw = r + WordRange
           \/ r < -h /\ raw = h
    BY <1>1, <1>3, RawOutcomes
  <1>5. /\ low \in Int /\ high \in Int /\ v \in Int
        /\ low <= v /\ v <= high
        /\ -h <= low
        /\ raw < h => v = raw
        /\ raw >= h => f.isSigned /\ v = raw - WordRange /\ low < 0 /\ high < 0
        /\ low < 0 => x.item.minValue = low + WordRange
    BY <1>1, <1>4, AcceptedWithin
  <1>6. x.item.minValue <= raw
    BY DEF Accepts
  <1>7. /\ fromRawValue(f, raw) = s * v
        /\ Lowest(x.item) = s * low
        /\ Highest(x.item) = s * high
    BY FromVal, Zenon DEF Lowest, Highest, publishDiscovery
  <1>8. ReadAsNegative(x.item, number) <=> f.isSigned /\ r \in h .. (WordRange - 1)
    <2>1. WordRange \div 2 = h
      BY <1>1
    <2> QED
      BY <2>1, Zenon DEF ReadAsNegative
  <1> DEFINE clamped == IF number < s * low THEN s * low
                        ELSE IF number > s * high THEN s * high ELSE number
             off == s * v - clamped
  <1>9. Clamped(x.item, number) = clamped
    BY <1>7, Zenon DEF Clamped
  <1> HIDE DEF f, s, r, low, high, v
  <1>10. s * low <= s * v /\ s * v <= s * high
    <2>1. CASE s = 1
      BY <1>5, <2>1
    <2>2. CASE s = 10
      BY <1>5, <2>2
    <2>3. CASE s = 100
      BY <1>5, <2>3
    <2>4. CASE s = 1000
      BY <1>5, <2>4
    <2> QED
      BY <1>2, <2>1, <2>2, <2>3, <2>4 DEF Steps
  <1> DEFINE near == 2 * off <= s /\ -2 * off <= s
  \* The raw value is that of the rounded number.
  <1>11. ASSUME v = r PROVE near
    <2>1. CASE s = 1
      BY <1>3, <1>5, <1>10, <1>11, <2>1
    <2>2. CASE s = 10
      BY <1>3, <1>5, <1>10, <1>11, <2>2
    <2>3. CASE s = 100
      BY <1>3, <1>5, <1>10, <1>11, <2>3
    <2>4. CASE s = 1000
      BY <1>3, <1>5, <1>10, <1>11, <2>4
    <2> QED
      BY <1>2, <2>1, <2>2, <2>3, <2>4 DEF Steps
  \* A negative number saturates at a lower bound of 0.
  <1>12. ASSUME r < 0, raw = 0 PROVE near
    <2>1. low = 0 /\ v = 0 /\ number < 0
      <3>1. number < 0
        BY <1>3, <1>12
      <3>2. h > 0
        BY <1>1, WordRangeIs
      <3>3. v = 0
        BY <1>5, <1>12, <3>2
      <3> QED
        BY <1>1, <1>4, <1>5, <1>6, <1>12, <3>1, <3>2, <3>3
    <2> QED
      BY <1>2, <2>1 DEF Steps
  \* One below all words saturates at a lower bound that is the lowest.
  <1>13. ASSUME r < -h, raw = h PROVE near
    <2>1. low = -h /\ v = -h /\ r <= low - 1
      BY <1>1, <1>3, <1>5, <1>13
    <2>2. number < s * low
      <3>1. CASE s = 1
        BY <1>3, <1>5, <2>1, <3>1
      <3>2. CASE s = 10
        BY <1>3, <1>5, <2>1, <3>2
      <3>3. CASE s = 100
        BY <1>3, <1>5, <2>1, <3>3
      <3>4. CASE s = 1000
        BY <1>3, <1>5, <2>1, <3>4
      <3> QED
        BY <1>2, <3>1, <3>2, <3>3, <3>4 DEF Steps
    <2>3. s * v = s * low /\ s * v \in Int
      BY <1>2, <1>5, <2>1 DEF Steps
    <2> QED
      BY <1>2, <2>2, <2>3 DEF Steps
  \* One above all words saturates at an upper bound of -1.
  <1>14. ASSUME r >= WordRange, raw = WordRange - 1 PROVE near
    <2>1. high = -1 /\ v = -1
      BY <1>1, <1>4, <1>5, <1>14, WordRangeIs
    <2>2. number >= 0
      <3>1. CASE s = 1
        BY <1>3, <1>14, <3>1, WordRangeIs
      <3>2. CASE s = 10
        BY <1>3, <1>14, <3>2, WordRangeIs
      <3>3. CASE s = 100
        BY <1>3, <1>14, <3>3, WordRangeIs
      <3>4. CASE s = 1000
        BY <1>3, <1>14, <3>4, WordRangeIs
      <3> QED
        BY <1>2, <3>1, <3>2, <3>3, <3>4 DEF Steps
    <2>3. s * high = -s /\ s * v = -s /\ s * low \in Int /\ s * low <= -s
      BY <1>2, <1>5, <1>10, <2>1 DEF Steps
    <2> QED
      BY <1>2, <2>2, <2>3 DEF Steps
  <1>15. \/ v = r
         \/ r < 0 /\ raw = 0
         \/ r < -h /\ raw = h
         \/ r >= WordRange /\ raw = WordRange - 1
         \/ f.isSigned /\ r \in h .. (WordRange - 1)
    BY <1>1, <1>3, <1>4, <1>5
  <1>16. near \/ ReadAsNegative(x.item, number)
    BY <1>8, <1>11, <1>12, <1>13, <1>14, <1>15, Zenon
  <1> HIDE DEF near, clamped
  <1>17. Within(x.item, fromRawValue(x.item.format, raw))
    BY <1>7, <1>10, Zenon DEF Within, f
  <1> QED
    BY <1>7, <1>9, <1>16, <1>17, Zenon DEF near, f, s

-----------------------------------------------------------------------------
(* Packets. *)

\* The bytes fit into a packet.
Fits(bytes) == bytes \in Seq(Byte) /\ Len(bytes) <= LORA_MAX_MESSAGE_LENGTH

\* The payload is a report by the node of these numbers.
Reported(n, payload, meant) ==
    \E k \in {1, 2} : \E es \in [1 .. k -> EntitiesOfNode(n)], vs \in [1 .. k -> Int] :
      /\ k = 2 => es[1].item.entityId < es[2].item.entityId
      /\ \A i \in 1 .. k : vs[i] \in Readings(es[i])
      /\ payload = valueMessagePayload([i \in 1 .. k |->
                     [entityId |-> es[i].item.entityId,
                      value |-> vs[i] \div Step(es[i].item.format)]])
      /\ meant = vs

\* What the gateway hears of an entity, or of its values, is what its node said.
GatewayPacketOk(p) ==
    /\ Fits(p.bytes)
    /\ decodes(p.bytes) =>
         LET msg == decodeMessage(p.bytes)
         IN  /\ msg.header.msgType = discovery_msg /\ Len(msg.payload) >= DiscoveryItemSize
                  => \E x \in Entities : /\ msg.header.src = x.deviceId
                                         /\ msg.payload = discoveryItemToBytes(x.item)
             /\ msg.header.msgType = value_msg /\ valueMessageComplete(msg.payload)
                  => /\ msg.header.src \in Nodes
                     /\ Reported(msg.header.src, msg.payload, p.meant)

\* The payload asks an entity of the node for the number that was commanded, as an
\* accepted raw value.
AsksForNumber(n, payload, meant) ==
    \E x \in EntitiesOfNode(n), number \in Commands :
      \E raw \in toRawValue(x.item.format, number) :
        /\ Accepts(x.item, raw)
        /\ payload = <<x.item.entityId>> \o wordToBytes(raw)
        /\ meant = <<number>>

AsksForService(n, payload, meant) ==
    \E x \in EntitiesOfNode(n), command \in CoverCommands :
      payload = <<x.item.entityId, command>> /\ meant = <<command>>

\* What a node is asked for is what was commanded.
NodePacketOk(n, p) ==
    /\ Fits(p.bytes)
    /\ decodes(p.bytes) =>
         LET msg == decodeMessage(p.bytes)
         IN  /\ msg.header.msgType = valueSet_req => AsksForNumber(n, msg.payload, p.meant)
             /\ msg.header.msgType = service_req => AsksForService(n, msg.payload, p.meant)

\* An empty radio says nothing.
LEMMA NoPacketOk ==
    /\ GatewayPacketOk(NoPacket)
    /\ \A n : NodePacketOk(n, NoPacket)
  <1>1. NoPacket.bytes = <<>>
    BY DEF NoPacket
  <1>2. Fits(<<>>)
    BY DEF Fits, LORA_MAX_MESSAGE_LENGTH
  <1>3. ~ decodes(<<>>)
    BY DEF decodes, Received, LORA_MAX_MESSAGE_LENGTH, LORA_HEADER_LENGTH
  <1> QED
    BY <1>1, <1>2, <1>3, Zenon DEF GatewayPacketOk, NodePacketOk

\* A header that is written is one that can be sent.
LEMMA HeaderOk ==
    ASSUME NEW dst \in Byte, NEW src \in Byte, NEW type \in 0 .. 15
    PROVE  /\ Header(dst, src, type) \in Headers
           /\ Header(dst, src, type).src = src
           /\ Header(dst, src, type).msgType = type
  BY DEF Header, Headers, Byte

\* A packet that is sent is heard with its header and its payload.
LEMMA SentPacket ==
    ASSUME NEW h \in Headers, NEW payload \in Seq(Byte),
           Len(payload) <= LORA_MAX_PAYLOAD_LENGTH, NEW meant
    PROVE  LET p == Packet(h, payload, meant)
           IN  /\ Fits(p.bytes)
               /\ decodes(p.bytes)
               /\ decodeMessage(p.bytes).header = h
               /\ decodeMessage(p.bytes).payload = payload
               /\ p.meant = meant
  <1> DEFINE p == Packet(h, payload, meant)
             bytes == encodeMessage(h, payload)
  <1>1. p.bytes = bytes /\ p.meant = meant
    BY DEF Packet
  <1>2. bytes \in Seq(Byte) /\ Len(bytes) = 4 + Len(payload)
    BY PacketBytes
  <1>3. decodes(bytes) /\ decodeMessage(bytes) = [header |-> h, payload |-> payload]
    BY PacketRoundTrip
  <1> HIDE DEF p, bytes
  <1>4. Len(bytes) <= LORA_MAX_MESSAGE_LENGTH
    BY <1>2 DEF LORA_MAX_PAYLOAD_LENGTH, LORA_MAX_MESSAGE_LENGTH, LORA_HEADER_LENGTH
  <1>5. Fits(bytes)
    BY <1>2, <1>4, Zenon DEF Fits
  <1>6. decodeMessage(bytes).header = h /\ decodeMessage(bytes).payload = payload
    BY <1>3
  <1> QED
    BY <1>1, <1>3, <1>5, <1>6, Zenon DEF p

\* Packets of the other types say nothing that has to be true.
LEMMA OtherPacketOk ==
    ASSUME NEW h \in Headers, NEW payload \in Seq(Byte),
           Len(payload) <= LORA_MAX_PAYLOAD_LENGTH, NEW meant
    PROVE  /\ h.msgType \notin {discovery_msg, value_msg}
                => GatewayPacketOk(Packet(h, payload, meant))
           /\ h.msgType \notin {valueSet_req, service_req}
                => \A n : NodePacketOk(n, Packet(h, payload, meant))
  <1> DEFINE p == Packet(h, payload, meant)
  <1>1. /\ Fits(p.bytes) /\ decodes(p.bytes) /\ p.meant = meant
        /\ decodeMessage(p.bytes).header = h
        /\ decodeMessage(p.bytes).payload = payload
    BY SentPacket
  <1> HIDE DEF p
  <1>2. h.msgType \notin {discovery_msg, value_msg} => GatewayPacketOk(p)
    BY <1>1, Zenon DEF GatewayPacketOk
  <1>3. h.msgType \notin {valueSet_req, service_req} => \A n : NodePacketOk(n, p)
    BY <1>1, Zenon DEF NodePacketOk
  <1> QED
    BY <1>2, <1>3 DEF p

\* An announcement says what the node has.
LEMMA AnnouncementOk ==
    ASSUME NEW x \in Entities
    PROVE  GatewayPacketOk(Packet(Header(GatewayAddress, x.deviceId, discovery_msg),
                                  discoveryItemToBytes(x.item), <<>>))
  <1> DEFINE payload == discoveryItemToBytes(x.item)
             h == Header(GatewayAddress, x.deviceId, discovery_msg)
  <1>1. /\ x.item \in Items /\ Len(x.item.name) < MaxName /\ x.deviceId \in 1 .. 254
    BY EntityFacts
  <1>2. payload \in Seq(Byte) /\ Len(payload) = 15 + Len(x.item.name)
    BY <1>1, DiscoveryItemBytes
  <1>3. Len(x.item.name) \in Nat
    BY <1>1 DEF Items
  <1>4. h \in Headers /\ h.src = x.deviceId /\ h.msgType = discovery_msg
    <2>1. GatewayAddress \in Byte /\ x.deviceId \in Byte /\ discovery_msg \in 0 .. 15
      BY <1>1 DEF Byte, GatewayAddress, discovery_msg
    <2> QED
      BY <2>1, HeaderOk
  <1> HIDE DEF payload, h
  <1>5. Len(payload) <= LORA_MAX_PAYLOAD_LENGTH
    BY <1>1, <1>2, <1>3
       DEF MaxName, LORA_MAX_PAYLOAD_LENGTH, LORA_MAX_MESSAGE_LENGTH, LORA_HEADER_LENGTH
  <1>6. h.msgType # value_msg
    BY <1>4 DEF discovery_msg, value_msg
  <1> DEFINE p == Packet(h, payload, <<>>)
  <1>7. /\ Fits(p.bytes) /\ decodes(p.bytes) /\ p.meant = <<>>
        /\ decodeMessage(p.bytes).header = h
        /\ decodeMessage(p.bytes).payload = payload
    BY <1>2, <1>4, <1>5, SentPacket
  <1>8. payload = discoveryItemToBytes(x.item)
    BY DEF payload
  <1> HIDE DEF p
  <1>9. GatewayPacketOk(p)
    BY <1>4, <1>6, <1>7, <1>8, Zenon DEF GatewayPacketOk
  <1> QED
    BY <1>9 DEF h, payload, p

\* A message whose payload is one byte is of no length it should have.
LEMMA ShortPacketOk ==
    ASSUME NEW n \in Nodes, NEW type \in {discovery_msg, value_msg}
    PROVE  GatewayPacketOk(Packet(Header(GatewayAddress, n, type), <<1>>, <<>>))
  <1> DEFINE h == Header(GatewayAddress, n, type)
             payload == <<1>>
  <1>1. /\ payload \in Seq(Byte)
        /\ Len(payload) <= LORA_MAX_PAYLOAD_LENGTH
        /\ ~ (Len(payload) >= DiscoveryItemSize)
        /\ ~ valueMessageComplete(payload)
    BY DEF Byte, LORA_MAX_PAYLOAD_LENGTH, LORA_MAX_MESSAGE_LENGTH, LORA_HEADER_LENGTH,
           DiscoveryItemSize, valueMessageComplete, ValueItemSize
  <1>2. h \in Headers
    <2>1. n \in 1 .. 254
      BY EntityFacts DEF Nodes
    <2>2. GatewayAddress \in Byte /\ n \in Byte /\ type \in 0 .. 15
      BY <2>1 DEF Byte, GatewayAddress, discovery_msg, value_msg
    <2> QED
      BY <2>2, HeaderOk
  <1> HIDE DEF h, payload
  <1>3. GatewayPacketOk(Packet(h, payload, <<>>))
    BY <1>1, <1>2, SentPacket, Zenon DEF GatewayPacketOk
  <1> QED
    BY <1>3 DEF h, payload

\* A node's address is a byte other than the broadcast.
LEMMA NodesAre == \A n \in Nodes : n \in 1 .. 254 /\ n \in Byte /\ n # Broadcast
  <1>1. TAKE n \in Nodes
  <1>2. PICK x \in Entities : n = x.deviceId
    BY DEF Nodes
  <1>3. n \in 1 .. 254
    BY <1>2, EntityFacts
  <1> QED
    BY <1>3 DEF Byte, Broadcast

\* Packets the gateway is not meant to understand say nothing to it.
LEMMA StrayPacketsOk ==
    ASSUME NEW n \in Nodes, NEW p \in StrayPackets(n)
    PROVE  GatewayPacketOk(p)
  <1>1. CASE p = [bytes |-> <<GatewayAddress, n>>, meant |-> <<>>]
    <2> DEFINE bytes == <<GatewayAddress, n>>
    <2>1. bytes \in Seq(Byte) /\ Len(bytes) = 2
      BY NodesAre DEF Byte, GatewayAddress
    <2>2. p.bytes = bytes
      BY <1>1
    <2> HIDE DEF bytes
    <2>3. Fits(bytes) /\ ~ decodes(bytes)
      BY <2>1 DEF Fits, decodes, Received, LORA_MAX_MESSAGE_LENGTH, LORA_HEADER_LENGTH
    <2> QED
      BY <2>2, <2>3, Zenon DEF GatewayPacketOk
  <1>2. ASSUME NEW m \in Nodes, p = Packet(Header(m, n, discovery_req), <<Broadcast>>, <<>>)
        PROVE  GatewayPacketOk(p)
    <2> DEFINE h == Header(m, n, discovery_req)
               payload == <<Broadcast>>
    <2>1. discovery_req \in 0 .. 15 /\ discovery_req \notin {discovery_msg, value_msg}
      BY DEF discovery_req, discovery_msg, value_msg
    <2>2. h \in Headers /\ h.msgType = discovery_req
      BY <2>1, NodesAre, HeaderOk
    <2>3. payload \in Seq(Byte) /\ Len(payload) <= LORA_MAX_PAYLOAD_LENGTH
      BY DEF Byte, Broadcast, LORA_MAX_PAYLOAD_LENGTH, LORA_MAX_MESSAGE_LENGTH, LORA_HEADER_LENGTH
    <2> HIDE DEF h, payload
    <2>4. GatewayPacketOk(Packet(h, payload, <<>>))
      BY <2>1, <2>2, <2>3, OtherPacketOk
    <2> QED
      BY <1>2, <2>4, Zenon DEF h, payload
  <1> DEFINE short == <<1>>
  <1>3. ASSUME NEW type \in {discovery_msg, value_msg},
               p = Packet(Header(GatewayAddress, n, type), short, <<>>)
        PROVE  GatewayPacketOk(p)
    BY <1>3, ShortPacketOk
  <1> QED
    BY <1>1, <1>2, <1>3, Zenon DEF StrayPackets

-----------------------------------------------------------------------------
(* Values. *)

\* A reading is a whole number of steps, whose word reads back as it.
LEMMA ReadingValue ==
    ASSUME NEW x \in Entities, NEW v \in Readings(x)
    PROVE  LET s == Step(x.item.format)
               q == v \div s
           IN  /\ v \in Int /\ q \in Int
               /\ v = s * q
               /\ fromRawValue(x.item.format, asWord(q)) = v
               /\ -WordRange <= 2 * q /\ 2 * q < WordRange
  <1> DEFINE f == x.item.format
             s == Step(f)
             q == v \div s
             word == asWord(q)
             val == Val(f, word)
  <1>1. /\ v \in Numbers[x] /\ v % s = 0 /\ 2 * q < WordRange
        /\ isValidRawValue(f, word) /\ fromRawValue(f, word) = v
    BY Zenon DEF Readings
  <1>2. v \in Int
    BY <1>1, NumbersAssumption
  <1>3. f \in Formats
    BY EntityFacts
  <1>4. s \in Steps
    BY <1>3, StepIs
  <1>5. s * val = v
    BY <1>1, FromVal, Zenon
  <1> HIDE DEF f, s, val, word
  <1>6. q \in Int /\ v = s * q
    <2>1. CASE s = 1
      BY <1>1, <1>2, <2>1
    <2>2. CASE s = 10
      BY <1>1, <1>2, <2>2
    <2>3. CASE s = 100
      BY <1>1, <1>2, <2>3
    <2>4. CASE s = 1000
      BY <1>1, <1>2, <2>4
    <2> QED
      BY <1>4, <2>1, <2>2, <2>3, <2>4 DEF Steps
  <1> HIDE DEF q
  <1>7. PICK h \in Nat : WordRange = 2 * h
    BY WordRangeEven
  <1>8. word \in 0 .. (WordRange - 1)
    BY <1>6, WordRangeIs DEF word, asWord
  <1>9. val \in Int /\ -h <= val
    <2>1. /\ val \in Int
          /\ f.isSigned => val \in -h .. (h - 1)
          /\ \/ val >= 0 /\ word = val
             \/ f.isSigned /\ val < 0 /\ word = val + WordRange
      BY <1>1, <1>3, <1>7, <1>8, ValidValue DEF val
    <2> QED
      BY <1>7, <2>1
  <1>10. val = q
    <2>1. CASE s = 1
      BY <1>5, <1>6, <1>9, <2>1
    <2>2. CASE s = 10
      BY <1>5, <1>6, <1>9, <2>2
    <2>3. CASE s = 100
      BY <1>5, <1>6, <1>9, <2>3
    <2>4. CASE s = 1000
      BY <1>5, <1>6, <1>9, <2>4
    <2> QED
      BY <1>4, <2>1, <2>2, <2>3, <2>4 DEF Steps
  <1>11. -WordRange <= 2 * q
    BY <1>6, <1>7, <1>9, <1>10
  <1> QED
    BY <1>1, <1>2, <1>6, <1>11 DEF f, s, q, word

\* The items of a report, and what their message is read as.
ItemsOf(k, es, vs) ==
    [i \in 1 .. k |-> [entityId |-> es[i].item.entityId,
                       value |-> vs[i] \div Step(es[i].item.format)]]

\* The items of a report survive their message.
LEMMA ReportItems ==
    ASSUME NEW n \in Nodes, NEW k \in {1, 2}, NEW es \in [1 .. k -> EntitiesOfNode(n)],
           NEW vs, \A i \in 1 .. k : vs[i] \in Readings(es[i])
    PROVE  LET payload == valueMessagePayload(ItemsOf(k, es, vs))
           IN  /\ payload \in Seq(Byte)
               /\ Len(payload) <= LORA_MAX_PAYLOAD_LENGTH
               /\ valueMessageComplete(payload)
               /\ valueMessageItems(payload) = ItemsOf(k, es, vs)
  <1> DEFINE items == ItemsOf(k, es, vs)
             payload == valueMessagePayload(items)
  <1>1. ASSUME NEW i \in 1 .. k
        PROVE  [entityId |-> es[i].item.entityId,
                value |-> vs[i] \div Step(es[i].item.format)] \in ValueItems
    <2> DEFINE e == es[i].item.entityId
               q == vs[i] \div Step(es[i].item.format)
    <2>1. es[i] \in Entities
      BY DEF EntitiesOfNode
    <2>2. e \in Byte
      BY <2>1, EntityFacts DEF Byte
    <2>3. q \in Int /\ -WordRange <= 2 * q /\ 2 * q < WordRange
      BY <2>1, ReadingValue
    <2> HIDE DEF e, q
    <2>4. [entityId |-> e, value |-> q] \in ValueItems
      BY <2>2, <2>3 DEF ValueItems
    <2> QED
      BY <2>4 DEF e, q
  <1>2. items \in Seq(ValueItems) /\ Len(items) = k
    BY <1>1 DEF ItemsOf
  <1>3. 1 + 5 * Len(items) <= LORA_MAX_PAYLOAD_LENGTH
    BY <1>2 DEF LORA_MAX_PAYLOAD_LENGTH, LORA_MAX_MESSAGE_LENGTH, LORA_HEADER_LENGTH
  <1> HIDE DEF items
  <1>4. /\ payload \in Seq(Byte)
        /\ Len(payload) = 1 + 5 * Len(items)
        /\ valueMessageComplete(payload)
        /\ valueMessageItems(payload) = items
    BY <1>2, <1>3, ValueMessageRoundTrip
  <1> QED
    BY <1>3, <1>4 DEF items

\* A report says what the node read.
LEMMA ReportOk ==
    ASSUME NEW n \in Nodes, NEW k \in {1, 2}, NEW es \in [1 .. k -> EntitiesOfNode(n)],
           NEW vs \in [1 .. k -> Int],
           k = 2 => es[1].item.entityId < es[2].item.entityId,
           \A i \in 1 .. k : vs[i] \in Readings(es[i])
    PROVE  GatewayPacketOk(Packet(Header(GatewayAddress, n, value_msg),
                                  valueMessagePayload(ItemsOf(k, es, vs)), vs))
  <1> DEFINE payload == valueMessagePayload(ItemsOf(k, es, vs))
             h == Header(GatewayAddress, n, value_msg)
  <1>1. payload \in Seq(Byte) /\ Len(payload) <= LORA_MAX_PAYLOAD_LENGTH
    BY ReportItems
  <1>2. Reported(n, payload, vs)
    BY Zenon DEF Reported, ItemsOf
  <1>3. h \in Headers /\ h.src = n /\ h.msgType = value_msg
    <2>1. GatewayAddress \in Byte /\ value_msg \in 0 .. 15
      BY DEF Byte, GatewayAddress, value_msg
    <2> QED
      BY <2>1, NodesAre, HeaderOk
  <1>4. value_msg # discovery_msg
    BY DEF value_msg, discovery_msg
  <1> HIDE DEF payload, h
  <1> DEFINE p == Packet(h, payload, vs)
  <1>5. /\ Fits(p.bytes) /\ decodes(p.bytes) /\ p.meant = vs
        /\ decodeMessage(p.bytes).header = h
        /\ decodeMessage(p.bytes).payload = payload
    BY <1>1, <1>3, SentPacket
  <1> HIDE DEF p
  <1>6. GatewayPacketOk(p)
    BY <1>2, <1>3, <1>4, <1>5, Zenon DEF GatewayPacketOk
  <1> QED
    BY <1>6 DEF h, payload, p

-----------------------------------------------------------------------------
(***************************************************************************)
(* The table of devices: what it stores was announced, and a device that   *)
(* no removal has moved finds in it what it announced.                     *)
(***************************************************************************)
StoredIn(r) == UNION {entitiesOf(r, i) : i \in 1 .. r.deviceCount}

\* A time stamp changes no entity and moves no device.
LEMMA StampKeepsEntities ==
    ASSUME NEW r, RegistryOk(r), NEW id, NEW now \in Millis,
           NEW i \in 1 .. r.deviceCount
    PROVE  LET q == updateDeviceLastSeen(r, id, now)
           IN  /\ entitiesOf(q, i) = entitiesOf(r, i)
               /\ q.devices[i].info.entities = r.devices[i].info.entities
  <1> DEFINE q == updateDeviceLastSeen(r, id, now)
             idx == findDeviceIndex(r, id)
             old == r.devices[i]
  <1>1. /\ r \in Registry /\ r.deviceCount \in Nat
        /\ 1 .. r.deviceCount \subseteq Slots
    BY MaxDevicesAssumption DEF RegistryOk, Registry, Slots
  <1>2. q = r \/ q = [r EXCEPT !.devices[idx].info.lastSeen = now]
    BY DEF updateDeviceLastSeen
  <1>3. /\ DOMAIN r = {"devices", "deviceCount"}
        /\ DOMAIN r.devices = Slots
        /\ i \in Slots
        /\ old \in InternalDeviceInfo
    BY <1>1 DEF Registry
  <1>4. /\ DOMAIN old = {"info", "entities", "registeredEntityCount"}
        /\ DOMAIN old.info = {"deviceId", "lastSeen", "entityCount", "entities"}
    BY <1>3 DEF InternalDeviceInfo, DeviceInfo
  <1> HIDE DEF q, idx
  <1>5. q.devices[i] \in {old, [old EXCEPT !.info.lastSeen = now]}
    BY <1>2, <1>3, <1>4
  <1> HIDE DEF old
  <1>6. /\ q.devices[i].entities = old.entities
        /\ q.devices[i].registeredEntityCount = old.registeredEntityCount
        /\ q.devices[i].info.entities = old.info.entities
    BY <1>4, <1>5
  <1> QED
    BY <1>6 DEF entitiesOf, old, q

\* An announcement adds its entity to the table, or nothing.
LEMMA AnnouncementStored ==
    ASSUME NEW r, RegistryOk(r), NEW entity \in EntityInfo, NEW now \in Millis
    PROVE  LET q == AfterDiscovery(r, entity, now)
           IN  RegistryOk(q) /\ StoredIn(q) \subseteq StoredIn(r) \cup {entity}
  <1> DEFINE d == entity.deviceId
             r1 == registerDevice(r, d, now)
             r2 == updateDeviceLastSeen(r1, d, now)
             r3 == registerEntity(r2, d, entity)
             q == AfterDiscovery(r, entity, now)
  <1>1. d \in DeviceIds
    BY DEF EntityInfo
  <1>2. CASE ~ registerDeviceOk(r, d)
    <2>1. q = r
      BY <1>2 DEF AfterDiscovery
    <2> QED
      BY <2>1
  <1>3. CASE registerDeviceOk(r, d)
    <2>1. q = r3
      BY <1>3 DEF AfterDiscovery
    <2>2. r.deviceCount \in Nat
      BY MaxDevicesAssumption DEF RegistryOk, Registry
    <2>3. /\ RegistryOk(r1)
          /\ r1.deviceCount \in r.deviceCount .. r.deviceCount + 1
          /\ \A i \in 1 .. r.deviceCount : r1.devices[i] = r.devices[i]
      BY <1>1, RegisterDeviceOk
    <2>4. hasDevice(r, d) => r1 = r
      BY DEF registerDevice
    <2>5. ~ hasDevice(r, d) => /\ r1.deviceCount = r.deviceCount + 1
                               /\ entitiesOf(r1, r.deviceCount + 1) = {}
      BY <1>1, <1>3, RegisterDeviceNew
    <2> HIDE DEF r1
    <2>6. /\ RegistryOk(r2) /\ r2.deviceCount = r1.deviceCount
          /\ \A i \in 1 .. r1.deviceCount : entitiesOf(r2, i) = entitiesOf(r1, i)
      BY <2>3, UpdateDeviceLastSeenOk, StampKeepsEntities
    <2> HIDE DEF r2
    <2>7. /\ RegistryOk(r3) /\ r3.deviceCount = r2.deviceCount
      BY <2>6, RegisterEntityOk
    <2>8. \A i \in 1 .. r2.deviceCount :
            entitiesOf(r3, i) \in {entitiesOf(r2, i), entitiesOf(r2, i) \cup {entity}}
      <3>1. TAKE i \in 1 .. r2.deviceCount
      <3> QED
        BY <2>6, RegisterEntitySlots
    <2> HIDE DEF r3
    <2>9. ASSUME NEW i \in 1 .. r3.deviceCount, NEW e \in entitiesOf(r3, i), e # entity
          PROVE  e \in StoredIn(r)
      <3>1. i \in 1 .. r2.deviceCount /\ i \in 1 .. r1.deviceCount
        BY <2>6, <2>7
      <3>2. e \in entitiesOf(r1, i)
        BY <2>6, <2>8, <2>9, <3>1
      <3>3. CASE i \in 1 .. r.deviceCount
        <4>1. entitiesOf(r1, i) = entitiesOf(r, i)
          BY <2>3, <3>3 DEF entitiesOf
        <4> QED
          BY <3>2, <3>3, <4>1 DEF StoredIn
      <3>4. CASE i \notin 1 .. r.deviceCount
        <4>1. r1 # r /\ i = r.deviceCount + 1
          BY <2>2, <2>3, <3>1, <3>4
        <4> QED
          BY <2>4, <2>5, <3>2, <4>1
      <3> QED
        BY <3>3, <3>4
    <2>10. StoredIn(r3) \subseteq StoredIn(r) \cup {entity}
      <3>1. ASSUME NEW e \in StoredIn(r3) PROVE e \in StoredIn(r) \cup {entity}
        <4>1. PICK i \in 1 .. r3.deviceCount : e \in entitiesOf(r3, i)
          BY DEF StoredIn
        <4> QED
          BY <2>9, <4>1
      <3> QED
        BY <3>1
    <2> QED
      BY <2>1, <2>7, <2>10
  <1> HIDE DEF q
  <1> QED
    BY <1>2, <1>3 DEF q

\* A removal, a restart and a time stamp add nothing to the table.
LEMMA NothingStored ==
    ASSUME NEW r, RegistryOk(r), NEW id,
           NEW q \in {r, EmptyRegistry, unregisterDevice(r, id), updateDeviceLastSeen(r, id, 0)}
    PROVE  RegistryOk(q) /\ StoredIn(q) \subseteq StoredIn(r)
  <1>1. CASE q = r
    BY <1>1
  <1>2. CASE q = EmptyRegistry
    <2>1. q.deviceCount = 0
      BY <1>2 DEF EmptyRegistry
    <2>2. StoredIn(q) = {}
      BY <2>1 DEF StoredIn
    <2> QED
      BY <1>2, <2>2, EmptyRegistryOk
  <1>3. CASE q = unregisterDevice(r, id)
    <2>1. /\ RegistryOk(q)
          /\ \A i \in 1 .. q.deviceCount :
               \E j \in 1 .. r.deviceCount : q.devices[i] = r.devices[j]
      BY <1>3, UnregisterDeviceOk
    <2>2. ASSUME NEW e \in StoredIn(q) PROVE e \in StoredIn(r)
      <3>1. PICK i \in 1 .. q.deviceCount : e \in entitiesOf(q, i)
        BY DEF StoredIn
      <3>2. PICK j \in 1 .. r.deviceCount : q.devices[i] = r.devices[j]
        BY <2>1
      <3>3. e \in entitiesOf(r, j)
        BY <3>1, <3>2 DEF entitiesOf
      <3> QED
        BY <3>3 DEF StoredIn
    <2> QED
      BY <2>1, <2>2
  <1>4. CASE q = updateDeviceLastSeen(r, id, 0)
    <2>1. 0 \in Millis
      BY MillisRangeAssumption DEF Millis
    <2>2. /\ RegistryOk(q) /\ q.deviceCount = r.deviceCount
          /\ \A i \in 1 .. r.deviceCount : entitiesOf(q, i) = entitiesOf(r, i)
      BY <1>4, <2>1, UpdateDeviceLastSeenOk, StampKeepsEntities
    <2> QED
      BY <2>2 DEF StoredIn
  <1> QED
    BY <1>1, <1>2, <1>3, <1>4

\* What is stored is what the nodes have.
LEMMA KnownEntities ==
    ASSUME RegisteredAsAnnounced
    PROVE  known \subseteq Entities
  <1>1. ASSUME NEW x \in known PROVE x \in Entities
    <2>1. PICK e \in stored : x = [deviceId |-> e.deviceId, item |-> e.metadata]
      BY DEF known
    <2>2. PICK y \in Entities : e = EntityOf(y.deviceId, y.item)
      BY <2>1 DEF RegisteredAsAnnounced
    <2>3. x = [deviceId |-> y.deviceId, item |-> y.item]
      BY <2>1, <2>2 DEF EntityOf
    <2>4. y = [deviceId |-> y.deviceId, item |-> y.item]
      BY EntitiesAssumption
    <2> QED
      BY <2>3, <2>4
  <1> QED
    BY <1>1

\* The DeviceInfo of a device that was not moved leads to its own entities: to the
\* one asked for, if the table stores it.
LEMMA FoundWhenUnmoved ==
    ASSUME RegistryOk(registry), RegisteredAsAnnounced, NEW d, hasDevice(registry, d),
           Unmoved(registry, d), NEW e
    PROVE  LET f == infoGetEntity(registry, findDeviceIndex(registry, d), e)
           IN  /\ f # NoEntity => f.metadata.entityId = e
               /\ \A x \in known : x.deviceId = d /\ x.item.entityId = e
                                     => f # NoEntity /\ f.metadata = x.item
  <1> DEFINE idx == findDeviceIndex(registry, d)
             slot == registry.devices[idx]
             count == slot.registeredEntityCount
             k == entityIndex(slot.entities, count, e)
             f == infoGetEntity(registry, idx, e)
  <1>1. /\ registry \in Registry /\ registry.deviceCount \in Nat
        /\ 1 .. registry.deviceCount \subseteq Slots
    BY MaxDevicesAssumption DEF RegistryOk, Registry, Slots
  <1>2. idx \in 1 .. registry.deviceCount /\ slot.info.deviceId = d
    BY <1>1, FindDeviceIndex DEF hasDevice
  <1>3. slot \in InternalDeviceInfo /\ StorageOk(slot)
    BY <1>1, <1>2 DEF RegistryOk, Registry
  <1>4. f = IF k = 0 THEN NoEntity ELSE slot.entities[k]
    <2>1. slot.info.entities = idx /\ slot.info.entityCount = count
      BY <1>3 DEF Unmoved, StorageOk
    <2> QED
      BY <2>1 DEF infoGetEntity
  <1>5. /\ count \in Nat /\ 1 .. count \subseteq EntitySlots
        /\ k \in 0 .. count
        /\ k = 0 => \A l \in 1 .. count : slot.entities[l].entityId # e
        /\ k # 0 => slot.entities[k].entityId = e
    <2>1. count \in Nat /\ 1 .. count \subseteq EntitySlots
      BY <1>3, MaxEntitiesAssumption DEF InternalDeviceInfo, EntitySlots
    <2> QED
      BY <1>3, <2>1, EntityIndex
  <1>6. ASSUME NEW l \in 1 .. count
        PROVE  \E y \in Entities : slot.entities[l] = EntityOf(y.deviceId, y.item)
    <2>1. slot.entities[l] \in stored
      BY <1>2 DEF stored, entitiesOf
    <2> QED
      BY <2>1 DEF RegisteredAsAnnounced
  <1>7. f # NoEntity => f.metadata.entityId = e
    <2>1. SUFFICES ASSUME f # NoEntity PROVE f.metadata.entityId = e
      OBVIOUS
    <2>2. k \in 1 .. count /\ f = slot.entities[k] /\ f.entityId = e
      BY <1>4, <1>5, <2>1
    <2>3. PICK y \in Entities : f = EntityOf(y.deviceId, y.item)
      BY <1>6, <2>2
    <2> QED
      BY <2>2, <2>3 DEF EntityOf
  <1>8. ASSUME NEW x \in known, x.deviceId = d, x.item.entityId = e
        PROVE  f # NoEntity /\ f.metadata = x.item
    <2>1. PICK a \in stored : x = [deviceId |-> a.deviceId, item |-> a.metadata]
      BY DEF known
    <2>2. PICK i \in 1 .. registry.deviceCount : a \in entitiesOf(registry, i)
      BY <2>1 DEF stored
    <2>3. PICK l \in 1 .. registry.devices[i].registeredEntityCount :
            a = registry.devices[i].entities[l]
      BY <2>2 DEF entitiesOf
    <2>4. a.deviceId = d /\ a.metadata = x.item
      BY <1>8, <2>1
    <2>5. i = idx
      <3>1. registry.devices[i] \in InternalDeviceInfo /\ StorageOk(registry.devices[i])
        BY <1>1, <2>2 DEF RegistryOk, Registry
      <3>2. l \in EntitySlots /\ l <= registry.devices[i].registeredEntityCount
        BY <2>3, <3>1, MaxEntitiesAssumption DEF InternalDeviceInfo, EntitySlots
      <3>3. registry.devices[i].entities[l].deviceId = registry.devices[i].info.deviceId
        BY <3>1, <3>2 DEF StorageOk
      <3>4. registry.devices[i].info.deviceId = registry.devices[idx].info.deviceId
        BY <1>2, <2>3, <2>4, <3>3
      <3> QED
        BY <1>2, <2>2, <3>4 DEF RegistryOk, DevicesDistinct
    <2>6. l \in 1 .. count /\ a = slot.entities[l]
      BY <2>3, <2>5
    <2>7. PICK y \in Entities : a = EntityOf(y.deviceId, y.item)
      BY <1>6, <2>6
    <2>8. a.entityId = e
      BY <1>8, <2>4, <2>7 DEF EntityOf
    <2>9. k \in 1 .. count /\ slot.entities[k].entityId = slot.entities[l].entityId
      BY <1>5, <2>6, <2>8
    <2>10. k = l
      <3> HIDE DEF k
      <3> QED
        BY <1>3, <2>6, <2>9 DEF StorageOk
    <2>11. f = a /\ k # 0
      BY <1>4, <2>6, <2>9, <2>10
    <2>12. e # -1
      <3>1. y.item.entityId \in 0 .. 254
        BY EntityFacts
      <3> QED
        BY <2>7, <2>8, <3>1 DEF EntityOf
    <2> QED
      BY <2>4, <2>8, <2>11, <2>12 DEF NoEntity
  <1> QED
    BY <1>7, <1>8

-----------------------------------------------------------------------------
(* The invariant. *)

RadiosOk == /\ GatewayPacketOk(gatewayRadio)
            /\ nodeRadio = [n \in Nodes |-> nodeRadio[n]]
            /\ \A n \in Nodes : NodePacketOk(n, nodeRadio[n])

\* The table is well formed, and what the radios hold is what was said, so that what
\* is made of it in the next step is what was meant.
LinkInv == /\ RegistryOk(registry)
           /\ RegisteredAsAnnounced
           /\ RadiosOk
           /\ ShownAsReported
           /\ AppliedAsCommanded

\* A packet that every node it reaches may hear.
LEMMA HeardByOk ==
    ASSUME RadiosOk, NEW dst, NEW p,
           \A n \in Nodes : dst \in {n, Broadcast} => NodePacketOk(n, p),
           nodeRadio' = HeardBy(dst, p)
    PROVE  /\ nodeRadio' = [n \in Nodes |-> nodeRadio'[n]]
           /\ \A n \in Nodes : NodePacketOk(n, nodeRadio'[n])
  <1>1. nodeRadio' = [n \in Nodes |-> IF dst \in {n, Broadcast} THEN p ELSE nodeRadio[n]]
    BY Zenon DEF HeardBy
  <1>2. \A n \in Nodes : nodeRadio'[n] = IF dst \in {n, Broadcast} THEN p ELSE nodeRadio[n]
    BY <1>1
  <1>3. \A n \in Nodes : NodePacketOk(n, nodeRadio'[n])
    <2>1. TAKE n \in Nodes
    <2>2. CASE dst \in {n, Broadcast}
      BY <1>2, <2>2, Zenon
    <2>3. CASE dst \notin {n, Broadcast}
      BY <1>2, <2>3, Zenon DEF RadiosOk
    <2> QED
      BY <2>2, <2>3
  <1>4. nodeRadio' = [n \in Nodes |-> nodeRadio'[n]]
    BY <1>1
  <1> QED
    BY <1>3, <1>4

\* A request that is not a command.
LEMMA RequestHeard ==
    ASSUME RadiosOk, NEW dst, NEW h \in Headers,
           NEW payload \in Seq(Byte), Len(payload) <= LORA_MAX_PAYLOAD_LENGTH,
           h.msgType \notin {valueSet_req, service_req},
           nodeRadio' = HeardBy(dst, Packet(h, payload, <<>>))
    PROVE  /\ nodeRadio' = [n \in Nodes |-> nodeRadio'[n]]
           /\ \A n \in Nodes : NodePacketOk(n, nodeRadio'[n])
  BY HeardByOk, OtherPacketOk, Zenon

\* A request for entities commands nothing.
LEMMA DiscoveryRequestHeard ==
    ASSUME RadiosOk, NEW dst \in Byte, NEW entityId \in Byte,
           nodeRadio' = HeardBy(dst, DiscoveryRequest(dst, entityId))
    PROVE  /\ nodeRadio' = [n \in Nodes |-> nodeRadio'[n]]
           /\ \A n \in Nodes : NodePacketOk(n, nodeRadio'[n])
  <1> DEFINE h == Header(dst, GatewayAddress, discovery_req)
             payload == <<entityId>>
  <1>1. GatewayAddress \in Byte /\ discovery_req \in 0 .. 15
        /\ discovery_req \notin {valueSet_req, service_req}
    BY DEF GatewayAddress, Byte, discovery_req, valueSet_req, service_req
  <1>2. h \in Headers /\ h.msgType = discovery_req
    BY <1>1, HeaderOk
  <1>3. payload \in Seq(Byte) /\ Len(payload) <= LORA_MAX_PAYLOAD_LENGTH
    BY DEF LORA_MAX_PAYLOAD_LENGTH, LORA_MAX_MESSAGE_LENGTH, LORA_HEADER_LENGTH
  <1>4. nodeRadio' = HeardBy(dst, Packet(h, payload, <<>>))
    BY Zenon DEF DiscoveryRequest
  <1> HIDE DEF h, payload
  <1> QED
    BY <1>1, <1>2, <1>3, <1>4, RequestHeard

\* A step that publishes and applies nothing.
LEMMA QuietSafe ==
    ASSUME published' = NothingPublished, applied' = NotApplied
    PROVE  ShownAsReported' /\ AppliedAsCommanded'
  <1>1. published'.reported = {}
    BY DEF NothingPublished
  <1>2. applied'.kind = "none"
    BY DEF NotApplied
  <1> QED
    BY <1>1, <1>2 DEF ShownAsReported, AppliedAsCommanded

\* A radio that keeps its packet or is emptied.
LEMMA RadiosUnchanged ==
    ASSUME RadiosOk
    PROVE  /\ UNCHANGED gatewayRadio \/ gatewayRadio' = NoPacket => GatewayPacketOk(gatewayRadio')
           /\ UNCHANGED nodeRadio => /\ nodeRadio' = [n \in Nodes |-> nodeRadio'[n]]
                                     /\ \A n \in Nodes : NodePacketOk(n, nodeRadio'[n])
  <1>1. UNCHANGED gatewayRadio \/ gatewayRadio' = NoPacket => GatewayPacketOk(gatewayRadio')
    BY NoPacketOk, Zenon DEF RadiosOk
  <1>2. ASSUME UNCHANGED nodeRadio
        PROVE  /\ nodeRadio' = [n \in Nodes |-> nodeRadio'[n]]
               /\ \A n \in Nodes : NodePacketOk(n, nodeRadio'[n])
    BY <1>2, Zenon DEF RadiosOk
  <1> QED
    BY <1>1, <1>2, Zenon

\* The radios after a step, put together.
LEMMA RadiosOkNext ==
    ASSUME GatewayPacketOk(gatewayRadio'),
           nodeRadio' = [n \in Nodes |-> nodeRadio'[n]],
           \A n \in Nodes : NodePacketOk(n, nodeRadio'[n])
    PROVE  RadiosOk'
  BY Zenon DEF RadiosOk

-----------------------------------------------------------------------------
(* The nodes. *)

\* A node that loses or reads its packet.
LEMMA NodeRadioEmptied ==
    ASSUME RadiosOk, NEW n \in Nodes, nodeRadio' = [nodeRadio EXCEPT ![n] = NoPacket]
    PROVE  /\ nodeRadio' = [m \in Nodes |-> nodeRadio'[m]]
           /\ \A m \in Nodes : NodePacketOk(m, nodeRadio'[m])
  <1>1. nodeRadio = [m \in Nodes |-> nodeRadio[m]]
    BY DEF RadiosOk
  <1>2. /\ nodeRadio' = [m \in Nodes |-> nodeRadio'[m]]
        /\ \A m \in Nodes : nodeRadio'[m] = IF m = n THEN NoPacket ELSE nodeRadio[m]
    BY <1>1
  <1>3. \A m \in Nodes : NodePacketOk(m, nodeRadio'[m])
    <2>1. TAKE m \in Nodes
    <2>2. CASE m = n
      BY <1>2, <2>2, NoPacketOk, Zenon
    <2>3. CASE m # n
      BY <1>2, <2>3, Zenon DEF RadiosOk
    <2> QED
      BY <2>2, <2>3
  <1> QED
    BY <1>2, <1>3

\* The payload of a number command is read as its entity and raw value.
LEMMA NumberPayload ==
    ASSUME NEW e \in Byte, NEW raw \in 0 .. (WordRange - 1)
    PROVE  LET payload == <<e>> \o wordToBytes(raw)
           IN  /\ payload \in Seq(Byte) /\ Len(payload) = 5
               /\ payload[1] = e
               /\ wordFromBytes(payload, 2) = raw
  <1> DEFINE first == <<e>>
             word == wordToBytes(raw)
             payload == first \o word
  <1>1. first \in Seq(Byte) /\ Len(first) = 1 /\ first[1] = e
    OBVIOUS
  <1>2. word \in Seq(Byte) /\ Len(word) = 4
    BY WordRangeIs, WordLength
  <1> HIDE DEF first, word
  <1>3. /\ payload \in Seq(Byte) /\ Len(payload) = Len(first) + Len(word)
        /\ \A k \in 1 .. Len(first) : payload[k] = first[k]
        /\ \A k \in 1 .. Len(word) : payload[Len(first) + k] = word[k]
    BY <1>1, <1>2, Concat
  <1> HIDE DEF payload
  <1>4. /\ payload[1] = e /\ Len(payload) = 5
        /\ payload[2] = word[1] /\ payload[2 + 1] = word[2]
        /\ payload[2 + 2] = word[3] /\ payload[2 + 3] = word[4]
    BY <1>1, <1>2, <1>3
  <1>5. wordFromBytes(payload, 2) = raw
    BY <1>4, WordAt DEF word
  <1> QED
    BY <1>3, <1>4, <1>5 DEF payload, first, word

\* What a node applies of a number command is near what was commanded.
LEMMA NumberApplied ==
    ASSUME NEW n \in Nodes, NodePacketOk(n, nodeRadio[n]), decodes(nodeRadio[n].bytes),
           NEW msg, msg = decodeMessage(nodeRadio[n].bytes),
           msg.header.msgType = valueSet_req,
           NEW x \in EntitiesOfNode(n), msg.payload[1] \in {x.item.entityId, Broadcast},
           applied' = [kind |-> "number", entity |-> x,
                       number |-> fromRawValue(x.item.format, wordFromBytes(msg.payload, 2)),
                       meant |-> nodeRadio[n].meant[1]]
    PROVE  AppliedAsCommanded'
  <1>1. AsksForNumber(n, msg.payload, nodeRadio[n].meant)
    BY Zenon DEF NodePacketOk
  <1>2. PICK y \in EntitiesOfNode(n), number \in Commands :
          \E raw \in toRawValue(y.item.format, number) :
            /\ Accepts(y.item, raw)
            /\ msg.payload = <<y.item.entityId>> \o wordToBytes(raw)
            /\ nodeRadio[n].meant = <<number>>
    BY <1>1, Zenon DEF AsksForNumber
  <1>3. PICK raw \in toRawValue(y.item.format, number) :
          /\ Accepts(y.item, raw)
          /\ msg.payload = <<y.item.entityId>> \o wordToBytes(raw)
          /\ nodeRadio[n].meant = <<number>>
    BY <1>2, Zenon
  <1>4. y \in Entities /\ number \in Int
    BY NumbersAssumption DEF EntitiesOfNode
  <1>5. raw \in 0 .. (WordRange - 1)
    <2>1. PICK h \in Nat : WordRange = 2 * h
      BY WordRangeEven
    <2>2. Rounded(number, Step(y.item.format)) \in Int
      BY <1>4, EntityFacts, StepIs, RoundedNear, Zenon
    <2> QED
      BY <2>1, <2>2, RawOutcomes
  <1>6. y.item.entityId \in Byte
    BY <1>4, EntityFacts DEF Byte
  <1>7. msg.payload[1] = y.item.entityId /\ wordFromBytes(msg.payload, 2) = raw
    BY <1>3, <1>5, <1>6, NumberPayload
  <1>8. x = y
    <2>1. x \in Entities /\ y \in Entities /\ x.deviceId = y.deviceId
      BY DEF EntitiesOfNode
    <2>2. y.item.entityId # Broadcast
      <3>1. y.item.entityId \in 0 .. 254
        BY <2>1, EntityFacts, Zenon
      <3> QED
        BY <3>1 DEF Broadcast
    <2>3. x.item.entityId = y.item.entityId
      BY <1>7, <2>2, Zenon
    <2> QED
      BY <2>1, <2>3, DistinctAssumption, Zenon
  <1> DEFINE a == fromRawValue(y.item.format, raw)
  <1>9. /\ applied'.kind = "number" /\ applied'.entity = y
        /\ applied'.number = a /\ applied'.meant = number
    BY <1>3, <1>7, <1>8
  <1> DEFINE off == a - Clamped(y.item, number)
             step == Step(y.item.format)
  <1>10. /\ Within(y.item, a)
         /\ \/ 2 * off <= step /\ -2 * off <= step
            \/ ReadAsNegative(y.item, number)
    BY <1>3, <1>4, AcceptedIsNear, Zenon
  <1>11. "number" # "service"
    OBVIOUS
  <1> HIDE DEF a
  <1> QED
    BY <1>9, <1>10, <1>11, Zenon DEF AppliedAsCommanded

\* What a node applies of a cover command is the service that was asked for.
LEMMA ServiceApplied ==
    ASSUME NEW n \in Nodes, NodePacketOk(n, nodeRadio[n]), decodes(nodeRadio[n].bytes),
           NEW msg, msg = decodeMessage(nodeRadio[n].bytes),
           msg.header.msgType = service_req, NEW x,
           applied' = [kind |-> "service", entity |-> x,
                       number |-> msg.payload[2], meant |-> nodeRadio[n].meant[1]]
    PROVE  AppliedAsCommanded'
  <1>1. AsksForService(n, msg.payload, nodeRadio[n].meant)
    BY Zenon DEF NodePacketOk
  <1>2. PICK y \in EntitiesOfNode(n), command \in CoverCommands :
          msg.payload = <<y.item.entityId, command>> /\ nodeRadio[n].meant = <<command>>
    BY <1>1, Zenon DEF AsksForService
  <1>3. applied'.kind = "service" /\ applied'.number = applied'.meant
    BY <1>2
  <1>4. "number" # "service"
    OBVIOUS
  <1> QED
    BY <1>3, <1>4, Zenon DEF AppliedAsCommanded

\* The entities of a report of one node have different numbers.
LEMMA ReportedDistinct ==
    ASSUME NEW n \in Nodes, NEW k \in {1, 2}, NEW es \in [1 .. k -> EntitiesOfNode(n)],
           k = 2 => es[1].item.entityId < es[2].item.entityId,
           NEW i \in 1 .. k, NEW j \in 1 .. k,
           es[i].item.entityId = es[j].item.entityId
    PROVE  i = j
  <1>1. \A l \in 1 .. k : es[l] \in Entities
    BY DEF EntitiesOfNode
  <1>2. \A l \in 1 .. k : es[l].item.entityId \in 0 .. 254
    BY <1>1, EntityFacts
  <1>3. CASE k = 1
    BY <1>3
  <1>4. CASE k = 2
    BY <1>2, <1>4
  <1> QED
    BY <1>3, <1>4

\* A reading is 0 with its number of steps, and is exact without decimals.
LEMMA ExactStep ==
    ASSUME NEW x \in Entities, NEW v \in Readings(x)
    PROVE  /\ v \div Step(x.item.format) = 0 <=> v = 0
           /\ x.item.format.precision = 0
                => (v \div Step(x.item.format)) * 10^MaxPrecision = v
  <1> DEFINE s == Step(x.item.format)
             q == v \div s
  <1>1. s \in Steps
    BY EntityFacts, StepIs
  <1>2. v \in Int /\ q \in Int /\ v = s * q
    BY ReadingValue, Zenon
  <1>3. x.item.format.precision = 0 => s = 10^MaxPrecision
    <2>1. ASSUME x.item.format.precision = 0 PROVE s = 10^MaxPrecision
      <3>1. MaxPrecision - x.item.format.precision = MaxPrecision
        BY <2>1, MaxPrecisionAssumption
      <3> QED
        BY <3>1, Zenon DEF Step
    <2> QED
      BY <2>1
  <1> HIDE DEF s, q
  <1>4. q = 0 <=> v = 0
    <2>1. CASE s = 1
      BY <1>2, <2>1
    <2>2. CASE s = 10
      BY <1>2, <2>2
    <2>3. CASE s = 100
      BY <1>2, <2>3
    <2>4. CASE s = 1000
      BY <1>2, <2>4
    <2> QED
      BY <1>1, <2>1, <2>2, <2>3, <2>4 DEF Steps
  <1>5. s \in Int
    BY <1>1 DEF Steps
  <1>6. x.item.format.precision = 0 => q * 10^MaxPrecision = v
    <2>1. ASSUME x.item.format.precision = 0 PROVE q * 10^MaxPrecision = v
      <3>1. q * s = v
        BY <1>2, <1>5
      <3> QED
        BY <1>3, <2>1, <3>1, Zenon
    <2> QED
      BY <2>1
  <1> QED
    BY <1>4, <1>6 DEF s, q

\* What is shown of an exact reading is what it means, and Home Assistant knows it.
LEMMA ShownIsMeant ==
    ASSUME NEW x \in Entities, NEW v \in Readings(x),
           ~ (/\ x.item.domain \notin {BINARY_SENSOR, COVER, SENSOR}
              /\ x.item.format.precision # 0),
           NEW message, message.topic = StateTopic(x.deviceId),
           keyOf(x.item) \in DOMAIN message.doc,
           message.doc[keyOf(x.item)]
             = shownAs(x.item, v \div Step(x.item.format))
    PROVE  Reads(publishDiscovery(x.deviceId, x.item), message) = Meant(x.item, v)
  <1> DEFINE item == x.item
             config == publishDiscovery(x.deviceId, item)
             q == v \div Step(item.format)
             shown == shownAs(item, q)
             known0 == CASE item.domain = BINARY_SENSOR -> {Text("ON"), Text("OFF")}
                         [] item.domain = COVER -> {Text("open"), Text("closed"),
                                                    Text("opening"), Text("closing")}
                         [] OTHER -> {Number(shown.number)}
  <1>1. /\ config.domain = item.domain /\ config.state_topic = StateTopic(x.deviceId)
        /\ config.value_template = keyOf(item)
        /\ config.payload_on = "ON" /\ config.payload_off = "OFF"
        /\ config.state_open = "open" /\ config.state_closed = "closed"
    BY DEF publishDiscovery
  <1> HIDE DEF config
  <1>2. Reads(config, message) = IF shown \in known0 THEN shown ELSE Unknown
    BY <1>1, Zenon DEF Reads
  <1>3. /\ BINARY_SENSOR # COVER /\ BINARY_SENSOR # SENSOR /\ COVER # SENSOR
    BY DEF BINARY_SENSOR, COVER, SENSOR
  <1>4. fromRawValue(item.format, asWord(q)) = v
    BY ReadingValue, Zenon
  <1>5. /\ q = 0 <=> v = 0
        /\ item.format.precision = 0 => q * 10^MaxPrecision = v
    BY ExactStep
  <1> HIDE DEF q
  <1>6. CASE item.domain = BINARY_SENSOR
    <2>0. item.domain # COVER /\ item.domain # SENSOR
      BY <1>3, <1>6, Zenon
    <2>1. shown = Text(IF q = 0 THEN "OFF" ELSE "ON")
      BY <1>6, <2>0, SMT DEF shownAs
    <2>2. Meant(item, v) = Text(IF v = 0 THEN "OFF" ELSE "ON")
      BY <1>6, <2>0, SMT DEF Meant
    <2>3. known0 = {Text("ON"), Text("OFF")}
      BY <1>6, <2>0, SMT
    <2> HIDE DEF shown, known0
    <2>4. shown = Meant(item, v)
      BY <1>5, <2>1, <2>2, Zenon
    <2>5. shown \in known0
      BY <2>1, <2>3, Zenon
    <2> QED
      BY <1>2, <2>4, <2>5, Zenon DEF config
  <1>7. CASE item.domain = COVER
    <2>0. item.domain # BINARY_SENSOR /\ item.domain # SENSOR
      BY <1>3, <1>7, Zenon
    <2>1. shown = Text(coverState(q))
      BY <1>7, <2>0, SMT DEF shownAs
    <2>2. Meant(item, v) = Text(coverState(q))
      BY <1>7, <2>0, SMT DEF Meant, q
    <2>3. known0 = {Text("open"), Text("closed"), Text("opening"), Text("closing")}
      BY <1>7, <2>0, SMT
    <2>4. coverState(q) \in {"open", "closed", "opening", "closing", "unknown"}
      BY DEF coverState
    <2> HIDE DEF shown, known0
    <2>5. shown \in known0 \/ shown = Unknown
      BY <2>1, <2>3, <2>4, Zenon DEF Unknown
    <2> QED
      BY <1>2, <2>1, <2>2, <2>5, Zenon DEF config
  <1>8. CASE item.domain \notin {BINARY_SENSOR, COVER}
    <2>1. Meant(item, v) = Number(v)
      BY <1>8, Zenon DEF Meant
    <2>2. shown = Number(v)
      <3>1. CASE item.domain = SENSOR
        BY <1>3, <1>4, <3>1, Zenon DEF shownAs
      <3>2. CASE item.domain # SENSOR
        <4>1. shown = Number(q * 10^MaxPrecision)
          BY <1>8, <3>2, Zenon DEF shownAs
        <4>2. item.format.precision = 0
          BY <1>8, <3>2, Zenon
        <4> QED
          BY <1>5, <4>1, <4>2, Zenon
      <3> QED
        BY <3>1, <3>2
    <2>3. known0 = {Number(shown.number)}
      BY <1>8, Zenon
    <2> HIDE DEF shown, known0
    <2>4. shown.number = v
      BY <2>2 DEF Number
    <2>5. shown \in known0
      BY <2>2, <2>3, <2>4, Zenon
    <2> QED
      BY <1>2, <2>1, <2>2, <2>5, Zenon DEF config
  <1> QED
    BY <1>6, <1>7, <1>8

\* What is published of the items of a message of a device, and asked for.
Missing(d, items) == {i \in 1 .. Len(items) : Resolved(d, items)[i] = NoEntity}
Shows(d, items, meant) ==
    [message |-> publishSensorValues(d,
       {[item |-> Resolved(d, items)[i].metadata, value |-> items[i].value] :
          i \in (1 .. Len(items)) \ Missing(d, items)}),
     reported |-> Concerned(d, items, meant)]

\* A device that was not moved was not before a time stamp.
LEMMA PointersStay ==
    ASSUME NEW r, RegistryOk(r), NEW d, hasDevice(r, d),
           Unmoved(updateDeviceLastSeen(r, d, 0), d)
    PROVE  Unmoved(r, d)
  <1> DEFINE idx == findDeviceIndex(r, d)
             q == updateDeviceLastSeen(r, d, 0)
  <1>1. 0 \in Millis
    BY MillisRangeAssumption DEF Millis
  <1>2. idx \in 1 .. r.deviceCount
    <2>1. r.deviceCount \in Nat
      BY MaxDevicesAssumption DEF RegistryOk, Registry
    <2> QED
      BY <2>1, FindDeviceIndex DEF hasDevice
  <1>3. /\ q.deviceCount = r.deviceCount
        /\ \A i \in 1 .. r.deviceCount :
             q.devices[i].info.deviceId = r.devices[i].info.deviceId
    BY <1>1, UpdateDeviceLastSeenOk
  <1>4. findDeviceIndex(q, d) = idx
    <2> HIDE DEF q
    <2>1. {i \in 1 .. q.deviceCount : q.devices[i].info.deviceId = d}
            = {i \in 1 .. r.deviceCount : r.devices[i].info.deviceId = d}
      BY <1>3
    <2> QED
      BY <2>1, Zenon DEF findDeviceIndex
  <1>5. q.devices[idx].info.entities = r.devices[idx].info.entities
    BY <1>1, <1>2, StampKeepsEntities
  <1>6. q.devices[idx].info.entities = idx
    BY <1>4, Zenon DEF Unmoved
  <1> QED
    BY <1>5, <1>6 DEF Unmoved

\* What a value is shown as is what it was reported as.
ReadsRight(r, message) ==
    LET item == r.entity.item
        raw == /\ item.domain \notin {BINARY_SENSOR, COVER, SENSOR}
               /\ item.format.precision # 0
    IN  ~ raw => Reads(publishDiscovery(r.entity.deviceId, item), message)
                   = Meant(item, r.meant)

\* The document made of a report shows each value as it was meant, if the table leads
\* to the entities of the device.
LEMMA ReportShown ==
    ASSUME NEW n \in Nodes, RegistryOk(registry), RegisteredAsAnnounced,
           hasDevice(registry, n), Unmoved(registry, n),
           NEW payload, NEW meant, Reported(n, payload, meant),
           NEW shows, shows = Shows(n, valueMessageItems(payload), meant),
           NEW r \in shows.reported
    PROVE  ReadsRight(r, shows.message)
  <1> DEFINE items == valueMessageItems(payload)
             found == Resolved(n, items)
             shown == (1 .. Len(items)) \ Missing(n, items)
             values == {[item |-> found[i].metadata, value |-> items[i].value] : i \in shown}
             message == publishSensorValues(n, values)
  <1>a. shows = [message |-> message, reported |-> Concerned(n, items, meant)]
    BY Zenon DEF Shows
  <1>0. PICK k \in {1, 2} :
          \E es \in [1 .. k -> EntitiesOfNode(n)], vs \in [1 .. k -> Int] :
            /\ k = 2 => es[1].item.entityId < es[2].item.entityId
            /\ \A i \in 1 .. k : vs[i] \in Readings(es[i])
            /\ payload = valueMessagePayload(ItemsOf(k, es, vs))
            /\ meant = vs
    BY Zenon DEF Reported, ItemsOf
  <1>1. PICK es \in [1 .. k -> EntitiesOfNode(n)], vs \in [1 .. k -> Int] :
          /\ k = 2 => es[1].item.entityId < es[2].item.entityId
          /\ \A i \in 1 .. k : vs[i] \in Readings(es[i])
          /\ payload = valueMessagePayload(ItemsOf(k, es, vs))
          /\ meant = vs
    BY <1>0, Zenon
  <1>2. items = ItemsOf(k, es, vs)
    BY <1>1, ReportItems, Zenon
  <1>b. /\ shows.message = message
        /\ shows.reported = Concerned(n, items, meant)
    BY <1>a
  <1>c. \A i, j \in 1 .. k : es[i].item.entityId = es[j].item.entityId => i = j
    BY <1>1, ReportedDistinct
  <1>d. \A i \in 1 .. Len(items) :
          found[i] = infoGetEntity(registry, findDeviceIndex(registry, n), items[i].entityId)
    BY DEF Resolved
  <1>e. shown = {i \in 1 .. Len(items) : found[i] # NoEntity}
    BY DEF Missing
  <1> HIDE DEF items, found, shown
  <1>3. /\ Len(items) = k
        /\ \A i \in 1 .. k : /\ items[i].entityId = es[i].item.entityId
                             /\ items[i].value = vs[i] \div Step(es[i].item.format)
    BY <1>2 DEF ItemsOf
  \* The entity a value is of, and its place in the message.
  <1>4. PICK x \in known, p \in 1 .. k :
          /\ x.deviceId = n /\ x.item.entityId = items[p].entityId
          /\ r = [entity |-> x, meant |-> meant[p]]
    BY <1>b, <1>3 DEF Concerned
  <1>5. x \in Entities /\ x = es[p] /\ r.entity = x /\ r.meant = vs[p]
    <2>1. x \in Entities
      BY KnownEntities
    <2>2. es[p] \in Entities /\ es[p].deviceId = n
      BY DEF EntitiesOfNode
    <2>3. x.item.entityId = es[p].item.entityId
      BY <1>3, <1>4
    <2>4. x = es[p]
      BY <1>4, <2>1, <2>2, <2>3, DistinctAssumption, Zenon
    <2> QED
      BY <1>1, <1>4, <2>1, <2>4
  \* Every value is shown under the entity of its item.
  <1>6. \A i \in shown : i \in 1 .. k /\ found[i].metadata.entityId = es[i].item.entityId
    <2>1. TAKE i \in shown
    <2>2. i \in 1 .. k /\ found[i] # NoEntity
      BY <1>3, <1>e
    <2>3. found[i].metadata.entityId = items[i].entityId
      BY <1>3, <1>d, <2>2, FoundWhenUnmoved
    <2> QED
      BY <1>3, <2>2, <2>3
  <1>7. p \in shown /\ found[p].metadata = x.item
    <2>1. found[p] # NoEntity /\ found[p].metadata = x.item
      BY <1>3, <1>4, <1>d, FoundWhenUnmoved
    <2> QED
      BY <1>3, <1>e, <2>1
  <1> DEFINE item == x.item
             key == keyOf(item)
             q == vs[p] \div Step(item.format)
             mine == [item |-> item, value |-> q]
             v == CHOOSE v \in values : keyOf(v.item) = key
  <1>8. message.topic = StateTopic(n)
    BY DEF publishSensorValues
  <1>9. /\ DOMAIN message.doc = {keyOf(w.item) : w \in values}
        /\ \A c \in {keyOf(w.item) : w \in values} :
             LET w == CHOOSE w \in values : keyOf(w.item) = c
             IN  message.doc[c] = shownAs(w.item, w.value)
    BY DEF publishSensorValues
  <1>10. items[p].value = q
    BY <1>3, <1>5
  <1>11. mine \in values /\ mine.item = item /\ mine.value = q
    BY <1>7, <1>10
  <1>12. ASSUME NEW w \in values, keyOf(w.item) = key PROVE w = mine
    <2>1. PICK i \in shown : w = [item |-> found[i].metadata, value |-> items[i].value]
      OBVIOUS
    <2>2. w.item = found[i].metadata
      BY <2>1
    <2>3. found[i].metadata.entityId = x.item.entityId
      BY <1>12, <2>2 DEF keyOf
    <2>4. es[i].item.entityId = es[p].item.entityId /\ i \in 1 .. k
      BY <1>5, <1>6, <2>3
    <2>5. i = p
      BY <1>c, <2>4, Zenon
    <2> QED
      BY <1>7, <1>10, <2>1, <2>5, Zenon
  <1> HIDE DEF message, mine, values
  <1>13. v = mine
    BY <1>11, <1>12
  <1>14. key \in DOMAIN message.doc /\ message.doc[key] = shownAs(v.item, v.value)
    BY <1>9, <1>11
  <1>15. message.doc[key] = shownAs(item, q)
    BY <1>11, <1>13, <1>14, Zenon
  <1>16. vs[p] \in Readings(x)
    BY <1>1, <1>5
  <1>17. message.topic = StateTopic(x.deviceId)
    BY <1>4, <1>8, Zenon
  <1>18. ASSUME ~ (/\ item.domain \notin {BINARY_SENSOR, COVER, SENSOR}
                   /\ item.format.precision # 0)
         PROVE  Reads(publishDiscovery(x.deviceId, item), message) = Meant(item, vs[p])
    BY <1>5, <1>14, <1>15, <1>16, <1>17, <1>18, ShownIsMeant, Zenon
  <1> QED
    BY <1>b, <1>5, <1>18, Zenon DEF ReadsRight

-----------------------------------------------------------------------------
(* The steps. *)

\* A table to which nothing is added.
LEMMA TableKept ==
    ASSUME RegistryOk(registry), RegisteredAsAnnounced,
           \E n : registry' \in {registry, EmptyRegistry, unregisterDevice(registry, n),
                                updateDeviceLastSeen(registry, n, 0)}
    PROVE  RegistryOk(registry') /\ RegisteredAsAnnounced'
  <1>1. RegistryOk(registry') /\ StoredIn(registry') \subseteq StoredIn(registry)
    BY NothingStored
  <1>2. stored' \subseteq stored
    BY <1>1 DEF stored, StoredIn
  <1> QED
    BY <1>1, <1>2 DEF RegisteredAsAnnounced

\* A step that registers, publishes and applies nothing new.
LEMMA QuietStep ==
    ASSUME LinkInv, Quiet, RadiosOk',
           \/ UNCHANGED registry
           \/ \E n : registry' \in {unregisterDevice(registry, n), EmptyRegistry}
    PROVE  LinkInv'
  <1>1. ShownAsReported' /\ AppliedAsCommanded'
    BY QuietSafe DEF Quiet
  <1>2. RegistryOk(registry') /\ RegisteredAsAnnounced'
    <2>1. RegistryOk(registry) /\ RegisteredAsAnnounced
      BY DEF LinkInv
    <2>2. \E n : registry' \in {registry, EmptyRegistry, unregisterDevice(registry, n),
                                updateDeviceLastSeen(registry, n, 0)}
      OBVIOUS
    <2> QED
      BY <2>1, <2>2, TableKept
  <1> QED
    BY <1>1, <1>2, Zenon DEF LinkInv

\* The header of a packet that is heard consists of bytes.
LEMMA HeardHeader ==
    ASSUME RadiosOk, decodes(gatewayRadio.bytes)
    PROVE  Heard.header.dst \in Byte /\ Heard.header.src \in Byte /\ Heard.header.id \in Byte
  <1> DEFINE bytes == gatewayRadio.bytes
  <1>1. bytes \in Seq(Byte) /\ Len(bytes) <= LORA_MAX_MESSAGE_LENGTH
    BY Zenon DEF RadiosOk, GatewayPacketOk, Fits
  <1>2. Len(bytes) >= 4
    BY <1>1 DEF decodes, Received, LORA_HEADER_LENGTH, LORA_MAX_MESSAGE_LENGTH
  <1>3. Heard.header = headerFromBytes(bytes)
    BY DEF Heard, decodeMessage
  <1> HIDE DEF bytes
  <1>4. bytes[1] \in Byte /\ bytes[2] \in Byte /\ bytes[3] \in Byte
    BY <1>1, <1>2
  <1> QED
    BY <1>3, <1>4 DEF headerFromBytes

\* A ping is answered: nothing is commanded.
LEMMA PingStep ==
    ASSUME LinkInv, HandlePingRequest
    PROVE  LinkInv'
  <1> DEFINE h == Heard.header
             h0 == Header(h.src, h.dst, ping_msg)
             reply == [h0 EXCEPT !.id = h.id]
             payload == <<0, 0>>
  <1>1. /\ decodes(gatewayRadio.bytes)
        /\ gatewayRadio' = NoPacket /\ applied' = NotApplied
        /\ nodeRadio' = HeardBy(h.src, Packet(reply, payload, <<>>))
        /\ published' = NothingPublished
        /\ UNCHANGED registry
    BY Zenon DEF HandlePingRequest, Handling
  <1>2. h.dst \in Byte /\ h.src \in Byte /\ h.id \in Byte
    BY <1>1, HeardHeader, Zenon DEF LinkInv
  <1>3. ping_msg \in 0 .. 15 /\ ping_msg \notin {valueSet_req, service_req}
    BY DEF ping_msg, valueSet_req, service_req
  <1>4. h0 \in Headers /\ h0.msgType = ping_msg
    BY <1>2, <1>3, HeaderOk
  <1> HIDE DEF h, h0
  <1>5. reply \in Headers /\ reply.msgType = ping_msg
    BY <1>2, <1>4 DEF Headers
  <1>6. payload \in Seq(Byte) /\ Len(payload) <= LORA_MAX_PAYLOAD_LENGTH
    BY DEF Byte, LORA_MAX_PAYLOAD_LENGTH, LORA_MAX_MESSAGE_LENGTH, LORA_HEADER_LENGTH
  <1> HIDE DEF reply, payload
  <1>7. RadiosOk
    BY DEF LinkInv
  <1>8. /\ nodeRadio' = [n \in Nodes |-> nodeRadio'[n]]
        /\ \A n \in Nodes : NodePacketOk(n, nodeRadio'[n])
    BY <1>1, <1>3, <1>5, <1>6, <1>7, RequestHeard
  <1>9. RadiosOk'
    BY <1>1, <1>7, <1>8, RadiosUnchanged, RadiosOkNext, Zenon
  <1>10. ShownAsReported' /\ AppliedAsCommanded'
    BY <1>1, QuietSafe
  <1> QED
    BY <1>1, <1>9, <1>10 DEF LinkInv, RegisteredAsAnnounced, stored

\* What is registered is what was announced.
LEMMA DiscoveryStep ==
    ASSUME LinkInv, HandleDiscoveryMessage
    PROVE  LinkInv'
  <1>1. /\ decodes(gatewayRadio.bytes)
        /\ Heard.header.msgType = discovery_msg
        /\ Len(Heard.payload) >= DiscoveryItemSize
        /\ gatewayRadio' = NoPacket /\ applied' = NotApplied
        /\ registry' = AfterDiscovery(registry,
                         EntityOf(Heard.header.src, discoveryItemFromBytes(Heard.payload)), 0)
        /\ published' = NothingPublished
        /\ UNCHANGED nodeRadio
    BY Zenon DEF HandleDiscoveryMessage, Handling
  <1>2. RadiosOk /\ RegistryOk(registry) /\ RegisteredAsAnnounced
    BY DEF LinkInv
  <1>3. PICK x \in Entities : /\ Heard.header.src = x.deviceId
                              /\ Heard.payload = discoveryItemToBytes(x.item)
    BY <1>1, <1>2, Zenon DEF RadiosOk, GatewayPacketOk, Heard
  <1>4. discoveryItemFromBytes(Heard.payload) = x.item
    BY <1>3, EntityFacts, DiscoveryItemRoundTrip, Zenon
  <1>5. /\ RegistryOk(registry')
        /\ StoredIn(registry') \subseteq StoredIn(registry) \cup {EntityOf(x.deviceId, x.item)}
    <2>1. registry' = AfterDiscovery(registry, EntityOf(x.deviceId, x.item), 0)
      BY <1>1, <1>3, <1>4, Zenon
    <2>2. EntityOf(x.deviceId, x.item) \in EntityInfo
      BY MetadataAssumption DEF EntityOf, EntityInfo
    <2>3. 0 \in Millis
      BY MillisRangeAssumption DEF Millis
    <2> QED
      BY <1>2, <2>1, <2>2, <2>3, AnnouncementStored, Zenon
  <1>6. RegisteredAsAnnounced'
    <2>1. stored' \subseteq stored \cup {EntityOf(x.deviceId, x.item)}
      BY <1>5 DEF stored, StoredIn
    <2> QED
      BY <1>2, <2>1 DEF RegisteredAsAnnounced
  <1>7. RadiosOk'
    BY <1>1, <1>2, RadiosUnchanged, RadiosOkNext, Zenon
  <1>8. ShownAsReported' /\ AppliedAsCommanded'
    BY <1>1, QuietSafe
  <1> QED
    BY <1>5, <1>6, <1>7, <1>8 DEF LinkInv

\* A value of a device that is not registered: the program starts again.
LEMMA UnregisteredValueStep ==
    ASSUME LinkInv, HandleUnregisteredValue
    PROVE  LinkInv'
  <1>1. /\ gatewayRadio' = NoPacket /\ applied' = NotApplied
        /\ registry' = EmptyRegistry
        /\ published' = NothingPublished
        /\ UNCHANGED nodeRadio
    BY Zenon DEF HandleUnregisteredValue, HearsValues, Handling
  <1>2. RadiosOk /\ RegistryOk(registry) /\ RegisteredAsAnnounced
    BY DEF LinkInv
  <1>3. RegistryOk(registry') /\ RegisteredAsAnnounced'
    BY <1>1, <1>2, TableKept
  <1>4. RadiosOk'
    BY <1>1, <1>2, RadiosUnchanged, RadiosOkNext, Zenon
  <1>5. ShownAsReported' /\ AppliedAsCommanded'
    BY <1>1, QuietSafe
  <1> QED
    BY <1>3, <1>4, <1>5 DEF LinkInv

\* What is published is what was reported; the rest is asked for.
LEMMA ValueStep ==
    ASSUME LinkInv, HandleValueMessage
    PROVE  LinkInv'
  <1> DEFINE d == Heard.header.src
             items == valueMessageItems(Heard.payload)
             missing == Missing(d, items)
             shows == Shows(d, items, gatewayRadio.meant)
  <1>1. /\ decodes(gatewayRadio.bytes)
        /\ Heard.header.msgType = value_msg
        /\ valueMessageComplete(Heard.payload)
        /\ gatewayRadio' = NoPacket /\ applied' = NotApplied
        /\ hasDevice(registry, d)
        /\ registry' = updateDeviceLastSeen(registry, d, 0)
        /\ published' = shows
        /\ IF missing = {}
           THEN UNCHANGED nodeRadio
           ELSE \E i \in missing :
                  nodeRadio' = HeardBy(d, DiscoveryRequest(d, items[i].entityId))
    BY Zenon DEF HandleValueMessage, HearsValues, Handling, Missing, Shows
  <1>2. RadiosOk /\ RegistryOk(registry) /\ RegisteredAsAnnounced
    BY DEF LinkInv
  <1>3. d \in Nodes /\ Reported(d, Heard.payload, gatewayRadio.meant)
    BY <1>1, <1>2, Zenon DEF RadiosOk, GatewayPacketOk, Heard
  <1>4. RegistryOk(registry') /\ RegisteredAsAnnounced'
    BY <1>1, <1>2, TableKept, Zenon
  <1>5. /\ nodeRadio' = [n \in Nodes |-> nodeRadio'[n]]
        /\ \A n \in Nodes : NodePacketOk(n, nodeRadio'[n])
    <2>1. CASE UNCHANGED nodeRadio
      BY <1>2, <2>1, RadiosUnchanged, Zenon
    <2>2. ASSUME NEW i \in missing,
                 nodeRadio' = HeardBy(d, DiscoveryRequest(d, items[i].entityId))
          PROVE  /\ nodeRadio' = [n \in Nodes |-> nodeRadio'[n]]
                 /\ \A n \in Nodes : NodePacketOk(n, nodeRadio'[n])
      <3>1. items[i].entityId \in Byte
        <4>1. PICK k \in {1, 2} :
                \E es \in [1 .. k -> EntitiesOfNode(d)], vs \in [1 .. k -> Int] :
                  /\ \A j \in 1 .. k : vs[j] \in Readings(es[j])
                  /\ Heard.payload = valueMessagePayload(ItemsOf(k, es, vs))
          BY <1>3, Zenon DEF Reported, ItemsOf
        <4>2. PICK es \in [1 .. k -> EntitiesOfNode(d)], vs \in [1 .. k -> Int] :
                /\ \A j \in 1 .. k : vs[j] \in Readings(es[j])
                /\ Heard.payload = valueMessagePayload(ItemsOf(k, es, vs))
          BY <4>1, Zenon
        <4>3. items = ItemsOf(k, es, vs)
          BY <1>3, <4>2, ReportItems, Zenon
        <4>4. i \in 1 .. Len(items)
          BY DEF Missing
        <4> HIDE DEF items, d
        <4>5. i \in 1 .. k /\ items[i].entityId = es[i].item.entityId
          BY <4>3, <4>4 DEF ItemsOf
        <4>6. es[i] \in Entities
          BY <4>5 DEF EntitiesOfNode
        <4>7. es[i].item.entityId \in 0 .. 254
          BY <4>6, EntityFacts, Zenon
        <4> QED
          BY <4>5, <4>7 DEF Byte
      <3>2. d \in Byte
        BY <1>3, NodesAre, Zenon
      <3> HIDE DEF d, items, missing
      <3> QED
        BY <1>2, <2>2, <3>1, <3>2, DiscoveryRequestHeard
    <2> HIDE DEF d, items, missing, shows
    <2> QED
      BY <1>1, <2>1, <2>2, Zenon
  <1>6. ShownAsReported'
    <2> HIDE DEF d, items, missing
    <2>1. ASSUME NEW r \in published'.reported, Unmoved(registry', r.entity.deviceId)
          PROVE  ReadsRight(r, published'.message)
      <3>1. shows.reported = Concerned(d, items, gatewayRadio.meant)
        BY DEF Shows
      <3>2. r \in shows.reported /\ r.entity.deviceId = d
        BY <1>1, <3>1 DEF Concerned
      <3>3. Unmoved(registry, d)
        BY <1>1, <1>2, <2>1, <3>2, PointersStay
      <3>4. shows = Shows(d, valueMessageItems(Heard.payload), gatewayRadio.meant)
        BY DEF items
      <3> HIDE DEF shows
      <3>5. ReadsRight(r, shows.message)
        BY <1>1, <1>2, <1>3, <3>2, <3>3, <3>4, ReportShown
      <3> QED
        BY <1>1, <3>5, Zenon
    <2> QED
      BY <2>1, Zenon DEF ShownAsReported, ReadsRight
  <1> HIDE DEF d, items, missing, shows
  <1>7. AppliedAsCommanded'
    <2>1. applied'.kind = "none"
      BY <1>1 DEF NotApplied
    <2> QED
      BY <2>1 DEF AppliedAsCommanded
  <1>8. RadiosOk'
    BY <1>1, <1>2, <1>5, RadiosUnchanged, RadiosOkNext, Zenon
  <1> QED
    BY <1>4, <1>6, <1>7, <1>8 DEF LinkInv

\* A cover command is sent to its entity.
LEMMA CoverCommandStep ==
    ASSUME LinkInv, NEW x \in known, NEW command \in CoverCommands,
           HandleCoverCommand(x, command)
    PROVE  LinkInv'
  <1> DEFINE h == Header(x.deviceId, GatewayAddress, service_req)
             payload == <<x.item.entityId, command>>
             p == Packet(h, payload, <<command>>)
  <1>1. RadiosOk /\ x \in Entities
    BY KnownEntities DEF LinkInv
  <1>2. x.deviceId \in 1 .. 254 /\ x.item.entityId \in 0 .. 254
    BY <1>1, EntityFacts, Zenon
  <1>3. h \in Headers /\ h.msgType = service_req
    <2>1. x.deviceId \in Byte /\ GatewayAddress \in Byte /\ service_req \in 0 .. 15
      BY <1>2 DEF Byte, GatewayAddress, service_req
    <2> QED
      BY <2>1, HeaderOk
  <1>4. payload \in Seq(Byte) /\ Len(payload) <= LORA_MAX_PAYLOAD_LENGTH
    BY <1>2 DEF Byte, CoverCommands, LORA_MAX_PAYLOAD_LENGTH, LORA_MAX_MESSAGE_LENGTH,
                LORA_HEADER_LENGTH
  <1>5. ASSUME NEW n \in Nodes, x.deviceId \in {n, Broadcast} PROVE NodePacketOk(n, p)
    <2>1. x \in EntitiesOfNode(n)
      BY <1>1, <1>2, <1>5 DEF EntitiesOfNode, Broadcast
    <2>2. AsksForService(n, payload, <<command>>)
      BY <2>1, Zenon DEF AsksForService
    <2>3. service_req # valueSet_req
      BY DEF service_req, valueSet_req
    <2> HIDE DEF h, payload
    <2>4. /\ Fits(p.bytes) /\ decodes(p.bytes) /\ p.meant = <<command>>
          /\ decodeMessage(p.bytes).header = h
          /\ decodeMessage(p.bytes).payload = payload
      BY <1>3, <1>4, SentPacket
    <2> HIDE DEF p
    <2> QED
      BY <1>3, <2>2, <2>3, <2>4, Zenon DEF NodePacketOk
  <1>6. /\ nodeRadio' = HeardBy(x.deviceId, p)
        /\ Quiet /\ UNCHANGED <<registry, gatewayRadio>>
    BY Zenon DEF HandleCoverCommand
  <1> HIDE DEF p
  <1>7. RadiosOk'
    BY <1>1, <1>5, <1>6, HeardByOk, RadiosUnchanged, RadiosOkNext, Zenon
  <1> QED
    BY <1>6, <1>7, QuietStep

\* A command that is sent is heard as it was commanded.
LEMMA NumberCommandOk ==
    ASSUME NEW n \in Nodes, NEW h \in Headers, h.msgType = valueSet_req,
           NEW payload \in Seq(Byte), Len(payload) <= LORA_MAX_PAYLOAD_LENGTH,
           NEW meant, AsksForNumber(n, payload, meant)
    PROVE  NodePacketOk(n, Packet(h, payload, meant))
  <1> DEFINE p == Packet(h, payload, meant)
  <1>1. service_req # valueSet_req
    BY DEF service_req, valueSet_req
  <1>2. /\ Fits(p.bytes) /\ decodes(p.bytes) /\ p.meant = meant
        /\ decodeMessage(p.bytes).header = h
        /\ decodeMessage(p.bytes).payload = payload
    BY SentPacket
  <1> HIDE DEF p
  <1>3. NodePacketOk(n, p)
    BY <1>1, <1>2, Zenon DEF NodePacketOk
  <1> QED
    BY <1>3 DEF p

\* A number command is sent to its entity, or refused.
LEMMA NumberCommandStep ==
    ASSUME LinkInv, NEW x \in known, NEW number \in Commands,
           HandleNumberCommand(x, number)
    PROVE  LinkInv'
  <1>1. RadiosOk /\ x \in Entities
    BY KnownEntities DEF LinkInv
  <1>2. x.deviceId \in 1 .. 254 /\ x.item.entityId \in 0 .. 254
    BY <1>1, EntityFacts, Zenon
  <1>3. PICK raw \in toRawValue(x.item.format, number) :
          nodeRadio' = IF Accepts(x.item, raw)
                       THEN HeardBy(x.deviceId,
                              Packet(Header(x.deviceId, GatewayAddress, valueSet_req),
                                     <<x.item.entityId>> \o wordToBytes(raw), <<number>>))
                       ELSE nodeRadio
    BY Zenon DEF HandleNumberCommand
  <1> DEFINE h == Header(x.deviceId, GatewayAddress, valueSet_req)
             payload == <<x.item.entityId>> \o wordToBytes(raw)
             p == Packet(h, payload, <<number>>)
  <1>4. published' = NothingPublished /\ applied' = NotApplied
        /\ UNCHANGED <<registry, gatewayRadio>>
    BY Zenon DEF HandleNumberCommand
  <1>5. ASSUME Accepts(x.item, raw) PROVE RadiosOk'
    <2>1. h \in Headers /\ h.msgType = valueSet_req
      <3>1. x.deviceId \in Byte /\ GatewayAddress \in Byte /\ valueSet_req \in 0 .. 15
        BY <1>2 DEF Byte, GatewayAddress, valueSet_req
      <3> QED
        BY <3>1, HeaderOk
    <2>2. raw \in 0 .. (WordRange - 1)
      <3>1. PICK half \in Nat : WordRange = 2 * half
        BY WordRangeEven
      <3>2. number \in Int
        BY NumbersAssumption
      <3>3. Rounded(number, Step(x.item.format)) \in Int
        BY <1>1, <3>2, EntityFacts, StepIs, RoundedNear, Zenon
      <3> QED
        BY <3>1, <3>3, RawOutcomes
    <2>3. payload \in Seq(Byte) /\ Len(payload) = 5
      <3>1. x.item.entityId \in Byte
        BY <1>2 DEF Byte
      <3> QED
        BY <2>2, <3>1, NumberPayload
    <2>4. Len(payload) <= LORA_MAX_PAYLOAD_LENGTH
      BY <2>3 DEF LORA_MAX_PAYLOAD_LENGTH, LORA_MAX_MESSAGE_LENGTH, LORA_HEADER_LENGTH
    <2>5. ASSUME NEW n \in Nodes, x.deviceId \in {n, Broadcast} PROVE NodePacketOk(n, p)
      <3>1. x \in EntitiesOfNode(n)
        BY <1>1, <1>2, <2>5 DEF EntitiesOfNode, Broadcast
      <3>2. AsksForNumber(n, payload, <<number>>)
        BY <1>5, <3>1, Zenon DEF AsksForNumber
      <3> QED
        BY <2>1, <2>3, <2>4, <3>2, NumberCommandOk, Zenon
    <2>6. nodeRadio' = HeardBy(x.deviceId, p)
      BY <1>3, <1>5, Zenon
    <2> HIDE DEF p
    <2>7. /\ nodeRadio' = [n \in Nodes |-> nodeRadio'[n]]
          /\ \A n \in Nodes : NodePacketOk(n, nodeRadio'[n])
      BY <1>1, <2>5, <2>6, HeardByOk, Zenon
    <2> QED
      BY <1>1, <1>4, <2>7, RadiosUnchanged, RadiosOkNext, Zenon
  <1>6. ASSUME ~ Accepts(x.item, raw) PROVE RadiosOk'
    <2>1. UNCHANGED nodeRadio
      BY <1>3, <1>6, Zenon
    <2> QED
      BY <1>1, <1>4, <2>1, RadiosUnchanged, RadiosOkNext, Zenon
  <1>7. RadiosOk'
    BY <1>5, <1>6
  <1>8. ShownAsReported' /\ AppliedAsCommanded'
    BY <1>4, QuietSafe
  <1> QED
    BY <1>4, <1>7, <1>8 DEF LinkInv, RegisteredAsAnnounced, stored

\* An ignored packet leaves the radio.
LEMMA IgnoreStep ==
    ASSUME LinkInv, IgnorePacket
    PROVE  LinkInv'
  <1>1. gatewayRadio' = NoPacket /\ Quiet /\ UNCHANGED <<registry, nodeRadio>>
    BY Zenon DEF IgnorePacket
  <1>2. RadiosOk
    BY DEF LinkInv
  <1>3. RadiosOk'
    BY <1>1, <1>2, RadiosUnchanged, RadiosOkNext, Zenon
  <1> QED
    BY <1>1, <1>3, QuietStep

\* A registry that forgets holds nothing new.
LEMMA ForgetStep ==
    ASSUME LinkInv, Forget
    PROVE  LinkInv'
  <1>1. /\ Quiet /\ UNCHANGED <<gatewayRadio, nodeRadio>>
        /\ \E n : registry' \in {unregisterDevice(registry, n), EmptyRegistry}
    BY Zenon DEF Forget
  <1>2. RadiosOk
    BY DEF LinkInv
  <1>3. RadiosOk'
    BY <1>1, <1>2, RadiosUnchanged, RadiosOkNext, Zenon
  <1> QED
    BY <1>1, <1>3, QuietStep

\* At start every node is asked.
LEMMA AskAllStep ==
    ASSUME LinkInv, AskAll
    PROVE  LinkInv'
  <1>1. /\ nodeRadio' = HeardBy(Broadcast, DiscoveryRequest(Broadcast, Broadcast))
        /\ Quiet /\ UNCHANGED <<registry, gatewayRadio>>
    BY Zenon DEF AskAll
  <1>2. RadiosOk
    BY DEF LinkInv
  <1>3. Broadcast \in Byte
    BY DEF Broadcast, Byte
  <1>4. RadiosOk'
    BY <1>1, <1>2, <1>3, DiscoveryRequestHeard, RadiosUnchanged, RadiosOkNext, Zenon
  <1> QED
    BY <1>1, <1>4, QuietStep

\* A lost packet says nothing.
LEMMA LoseStep ==
    ASSUME LinkInv, Lose
    PROVE  LinkInv'
  <1>1. RadiosOk
    BY DEF LinkInv
  <1>2. Quiet /\ UNCHANGED registry
    BY DEF Lose
  <1>3. ASSUME gatewayRadio' = NoPacket, UNCHANGED nodeRadio PROVE RadiosOk'
    BY <1>1, <1>3, RadiosUnchanged, RadiosOkNext, Zenon
  <1>4. ASSUME NEW n \in Nodes, nodeRadio' = [nodeRadio EXCEPT ![n] = NoPacket],
               UNCHANGED gatewayRadio
        PROVE  RadiosOk'
    BY <1>1, <1>4, NodeRadioEmptied, RadiosUnchanged, RadiosOkNext, Zenon
  <1>5. RadiosOk'
    BY <1>3, <1>4, Zenon DEF Lose
  <1> QED
    BY <1>2, <1>5, QuietStep

\* A step in which the gateway's radio hears a packet of a node.
LEMMA GatewayHears ==
    ASSUME LinkInv, GatewayPacketOk(gatewayRadio'), Quiet, UNCHANGED <<registry, nodeRadio>>
    PROVE  LinkInv'
  <1>1. RadiosOk'
    BY RadiosUnchanged, RadiosOkNext, Zenon DEF LinkInv
  <1> QED
    BY <1>1, QuietStep

\* A node pings.
LEMMA PingsStep ==
    ASSUME LinkInv, NEW n \in Nodes, NodePings(n)
    PROVE  LinkInv'
  <1> DEFINE h == Header(GatewayAddress, n, ping_req)
             payload == << >>
  <1>1. /\ gatewayRadio' = Packet(h, payload, <<>>)
        /\ Quiet /\ UNCHANGED <<registry, nodeRadio>>
    BY Zenon DEF NodePings, NodeSends
  <1>2. GatewayAddress \in Byte /\ ping_req \in 0 .. 15 /\ ping_req \notin {discovery_msg, value_msg}
    BY DEF GatewayAddress, Byte, ping_req, discovery_msg, value_msg
  <1>3. h \in Headers /\ h.msgType = ping_req
    BY <1>2, NodesAre, HeaderOk
  <1>4. payload \in Seq(Byte) /\ Len(payload) <= LORA_MAX_PAYLOAD_LENGTH
    BY DEF LORA_MAX_PAYLOAD_LENGTH, LORA_MAX_MESSAGE_LENGTH, LORA_HEADER_LENGTH
  <1> HIDE DEF h, payload
  <1>5. GatewayPacketOk(gatewayRadio')
    BY <1>1, <1>2, <1>3, <1>4, OtherPacketOk
  <1> QED
    BY <1>1, <1>5, GatewayHears, Zenon

\* A node announces an entity.
LEMMA AnnouncesStep ==
    ASSUME LinkInv, NEW n \in Nodes, NodeAnnounces(n)
    PROVE  LinkInv'
  <1>1. PICK x \in EntitiesOfNode(n) : Announce(x)
    BY Zenon DEF NodeAnnounces
  <1>2. x \in Entities
    BY DEF EntitiesOfNode
  <1>3. GatewayPacketOk(gatewayRadio')
    BY <1>1, <1>2, AnnouncementOk, Zenon DEF Announce, NodeSends
  <1>4. Quiet /\ UNCHANGED <<registry, nodeRadio>>
    BY Zenon DEF NodeAnnounces
  <1> QED
    BY <1>3, <1>4, GatewayHears, Zenon

\* A node reports one or two numbers.
LEMMA ReportsStep ==
    ASSUME LinkInv, NEW n \in Nodes, NodeReports(n)
    PROVE  LinkInv'
  <1>1. Quiet /\ UNCHANGED <<registry, nodeRadio>>
    BY Zenon DEF NodeReports
  <1>2. PICK k \in {1, 2} :
          \E es \in [1 .. k -> EntitiesOfNode(n)] :
            /\ k = 2 => es[1].item.entityId < es[2].item.entityId
            /\ \E vs \in [1 .. k -> UNION {Readings(x) : x \in EntitiesOfNode(n)}] :
                 /\ \A i \in 1 .. k : vs[i] \in Readings(es[i])
                 /\ NodeSends(n, value_msg, valueMessagePayload(ItemsOf(k, es, vs)), vs)
    BY Zenon DEF NodeReports, ItemsOf
  <1>3. PICK es \in [1 .. k -> EntitiesOfNode(n)] :
            /\ k = 2 => es[1].item.entityId < es[2].item.entityId
            /\ \E vs \in [1 .. k -> UNION {Readings(x) : x \in EntitiesOfNode(n)}] :
                 /\ \A i \in 1 .. k : vs[i] \in Readings(es[i])
                 /\ NodeSends(n, value_msg, valueMessagePayload(ItemsOf(k, es, vs)), vs)
    BY <1>2, Zenon
  <1>4. PICK vs \in [1 .. k -> UNION {Readings(x) : x \in EntitiesOfNode(n)}] :
          /\ \A i \in 1 .. k : vs[i] \in Readings(es[i])
          /\ NodeSends(n, value_msg, valueMessagePayload(ItemsOf(k, es, vs)), vs)
    BY <1>3, Zenon
  <1>5. vs \in [1 .. k -> Int]
    <2>1. ASSUME NEW i \in 1 .. k PROVE vs[i] \in Int
      <3>1. es[i] \in Entities
        BY DEF EntitiesOfNode
      <3>2. vs[i] \in Readings(es[i])
        BY <1>4
      <3> QED
        BY <3>1, <3>2, ReadingValue, Zenon
    <2> QED
      BY <2>1, Zenon
  <1>6. gatewayRadio' = Packet(Header(GatewayAddress, n, value_msg),
                               valueMessagePayload(ItemsOf(k, es, vs)), vs)
    BY <1>4, Zenon DEF NodeSends
  <1>7. GatewayPacketOk(gatewayRadio')
    BY <1>3, <1>4, <1>5, <1>6, ReportOk, Zenon
  <1> QED
    BY <1>1, <1>7, GatewayHears, Zenon

\* A stray packet is heard.
LEMMA StraysStep ==
    ASSUME LinkInv, NEW n \in Nodes, NodeStrays(n)
    PROVE  LinkInv'
  <1>1. gatewayRadio' \in StrayPackets(n) /\ Quiet /\ UNCHANGED <<registry, nodeRadio>>
    BY Zenon DEF NodeStrays
  <1>2. GatewayPacketOk(gatewayRadio')
    BY <1>1, StrayPacketsOk, Zenon
  <1> QED
    BY <1>1, <1>2, GatewayHears, Zenon

\* A node applies or answers what it is asked.
LEMMA HandlesStep ==
    ASSUME LinkInv, NEW n \in Nodes, NodeHandles(n)
    PROVE  LinkInv'
  <1> DEFINE msg == decodeMessage(nodeRadio[n].bytes)
             asked == {x \in EntitiesOfNode(n) : msg.payload[1] \in {x.item.entityId, Broadcast}}
  <1>1. /\ decodes(nodeRadio[n].bytes)
        /\ nodeRadio' = [nodeRadio EXCEPT ![n] = NoPacket]
        /\ UNCHANGED registry
        /\ \/ Quiet /\ UNCHANGED gatewayRadio
           \/ Quiet /\ \E x \in asked : Announce(x)
           \/ /\ msg.header.msgType = valueSet_req
              /\ \E x \in asked :
                   applied' = [kind |-> "number", entity |-> x,
                               number |-> fromRawValue(x.item.format,
                                            wordFromBytes(msg.payload, 2)),
                               meant |-> nodeRadio[n].meant[1]]
              /\ published' = NothingPublished
              /\ UNCHANGED gatewayRadio
           \/ /\ msg.header.msgType = service_req
              /\ \E x \in asked :
                   applied' = [kind |-> "service", entity |-> x,
                               number |-> msg.payload[2], meant |-> nodeRadio[n].meant[1]]
              /\ published' = NothingPublished
              /\ UNCHANGED gatewayRadio
    BY Zenon DEF NodeHandles
  <1>2. /\ RadiosOk /\ NodePacketOk(n, nodeRadio[n])
        /\ RegistryOk(registry) /\ RegisteredAsAnnounced
    BY DEF LinkInv, RadiosOk
  <1>3. \A x \in asked : /\ x \in EntitiesOfNode(n) /\ x \in Entities
                         /\ msg.payload[1] \in {x.item.entityId, Broadcast}
    BY DEF EntitiesOfNode
  <1>4. msg = decodeMessage(nodeRadio[n].bytes)
    OBVIOUS
  <1> HIDE DEF msg, asked
  <1>5. ASSUME GatewayPacketOk(gatewayRadio') PROVE RadiosOk'
    BY <1>1, <1>2, <1>5, NodeRadioEmptied, RadiosOkNext, Zenon
  <1>6. ASSUME UNCHANGED gatewayRadio PROVE RadiosOk'
    BY <1>2, <1>5, <1>6, RadiosUnchanged, Zenon
  <1>7. ASSUME NEW x \in asked, Announce(x) PROVE RadiosOk'
    BY <1>3, <1>5, <1>7, AnnouncementOk, Zenon DEF Announce, NodeSends
  <1>8. RadiosOk'
    BY <1>1, <1>6, <1>7, Zenon
  <1>9. ASSUME published' = NothingPublished PROVE ShownAsReported'
    BY <1>9 DEF NothingPublished, ShownAsReported
  <1>10. ASSUME NEW x \in asked, msg.header.msgType = valueSet_req,
                applied' = [kind |-> "number", entity |-> x,
                            number |-> fromRawValue(x.item.format,
                                         wordFromBytes(msg.payload, 2)),
                            meant |-> nodeRadio[n].meant[1]]
         PROVE  AppliedAsCommanded'
    BY <1>1, <1>2, <1>3, <1>4, <1>10, NumberApplied, Zenon
  <1>11. ASSUME NEW x \in asked, msg.header.msgType = service_req,
                applied' = [kind |-> "service", entity |-> x,
                            number |-> msg.payload[2], meant |-> nodeRadio[n].meant[1]]
         PROVE  AppliedAsCommanded'
    BY <1>1, <1>2, <1>3, <1>4, <1>11, ServiceApplied, Zenon
  <1>12. ASSUME Quiet PROVE ShownAsReported' /\ AppliedAsCommanded'
    BY <1>12, QuietSafe DEF Quiet
  <1>13. ShownAsReported' /\ AppliedAsCommanded'
    BY <1>1, <1>9, <1>10, <1>11, <1>12, Zenon
  <1>14. RegistryOk(registry') /\ RegisteredAsAnnounced'
    BY <1>1, <1>2 DEF RegisteredAsAnnounced, stored
  <1> QED
    BY <1>8, <1>13, <1>14 DEF LinkInv

-----------------------------------------------------------------------------
\* Every packet that a radio holds is what was said, and what is made of it is what
\* was meant, in every step.
THEOREM LinkInvariant == Spec => []LinkInv
  <1>1. Init => LinkInv
    <2>1. ASSUME Init PROVE LinkInv
      <3>1. /\ registry = EmptyRegistry /\ gatewayRadio = NoPacket
            /\ nodeRadio = [n \in Nodes |-> NoPacket]
            /\ published = NothingPublished /\ applied = NotApplied
        BY <2>1, Zenon DEF Init
      <3>2. RegistryOk(registry) /\ RegisteredAsAnnounced
        <4>1. registry.deviceCount = 0
          BY <3>1 DEF EmptyRegistry
        <4>2. stored = {}
          BY <4>1 DEF stored
        <4> QED
          BY <3>1, <4>2, EmptyRegistryOk DEF RegisteredAsAnnounced
      <3>3. \A n \in Nodes : nodeRadio[n] = NoPacket
        BY <3>1
      <3>4. nodeRadio = [n \in Nodes |-> nodeRadio[n]]
        BY <3>1
      <3>5. RadiosOk
        BY <3>1, <3>3, <3>4, NoPacketOk, Zenon DEF RadiosOk
      <3>6. ShownAsReported
        BY <3>1 DEF NothingPublished, ShownAsReported
      <3>7. AppliedAsCommanded
        BY <3>1 DEF NotApplied, AppliedAsCommanded
      <3> QED
        BY <3>2, <3>5, <3>6, <3>7 DEF LinkInv
    <2> QED
      BY <2>1
  <1>2. LinkInv /\ [Next]_vars => LinkInv'
    <2> SUFFICES ASSUME LinkInv, [Next]_vars PROVE LinkInv'
      OBVIOUS
    <2>1. CASE HandlePingRequest
      BY <2>1, PingStep
    <2>2. CASE HandleDiscoveryMessage
      BY <2>2, DiscoveryStep
    <2>3. CASE HandleValueMessage \/ HandleUnregisteredValue
      BY <2>3, ValueStep, UnregisteredValueStep
    <2>4. CASE IgnorePacket
      BY <2>4, IgnoreStep
    <2>5. CASE Forget
      BY <2>5, ForgetStep
    <2>6. CASE AskAll
      BY <2>6, AskAllStep
    <2>7. CASE Command
      <3>1. ASSUME NEW x \in known, NEW command \in CoverCommands,
                   HandleCoverCommand(x, command)
            PROVE  LinkInv'
        BY <3>1, CoverCommandStep
      <3>2. ASSUME NEW x \in known, NEW number \in Commands,
                   HandleNumberCommand(x, number)
            PROVE  LinkInv'
        BY <3>2, NumberCommandStep
      <3>3. CASE IgnoreCommand
        <4>1. Quiet /\ UNCHANGED <<registry, gatewayRadio, nodeRadio>>
          BY <3>3, Zenon DEF IgnoreCommand
        <4>2. RadiosOk'
          BY <4>1, RadiosUnchanged, RadiosOkNext, Zenon DEF LinkInv
        <4> QED
          BY <4>1, <4>2, QuietStep
      <3> QED
        BY <2>7, <3>1, <3>2, <3>3, Zenon DEF Command
    <2>8. CASE Node
      <3>1. PICK n \in Nodes : \/ NodePings(n) \/ NodeAnnounces(n) \/ NodeReports(n)
                               \/ NodeStrays(n) \/ NodeHandles(n)
        BY <2>8, Zenon DEF Node
      <3> QED
        BY <3>1, PingsStep, AnnouncesStep, ReportsStep, StraysStep, HandlesStep, Zenon
    <2>9. CASE Lose
      BY <2>9, LoseStep
    <2>10. CASE UNCHANGED vars
      <3>1. UNCHANGED <<registry, gatewayRadio, nodeRadio, published, applied>>
        BY <2>10 DEF vars
      <3> QED
        BY <3>1, Zenon DEF LinkInv, RegisteredAsAnnounced, stored, RadiosOk,
                           ShownAsReported, Unmoved, AppliedAsCommanded
    <2> QED
      BY <2>1, <2>2, <2>3, <2>4, <2>5, <2>6, <2>7, <2>8, <2>9, <2>10, Zenon DEF Next
  <1> QED
    BY <1>1, <1>2, PTL DEF Spec

\* A sequence of bytes holds bytes.
LEMMA BytesOf ==
    ASSUME NEW bytes \in Seq(Byte)
    PROVE  \A k \in 1 .. Len(bytes) : bytes[k] \in 0 .. 255
  <1>1. TAKE k \in 1 .. Len(bytes)
  <1>2. bytes[k] \in Byte
    OBVIOUS
  <1> QED
    BY <1>2 DEF Byte

\* Type correctness: the table is well formed, what the radios hold are bytes, in packets that fit.
THEOREM LinkTypeCorrect == Spec => []LinkTypeOK
  <1>1. LinkInv => LinkTypeOK
    <2> SUFFICES ASSUME LinkInv PROVE LinkTypeOK
      OBVIOUS
    <2>1. RegistryOk(registry)
      BY DEF LinkInv
    <2>2. ASSUME NEW p \in {gatewayRadio} \cup {nodeRadio[n] : n \in Nodes}
          PROVE  /\ Len(p.bytes) <= LORA_MAX_MESSAGE_LENGTH
                 /\ \A k \in 1 .. Len(p.bytes) : p.bytes[k] \in 0 .. 255
      <3>1. Fits(p.bytes)
        BY Zenon DEF LinkInv, RadiosOk, GatewayPacketOk, NodePacketOk
      <3>2. p.bytes \in Seq(Byte) /\ Len(p.bytes) <= LORA_MAX_MESSAGE_LENGTH
        BY <3>1, Zenon DEF Fits
      <3> QED
        BY <3>2, BytesOf, Zenon
    <2> QED
      BY <2>1, <2>2, Zenon DEF LinkTypeOK
  <1> QED
    BY <1>1, LinkInvariant, PTL

\* The registry holds an entity as its node announced it, under the device it is of.
THEOREM EntitiesRegisteredAsAnnounced == Spec => []RegisteredAsAnnounced
  <1>1. LinkInv => RegisteredAsAnnounced
    BY DEF LinkInv
  <1> QED
    BY <1>1, LinkInvariant, PTL

\* Home Assistant shows what the node reported, through the bytes of the packet, the
\* table of devices, the description of the entity and the document of its device,
\* for every device that no removal has moved.
THEOREM ReportsShown == Spec => []ShownAsReported
  <1>1. LinkInv => ShownAsReported
    BY DEF LinkInv
  <1> QED
    BY <1>1, LinkInvariant, PTL

\* A node applies what was commanded, or the nearest it has been sent, unless the
\* word of the number is read as a negative one.
THEOREM CommandsApplied == Spec => []AppliedAsCommanded
  <1>1. LinkInv => AppliedAsCommanded
    BY DEF LinkInv
  <1> QED
    BY <1>1, LinkInvariant, PTL
=============================================================================
