-------------------------- MODULE MqttWire_proofs --------------------------
(***************************************************************************)
(* Proofs about MqttWire, for every size of the buffers, every request and *)
(* every session of the broker: what is written can be read again, and     *)
(* what arrives is handled as it was sent however the reads are cut.       *)
(***************************************************************************)
EXTENDS MqttWire, MqttCodec_proofs

----------------------------------------------------------------------------
(* The fixed header *)

\* A packet whose fixed header takes `start` bytes and says how long the packet is.
Shape(bytes, start) ==
    /\ bytes \in Seq(Nat) /\ Len(bytes) \in Nat
    /\ start \in Nat /\ start >= 2 /\ start <= Len(bytes)
    /\ \A i \in 2 .. start : HighBit(bytes[i]) <=> i # start
    /\ At(bytes, 1, remaining_length[Len(bytes) - start])
    /\ Len(remaining_length[Len(bytes) - start]) = start - 1

\* The rest of the packet is after its header.
Framed(bytes, first, rest, start) ==
    /\ Shape(bytes, start) /\ bytes[1] = first
    /\ At(bytes, start, rest) /\ start + Len(rest) = Len(bytes)

LEMMA FrameShape ==
    ASSUME NEW first \in Nat, NEW rest \in Seq(Nat), NEW bytes, bytes = Frame(first, rest)
    PROVE  Framed(bytes, first, rest, 1 + Len(remaining_length[Len(rest)]))
<1>1. PICK n \in Nat : n = Len(rest)
  OBVIOUS
<1>2. PICK r \in Seq(Nat) : /\ r = remaining_length[n] /\ Len(r) >= 1
                            /\ \A i \in 1 .. Len(r) : HighBit(r[i]) <=> i # Len(r)
  BY <1>1, RemainingLengthType
<1>3. PICK o \in Nat : o = 1 + Len(r)
  OBVIOUS
<1>4. /\ bytes \in Seq(Nat) /\ Len(bytes) = o + n /\ bytes[1] = first
      /\ At(bytes, 1, r) /\ At(bytes, o, rest)
  BY <1>1, <1>2, <1>3, FrameType
<1>5. \A i \in 2 .. o : HighBit(bytes[i]) <=> i # o
  <2> TAKE i \in 2 .. o
  <2>1. PICK j \in 1 .. Len(r) : 1 + j = i /\ (j # Len(r) <=> i # o)
    <3>1. i - 1 \in 1 .. Len(r) /\ 1 + (i - 1) = i /\ (i - 1 # Len(r) <=> i # o)
      BY <1>3
    <3> QED BY <3>1
  <2>2. bytes[1 + j] = r[j]
    BY <1>4 DEF At
  <2> QED BY <1>2, <2>1, <2>2
<1>6. PICK l \in Nat : l = Len(bytes) /\ l - o = n
  BY <1>1, <1>3, <1>4
<1>7. At(bytes, 1, remaining_length[l - o]) /\ Len(remaining_length[l - o]) = o - 1
  BY <1>2, <1>3, <1>4, <1>6
<1>8. o >= 2 /\ o <= l
  BY <1>2, <1>3, <1>4, <1>6, SMTT(30)
<1>9. Shape(bytes, o)
  BY <1>4, <1>5, <1>6, <1>7, <1>8 DEF Shape
<1> QED BY <1>1, <1>2, <1>3, <1>4, <1>9 DEF Framed

\* A buffer with the first n bytes of a packet.
Begins(buffer, bytes, n) ==
    /\ n \in Nat /\ n <= Len(bytes)
    /\ buffer \in Seq(Nat) /\ Len(buffer) = n
    /\ \A i \in 1 .. n : buffer[i] = bytes[i]

LEMMA MinOfTwo ==
    ASSUME NEW a \in Int, NEW b \in Int, a <= b
    PROVE  Min({a, b}) = a /\ Min({b, a}) = a
<1>1. \A x, y \in {a, b} : x \in Int /\ y \in Int
  OBVIOUS
<1> QED BY <1>1 DEF Min

HeaderOf(buffer, length, start, total) ==
    fixed_size_len(buffer, length) = start /\ mqtt_get_total_length(buffer, length) = total

\* A header is read from a buffer that has all of it.
LEMMA HeaderRead ==
    ASSUME NEW bytes, NEW start, Shape(bytes, start), NEW buffer, NEW n, Begins(buffer, bytes, n),
           n >= start, NEW length \in Nat, length >= n
    PROVE  HeaderOf(buffer, length, start, Len(bytes))
<1>1. /\ n \in Nat /\ start \in Nat /\ start >= 2 /\ Len(buffer) = n /\ buffer \in Seq(Nat)
      /\ \A i \in 1 .. n : buffer[i] = bytes[i]
      /\ \A i \in 2 .. start : HighBit(bytes[i]) <=> i # start
  BY DEF Shape, Begins
<1>2. Min({length, Len(buffer)}) = n
  BY <1>1, MinOfTwo
<1> DEFINE ends == {i \in 2 .. n : ~ HighBit(buffer[i])}
<1>3. start \in ends /\ \A i \in ends : start <= i
  <2>1. start \in 2 .. n /\ start \in 2 .. start /\ start \in 1 .. n
    BY <1>1
  <2>2. ~ HighBit(buffer[start])
    BY <1>1, <2>1
  <2>3. ASSUME NEW i \in ends PROVE start <= i
    <3>1. i \in 2 .. n /\ ~ HighBit(buffer[i])
      OBVIOUS
    <3>2. CASE ~ (start <= i)
      <4>1. i \in 2 .. start /\ i # start /\ i \in 1 .. n
        BY <1>1, <3>1, <3>2
      <4> QED BY <1>1, <3>1, <4>1
    <3> QED BY <3>2
  <2> QED BY <2>1, <2>2, <2>3
<1>4. Min(ends) = start /\ ends # {}
  <2>1. \A x, y \in ends : x \in Int /\ y \in Int
    OBVIOUS
  <2> HIDE DEF ends
  <2> QED BY <1>3, <2>1 DEF Min
<1>5. fixed_size_len(buffer, length) = start
  BY <1>2, <1>4, Zenon DEF fixed_size_len
<1>6. PICK m \in Nat : m = Len(bytes) - start
  <2>1. start \in Nat /\ Len(bytes) \in Nat /\ start <= Len(bytes)
    BY DEF Shape
  <2>2. Len(bytes) - start \in Nat
    BY <2>1
  <2> QED BY <2>2
<1>7. PICK r \in Seq(Nat) : r = remaining_length[m]
  BY RemainingLengthType
<1>8. At(bytes, 1, r) /\ Len(r) = start - 1
  BY <1>6, <1>7 DEF Shape
<1>9. At(buffer, 1, r)
  <2>1. 1 + Len(r) <= Len(buffer)
    BY <1>1, <1>8
  <2>2. ASSUME NEW i \in 1 .. Len(r) PROVE buffer[1 + i] = r[i]
    <3>1. 1 + i \in 1 .. n
      BY <1>1, <1>8
    <3>2. bytes[1 + i] = r[i]
      BY <1>8 DEF At
    <3> QED BY <1>1, <3>1, <3>2
  <2> QED BY <2>1, <2>2 DEF At
<1>10. Base128(buffer, 1, start - 1) = m
  BY <1>7, <1>8, <1>9, DigitsRead
<1>11. mqtt_get_total_length(buffer, length) = start + m
  BY <1>5, <1>10, Zenon DEF mqtt_get_total_length
<1>12. start + m = Len(bytes)
  BY <1>1, <1>6, SMTT(30) DEF Shape
<1> QED BY <1>5, <1>11, <1>12 DEF HeaderOf

----------------------------------------------------------------------------
(* The packets a broker sends *)

\* Room for what follows the fixed header of an acknowledgement.
LEMMA RoomForId == OUT_BUFFER \in Nat /\ HEADER_SIZE + 2 <= OUT_BUFFER /\ HEADER_SIZE = 5
<1>1. HEADER_SIZE + 2 <= OUT_BUFFER
  <2>1. OUT_BUFFER >= HEADER_SIZE + 2
    BY SessionsAssumption, Zenon
  <2> QED BY <2>1, MqttMsgAssumption DEF HEADER_SIZE
<1> QED BY <1>1, MqttMsgAssumption, SMTT(30) DEF HEADER_SIZE

\* A short message, which fits, with its fixed header.
ShortMade(msg, type, qos, rest) ==
    fini_message(msg, type, 0, qos, 0, 0).ok
    /\ fini_message(msg, type, 0, qos, 0, 0).bytes = Frame(FirstByte(type, qos, 0), rest)

LEMMA ShortFini ==
    ASSUME NEW msg, NEW bytes, Built(msg, bytes), msg.ok, Len(bytes) < 128,
           NEW type, NEW qos, FirstByte(type, qos, 0) \in Nat
    PROVE  ShortMade(msg, type, qos, bytes)
<1>1. bytes \in Seq(Nat) /\ msg.bytes = bytes
  BY DEF Built
<1>2. PICK n \in Nat : n = Len(msg.bytes) + 0 /\ n < 128
  BY <1>1
<1>3. PICK r \in Seq(Nat) : r = remaining_length[n] /\ Len(r) = 1
  <2>1. remaining_length[n] = <<n>>
    BY <1>2, DigitOnly
  <2>2. <<n>> \in Seq(Nat) /\ Len(<<n>>) = 1
    OBVIOUS
  <2> QED BY <2>1, <2>2
<1>4. Len(r) + 1 <= HEADER_SIZE
  BY <1>3, RoomForId
<1>5. PICK made : made = fini_message(msg, type, 0, qos, 0, 0)
  OBVIOUS
<1>6. made = [ok |-> TRUE, bytes |-> <<type * 16 + 0 * 8 + qos * 2 + 0>> \o r \o msg.bytes]
  BY <1>2, <1>3, <1>4, <1>5, Zenon DEF fini_message
<1>7. made.ok
  BY <1>6
<1>8. fini_message5(msg, type, qos, 0, 0) = made
  BY <1>5, Zenon DEF fini_message5
<1>9. made.bytes = Frame(FirstByte(type, qos, 0), bytes)
  BY <1>7, <1>8, BuiltFrame
<1> QED BY <1>5, <1>7, <1>9 DEF ShortMade

LEMMA AckMade ==
    ASSUME NEW number \in Nat, NEW type, NEW qos, FirstByte(type, qos, 0) \in Nat
    PROVE  ShortMade(append_message_id(Started, number), type, qos, Word(number))
<1>1. PICK w \in Seq(Nat) : w = Word(number) /\ Len(w) = 2
  BY WordType
<1>2. PICK msg : msg = append_message_id(Started, number)
  OBVIOUS
<1>3. Built(msg, <<>> \o Word(number))
  BY <1>2, BuiltStarted, BuiltId
<1>4. <<>> \o w = w
  OBVIOUS
<1>5. Built(msg, w)
  BY <1>1, <1>3, <1>4
<1>6. msg.ok
  <2>1. Started.ok /\ Len(Started.bytes) = 0
    BY DEF Started
  <2>2. HEADER_SIZE + Len(Started.bytes) + Len(w) <= OUT_BUFFER
    BY <1>1, <2>1, RoomForId
  <2>3. msg = [Started EXCEPT !.bytes = @ \o w]
    BY <1>1, <1>2, <2>1, <2>2 DEF append_message_id, append
  <2> QED BY <2>3 DEF Started
<1>7. Len(w) < 128
  BY <1>1
<1>8. ShortMade(msg, type, qos, w)
  BY <1>5, <1>6, <1>7, ShortFini
<1> QED BY <1>1, <1>2, <1>8

\* The bytes of two numbers.
LEMMA PairOf ==
    ASSUME NEW a \in Nat, NEW b \in Nat
    PROVE  <<a, b>> \in Seq(Nat) /\ Len(<<a, b>>) = 2
OBVIOUS

LEMMA ConnackFrame ==
    ASSUME NEW code \in Nat
    PROVE  <<CONNACK * 16, 2, 0, code>> = Frame(32, <<0, code>>)
<1>1. PICK r \in Seq(Nat) : r = <<0, code>> /\ Len(r) = 2 /\ r[1] = 0 /\ r[2] = code
  <2>1. <<0, code>> \in Seq(Nat)
    OBVIOUS
  <2> QED BY <2>1
<1>2. PICK h \in Seq(Nat) : h = <<32, 2>> /\ Len(h) = 2 /\ h[1] = 32 /\ h[2] = 2
  <2>1. <<32, 2>> \in Seq(Nat)
    OBVIOUS
  <2> QED BY <2>1
<1>3. PICK s \in Seq(Nat) : s = h \o r
  <2>1. h \o r \in Seq(Nat)
    OBVIOUS
  <2> QED BY <2>1
<1>4. Len(s) = 4 /\ s[1] = 32 /\ s[2] = 2 /\ s[3] = 0 /\ s[4] = code
  <2>1. /\ Len(s) = Len(h) + Len(r) /\ \A i \in 1 .. Len(h) : s[i] = h[i]
        /\ \A i \in 1 .. Len(r) : s[Len(h) + i] = r[i]
    BY <1>3
  <2>2. s[2 + 1] = r[1] /\ s[2 + 2] = r[2] /\ s[1] = h[1] /\ s[2] = h[2] /\ Len(s) = 4
    BY <1>1, <1>2, <2>1
  <2> QED BY <1>1, <1>2, <2>2
<1>5. PICK t \in Seq(Nat) : /\ t = <<32, 2, 0, code>>
                            /\ Len(t) = 4 /\ t[1] = 32 /\ t[2] = 2 /\ t[3] = 0 /\ t[4] = code
  <2>1. <<32, 2, 0, code>> \in Seq(Nat)
    OBVIOUS
  <2> QED BY <2>1
<1>6. s = t
  <2>1. \A i \in 1 .. 4 : s[i] = t[i]
    <3>1. \A i \in 1 .. 4 : i = 1 \/ i = 2 \/ i = 3 \/ i = 4
      OBVIOUS
    <3> QED BY <1>4, <1>5, <3>1
  <2> QED BY <1>4, <1>5, <2>1, SeqEqual
<1>7. <<32, Len(r)>> \o r = Frame(32, r)
  <2>1. Len(r) < 128 /\ 32 \in Nat
    BY <1>1
  <2> QED BY <2>1, SmallFrame
<1>8. CONNACK * 16 = 32
  BY DEF CONNACK
<1> QED BY <1>1, <1>2, <1>3, <1>5, <1>6, <1>7, <1>8

LEMMA SubackFrame ==
    ASSUME NEW number \in Nat
    PROVE  /\ <<SUBACK * 16, 3>> \o Word(number) \o <<0>> = Frame(144, Word(number) \o <<0>>)
           /\ Word(number) \o <<0>> \in Seq(Nat) /\ Len(Word(number) \o <<0>>) = 3
<1>1. PICK w \in Seq(Nat) : w = Word(number) /\ Len(w) = 2
  BY WordType
<1>2. PICK z \in Seq(Nat) : z = <<0>> /\ Len(z) = 1
  <2>1. <<0>> \in Seq(Nat) /\ Len(<<0>>) = 1
    OBVIOUS
  <2> QED BY <2>1
<1>3. PICK h \in Seq(Nat) : h = <<144, 3>>
  <2>1. <<144, 3>> \in Seq(Nat)
    OBVIOUS
  <2> QED BY <2>1
<1>4. PICK r \in Seq(Nat) : r = w \o z /\ Len(r) = 3
  <2>1. w \o z \in Seq(Nat) /\ Len(w \o z) = Len(w) + Len(z)
    OBVIOUS
  <2>2. Len(w \o z) = 3
    BY <1>1, <1>2, <2>1
  <2> QED BY <2>1, <2>2
<1>5. Regrouped(h, w, z)
  BY ThreeParts
<1>6. (h \o w) \o z = h \o r
  BY <1>4, <1>5 DEF Regrouped
<1>7. <<144, Len(r)>> \o r = Frame(144, r)
  <2>1. Len(r) < 128 /\ 144 \in Nat
    BY <1>4
  <2> QED BY <2>1, SmallFrame
<1>8. SUBACK * 16 = 144
  BY DEF SUBACK
<1> QED BY <1>1, <1>2, <1>3, <1>4, <1>6, <1>7, <1>8

\* A PUBLISH that fits in the buffer, or is written in pieces.
PublishSent(made, topic, first, rest) ==
    made.message.ok => topic # <<>> /\ Fragmented(made.message, made.remaining, first, rest)

LEMMA PublishSentFrame ==
    ASSUME NEW topic \in Seq(Nat), NEW data \in Seq(Nat), NEW qos \in Nat, NEW retain \in Nat,
           NEW number \in Nat
    PROVE  PublishSent(mqtt_msg_publish(topic, data, qos, retain, number), topic,
                       FirstByte(PUBLISH, qos, retain), PublishHead(topic, qos, number) \o data)
<1>1. PICK start : start = IF topic = <<>> THEN Failed ELSE append_string(Started, topic)
  OBVIOUS
<1>2. PICK header : header = IF qos > 0 THEN append_message_id(start, number) ELSE start
  OBVIOUS
<1>3. PICK space : space = OUT_BUFFER - HEADER_SIZE - Len(header.bytes)
  OBVIOUS
<1>4. PICK k : k = IF Len(data) > space THEN space ELSE Len(data)
  OBVIOUS
<1>5. PICK msg : msg = IF header.ok THEN append(header, SubSeq(data, 1, k)) ELSE header
  OBVIOUS
<1>6. PICK made : made = mqtt_msg_publish(topic, data, qos, retain, number)
  OBVIOUS
<1>7. made = [message |-> fini_message(msg, PUBLISH, 0, qos, retain, Len(data) - k),
              remaining |-> SubSeq(data, k + 1, Len(data))]
  BY <1>1, <1>2, <1>3, <1>4, <1>5, <1>6, Zenon DEF mqtt_msg_publish, When
<1>8. PICK packet : packet = fini_message5(msg, PUBLISH, qos, retain, Len(data) - k)
  OBVIOUS
<1>9. made.message = packet /\ made.remaining = SubSeq(data, k + 1, Len(data))
  BY <1>7, <1>8 DEF fini_message5
<1>10. PICK t \in Seq(Nat) : t = String(topic)
  BY StringType
<1>11. Built(start, t) /\ (start.ok => topic # <<>> /\ HEADER_SIZE + Len(start.bytes) <= OUT_BUFFER)
  <2>1. CASE topic = <<>>
    <3>1. start = Failed /\ ~ start.ok
      BY <1>1, <2>1 DEF Failed
    <3> QED BY <3>1, BuiltFailed
  <2>2. CASE topic # <<>>
    <3>1. start = append(Started, t)
      BY <1>1, <1>10, <2>2 DEF append_string, String
    <3>2. /\ Built(append(Started, t), <<>> \o t)
          /\ append(Started, t).ok => HEADER_SIZE + Len(append(Started, t).bytes) <= OUT_BUFFER
      BY BuiltStarted, BuiltAppend
    <3>3. <<>> \o t = t
      OBVIOUS
    <3> QED BY <2>2, <3>1, <3>2, <3>3
  <2> QED BY <2>1, <2>2
<1>12. PICK h \in Seq(Nat) : h = PublishHead(topic, qos, number)
  BY PublishHeadType
<1>13. Built(header, h) /\ (header.ok => start.ok /\ HEADER_SIZE + Len(header.bytes) <= OUT_BUFFER)
  <2>1. CASE qos > 0
    <3>1. PICK w \in Seq(Nat) : w = Word(number)
      BY WordType
    <3>2. header = append(start, w)
      BY <1>2, <2>1, <3>1 DEF append_message_id
    <3>3. /\ Built(append(start, w), t \o w)
          /\ append(start, w).ok =>
                 start.ok /\ HEADER_SIZE + Len(append(start, w).bytes) <= OUT_BUFFER
      BY <1>11, BuiltAppend
    <3>4. h = t \o w
      BY <1>10, <1>12, <2>1, <3>1 DEF PublishHead
    <3> QED BY <3>2, <3>3, <3>4
  <2>2. CASE ~ (qos > 0)
    <3>1. t \o <<>> = t
      OBVIOUS
    <3>2. h = t
      BY <1>10, <1>12, <2>2, <3>1 DEF PublishHead
    <3>3. header = start
      BY <1>2, <2>2
    <3> QED BY <1>11, <3>2, <3>3
  <2> QED BY <2>1, <2>2
<1>14. CASE ~ header.ok
  <2>1. msg = header /\ ~ msg.ok
    BY <1>5, <1>14
  <2>2. packet = Failed
    BY <1>8, <2>1, Zenon DEF fini_message5, fini_message
  <2>3. ~ Failed.ok
    BY DEF Failed
  <2> QED BY <1>6, <1>9, <2>2, <2>3 DEF PublishSent
<1>15. CASE header.ok
  <2>1. header.bytes = h /\ Len(h) \in Nat /\ Len(data) \in Nat /\ OUT_BUFFER \in Nat
    BY <1>13, <1>15, MqttMsgAssumption DEF Built
  <2>2. space \in Nat
    BY <1>3, <1>13, <1>15, <2>1 DEF HEADER_SIZE
  <2>3. k \in 0 .. Len(data)
    BY <1>4, <2>1, <2>2
  <2>4. PICK m : m = Len(data) - k
    OBVIOUS
  <2>5. PICK f : f = FirstByte(PUBLISH, qos, retain) /\ f \in Nat
    BY DEF FirstByte, PUBLISH
  <2>6. packet = fini_message5(append(header, SubSeq(data, 1, k)), PUBLISH, qos, retain, m)
    BY <1>5, <1>8, <1>15, <2>4
  <2>7. packet.ok => Fragmented(packet, SubSeq(data, k + 1, Len(data)), f, h \o data)
    BY <1>13, <1>15, <2>3, <2>4, <2>5, <2>6, FragmentFrame
  <2>8. topic # <<>>
    BY <1>11, <1>13, <1>15
  <2> QED BY <1>6, <1>9, <1>12, <2>5, <2>7, <2>8, SMTT(30) DEF PublishSent
<1> QED BY <1>14, <1>15

\* Where the bytes of a packet are, by its type.
HasId(type) == type \in {PUBACK, PUBREC, PUBREL, PUBCOMP}
IdSize(packet) == IF packet.qos > 0 THEN 2 ELSE 0

Payload(packet, start) == start + 2 + Len(packet.topic) + IdSize(packet)

PublishFields(bytes, packet, start) ==
    /\ Len(packet.topic) \in Nat /\ Len(packet.topic) >= 1
    /\ (bytes[1] \div 2) % 4 = packet.qos
    /\ WordAt(bytes, start) = Len(packet.topic)
    /\ packet.qos > 0 => WordAt(bytes, start + 2 + Len(packet.topic)) = packet.id
    /\ At(bytes, Payload(packet, start), packet.data)
    /\ Payload(packet, start) + Len(packet.data) = Len(bytes)
    /\ bytes[start + 2] = Len(packet.topic) % 256

AckFields(bytes, packet) == Len(bytes) = 4 /\ WordAt(bytes, 2) = packet.id
                            /\ bytes[2] = 2 /\ bytes[4] = packet.id % 256 /\ bytes[3] = packet.id \div 256
SubackFields(bytes, packet) == Len(bytes) = 5 /\ WordAt(bytes, 2) = packet.id
                               /\ bytes[2] = 3 /\ bytes[5] = 0
ConnackFields(bytes, packet) == Len(bytes) = 4 /\ bytes[3] = 0 /\ bytes[4] = packet.id

\* A packet of the broker, with the size of its fixed header.
Formed(packet, bytes, start) ==
    /\ Shape(bytes, start) /\ start <= 5
    /\ mqtt_get_type(bytes) = packet.type /\ mqtt_has_valid_msg_hdr(bytes[1])
    /\ packet.type = PUBLISH => PublishFields(bytes, packet, start)
    /\ HasId(packet.type) => AckFields(bytes, packet)
    /\ packet.type = SUBACK => SubackFields(bytes, packet)
    /\ packet.type = CONNACK => ConnackFields(bytes, packet)
    /\ packet.type = PINGRESP => Len(bytes) = 2

LEMMA ShortShape ==
    ASSUME NEW first \in Nat, NEW rest \in Seq(Nat), NEW bytes, bytes = Frame(first, rest),
           Len(rest) < 128
    PROVE  Framed(bytes, first, rest, 2) /\ bytes[2] = Len(rest)
<1>1. PICK n \in Nat : n = Len(rest) /\ n < 128
  OBVIOUS
<1>2. PICK r \in Seq(Nat) : r = remaining_length[n] /\ Len(r) = 1 /\ r[1] = n
  <2>1. remaining_length[n] = <<n>>
    BY <1>1, DigitOnly
  <2>2. <<n>> \in Seq(Nat) /\ Len(<<n>>) = 1 /\ <<n>>[1] = n
    OBVIOUS
  <2> QED BY <2>1, <2>2
<1>3. Framed(bytes, first, rest, 1 + Len(remaining_length[Len(rest)]))
  BY FrameShape
<1>4. 1 + Len(r) = 2
  BY <1>2
<1>5. Framed(bytes, first, rest, 2)
  BY <1>1, <1>2, <1>3, <1>4
<1>6. At(bytes, 1, r)
  BY <1>1, <1>2, FrameType
<1>7. bytes[1 + 1] = r[1]
  BY <1>2, <1>6 DEF At
<1> QED BY <1>1, <1>2, <1>5, <1>7

\* The first bytes of the short packets.
LEMMA ShortFirst ==
    /\ 32 \div 16 = 2 /\ 64 \div 16 = 4 /\ 80 \div 16 = 5 /\ 98 \div 16 = 6 /\ 112 \div 16 = 7
    /\ 144 \div 16 = 9 /\ 208 \div 16 = 13
    /\ 32 % 16 = 0 /\ 64 % 16 = 0 /\ 80 % 16 = 0 /\ 98 % 16 = 2 /\ 112 % 16 = 0 /\ 144 % 16 = 0
    /\ 208 % 16 = 0
OBVIOUS

ShortKind(type, first) ==
    \/ type = CONNACK /\ first = 32
    \/ type = PUBACK /\ first = 64
    \/ type = PUBREC /\ first = 80
    \/ type = PUBREL /\ first = 98
    \/ type = PUBCOMP /\ first = 112
    \/ type = SUBACK /\ first = 144
    \/ type = PINGRESP /\ first = 208

LEMMA ShortHeader ==
    ASSUME NEW type, NEW first, ShortKind(type, first)
    PROVE  first \div 16 = type /\ first \in Nat /\ mqtt_has_valid_msg_hdr(first)
<1>1. first \div 16 = type /\ first \in Nat
  BY ShortFirst DEF ShortKind, CONNACK, PUBACK, PUBREC, PUBREL, PUBCOMP, SUBACK, PINGRESP
<1>2. \/ first \div 16 \in {CONNECT, CONNACK, PUBACK, PUBREC, PUBCOMP, SUBACK,
                            UNSUBACK, PINGREQ, PINGRESP, DISCONNECT} /\ first % 16 = 0
      \/ first \div 16 = PUBREL /\ first % 16 = 2
  BY <1>1, ShortFirst DEF ShortKind
<1>3. \A t : /\ t = PUBREL => t \notin {CONNECT, CONNACK, PUBACK, PUBREC, PUBCOMP, SUBACK,
                                       UNSUBACK, PINGREQ, PINGRESP, DISCONNECT}
             /\ t = PUBREL => t # PUBLISH
             /\ t \in {CONNECT, CONNACK, PUBACK, PUBREC, PUBCOMP, SUBACK,
                       UNSUBACK, PINGREQ, PINGRESP, DISCONNECT} =>
                    t \notin {PUBREL, SUBSCRIBE, UNSUBSCRIBE} /\ t # PUBLISH
  BY DEF CONNECT, CONNACK, PUBLISH, PUBACK, PUBREC, PUBREL, PUBCOMP, SUBSCRIBE, SUBACK, UNSUBSCRIBE,
         UNSUBACK, PINGREQ, PINGRESP, DISCONNECT
<1>4. mqtt_has_valid_msg_hdr(first)
  BY <1>2, <1>3, Zenon DEF mqtt_has_valid_msg_hdr
<1> QED BY <1>1, <1>4

LEMMA KindsOfPacket ==
    /\ \A t : HasId(t) => t # PUBLISH /\ t # SUBACK /\ t # CONNACK /\ t # PINGRESP
    /\ PUBLISH # SUBACK /\ PUBLISH # CONNACK /\ PUBLISH # PINGRESP /\ SUBACK # CONNACK
    /\ SUBACK # PINGRESP /\ CONNACK # PINGRESP
    /\ PUBACK # PUBREC /\ PUBACK # PUBREL /\ PUBACK # PUBCOMP /\ PUBREC # PUBREL /\ PUBREC # PUBCOMP
    /\ PUBREL # PUBCOMP
BY DEF HasId, CONNACK, PUBLISH, PUBACK, PUBREC, PUBREL, PUBCOMP, SUBACK, PINGRESP

\* The fields of the short packets.
ShortFields(packet, rest) ==
    /\ packet.type # PUBLISH
    /\ HasId(packet.type) => rest = Word(packet.id)
    /\ packet.type = SUBACK => rest = Word(packet.id) \o <<0>>
    /\ packet.type = CONNACK => rest = <<0, packet.id>>
    /\ packet.type = PINGRESP => rest = <<>>

LEMMA AtTwo ==
    ASSUME NEW bytes, NEW pair \in Seq(Nat), At(bytes, 2, pair), Len(pair) = 2
    PROVE  bytes[3] = pair[1] /\ bytes[4] = pair[2]
<1>1. \A i \in 1 .. Len(pair) : bytes[2 + i] = pair[i]
  BY DEF At
<1>2. 1 \in 1 .. Len(pair) /\ 2 \in 1 .. Len(pair) /\ 2 + 1 = 3 /\ 2 + 2 = 4
  OBVIOUS
<1>3. bytes[2 + 1] = pair[1] /\ bytes[2 + 2] = pair[2]
  BY <1>1, <1>2
<1> QED BY <1>2, <1>3

LEMMA ShortFormed ==
    ASSUME NEW packet, packet.id \in Nat, NEW first, ShortKind(packet.type, first),
           NEW rest \in Seq(Nat), ShortFields(packet, rest), Len(rest) < 128,
           NEW bytes, bytes = Frame(first, rest)
    PROVE  Formed(packet, bytes, 2)
<1>1. first \div 16 = packet.type /\ first \in Nat /\ mqtt_has_valid_msg_hdr(first)
  BY ShortHeader
<1>2. Framed(bytes, first, rest, 2) /\ bytes[2] = Len(rest)
  BY <1>1, ShortShape
<1>3. Shape(bytes, 2) /\ bytes[1] = first /\ At(bytes, 2, rest) /\ 2 + Len(rest) = Len(bytes)
  BY <1>2 DEF Framed
<1>4. PICK n \in Nat : n = packet.id
  OBVIOUS
<1>5. PICK w \in Seq(Nat) : w = Word(n) /\ Len(w) = 2 /\ w[1] = n \div 256 /\ w[2] = n % 256
  <2>1. Word(n)[1] = n \div 256 /\ Word(n)[2] = n % 256
    BY DEF Word
  <2> QED BY <2>1, WordType
<1>6. ASSUME HasId(packet.type) PROVE AckFields(bytes, packet)
  <2>1. rest = w
    BY <1>4, <1>5, <1>6 DEF ShortFields
  <2>2. WordAt(bytes, 2) = n
    BY <1>3, <1>5, <2>1, WordRead
  <2>3. bytes[3] = w[1] /\ bytes[4] = w[2]
    BY <1>3, <1>5, <2>1, AtTwo
  <2>4. Len(rest) = 2
    BY <1>5, <2>1
  <2>5. Len(bytes) = 4 /\ bytes[2] = 2
    BY <1>2, <1>3, <2>4
  <2> QED BY <1>4, <1>5, <2>2, <2>3, <2>5 DEF AckFields
<1>7. ASSUME packet.type = SUBACK PROVE SubackFields(bytes, packet)
  <2>1. PICK z \in Seq(Nat) : z = <<0>> /\ Len(z) = 1 /\ z[1] = 0
    <3>1. <<0>> \in Seq(Nat) /\ Len(<<0>>) = 1 /\ <<0>>[1] = 0
      OBVIOUS
    <3> QED BY <3>1
  <2>2. rest = w \o z
    BY <1>4, <1>5, <1>7, <2>1 DEF ShortFields
  <2>3. bytes \in Seq(Nat) /\ 2 \in Nat
    BY <1>3 DEF Shape
  <2>4. At(bytes, 2, w) /\ At(bytes, 2 + Len(w), z)
    BY <1>3, <2>2, <2>3, AtConcat
  <2>5. WordAt(bytes, 2) = n
    BY <1>5, <2>4, WordRead
  <2>6. Len(w \o z) = Len(w) + Len(z)
    OBVIOUS
  <2>7. Len(rest) = 3
    BY <1>5, <2>1, <2>2, <2>6
  <2>8. bytes[4 + 1] = z[1]
    BY <1>5, <2>1, <2>4 DEF At
  <2> QED BY <1>2, <1>3, <1>4, <2>1, <2>5, <2>7, <2>8 DEF SubackFields
<1>8. ASSUME packet.type = CONNACK PROVE ConnackFields(bytes, packet)
  <2>1. PICK z \in Seq(Nat) : z = <<0, n>> /\ Len(z) = 2 /\ z[1] = 0 /\ z[2] = n
    <3>1. <<0, n>> \in Seq(Nat) /\ Len(<<0, n>>) = 2 /\ <<0, n>>[1] = 0 /\ <<0, n>>[2] = n
      OBVIOUS
    <3> QED BY <3>1
  <2>2. rest = z
    BY <1>4, <1>8, <2>1 DEF ShortFields
  <2>3. bytes[3] = z[1] /\ bytes[4] = z[2]
    BY <1>3, <2>1, <2>2, AtTwo
  <2> QED BY <1>3, <1>4, <2>1, <2>2, <2>3 DEF ConnackFields
<1>9. ASSUME packet.type = PINGRESP PROVE Len(bytes) = 2
  <2>1. rest = <<>>
    BY <1>9 DEF ShortFields
  <2>2. Len(rest) = 0
    BY <2>1
  <2> QED BY <1>3, <2>2
<1>10. mqtt_get_type(bytes) = packet.type
  BY <1>1, <1>3 DEF mqtt_get_type
<1>11. packet.type # PUBLISH
  BY DEF ShortFields
<1>12. 2 <= 5
  OBVIOUS
<1>13. mqtt_has_valid_msg_hdr(bytes[1])
  BY <1>1, <1>3
<1> QED BY <1>3, <1>6, <1>7, <1>8, <1>9, <1>10, <1>11, <1>12, <1>13 DEF Formed

LEMMA PublishHeader ==
    ASSUME NEW qos \in 0 .. 2
    PROVE  /\ FirstByte(PUBLISH, qos, 0) \in Nat /\ FirstByte(PUBLISH, qos, 0) \div 16 = PUBLISH
           /\ (FirstByte(PUBLISH, qos, 0) \div 2) % 4 = qos
           /\ mqtt_has_valid_msg_hdr(FirstByte(PUBLISH, qos, 0))
<1>1. PICK first \in Nat : /\ first = FirstByte(PUBLISH, qos, 0) /\ first \div 16 = PUBLISH
                           /\ (first \div 2) % 4 = qos /\ (first \div 8) % 2 = 0
  <2>1. 0 \in 0 .. 1
    OBVIOUS
  <2> QED BY <2>1, FirstByteRead
<1>2. PICK one : one = <<first>> /\ one[1] = first
  <2>1. <<first>>[1] = first
    OBVIOUS
  <2> QED BY <2>1
<1>3. mqtt_get_qos(one) = qos /\ mqtt_get_dup(one) = 0
  BY <1>1, <1>2 DEF mqtt_get_qos, mqtt_get_dup
<1>4. PUBLISH \notin {CONNECT, CONNACK, PUBACK, PUBREC, PUBCOMP, SUBACK, UNSUBACK, PINGREQ, PINGRESP,
                      DISCONNECT}
      /\ PUBLISH \notin {PUBREL, SUBSCRIBE, UNSUBSCRIBE}
  BY DEF CONNECT, CONNACK, PUBLISH, PUBACK, PUBREC, PUBREL, PUBCOMP, SUBSCRIBE, SUBACK, UNSUBSCRIBE,
         UNSUBACK, PINGREQ, PINGRESP, DISCONNECT
<1>5. qos < 3
  OBVIOUS
<1>6. mqtt_has_valid_msg_hdr(first)
  BY <1>1, <1>2, <1>3, <1>4, <1>5, Zenon DEF mqtt_has_valid_msg_hdr
<1> QED BY <1>1, <1>6

\* Where the topic, the message id and the payload are.
PublishPlaces(bytes, topic, data, qos, number, start) ==
    /\ WordAt(bytes, start) = Len(topic) /\ bytes[start + 2] = Len(topic) % 256
    /\ qos > 0 => WordAt(bytes, start + 2 + Len(topic)) = number
    /\ At(bytes, start + 2 + Len(topic) + (IF qos > 0 THEN 2 ELSE 0), data)
    /\ start + 2 + Len(topic) + (IF qos > 0 THEN 2 ELSE 0) + Len(data) = Len(bytes)

LEMMA PublishPlaced ==
    ASSUME NEW topic \in Seq(Nat), NEW data \in Seq(Nat), NEW qos \in 0 .. 2, NEW number \in Nat,
           NEW bytes \in Seq(Nat), NEW start \in Nat,
           At(bytes, start, PublishHead(topic, qos, number) \o data),
           start + Len(PublishHead(topic, qos, number) \o data) = Len(bytes)
    PROVE  PublishPlaces(bytes, topic, data, qos, number, start)
<1>1. PICK t \in Seq(Nat) : t = String(topic) /\ Len(t) = 2 + Len(topic)
  BY StringType
<1>2. PICK l \in Nat : l = Len(topic)
  OBVIOUS
<1>3. PICK k \in Nat : k = IF qos > 0 THEN 2 ELSE 0
  OBVIOUS
<1>4. PICK h \in Seq(Nat) : h = PublishHead(topic, qos, number) /\ Len(h) = 2 + l + k
  <2>1. qos \in Nat
    OBVIOUS
  <2> QED BY <1>2, <1>3, <2>1, PublishHeadType
<1>5. At(bytes, start, h) /\ At(bytes, start + Len(h), data)
  BY <1>4, AtConcat
<1>6. Len(h \o data) = Len(h) + Len(data)
  OBVIOUS
<1>7. start + (2 + l + k) + Len(data) = Len(bytes)
  BY <1>4, <1>6
<1>8. start + (2 + l + k) = start + 2 + l + k
  OBVIOUS
<1>9. At(bytes, start, t) /\ (qos > 0 => At(bytes, start + 2 + l, Word(number)))
  <2>1. CASE qos > 0
    <3>1. PICK w \in Seq(Nat) : w = Word(number)
      BY WordType
    <3>2. h = t \o w
      BY <1>1, <1>4, <2>1, <3>1 DEF PublishHead
    <3>3. At(bytes, start, t) /\ At(bytes, start + Len(t), w)
      BY <1>5, <3>2, AtConcat
    <3>4. start + Len(t) = start + 2 + l
      BY <1>1, <1>2
    <3> QED BY <3>1, <3>3, <3>4
  <2>2. CASE ~ (qos > 0)
    <3>1. t \o <<>> = t
      OBVIOUS
    <3>2. h = t
      BY <1>1, <1>4, <2>2, <3>1 DEF PublishHead
    <3> QED BY <1>5, <2>2, <3>2
  <2> QED BY <2>1, <2>2
<1>10. WordAt(bytes, start) = l
  BY <1>1, <1>2, <1>9, StringRead
<1>11. qos > 0 => WordAt(bytes, start + 2 + l) = number
  BY <1>9, WordRead
<1>12. bytes[start + 2] = l % 256
  <2>1. PICK w \in Seq(Nat) : w = Word(l) /\ Len(w) = 2 /\ w[2] = l % 256
    <3>1. Word(l)[2] = l % 256
      BY DEF Word
    <3> QED BY <3>1, WordType
  <2>2. At(bytes, start, w \o topic)
    BY <1>1, <1>2, <1>9, <2>1 DEF String
  <2>3. At(bytes, start, w)
    BY <2>2, AtConcat
  <2>4. \A i \in 1 .. Len(w) : bytes[start + i] = w[i]
    BY <2>3 DEF At
  <2>5. 2 \in 1 .. Len(w)
    BY <2>1
  <2> QED BY <2>1, <2>4, <2>5
<1>13. At(bytes, start + 2 + l + k, data) /\ start + 2 + l + k + Len(data) = Len(bytes)
  BY <1>4, <1>5, <1>7, <1>8
<1> QED BY <1>2, <1>3, <1>10, <1>11, <1>12, <1>13 DEF PublishPlaces

LEMMA LengthIs == ASSUME NEW S, NEW s \in Seq(S) PROVE Len(s) \in Nat
OBVIOUS

LEMMA PublishFormed ==
    ASSUME NEW packet, packet.type = PUBLISH, packet.topic \in Seq(Nat), packet.topic # <<>>,
           packet.data \in Seq(Nat), packet.qos \in 0 .. 2, packet.id \in Nat,
           NEW rest \in Seq(Nat),
           rest = PublishHead(packet.topic, packet.qos, packet.id) \o packet.data,
           Len(remaining_length[Len(rest)]) + 1 <= HEADER_SIZE,
           NEW bytes, bytes = Frame(FirstByte(PUBLISH, packet.qos, 0), rest)
    PROVE  \E start \in Nat : Formed(packet, bytes, start)
<1>1. PICK topic, data \in Seq(Nat) : topic = packet.topic /\ data = packet.data /\ Len(topic) >= 1
  <2>1. packet.topic \in Seq(Nat) /\ Len(packet.topic) >= 1
    OBVIOUS
  <2> QED BY <2>1
<1>2. PICK qos \in 0 .. 2 : qos = packet.qos
  OBVIOUS
<1>3. PICK number \in Nat : number = packet.id
  OBVIOUS
<1>4. PICK first \in Nat : /\ first = FirstByte(PUBLISH, qos, 0) /\ first \div 16 = PUBLISH
                           /\ (first \div 2) % 4 = qos /\ mqtt_has_valid_msg_hdr(first)
  BY PublishHeader
<1>5. PICK start \in Nat : start = 1 + Len(remaining_length[Len(rest)]) /\ start <= 5
  <2>1. PICK r \in Seq(Nat) : r = remaining_length[Len(rest)]
    <3>1. Len(rest) \in Nat
      BY LengthIs, Zenon
    <3> QED BY <3>1, RemainingLengthType
  <2>2. 1 + Len(r) \in Nat /\ 1 + Len(r) <= 5
    <3>1. Len(r) + 1 <= 5
      BY <2>1, RoomForId, Zenon
    <3>2. Len(r) \in Nat
      BY LengthIs, Zenon
    <3> QED BY <3>1, <3>2
  <2> QED BY <2>1, <2>2
<1>6. Framed(bytes, first, rest, start)
  BY <1>2, <1>4, <1>5, FrameShape
<1>7. Shape(bytes, start) /\ bytes[1] = first /\ At(bytes, start, rest) /\ start + Len(rest) = Len(bytes)
  BY <1>6 DEF Framed
<1>8. bytes \in Seq(Nat)
  BY <1>7 DEF Shape
<1>9. rest = PublishHead(topic, qos, number) \o data
  BY <1>1, <1>2, <1>3
<1>10. PublishPlaces(bytes, topic, data, qos, number, start)
  BY <1>7, <1>8, <1>9, PublishPlaced
<1>11. mqtt_get_type(bytes) = PUBLISH /\ (bytes[1] \div 2) % 4 = qos /\ mqtt_has_valid_msg_hdr(bytes[1])
  BY <1>4, <1>7 DEF mqtt_get_type
<1>12. PublishFields(bytes, packet, start)
  <2>1. Len(topic) \in Nat
    BY <1>1
  <2>2. PublishPlaces(bytes, packet.topic, packet.data, packet.qos, packet.id, start)
    BY <1>1, <1>2, <1>3, <1>10, Zenon
  <2>3. (bytes[1] \div 2) % 4 = packet.qos /\ Len(packet.topic) \in Nat /\ Len(packet.topic) >= 1
    BY <1>1, <1>2, <1>11, <2>1
  <2> QED BY <2>2, <2>3, Zenon DEF PublishPlaces, PublishFields, Payload, IdSize
<1>13. Formed(packet, bytes, start)
  BY <1>5, <1>7, <1>11, <1>12, KindsOfPacket DEF Formed
<1> QED BY <1>13

LEMMA FirstBytes ==
    /\ FirstByte(PUBACK, 0, 0) = 64 /\ FirstByte(PUBREC, 0, 0) = 80 /\ FirstByte(PUBREL, 1, 0) = 98
    /\ FirstByte(PUBCOMP, 0, 0) = 112 /\ FirstByte(PINGRESP, 0, 0) = 208
BY DEF FirstByte, PUBACK, PUBREC, PUBREL, PUBCOMP, PINGRESP

LEMMA AckBytes ==
    ASSUME NEW number \in Nat
    PROVE  /\ mqtt_msg_puback(number).bytes = Frame(64, Word(number))
           /\ mqtt_msg_pubrec(number).bytes = Frame(80, Word(number))
           /\ mqtt_msg_pubrel(number).bytes = Frame(98, Word(number))
           /\ mqtt_msg_pubcomp(number).bytes = Frame(112, Word(number))
<1>1. ShortMade(append_message_id(Started, number), PUBACK, 0, Word(number))
  BY FirstBytes, AckMade
<1>2. ShortMade(append_message_id(Started, number), PUBREC, 0, Word(number))
  BY FirstBytes, AckMade
<1>3. ShortMade(append_message_id(Started, number), PUBREL, 1, Word(number))
  BY FirstBytes, AckMade
<1>4. ShortMade(append_message_id(Started, number), PUBCOMP, 0, Word(number))
  BY FirstBytes, AckMade
<1>5. mqtt_msg_puback(number).bytes = Frame(64, Word(number))
  BY <1>1, FirstBytes, Zenon DEF ShortMade, mqtt_msg_puback
<1>6. mqtt_msg_pubrec(number).bytes = Frame(80, Word(number))
  BY <1>2, FirstBytes, Zenon DEF ShortMade, mqtt_msg_pubrec
<1>7. mqtt_msg_pubrel(number).bytes = Frame(98, Word(number))
  BY <1>3, FirstBytes, Zenon DEF ShortMade, mqtt_msg_pubrel
<1>8. mqtt_msg_pubcomp(number).bytes = Frame(112, Word(number))
  BY <1>4, FirstBytes, Zenon DEF ShortMade, mqtt_msg_pubcomp
<1> QED BY <1>5, <1>6, <1>7, <1>8

LEMMA PingBytes == mqtt_msg_pingresp.bytes = Frame(208, <<>>)
<1>1. PICK none \in Seq(Nat) : none = <<>> /\ Len(none) < 128
  <2>1. PICK r : r = <<>>
    OBVIOUS
  <2>2. r \in Seq(Nat) /\ Len(r) < 128
    BY <2>1
  <2> QED BY <2>1, <2>2
<1>2. Built(Started, none) /\ Started.ok
  BY <1>1, BuiltStarted DEF Started
<1>3. ShortMade(Started, PINGRESP, 0, none)
  BY <1>1, <1>2, FirstBytes, ShortFini
<1>4. mqtt_msg_pingresp.bytes = Frame(208, none)
  BY <1>3, FirstBytes, Zenon DEF ShortMade, mqtt_msg_pingresp
<1> QED BY <1>1, <1>4

\* What Encode makes of a packet that is not a PUBLISH.
LEMMA EncodeShort ==
    ASSUME NEW packet, packet.id \in Nat, packet.type # PUBLISH,
           packet.type \in {CONNACK, PUBLISH, PUBACK, PUBREC, PUBREL, PUBCOMP, SUBACK, PINGRESP}
    PROVE  \E first, rest : /\ ShortKind(packet.type, first) /\ rest \in Seq(Nat) /\ Len(rest) < 128
                            /\ ShortFields(packet, rest) /\ Encode(packet) = Frame(first, rest)
<1>1. PICK n \in Nat : n = packet.id
  OBVIOUS
<1>2. PICK type : type = packet.type
  OBVIOUS
<1>3. PICK w \in Seq(Nat) : w = Word(n) /\ Len(w) < 128
  <2>1. PICK v \in Seq(Nat) : v = Word(n) /\ Len(v) = 2
    BY WordType
  <2>2. Len(v) < 128
    BY <2>1
  <2> QED BY <2>1, <2>2, Zenon
<1>4. CASE type = CONNACK
  <2>1. PICK pair \in Seq(Nat) : pair = <<0, n>> /\ Len(pair) < 128
    <3>1. <<0, n>> \in Seq(Nat) /\ Len(<<0, n>>) < 128
      OBVIOUS
    <3> QED BY <3>1
  <2>2. Encode(packet) = Frame(32, pair)
    BY <1>1, <1>2, <1>4, <2>1, ConnackFrame, KindsOfPacket, Zenon DEF Encode, HasId
  <2>3. ShortKind(type, 32)
    BY <1>4, Zenon DEF ShortKind
  <2>4. ShortFields(packet, pair)
    BY <1>1, <1>2, <1>4, <2>1, KindsOfPacket, Zenon DEF ShortFields
  <2> QED BY <1>2, <2>1, <2>2, <2>3, <2>4
<1>5. CASE type = SUBACK
  <2>1. PICK rest \in Seq(Nat) : rest = Word(n) \o <<0>> /\ Len(rest) < 128
    <3>1. PICK r \in Seq(Nat) : r = Word(n) \o <<0>> /\ Len(r) = 3
      BY SubackFrame
    <3>2. Len(r) < 128
      BY <3>1
    <3> QED BY <3>1, <3>2, Zenon
  <2>2. <<SUBACK * 16, 3>> \o Word(n) \o <<0>> = Frame(144, rest)
    BY <2>1, SubackFrame
  <2>3. Encode(packet) = Frame(144, rest)
    BY <1>1, <1>2, <1>5, <2>2, KindsOfPacket, Zenon DEF Encode, HasId
  <2>4. ShortKind(type, 144)
    BY <1>5 DEF ShortKind
  <2>5. ShortFields(packet, rest)
    BY <1>1, <1>2, <1>5, <2>1, KindsOfPacket, Zenon DEF ShortFields
  <2> QED BY <1>2, <2>1, <2>3, <2>4, <2>5
<1>6. CASE type = PINGRESP
  <2>1. PICK none \in Seq(Nat) : none = <<>> /\ Len(none) < 128
    <3>1. PICK r : r = <<>>
      OBVIOUS
    <3>2. r \in Seq(Nat) /\ Len(r) < 128
      BY <3>1
    <3> QED BY <3>1, <3>2
  <2>2. Encode(packet) = Frame(208, none)
    BY <1>2, <1>6, <2>1, PingBytes, KindsOfPacket, ZenonT(60) DEF Encode, HasId
  <2>3. ShortKind(type, 208)
    BY <1>6 DEF ShortKind
  <2>4. ShortFields(packet, none)
    BY <1>1, <1>2, <1>6, <2>1, KindsOfPacket, Zenon DEF ShortFields
  <2> QED BY <1>2, <2>1, <2>2, <2>3, <2>4
<1>7. CASE HasId(type)
  <2>1. ShortFields(packet, w)
    BY <1>1, <1>2, <1>3, <1>7, KindsOfPacket, Zenon DEF ShortFields
  <2>2. CASE type = PUBACK
    <3>1. Encode(packet) = Frame(64, w)
      BY <1>1, <1>2, <1>3, <2>2, AckBytes, KindsOfPacket, ZenonT(60) DEF Encode, HasId
    <3>2. ShortKind(type, 64)
      BY <2>2 DEF ShortKind
    <3> QED BY <1>2, <1>3, <2>1, <3>1, <3>2
  <2>3. CASE type = PUBREC
    <3>1. Encode(packet) = Frame(80, w)
      BY <1>1, <1>2, <1>3, <2>3, AckBytes, KindsOfPacket, ZenonT(60) DEF Encode, HasId
    <3>2. ShortKind(type, 80)
      BY <2>3, Zenon DEF ShortKind
    <3> QED BY <1>2, <1>3, <2>1, <3>1, <3>2
  <2>4. CASE type = PUBREL
    <3>1. Encode(packet) = Frame(98, w)
      BY <1>1, <1>2, <1>3, <2>4, AckBytes, KindsOfPacket, ZenonT(60) DEF Encode, HasId
    <3>2. ShortKind(type, 98)
      BY <2>4 DEF ShortKind
    <3> QED BY <1>2, <1>3, <2>1, <3>1, <3>2
  <2>5. CASE type = PUBCOMP
    <3>1. Encode(packet) = Frame(112, w)
      BY <1>1, <1>2, <1>3, <2>5, AckBytes, KindsOfPacket, ZenonT(60) DEF Encode, HasId
    <3>2. ShortKind(type, 112)
      BY <2>5, Zenon DEF ShortKind
    <3> QED BY <1>2, <1>3, <2>1, <3>1, <3>2
  <2> QED BY <1>7, <2>2, <2>3, <2>4, <2>5 DEF HasId
<1> QED BY <1>2, <1>4, <1>5, <1>6, <1>7, KindsOfPacket DEF HasId

LEMMA WordsAreNumbers == Word16 \subseteq Nat
BY DEF Word16

LEMMA BytesAreNumbers == Byte \subseteq Nat /\ Seq(Byte) \subseteq Seq(Nat)
<1>1. Byte \subseteq Nat
  BY DEF Byte
<1> QED BY <1>1, SeqMonotonic

LEMMA EncodeFormed ==
    ASSUME NEW packet \in BrokerPackets, Sendable(packet)
    PROVE  \E start \in Nat : Formed(packet, Encode(packet), start)
<1>1. /\ packet.id \in Nat /\ packet.qos \in 0 .. 2 /\ packet.topic \in Seq(Nat)
      /\ packet.data \in Seq(Nat)
      /\ packet.type \in {CONNACK, PUBLISH, PUBACK, PUBREC, PUBREL, PUBCOMP, SUBACK, PINGRESP}
  <2>1. packet.type \in {CONNACK, PUBLISH, PUBACK, PUBREC, PUBREL, PUBCOMP, SUBACK, PINGRESP}
    BY DEF BrokerPackets
  <2>2. packet.qos \in 0 .. 2 /\ packet.topic \in Seq(Byte) /\ packet.data \in Seq(Byte)
    BY DEF BrokerPackets
  <2>3. packet.topic \in Seq(Nat) /\ packet.data \in Seq(Nat)
    BY <2>2, BytesAreNumbers
  <2>5. packet.id \in Nat
    <3>1. packet.id \in Word16
      BY DEF BrokerPackets
    <3> QED BY <3>1, WordsAreNumbers
  <2> QED BY <2>1, <2>2, <2>3, <2>5
<1>2. CASE packet.type # PUBLISH
  <2>1. PICK first, rest : /\ ShortKind(packet.type, first) /\ rest \in Seq(Nat) /\ Len(rest) < 128
                           /\ ShortFields(packet, rest) /\ Encode(packet) = Frame(first, rest)
    BY <1>1, <1>2, EncodeShort
  <2>2. Formed(packet, Encode(packet), 2)
    BY <1>1, <2>1, ShortFormed
  <2> QED BY <2>2
<1>3. CASE packet.type = PUBLISH
  <2>1. PICK topic, data \in Seq(Nat) : topic = packet.topic /\ data = packet.data
    BY <1>1
  <2>2. PICK qos \in 0 .. 2 : qos = packet.qos
    BY <1>1
  <2>3. PICK number \in Nat : number = packet.id
    BY <1>1
  <2>4. PICK made : made = mqtt_msg_publish(topic, data, qos, 0, number)
    OBVIOUS
  <2>5. PICK head \in Seq(Nat) : head = PublishHead(topic, qos, number)
    <3>1. qos \in Nat
      OBVIOUS
    <3> QED BY <3>1, PublishHeadType
  <2>6. PICK rest \in Seq(Nat) : rest = head \o data
    <3>1. head \o data \in Seq(Nat)
      OBVIOUS
    <3> QED BY <3>1
  <2>7. PublishSent(made, topic, FirstByte(PUBLISH, qos, 0), rest)
    <3>1. qos \in Nat /\ 0 \in Nat
      OBVIOUS
    <3> QED BY <2>4, <2>5, <2>6, <3>1, PublishSentFrame
  <2>8. made.message.ok /\ Encode(packet) = made.message.bytes \o made.remaining
    <3>1. made.message.ok
      BY <1>3, <2>1, <2>2, <2>3, <2>4, Zenon DEF Sendable
    <3>2. Encode(packet) = made.message.bytes \o made.remaining
      BY <1>3, <2>1, <2>2, <2>3, <2>4, KindsOfPacket, Zenon DEF Encode, HasId
    <3> QED BY <3>1, <3>2
  <2>9. /\ topic # <<>> /\ Encode(packet) = Frame(FirstByte(PUBLISH, qos, 0), rest)
        /\ Len(remaining_length[Len(rest)]) + 1 <= HEADER_SIZE
    BY <2>7, <2>8, Zenon DEF PublishSent, Fragmented
  <2> QED BY <1>1, <1>3, <2>1, <2>2, <2>3, <2>5, <2>6, <2>9, PublishFormed
<1> QED BY <1>2, <1>3

StartOf(packet) == CHOOSE start \in 2 .. 5 : Formed(packet, Encode(packet), start)

LEMMA PacketFormed ==
    ASSUME NEW packet \in BrokerPackets, Sendable(packet)
    PROVE  StartOf(packet) \in Nat /\ Formed(packet, Encode(packet), StartOf(packet))
<1>1. PICK start \in Nat : Formed(packet, Encode(packet), start)
  BY EncodeFormed
<1>2. start \in 2 .. 5
  BY <1>1 DEF Formed, Shape
<1>3. StartOf(packet) \in 2 .. 5 /\ Formed(packet, Encode(packet), StartOf(packet))
  BY <1>1, <1>2, Zenon DEF StartOf
<1> QED BY <1>3

----------------------------------------------------------------------------
(* Packets one after the other *)

UpTo(pieces, n) == [i \in 1 .. n |-> pieces[i]]

LEMMA UpToNext ==
    ASSUME NEW pieces \in Seq(Seq(Nat)), NEW n \in Nat, n < Len(pieces)
    PROVE  /\ UpTo(pieces, n) \in Seq(Seq(Nat)) /\ pieces[n + 1] \in Seq(Nat)
           /\ FlattenSeq(UpTo(pieces, n)) \in Seq(Nat)
           /\ FlattenSeq(UpTo(pieces, n + 1)) = FlattenSeq(UpTo(pieces, n)) \o pieces[n + 1]
<1>1. PICK front \in Seq(Seq(Nat)) : /\ front = UpTo(pieces, n) /\ Len(front) = n
                                     /\ \A i \in 1 .. n : front[i] = pieces[i]
  <2>1. UpTo(pieces, n) \in Seq(Seq(Nat)) /\ Len(UpTo(pieces, n)) = n
    BY DEF UpTo
  <2>2. \A i \in 1 .. n : UpTo(pieces, n)[i] = pieces[i]
    BY DEF UpTo
  <2> QED BY <2>1, <2>2
<1>2. PICK piece \in Seq(Nat) : piece = pieces[n + 1]
  <2>1. n + 1 \in 1 .. Len(pieces)
    OBVIOUS
  <2> QED BY <2>1
<1>3. PICK one \in Seq(Seq(Nat)) : one = <<piece>> /\ Len(one) = 1 /\ one[1] = piece
  <2>1. <<piece>> \in Seq(Seq(Nat)) /\ Len(<<piece>>) = 1 /\ <<piece>>[1] = piece
    OBVIOUS
  <2> QED BY <2>1
<1>4. PICK both \in Seq(Seq(Nat)) : both = front \o one
  <2>1. front \o one \in Seq(Seq(Nat))
    OBVIOUS
  <2> QED BY <2>1
<1>5. PICK longer \in Seq(Seq(Nat)) : /\ longer = UpTo(pieces, n + 1) /\ Len(longer) = n + 1
                                      /\ \A i \in 1 .. n + 1 : longer[i] = pieces[i]
  <2>1. UpTo(pieces, n + 1) \in Seq(Seq(Nat)) /\ Len(UpTo(pieces, n + 1)) = n + 1
    BY DEF UpTo
  <2>2. \A i \in 1 .. n + 1 : UpTo(pieces, n + 1)[i] = pieces[i]
    BY DEF UpTo
  <2> QED BY <2>1, <2>2
<1>6. both = longer
  <2>1. Len(both) = n + 1
    <3>1. Len(both) = Len(front) + Len(one)
      BY <1>4
    <3> QED BY <1>1, <1>3, <3>1
  <2>2. ASSUME NEW i \in 1 .. n + 1 PROVE both[i] = longer[i]
    <3>1. CASE i \in 1 .. n
      <4>1. both[i] = front[i]
        BY <1>1, <1>4, <3>1
      <4> QED BY <1>1, <1>5, <3>1, <4>1
    <3>2. CASE i = n + 1
      <4>1. both[Len(front) + 1] = one[1]
        <5>1. \A j \in 1 .. Len(one) : both[Len(front) + j] = one[j]
          BY <1>4, SMTT(30)
        <5> QED BY <1>3, <5>1
      <4> QED BY <1>1, <1>2, <1>3, <1>5, <3>2, <4>1
    <3> QED BY <3>1, <3>2
  <2> QED BY <1>5, <2>1, <2>2, SeqEqual
<1>7. FlattenSeq(both) = FlattenSeq(front) \o FlattenSeq(one)
  BY <1>4, FlattenConcat
<1>8. FlattenSeq(one) = piece
  BY <1>3, FlattenOne
<1>9. FlattenSeq(front) \in Seq(Nat)
  BY FlattenType
<1> QED BY <1>1, <1>2, <1>5, <1>6, <1>7, <1>8, <1>9

\* A piece in the stream that all of them make.
Placed(stream, start, next, bytes) ==
    /\ stream \in Seq(Nat) /\ start \in Nat /\ next \in Nat /\ bytes \in Seq(Nat)
    /\ At(stream, start, bytes) /\ next = start + Len(bytes)

LEMMA PiecePlaced ==
    ASSUME NEW pieces \in Seq(Seq(Nat)), NEW n \in Nat, n < Len(pieces)
    PROVE  Placed(FlattenSeq(pieces), Len(FlattenSeq(UpTo(pieces, n))),
                  Len(FlattenSeq(UpTo(pieces, n + 1))), pieces[n + 1])
<1>1. PICK l \in Nat : l = Len(pieces)
  OBVIOUS
<1>2. PICK before \in Seq(Nat) : before = FlattenSeq(UpTo(pieces, n))
  BY UpToNext
<1>3. PICK piece \in Seq(Nat) : piece = pieces[n + 1]
  BY UpToNext
<1>4. PICK after \in Seq(Nat) : after = before \o piece /\ Len(after) = Len(before) + Len(piece)
  <2>1. before \o piece \in Seq(Nat) /\ Len(before \o piece) = Len(before) + Len(piece)
    OBVIOUS
  <2> QED BY <2>1
<1>5. after = FlattenSeq(UpTo(pieces, n + 1))
  BY <1>2, <1>3, <1>4, UpToNext
<1>6. PICK left, right \in Seq(Seq(Nat)) : /\ left = SubSeq(pieces, 1, n + 1)
                                          /\ right = SubSeq(pieces, n + 2, l)
  <2>1. SubSeq(pieces, 1, n + 1) \in Seq(Seq(Nat)) /\ SubSeq(pieces, n + 2, l) \in Seq(Seq(Nat))
    BY <1>1
  <2> QED BY <2>1
<1>7. Len(left) = n + 1 /\ \A i \in 1 .. n + 1 : left[i] = pieces[i]
  BY <1>1, <1>6
<1>8. Len(right) = l - (n + 1) /\ \A i \in 1 .. Len(right) : right[i] = pieces[n + 1 + i]
  BY <1>1, <1>6
<1>9. PICK all \in Seq(Seq(Nat)) : all = left \o right
  <2>1. left \o right \in Seq(Seq(Nat))
    OBVIOUS
  <2> QED BY <2>1
<1>10. all = pieces
  <2>1. Len(all) = l
    <3>1. Len(all) = Len(left) + Len(right)
      BY <1>9
    <3> QED BY <1>1, <1>7, <1>8, <3>1
  <2>2. ASSUME NEW i \in 1 .. l PROVE all[i] = pieces[i]
    <3>1. CASE i \in 1 .. n + 1
      <4>1. all[i] = left[i]
        BY <1>7, <1>9, <3>1
      <4> QED BY <1>7, <3>1, <4>1
    <3>2. CASE i \notin 1 .. n + 1
      <4>1. PICK j \in 1 .. Len(right) : i = n + 1 + j
        <5>1. i - (n + 1) \in 1 .. Len(right) /\ i = n + 1 + (i - (n + 1))
          BY <1>1, <1>8, <3>2
        <5> QED BY <5>1
      <4>2. all[Len(left) + j] = right[j]
        BY <1>9
      <4> QED BY <1>7, <1>8, <4>1, <4>2
    <3> QED BY <3>1, <3>2
  <2> QED BY <1>1, <2>1, <2>2, SeqEqual
<1>11. left = UpTo(pieces, n + 1)
  <2>1. PICK longer \in Seq(Seq(Nat)) : /\ longer = UpTo(pieces, n + 1) /\ Len(longer) = n + 1
                                        /\ \A i \in 1 .. n + 1 : longer[i] = pieces[i]
    <3>1. UpTo(pieces, n + 1) \in Seq(Seq(Nat)) /\ Len(UpTo(pieces, n + 1)) = n + 1
      BY DEF UpTo
    <3>2. \A i \in 1 .. n + 1 : UpTo(pieces, n + 1)[i] = pieces[i]
      BY DEF UpTo
    <3> QED BY <3>1, <3>2
  <2>2. \A i \in 1 .. n + 1 : left[i] = longer[i]
    BY <1>7, <2>1
  <2>3. left = longer
    BY <1>7, <2>1, <2>2, SeqEqual
  <2> QED BY <2>1, <2>3
<1>12. PICK rest \in Seq(Nat) : rest = FlattenSeq(right)
  BY FlattenType
<1>13. PICK stream \in Seq(Nat) : stream = FlattenSeq(pieces)
  BY FlattenType
<1>14. stream = after \o rest
  BY <1>5, <1>9, <1>10, <1>11, <1>12, <1>13, FlattenConcat
<1>15. At(stream, 0, after \o rest) /\ 0 \in Nat
  BY <1>14, AtWhole
<1>16. At(stream, 0, before \o piece)
  BY <1>4, <1>15, AtConcat
<1>17. At(stream, 0 + Len(before), piece)
  BY <1>15, <1>16, AtConcat
<1>18. 0 + Len(before) = Len(before) /\ Len(before) \in Nat /\ Len(after) \in Nat
  OBVIOUS
<1>19. Placed(stream, Len(before), Len(after), piece)
  BY <1>4, <1>17, <1>18 DEF Placed
<1> QED BY <1>2, <1>3, <1>5, <1>13, <1>19

\* Packet n + 1 of a session.
Following(s, n) == Sessions[s][n + 1]

LEMMA SessionPacket ==
    ASSUME NEW s \in DOMAIN Sessions, NEW i \in DOMAIN Sessions[s]
    PROVE  /\ Sessions[s][i] \in BrokerPackets /\ Sendable(Sessions[s][i])
           /\ Sessions[s][i].type = CONNACK => i = 1
           /\ Encode(Sessions[s][i]) \in Seq(Nat)
           /\ Sessions[s] \in Seq(BrokerPackets)
<1>1. /\ Sessions[s] \in Seq(BrokerPackets) /\ Sendable(Sessions[s][i])
      /\ Sessions[s][i].type = CONNACK => i = 1
  BY SessionsAssumption
<1>2. Sessions[s][i] \in BrokerPackets
  BY <1>1
<1>3. Encode(Sessions[s][i]) \in Seq(Nat)
  BY <1>1, <1>2, PacketFormed DEF Formed, Shape
<1> QED BY <1>1, <1>2, <1>3

LEMMA SessionPieces ==
    ASSUME NEW s \in DOMAIN Sessions
    PROVE  \E pieces \in Seq(Seq(Nat)), l \in Nat :
               /\ l = Len(Sessions[s]) /\ Len(pieces) = l /\ DOMAIN Sessions[s] = 1 .. l
               /\ \A i \in 1 .. l : pieces[i] = Encode(Sessions[s][i])
               /\ Streams[s] = FlattenSeq(pieces)
               /\ \A n \in 0 .. l : Starts[s][n] = Len(FlattenSeq(UpTo(pieces, n)))
<1>1. Sessions[s] \in Seq(BrokerPackets)
  BY SessionsAssumption
<1>2. PICK l \in Nat : l = Len(Sessions[s]) /\ DOMAIN Sessions[s] = 1 .. l
  BY <1>1
<1>3. \A i \in 1 .. l : Encode(Sessions[s][i]) \in Seq(Nat)
  BY <1>2, SessionPacket
<1>4. PICK pieces \in Seq(Seq(Nat)) : /\ pieces = [i \in 1 .. l |-> Encode(Sessions[s][i])]
                                      /\ Len(pieces) = l
                                      /\ \A i \in 1 .. l : pieces[i] = Encode(Sessions[s][i])
  <2>1. [i \in 1 .. l |-> Encode(Sessions[s][i])] \in Seq(Seq(Nat))
    BY <1>3
  <2> QED BY <2>1
<1>5. Streams[s] = FlattenSeq(pieces)
  BY <1>2, <1>4, Zenon DEF Streams
<1>6. ASSUME NEW n \in 0 .. l PROVE Starts[s][n] = Len(FlattenSeq(UpTo(pieces, n)))
  <2>1. [i \in 1 .. n |-> Encode(Sessions[s][i])] = UpTo(pieces, n)
    <3>1. \A i \in 1 .. n : i \in 1 .. l
      OBVIOUS
    <3>2. \A i \in 1 .. n : pieces[i] = Encode(Sessions[s][i])
      BY <1>4, <3>1
    <3> QED BY <3>2, Zenon DEF UpTo
  <2>2. Starts[s][n] = Len(FlattenSeq([i \in 1 .. n |-> Encode(Sessions[s][i])]))
    BY <1>2, Zenon DEF Starts
  <2> QED BY <2>1, <2>2
<1> QED BY <1>2, <1>4, <1>5, <1>6

\* Where a packet is in the stream.
LEMMA SessionPlaced ==
    ASSUME NEW s \in DOMAIN Sessions, NEW n \in Nat, n < Len(Sessions[s])
    PROVE  Placed(Streams[s], Starts[s][n], Starts[s][n + 1], Encode(Following(s, n)))
<1>1. PICK pieces \in Seq(Seq(Nat)), l \in Nat :
               /\ l = Len(Sessions[s]) /\ Len(pieces) = l
               /\ \A i \in 1 .. l : pieces[i] = Encode(Sessions[s][i])
               /\ Streams[s] = FlattenSeq(pieces)
               /\ \A m \in 0 .. l : Starts[s][m] = Len(FlattenSeq(UpTo(pieces, m)))
  BY SessionPieces
<1>2. n + 1 \in 1 .. l /\ n \in 0 .. l /\ n + 1 \in 0 .. l /\ n < Len(pieces)
  BY <1>1
<1>3. Placed(FlattenSeq(pieces), Len(FlattenSeq(UpTo(pieces, n))),
             Len(FlattenSeq(UpTo(pieces, n + 1))), pieces[n + 1])
  BY <1>2, PiecePlaced
<1>4. /\ pieces[n + 1] = Encode(Following(s, n))
      /\ Starts[s][n] = Len(FlattenSeq(UpTo(pieces, n)))
      /\ Starts[s][n + 1] = Len(FlattenSeq(UpTo(pieces, n + 1)))
  BY <1>1, <1>2 DEF Following
<1> QED BY <1>1, <1>3, <1>4

LEMMA SessionEnds ==
    ASSUME NEW s \in DOMAIN Sessions
    PROVE  /\ Streams[s] \in Seq(Nat) /\ Starts[s][0] = 0 /\ Len(Sessions[s]) \in Nat
           /\ Starts[s][Len(Sessions[s])] = Len(Streams[s])
<1>1. PICK pieces \in Seq(Seq(Nat)), l \in Nat :
               /\ l = Len(Sessions[s]) /\ Len(pieces) = l
               /\ Streams[s] = FlattenSeq(pieces)
               /\ \A m \in 0 .. l : Starts[s][m] = Len(FlattenSeq(UpTo(pieces, m)))
  BY SessionPieces
<1>2. Streams[s] \in Seq(Nat)
  BY <1>1, FlattenType
<1>3. Starts[s][0] = 0
  <2>1. UpTo(pieces, 0) = <<>>
    BY DEF UpTo
  <2>2. FlattenSeq(UpTo(pieces, 0)) = <<>>
    BY <2>1, FlattenNone
  <2>3. 0 \in 0 .. l
    OBVIOUS
  <2>4. Starts[s][0] = Len(<<>>)
    BY <1>1, <2>2, <2>3
  <2> QED BY <2>4
<1>4. Starts[s][l] = Len(Streams[s])
  <2>1. UpTo(pieces, l) = pieces
    BY <1>1 DEF UpTo
  <2>2. l \in 0 .. l
    OBVIOUS
  <2> QED BY <1>1, <2>1, <2>2
<1> QED BY <1>1, <1>2, <1>3, <1>4

----------------------------------------------------------------------------
(* How far a packet has been read *)

\* How many bytes of a packet in_buffer gets to hold.
Fill(bytes) == IF IN_BUFFER < Len(bytes) THEN IN_BUFFER ELSE Len(bytes)

\* Only a PUBLISH may be larger than in_buffer, and its header fits in the buffer - as
\* mqtt_message_receive counts it.
HeaderFits(packet, bytes, start) ==
    IN_BUFFER < Len(bytes) =>
        packet.type = PUBLISH /\ start + Len(packet.topic) + IdSize(packet) <= IN_BUFFER

\* n bytes of the packet are in in_buffer, and mqtt_message_receive is at `place`.
Reading(place, n, packet, bytes, start) ==
    /\ n \in Nat /\ n >= 1 /\ n <= Fill(bytes)
    /\ place \in {"call", "length", "size", "rest", "done", "error", "chunk", "reply"}
    /\ place = "call" => n < Fill(bytes)
    /\ place = "length" => n < Fill(bytes) /\ InLength(n, bytes[n])
    /\ place = "size" => IN_BUFFER < Len(bytes) /\ start <= n /\ n < start + 2
    /\ place = "rest" => start <= n /\ n < Fill(bytes) /\ HeaderFits(packet, bytes, start)
    /\ place \in {"done", "chunk", "reply"} => n = Fill(bytes) /\ HeaderFits(packet, bytes, start)

LEMMA BeginsHeader ==
    ASSUME NEW packet, NEW bytes, NEW start, Formed(packet, bytes, start), NEW buffer, NEW n,
           Begins(buffer, bytes, n), n >= start
    PROVE  /\ HeaderOf(buffer, n, start, Len(bytes)) /\ HeaderOf(buffer, Len(bytes), start, Len(bytes))
           /\ mqtt_get_type(buffer) = packet.type
           /\ packet.type = PUBLISH => mqtt_get_qos(buffer) = packet.qos
           /\ TotalLen(buffer) = Fill(bytes)
<1>1. Shape(bytes, start) /\ mqtt_get_type(bytes) = packet.type
  BY DEF Formed
<1>2. /\ n \in Nat /\ start \in Nat /\ start >= 2 /\ Len(buffer) = n /\ n <= Len(bytes)
      /\ Len(bytes) \in Nat /\ \A i \in 1 .. n : buffer[i] = bytes[i]
  BY <1>1 DEF Begins, Shape
<1>3. PICK l \in Nat : l = Len(bytes) /\ l >= n
  BY <1>2
<1>4. HeaderOf(buffer, n, start, l) /\ HeaderOf(buffer, l, start, l)
  BY <1>1, <1>2, <1>3, HeaderRead
<1>5. buffer[1] = bytes[1]
  BY <1>2
<1>6. mqtt_get_type(buffer) = packet.type
  BY <1>1, <1>5, Zenon DEF mqtt_get_type
<1>7. packet.type = PUBLISH => mqtt_get_qos(buffer) = packet.qos
  BY <1>5, Zenon DEF Formed, PublishFields, mqtt_get_qos
<1>8. TotalLen(buffer) = Fill(bytes)
  <2>1. mqtt_get_total_length(buffer, Len(buffer)) = l
    BY <1>2, <1>4 DEF HeaderOf
  <2> QED BY <1>3, <2>1, Zenon DEF TotalLen, Fill
<1> QED BY <1>3, <1>4, <1>6, <1>7, <1>8

LEMMA AfterLengthIs ==
    ASSUME NEW packet, NEW bytes, NEW start, Formed(packet, bytes, start), NEW buffer, NEW n,
           Begins(buffer, bytes, n), n >= start, n <= IN_BUFFER
    PROVE  Reading(AfterLength(buffer), n, packet, bytes, start)
<1>1. Shape(bytes, start)
  BY DEF Formed
<1>2. /\ n \in Nat /\ start \in Nat /\ start >= 2 /\ Len(buffer) = n /\ n <= Len(bytes)
      /\ Len(bytes) \in Nat /\ \A i \in 1 .. n : buffer[i] = bytes[i]
  BY <1>1 DEF Begins, Shape
<1>3. PICK l \in Nat : l = Len(bytes) /\ n <= l
  BY <1>2
<1>4. /\ fixed_size_len(buffer, n) = start /\ mqtt_get_total_length(buffer, n) = l
      /\ mqtt_get_type(buffer) = packet.type
      /\ packet.type = PUBLISH => mqtt_get_qos(buffer) = packet.qos
      /\ TotalLen(buffer) = Fill(bytes)
  BY <1>3, BeginsHeader DEF HeaderOf
<1>5. IN_BUFFER \in Nat /\ IN_BUFFER >= 9
  BY MqttWireAssumption
<1>6. n <= Fill(bytes) /\ Fill(bytes) \in Nat
  BY <1>3, <1>5 DEF Fill
<1>7. PICK place : place = AfterLength(buffer)
  OBVIOUS
<1>8. CASE ~ (IN_BUFFER < l)
  <2>1. place = IF n < Fill(bytes) THEN "rest" ELSE "done"
    BY <1>2, <1>4, <1>7, <1>8, Zenon DEF AfterLength
  <2>2. HeaderFits(packet, bytes, start)
    BY <1>3, <1>8 DEF HeaderFits
  <2>3. (place = "rest" /\ n < Fill(bytes)) \/ (place = "done" /\ n = Fill(bytes))
    <3>1. CASE n < Fill(bytes)
      BY <2>1, <3>1, Zenon
    <3>2. CASE ~ (n < Fill(bytes))
      <4>1. n = Fill(bytes)
        BY <1>2, <1>6, <3>2
      <4> QED BY <2>1, <3>2, <4>1, Zenon
    <3> QED BY <3>1, <3>2
  <2>4. Reading(place, n, packet, bytes, start)
    BY <1>2, <1>6, <2>2, <2>3 DEF Reading
  <2> QED BY <1>7, <2>4
<1>9. CASE IN_BUFFER < l /\ packet.type # PUBLISH
  <2>1. place = "error"
    BY <1>2, <1>4, <1>7, <1>9, Zenon DEF AfterLength
  <2>2. Reading(place, n, packet, bytes, start)
    BY <1>2, <1>6, <2>1 DEF Reading
  <2> QED BY <1>7, <2>2
<1>10. CASE IN_BUFFER < l /\ packet.type = PUBLISH /\ n < start + 2
  <2>1. place = "size"
    <3>1. ~ (n >= start + 2)
      BY <1>2, <1>10
    <3> QED BY <1>2, <1>4, <1>7, <1>10, <3>1, Zenon DEF AfterLength
  <2>2. Reading(place, n, packet, bytes, start)
    BY <1>2, <1>3, <1>6, <1>10, <2>1 DEF Reading
  <2> QED BY <1>7, <2>2
<1>11. CASE IN_BUFFER < l /\ packet.type = PUBLISH /\ ~ (n < start + 2)
  <2>1. WordAt(buffer, start) = Len(packet.topic)
    <3>1. start + 1 \in 1 .. n /\ start + 2 \in 1 .. n
      BY <1>2, <1>11
    <3>2. buffer[start + 1] = bytes[start + 1] /\ buffer[start + 2] = bytes[start + 2]
      BY <1>2, <3>1
    <3>3. WordAt(bytes, start) = Len(packet.topic)
      BY <1>11, Zenon DEF Formed, PublishFields
    <3> QED BY <3>2, <3>3, Zenon DEF WordAt
  <2>2. (IF mqtt_get_qos(buffer) > 0 THEN 2 ELSE 0) = IdSize(packet)
    BY <1>4, <1>11, Zenon DEF IdSize
  <2>3. n >= start + 2
    BY <1>2, <1>11
  <2>4. CASE IN_BUFFER < start + Len(packet.topic) + IdSize(packet)
    <3>1. place = "error"
      BY <1>2, <1>4, <1>7, <1>11, <2>1, <2>2, <2>3, <2>4, Zenon DEF AfterLength
    <3>2. Reading(place, n, packet, bytes, start)
      BY <1>2, <1>6, <3>1 DEF Reading
    <3> QED BY <1>7, <3>2
  <2>5. CASE ~ (IN_BUFFER < start + Len(packet.topic) + IdSize(packet))
    <3>1. place = IF n < Fill(bytes) THEN "rest" ELSE "done"
      BY <1>2, <1>4, <1>7, <1>11, <2>1, <2>2, <2>5, Zenon DEF AfterLength
    <3>2. Len(packet.topic) \in Nat /\ IdSize(packet) \in Nat
      BY <1>11 DEF Formed, PublishFields, IdSize
    <3>3. HeaderFits(packet, bytes, start)
      BY <1>2, <1>5, <1>11, <2>5, <3>2 DEF HeaderFits
    <3>4. (place = "rest" /\ n < Fill(bytes)) \/ (place = "done" /\ n = Fill(bytes))
      <4>1. CASE n < Fill(bytes)
        BY <3>1, <4>1, Zenon
      <4>2. CASE ~ (n < Fill(bytes))
        <5>1. n = Fill(bytes)
          BY <1>2, <1>6, <4>2
        <5> QED BY <3>1, <4>2, <5>1, Zenon
      <4> QED BY <4>1, <4>2
    <3>5. Reading(place, n, packet, bytes, start)
      BY <1>2, <1>6, <3>3, <3>4 DEF Reading
    <3> QED BY <1>7, <3>5
  <2> QED BY <2>4, <2>5
<1> QED BY <1>8, <1>9, <1>10, <1>11

\* An acknowledgement whose id does not look like the end of a length that goes on.
QuietAck(packet) ==
    HasId(packet.type) => ~ (HighBit(packet.id \div 256) /\ HighBit(packet.id % 256))

\* In a packet that might be taken for a header, a last byte with its high bit is alone.
QuietEnd(bytes) ==
    Len(bytes) < 6 /\ HighBit(bytes[Len(bytes)]) =>
        Len(bytes) > 2 /\ ~ HighBit(bytes[Len(bytes) - 1])

LEMMA QuietEnds ==
    ASSUME NEW packet \in BrokerPackets, NEW bytes, NEW start, Formed(packet, bytes, start),
           QuietAck(packet)
    PROVE  QuietEnd(bytes)
<1>1. Shape(bytes, start)
  BY DEF Formed
<1>2. /\ start \in Nat /\ start >= 2 /\ start <= Len(bytes) /\ Len(bytes) \in Nat
      /\ ~ HighBit(bytes[start])
  <2>1. /\ start \in Nat /\ start >= 2 /\ start <= Len(bytes) /\ Len(bytes) \in Nat
        /\ \A i \in 2 .. start : HighBit(bytes[i]) <=> i # start
    BY <1>1 DEF Shape
  <2>2. start \in 2 .. start
    BY <2>1
  <2> QED BY <2>1, <2>2
<1>3. ASSUME HasId(packet.type) PROVE QuietEnd(bytes)
  <2>1. Len(bytes) = 4 /\ bytes[4] = packet.id % 256 /\ bytes[3] = packet.id \div 256
    BY <1>3, Zenon DEF Formed, AckFields
  <2>2. ~ (HighBit(bytes[3]) /\ HighBit(bytes[4]))
    BY <1>3, <2>1, Zenon DEF QuietAck
  <2>3. 4 > 2 /\ 4 - 1 = 3
    OBVIOUS
  <2> QED BY <2>1, <2>2, <2>3 DEF QuietEnd
<1>4. ASSUME packet.type = PUBLISH PROVE QuietEnd(bytes)
  <2>1. PublishFields(bytes, packet, start)
    BY <1>4 DEF Formed
  <2>2. PICK t, d, k \in Nat : t = Len(packet.topic) /\ t >= 1 /\ d = Len(packet.data) /\ k = IdSize(packet)
    <3>1. IdSize(packet) \in Nat
      BY DEF IdSize
    <3>2. Len(packet.topic) \in Nat /\ Len(packet.topic) >= 1
      BY <2>1 DEF PublishFields
    <3>3. packet.data \in Seq(Byte)
      BY DEF BrokerPackets
    <3>4. Len(packet.data) \in Nat
      BY <3>3
    <3> QED BY <3>1, <3>2, <3>4
  <2>3. start + 2 + t + k + d = Len(bytes)
    BY <2>1, <2>2 DEF PublishFields, Payload
  <2>4. bytes[start + 2] = t % 256
    BY <2>1, <2>2 DEF PublishFields
  <2>5. CASE Len(bytes) < 6
    <3>0. PICK l \in Nat : l = Len(bytes) /\ l < 6 /\ start + 2 + t + k + d = l
      BY <1>2, <2>3, <2>5
    <3>1. start + 2 = 4 /\ t = 1 /\ Len(bytes) = 5
      <4>1. start \in Nat /\ start >= 2 /\ t >= 1
        BY <1>2, <2>2
      <4>2. start = 2 /\ t = 1 /\ l = 5
        BY <3>0, <4>1
      <4> QED BY <3>0, <4>2
    <3>2. bytes[4] = 1 % 256 /\ 1 % 256 = 1 /\ 5 - 1 = 4 /\ 5 > 2
      BY <2>4, <3>1
    <3>3. ~ HighBit(bytes[4])
      BY <3>2 DEF HighBit
    <3> QED BY <3>1, <3>2, <3>3 DEF QuietEnd
  <2> QED BY <2>5 DEF QuietEnd
<1>5. ASSUME packet.type = SUBACK PROVE QuietEnd(bytes)
  <2>1. Len(bytes) = 5 /\ bytes[5] = 0
    BY <1>5, Zenon DEF Formed, SubackFields
  <2>2. ~ HighBit(bytes[5])
    BY <2>1 DEF HighBit
  <2> QED BY <2>1, <2>2 DEF QuietEnd
<1>6. ASSUME packet.type = CONNACK PROVE QuietEnd(bytes)
  <2>1. Len(bytes) = 4 /\ bytes[3] = 0
    BY <1>6, Zenon DEF Formed, ConnackFields
  <2>2. ~ HighBit(bytes[3]) /\ 4 > 2 /\ 4 - 1 = 3
    BY <2>1 DEF HighBit
  <2> QED BY <2>1, <2>2 DEF QuietEnd
<1>7. ASSUME packet.type = PINGRESP PROVE QuietEnd(bytes)
  <2>1. Len(bytes) = 2
    BY <1>7, Zenon DEF Formed
  <2>2. start = 2
    BY <1>2, <2>1
  <2>3. ~ HighBit(bytes[2])
    BY <1>2, <2>2
  <2> QED BY <2>1, <2>3 DEF QuietEnd
<1>8. packet.type \in {CONNACK, PUBLISH, PUBACK, PUBREC, PUBREL, PUBCOMP, SUBACK, PINGRESP}
  BY DEF BrokerPackets
<1> QED BY <1>3, <1>4, <1>5, <1>6, <1>7, <1>8 DEF HasId

\* A byte that is not asked for as part of the length: the header is complete.
LEMMA HeaderComplete ==
    ASSUME NEW packet, NEW bytes, NEW start, Formed(packet, bytes, start), NEW n \in Nat, n >= 1,
           ~ InLength(n, bytes[n])
    PROVE  n >= start
<1>1. Shape(bytes, start) /\ start <= 5
  BY DEF Formed
<1>2. start \in Nat /\ \A i \in 2 .. start : HighBit(bytes[i]) <=> i # start
  BY <1>1 DEF Shape
<1>3. n # 1 /\ (n >= 6 \/ ~ HighBit(bytes[n]))
  BY DEF InLength
<1>4. CASE n < start
  <2>1. n \in 2 .. start /\ n # start /\ ~ (n >= 6)
    BY <1>1, <1>2, <1>3, <1>4
  <2> QED BY <1>2, <1>3, <2>1
<1> QED BY <1>2, <1>4

LEMMA FillIs ==
    ASSUME NEW packet, NEW bytes, NEW start, Formed(packet, bytes, start)
    PROVE  /\ Fill(bytes) \in Nat /\ Fill(bytes) >= 2 /\ Fill(bytes) <= IN_BUFFER
           /\ Fill(bytes) <= Len(bytes) /\ Len(bytes) \in Nat /\ IN_BUFFER \in Nat
           /\ start \in Nat /\ start >= 2 /\ start <= 5
<1>1. /\ start \in Nat /\ start >= 2 /\ start <= Len(bytes) /\ Len(bytes) \in Nat /\ start <= 5
  BY DEF Formed, Shape
<1>2. IN_BUFFER \in Nat /\ IN_BUFFER >= 9
  BY MqttWireAssumption
<1>3. Fill(bytes) = IF IN_BUFFER < Len(bytes) THEN IN_BUFFER ELSE Len(bytes)
  BY DEF Fill
<1> QED BY <1>1, <1>2, <1>3

LEMMA StartsReading ==
    ASSUME NEW packet, NEW bytes, NEW start, Formed(packet, bytes, start)
    PROVE  Reading("length", 1, packet, bytes, start)
<1>1. 1 < Fill(bytes) /\ Fill(bytes) \in Nat
  BY FillIs
<1>2. InLength(1, bytes[1])
  BY DEF InLength
<1> QED BY <1>1, <1>2 DEF Reading

LEMMA CallReading ==
    ASSUME NEW packet, NEW bytes, NEW start, Formed(packet, bytes, start), NEW n,
           Reading("call", n, packet, bytes, start), NEW buffer, Begins(buffer, bytes, n)
    PROVE  Reading(IF InLength(n, bytes[n]) THEN "length" ELSE AfterLength(buffer),
                   n, packet, bytes, start)
<1>1. n \in Nat /\ n >= 1 /\ n < Fill(bytes)
  BY DEF Reading
<1>2. Fill(bytes) \in Nat /\ Fill(bytes) <= IN_BUFFER /\ IN_BUFFER \in Nat
  BY FillIs
<1>3. CASE InLength(n, bytes[n])
  <2>1. Reading("length", n, packet, bytes, start)
    BY <1>1, <1>2, <1>3 DEF Reading
  <2> QED BY <1>3, <2>1
<1>4. CASE ~ InLength(n, bytes[n])
  <2>1. n >= start
    BY <1>1, <1>4, HeaderComplete
  <2>2. n <= IN_BUFFER
    BY <1>1, <1>2
  <2>3. Reading(AfterLength(buffer), n, packet, bytes, start)
    BY <2>1, <2>2, AfterLengthIs
  <2> QED BY <1>4, <2>3
<1> QED BY <1>3, <1>4

LEMMA LengthReading ==
    ASSUME NEW packet, NEW bytes, NEW start, Formed(packet, bytes, start), QuietEnd(bytes), NEW n,
           Reading("length", n, packet, bytes, start), NEW m, m = n + 1,
           NEW buffer, Begins(buffer, bytes, m)
    PROVE  Reading(IF InLength(m, bytes[m]) THEN "length" ELSE AfterLength(buffer),
                   m, packet, bytes, start)
<1>1. n \in Nat /\ n >= 1 /\ n < Fill(bytes) /\ InLength(n, bytes[n])
  BY DEF Reading
<1>2. PICK f, l \in Nat : f = Fill(bytes) /\ l = Len(bytes) /\ f <= l /\ f <= IN_BUFFER
  BY FillIs
<1>3. m \in Nat /\ m >= 1 /\ m <= f /\ m <= IN_BUFFER /\ IN_BUFFER \in Nat /\ IN_BUFFER >= 9
  BY <1>1, <1>2, MqttWireAssumption
<1>4. CASE InLength(m, bytes[m])
  <2>1. m # 1 /\ m < 6 /\ HighBit(bytes[m])
    BY <1>1, <1>4 DEF InLength
  <2>2. m # l
    <3>1. CASE m = l
      <4>1. m > 2 /\ ~ HighBit(bytes[m - 1])
        BY <1>2, <2>1, <3>1, Zenon DEF QuietEnd
      <4>2. m - 1 = n /\ n # 1
        BY <1>1, <4>1
      <4> QED BY <1>1, <4>1, <4>2 DEF InLength
    <3> QED BY <3>1
  <2>3. m < f
    <3>1. f = IF IN_BUFFER < l THEN IN_BUFFER ELSE l
      BY <1>2 DEF Fill
    <3> QED BY <1>2, <1>3, <2>1, <2>2, <3>1
  <2>4. Reading("length", m, packet, bytes, start)
    BY <1>2, <1>3, <1>4, <2>3 DEF Reading
  <2> QED BY <1>4, <2>4
<1>5. CASE ~ InLength(m, bytes[m])
  <2>1. m >= start
    BY <1>3, <1>5, HeaderComplete
  <2>2. Reading(AfterLength(buffer), m, packet, bytes, start)
    BY <1>3, <2>1, AfterLengthIs
  <2> QED BY <1>5, <2>2
<1> QED BY <1>4, <1>5

\* As little as a byte, or as much as a read asks for.
LEMMA SizeReading ==
    ASSUME NEW packet, NEW bytes, NEW start, Formed(packet, bytes, start), NEW n,
           Reading("size", n, packet, bytes, start), NEW k \in 1 .. (n - start) + 2,
           NEW m, m = n + k, NEW buffer, Begins(buffer, bytes, m)
    PROVE  Reading(IF m < start + 2 THEN "call" ELSE AfterLength(buffer), m, packet, bytes, start)
<1>1. n \in Nat /\ n >= 1 /\ IN_BUFFER < Len(bytes) /\ start <= n /\ n < start + 2
  BY DEF Reading
<1>2. /\ start \in Nat /\ start <= 5 /\ Fill(bytes) \in Nat /\ Len(bytes) \in Nat
      /\ IN_BUFFER \in Nat /\ IN_BUFFER >= 9
  BY FillIs, MqttWireAssumption
<1>3. Fill(bytes) = IN_BUFFER
  BY <1>1 DEF Fill
<1>4. m \in Nat /\ m <= start + 4 /\ m >= 1 /\ m >= start
  BY <1>1, <1>2
<1>5. m <= IN_BUFFER
  BY <1>2, <1>4
<1>6. CASE m < start + 2
  <2>1. m < IN_BUFFER
    BY <1>2, <1>4, <1>6
  <2>2. Reading("call", m, packet, bytes, start)
    BY <1>3, <1>4, <1>5, <2>1 DEF Reading
  <2> QED BY <1>6, <2>2
<1>7. CASE ~ (m < start + 2)
  <2>1. Reading(AfterLength(buffer), m, packet, bytes, start)
    BY <1>4, <1>5, AfterLengthIs
  <2> QED BY <1>7, <2>1
<1> QED BY <1>6, <1>7

LEMMA RestReading ==
    ASSUME NEW packet, NEW bytes, NEW start, Formed(packet, bytes, start), NEW n,
           Reading("rest", n, packet, bytes, start), NEW k \in 1 .. Fill(bytes) - n, NEW m, m = n + k
    PROVE  Reading(IF m < Fill(bytes) THEN "call" ELSE "done", m, packet, bytes, start)
<1>1. n \in Nat /\ n >= 1 /\ n < Fill(bytes) /\ HeaderFits(packet, bytes, start)
  BY DEF Reading
<1>2. PICK f \in Nat : f = Fill(bytes)
  BY FillIs
<1>3. m \in Nat /\ m >= 1 /\ m <= f
  BY <1>1, <1>2
<1>4. CASE m < f
  <2>1. Reading("call", m, packet, bytes, start)
    BY <1>2, <1>3, <1>4 DEF Reading
  <2> QED BY <1>2, <1>4, <2>1
<1>5. CASE ~ (m < f)
  <2>1. m = f
    BY <1>3, <1>5
  <2>2. Reading("done", m, packet, bytes, start)
    BY <1>1, <1>2, <1>3, <2>1 DEF Reading
  <2> QED BY <1>2, <1>5, <2>2
<1> QED BY <1>4, <1>5

LEMMA TimeOutReading ==
    ASSUME NEW packet, NEW bytes, NEW start, Formed(packet, bytes, start), NEW n,
           NEW place \in {"length", "size", "rest"}, Reading(place, n, packet, bytes, start)
    PROVE  Reading("call", n, packet, bytes, start)
<1>1. n \in Nat /\ n >= 1 /\ n <= Fill(bytes)
  BY DEF Reading
<1>2. n < Fill(bytes)
  <2>1. CASE place \in {"length", "rest"}
    BY <2>1 DEF Reading
  <2>2. CASE place = "size"
    <3>1. IN_BUFFER < Len(bytes) /\ n < start + 2
      BY <2>2 DEF Reading
    <3>2. Fill(bytes) = IN_BUFFER
      BY <3>1 DEF Fill
    <3>3. start \in Nat /\ start <= 5 /\ IN_BUFFER \in Nat /\ IN_BUFFER >= 9
      BY FillIs, MqttWireAssumption
    <3> QED BY <1>1, <3>1, <3>2, <3>3
  <2> QED BY <2>1, <2>2
<1> QED BY <1>1, <1>2 DEF Reading

----------------------------------------------------------------------------
(* What a packet is handled as *)

\* All of a packet that fits is in in_buffer, and of a larger one as much as there is room for.
Complete(buffer, n, packet, bytes, start) ==
    /\ n \in Nat /\ n = Fill(bytes) /\ n >= start /\ Begins(buffer, bytes, n)
    /\ HeaderFits(packet, bytes, start)
    /\ packet.type # PUBLISH => n = Len(bytes)

LEMMA ReadingComplete ==
    ASSUME NEW packet, NEW bytes, NEW start, Formed(packet, bytes, start), NEW n,
           NEW place \in {"done", "chunk", "reply"}, Reading(place, n, packet, bytes, start),
           NEW buffer, Begins(buffer, bytes, n)
    PROVE  Complete(buffer, n, packet, bytes, start)
<1>1. n \in Nat /\ n = Fill(bytes) /\ HeaderFits(packet, bytes, start)
  BY DEF Reading
<1>2. /\ start \in Nat /\ start >= 2 /\ start <= Len(bytes) /\ Len(bytes) \in Nat /\ start <= 5
  BY DEF Formed, Shape
<1>3. IN_BUFFER \in Nat /\ IN_BUFFER >= 9
  BY MqttWireAssumption
<1>4. n = IF IN_BUFFER < Len(bytes) THEN IN_BUFFER ELSE Len(bytes)
  BY <1>1 DEF Fill
<1>5. n >= start
  BY <1>2, <1>3, <1>4
<1>6. packet.type # PUBLISH => n = Len(bytes)
  BY <1>1, <1>4 DEF HeaderFits
<1> QED BY <1>1, <1>5, <1>6 DEF Complete

LEMMA ConnackEntry ==
    ASSUME NEW packet \in BrokerPackets, Sendable(packet),
           NEW bytes, NEW start, Formed(packet, bytes, start),
           NEW buffer, NEW n, Complete(buffer, n, packet, bytes, start),
           mqtt_get_type(buffer) = CONNACK, buffer[4] = 0
    PROVE  [type |-> CONNACK, id |-> 0, size |-> 0] = Entry(packet)
<1>1. Begins(buffer, bytes, n) /\ n >= start
  BY DEF Complete
<1>2. packet.type = CONNACK
  BY <1>1, BeginsHeader
<1>3. n = Len(bytes)
  BY <1>2, KindsOfPacket DEF Complete
<1>4. Len(bytes) = 4 /\ bytes[4] = packet.id
  BY <1>2, Zenon DEF Formed, ConnackFields
<1>5. packet.id = 0
  <2>1. \A i \in 1 .. n : buffer[i] = bytes[i]
    BY <1>1 DEF Begins
  <2>2. 4 \in 1 .. 4
    OBVIOUS
  <2> QED BY <1>3, <1>4, <2>1, <2>2
<1>6. Len(packet.data) = 0
  <2>1. packet.data = <<>>
    BY <1>2, KindsOfPacket DEF Sendable
  <2> QED BY <2>1
<1> QED BY <1>2, <1>5, <1>6, KindsOfPacket, Zenon DEF Entry

LEMMA OtherEntry ==
    ASSUME NEW packet \in BrokerPackets, Sendable(packet),
           NEW bytes, NEW start, Formed(packet, bytes, start),
           NEW buffer, NEW n, Complete(buffer, n, packet, bytes, start),
           mqtt_get_type(buffer) # PUBLISH, packet.type # CONNACK
    PROVE  [type |-> mqtt_get_type(buffer), id |-> mqtt_get_id(buffer, n), size |-> 0] = Entry(packet)
<1>1. Begins(buffer, bytes, n) /\ n >= start
  BY DEF Complete
<1>2. mqtt_get_type(buffer) = packet.type
  BY <1>1, BeginsHeader
<1>3. n = Len(bytes)
  BY <1>2, KindsOfPacket DEF Complete
<1>4. \A i \in 1 .. n : buffer[i] = bytes[i]
  BY <1>1 DEF Begins
<1>5. Len(packet.data) = 0
  <2>1. packet.data = <<>>
    BY <1>2 DEF Sendable
  <2> QED BY <2>1
<1>6. mqtt_get_id(buffer, n) = packet.id
  <2>1. CASE HasId(packet.type) \/ packet.type = SUBACK
    <3>1. Len(bytes) >= 4 /\ WordAt(bytes, 2) = packet.id /\ (bytes[2] = 2 \/ bytes[2] = 3)
      <4>1. CASE HasId(packet.type)
        <5>1. Len(bytes) = 4 /\ WordAt(bytes, 2) = packet.id /\ bytes[2] = 2
          BY <4>1, Zenon DEF Formed, AckFields
        <5> QED BY <5>1
      <4>2. CASE packet.type = SUBACK
        <5>1. Len(bytes) = 5 /\ WordAt(bytes, 2) = packet.id /\ bytes[2] = 3
          BY <4>2, Zenon DEF Formed, SubackFields
        <5> QED BY <5>1
      <4> QED BY <2>1, <4>1, <4>2
    <3>2. n \in Nat /\ n >= 4
      BY <1>3, <3>1 DEF Complete
    <3>3. 2 \in 1 .. n /\ 3 \in 1 .. n /\ 4 \in 1 .. n
      BY <3>2
    <3>4. buffer[2] = bytes[2] /\ buffer[3] = bytes[3] /\ buffer[4] = bytes[4]
      BY <1>4, <3>3
    <3>5. WordAt(buffer, 2) = packet.id
      <4>1. 2 + 1 = 3 /\ 2 + 2 = 4
        OBVIOUS
      <4> QED BY <3>1, <3>4, <4>1 DEF WordAt
    <3>6. ~ HighBit(buffer[2])
      BY <3>1, <3>4 DEF HighBit
    <3>7. packet.type \in {PUBACK, PUBREC, PUBREL, PUBCOMP, SUBACK, UNSUBACK, SUBSCRIBE, UNSUBSCRIBE}
      BY <2>1 DEF HasId
    <3> QED BY <1>2, <3>2, <3>5, <3>6, <3>7, KindsOfPacket, Zenon DEF mqtt_get_id
  <2>2. CASE packet.type = PINGRESP
    <3>1. PINGRESP # PUBLISH /\ PINGRESP \notin {PUBACK, PUBREC, PUBREL, PUBCOMP, SUBACK, UNSUBACK,
                                                SUBSCRIBE, UNSUBSCRIBE}
      BY DEF PUBLISH, PUBACK, PUBREC, PUBREL, PUBCOMP, SUBSCRIBE, SUBACK, UNSUBSCRIBE, UNSUBACK, PINGRESP
    <3>2. mqtt_get_id(buffer, n) = 0
      BY <1>2, <2>2, <3>1, Zenon DEF mqtt_get_id
    <3>3. packet.id = 0
      BY <2>2 DEF Sendable
    <3> QED BY <3>2, <3>3
  <2>3. packet.type \in {CONNACK, PUBLISH, PUBACK, PUBREC, PUBREL, PUBCOMP, SUBACK, PINGRESP}
    BY DEF BrokerPackets
  <2> QED BY <1>2, <2>1, <2>2, <2>3 DEF HasId
<1> QED BY <1>2, <1>5, <1>6, Zenon DEF Entry

\* If in_buffer ends in the middle of a PUBLISH, then not in its message id.
IdFits(packet, bytes, start) ==
    packet.type = PUBLISH /\ packet.qos > 0 /\ IN_BUFFER < Len(bytes) =>
        IN_BUFFER \notin {Payload(packet, start) - 2, Payload(packet, start) - 1}

\* The numbers of a PUBLISH of which n bytes are in in_buffer.
PublishSizes(packet, bytes, start, n, t, k, d) ==
    /\ start >= 2 /\ t = Len(packet.topic) /\ t >= 1 /\ k = IdSize(packet) /\ d = Len(packet.data)
    /\ Payload(packet, start) = start + 2 + t + k /\ start + 2 + t + k + d = Len(bytes)
    /\ packet.qos \in 0 .. 2 /\ ((packet.qos = 0 /\ k = 0) \/ (packet.qos > 0 /\ k = 2))
    /\ n = (IF IN_BUFFER < Len(bytes) THEN IN_BUFFER ELSE Len(bytes))
    /\ n <= Len(bytes) /\ Len(bytes) \in Nat

LEMMA PublishSized ==
    ASSUME NEW packet \in BrokerPackets, packet.type = PUBLISH, NEW bytes, NEW start,
           Formed(packet, bytes, start), NEW buffer, NEW n, Complete(buffer, n, packet, bytes, start)
    PROVE  \E t, k, d \in Nat : start \in Nat /\ n \in Nat /\ PublishSizes(packet, bytes, start, n, t, k, d)
<1>1. PublishFields(bytes, packet, start)
  BY DEF Formed
<1>2. start \in Nat /\ start >= 2 /\ Len(bytes) \in Nat
  BY DEF Formed, Shape
<1>3. PICK t \in Nat : t = Len(packet.topic) /\ t >= 1
  BY <1>1 DEF PublishFields
<1>4. packet.qos \in 0 .. 2 /\ packet.data \in Seq(Byte)
  BY DEF BrokerPackets
<1>5. PICK k \in Nat : k = IdSize(packet) /\ ((packet.qos = 0 /\ k = 0) \/ (packet.qos > 0 /\ k = 2))
  BY <1>4 DEF IdSize
<1>6. PICK d \in Nat : d = Len(packet.data)
  BY <1>4
<1>7. Payload(packet, start) = start + 2 + t + k
  BY <1>3, <1>5 DEF Payload
<1>8. start + 2 + t + k + d = Len(bytes)
  BY <1>1, <1>6, <1>7 DEF PublishFields
<1>9. n \in Nat /\ n = (IF IN_BUFFER < Len(bytes) THEN IN_BUFFER ELSE Len(bytes))
  BY DEF Complete, Fill
<1>10. n <= Len(bytes)
  BY DEF Complete, Begins
<1>11. PublishSizes(packet, bytes, start, n, t, k, d)
  BY <1>2, <1>3, <1>4, <1>5, <1>6, <1>7, <1>8, <1>9, <1>10, Zenon DEF PublishSizes
<1> QED BY <1>2, <1>9, <1>11

\* The payload that comes with the header.
FirstPiece(piece, n, packet, start) ==
    /\ n >= Payload(packet, start) /\ piece.len = n - Payload(packet, start)
    /\ piece.len \in Nat /\ piece.from \in Nat /\ Payload(packet, start) \in Nat
    /\ piece.len > 0 => piece.from = Payload(packet, start)

LEMMA TopicWhole ==
    ASSUME NEW packet \in BrokerPackets, packet.type = PUBLISH, NEW bytes, NEW start,
           Formed(packet, bytes, start), NEW buffer, NEW n, Complete(buffer, n, packet, bytes, start),
           mqtt_get_publish_topic(buffer, n) # NoRange
    PROVE  /\ start + 2 < n /\ start + 2 + Len(packet.topic) <= n
           /\ WordAt(buffer, start) = Len(packet.topic)
<1>1. PICK t, k, d \in Nat : start \in Nat /\ n \in Nat /\ PublishSizes(packet, bytes, start, n, t, k, d)
  BY PublishSized
<1>2. Begins(buffer, bytes, n) /\ n >= start
  BY DEF Complete
<1>3. fixed_size_len(buffer, n) = start
  BY <1>2, BeginsHeader DEF HeaderOf
<1>4. ~ (start + 2 >= n) /\ ~ (start + 2 + WordAt(buffer, start) > n)
  BY <1>3, Zenon DEF mqtt_get_publish_topic
<1>5. start + 2 < n
  BY <1>1, <1>4
<1>6. WordAt(buffer, start) = t
  <2>1. start + 1 \in 1 .. n /\ start + 2 \in 1 .. n
    BY <1>1, <1>5
  <2>2. buffer[start + 1] = bytes[start + 1] /\ buffer[start + 2] = bytes[start + 2]
    BY <1>2, <2>1 DEF Begins
  <2>3. WordAt(bytes, start) = t
    BY <1>1, Zenon DEF Formed, PublishFields, PublishSizes
  <2> QED BY <2>2, <2>3, Zenon DEF WordAt
<1>7. t = Len(packet.topic)
  BY <1>1 DEF PublishSizes
<1>8. start + 2 + t <= n
  BY <1>1, <1>4, <1>6
<1> QED BY <1>5, <1>6, <1>7, <1>8

LEMMA DeliverIs ==
    ASSUME NEW packet \in BrokerPackets, packet.type = PUBLISH, NEW bytes, NEW start,
           Formed(packet, bytes, start), NEW buffer, NEW n, Complete(buffer, n, packet, bytes, start),
           mqtt_get_publish_topic(buffer, n) # NoRange, IdFits(packet, bytes, start)
    PROVE  FirstPiece(mqtt_get_publish_data(buffer, n), n, packet, start)
<1>1. PICK t, k, d \in Nat : start \in Nat /\ n \in Nat /\ PublishSizes(packet, bytes, start, n, t, k, d)
  BY PublishSized
<1>2. Begins(buffer, bytes, n) /\ n >= start
  BY DEF Complete
<1>3. PICK l \in Nat : l = Len(bytes)
  BY <1>1 DEF PublishSizes
<1>4. fixed_size_len(buffer, n) = start /\ mqtt_get_total_length(buffer, n) = l
      /\ mqtt_get_qos(buffer) = packet.qos
  BY <1>2, <1>3, BeginsHeader DEF HeaderOf
<1>5. start + 2 < n /\ start + 2 + t <= n /\ WordAt(buffer, start) = t
  BY <1>1, TopicWhole DEF PublishSizes
<1>6. PICK p \in Nat : p = start + 2 + t + k /\ p = Payload(packet, start) /\ p + d = l /\ n <= l
  <2>1. start + 2 + t + k = Payload(packet, start) /\ start + 2 + t + k + d = l /\ n <= l
    BY <1>1, <1>3 DEF PublishSizes
  <2>2. start + 2 + t + k \in Nat
    BY <1>1
  <2> QED BY <2>1, <2>2
<1>7. (IF mqtt_get_qos(buffer) > 0 THEN 2 ELSE 0) = k
  BY <1>1, <1>4, Zenon DEF PublishSizes, IdSize
<1>8. (packet.qos = 0 /\ k = 0) \/ (packet.qos > 0 /\ k = 2)
  BY <1>1 DEF PublishSizes
<1>9. n >= p
  <2>1. CASE k = 0
    BY <1>1, <1>5, <1>6, <2>1
  <2>2. CASE packet.qos > 0 /\ k = 2
    <3>1. CASE IN_BUFFER < l
      <4>1. n = IN_BUFFER
        BY <1>1, <1>3, <3>1 DEF PublishSizes
      <4>2. n # p - 2 /\ n # p - 1
        BY <1>3, <1>6, <2>2, <3>1, <4>1 DEF IdFits
      <4>3. p - 2 <= n
        BY <1>1, <1>5, <1>6, <2>2
      <4> QED BY <1>1, <1>6, <4>2, <4>3
    <3>2. CASE ~ (IN_BUFFER < l)
      <4>1. n = l
        BY <1>1, <1>3, <3>2 DEF PublishSizes
      <4> QED BY <1>3, <1>6, <4>1
    <3> QED BY <3>1, <3>2
  <2> QED BY <1>8, <2>1, <2>2
<1>10. PICK piece : piece = mqtt_get_publish_data(buffer, n)
  OBVIOUS
<1>11. CASE n = p
  <2>1. start + 2 + t >= n \/ (mqtt_get_qos(buffer) > 0 /\ p >= n)
    BY <1>1, <1>4, <1>6, <1>8, <1>11
  <2>2. piece = NoRange
    BY <1>4, <1>5, <1>6, <1>7, <1>10, <2>1, Zenon DEF mqtt_get_publish_data
  <2>3. piece.len = 0 /\ piece.from = 0 /\ n - p = 0
    BY <1>11, <2>2 DEF NoRange
  <2>4. FirstPiece(piece, n, packet, start)
    BY <1>6, <1>9, <1>11, <2>3 DEF FirstPiece
  <2> QED BY <1>10, <2>4
<1>12. CASE n # p
  <2>1. ~ (start + 2 >= n) /\ ~ (start + 2 + t >= n) /\ ~ (p >= n) /\ ~ (l < p)
    BY <1>1, <1>5, <1>6, <1>8, <1>9, <1>12
  <2>2. piece = [from |-> p, len |-> (IF l <= n THEN l ELSE n) - p]
    BY <1>4, <1>5, <1>6, <1>7, <1>10, <2>1, Zenon DEF mqtt_get_publish_data
  <2>3. (IF l <= n THEN l ELSE n) = n
    BY <1>1, <1>6
  <2>4. piece.len = n - p /\ piece.from = p /\ n - p \in Nat
    BY <1>1, <1>6, <1>9, <2>2, <2>3
  <2>5. FirstPiece(piece, n, packet, start)
    BY <1>6, <1>9, <2>4 DEF FirstPiece
  <2> QED BY <1>10, <2>5
<1> QED BY <1>11, <1>12

LEMMA PublishEntry ==
    ASSUME NEW packet \in BrokerPackets, packet.type = PUBLISH, NEW bytes, NEW start,
           Formed(packet, bytes, start), NEW buffer, NEW n, Complete(buffer, n, packet, bytes, start),
           n >= Payload(packet, start)
    PROVE  [type |-> PUBLISH, id |-> mqtt_get_id(buffer, Len(bytes)), size |-> Len(packet.data)]
               = Entry(packet)
<1>1. PICK t, k, d \in Nat : start \in Nat /\ n \in Nat /\ PublishSizes(packet, bytes, start, n, t, k, d)
  BY PublishSized
<1>2. Begins(buffer, bytes, n) /\ n >= start
  BY DEF Complete
<1>3. PICK l \in Nat : l = Len(bytes)
  BY <1>1 DEF PublishSizes
<1>4. fixed_size_len(buffer, l) = start /\ mqtt_get_qos(buffer) = packet.qos
      /\ mqtt_get_type(buffer) = PUBLISH
  BY <1>2, <1>3, BeginsHeader DEF HeaderOf
<1>5. start + 2 + t + k <= n /\ n <= l /\ t >= 1 /\ start >= 2
  BY <1>1, <1>3 DEF PublishSizes
<1>6. ~ (start + 2 >= l)
  BY <1>1, <1>5
<1>7. PUBLISH \notin {PUBACK, PUBREC, PUBREL, PUBCOMP, SUBACK, UNSUBACK, SUBSCRIBE, UNSUBSCRIBE}
  BY DEF PUBLISH, PUBACK, PUBREC, PUBREL, PUBCOMP, SUBSCRIBE, SUBACK, UNSUBSCRIBE, UNSUBACK
<1>8. mqtt_get_id(buffer, l) = IF packet.qos = 0 THEN 0 ELSE packet.id
  <2>1. CASE packet.qos = 0
    BY <1>4, <1>7, <2>1, Zenon DEF mqtt_get_id
  <2>2. CASE packet.qos # 0
    <3>1. packet.qos > 0 /\ k = 2
      BY <1>1, <2>2 DEF PublishSizes
    <3>2. start + 2 + t + 2 <= n
      BY <1>5, <3>1
    <3>3. WordAt(buffer, start) = t /\ WordAt(buffer, start + 2 + t) = packet.id
      <4>1. WordAt(bytes, start) = t /\ WordAt(bytes, start + 2 + t) = packet.id
        BY <1>1, <3>1, Zenon DEF Formed, PublishFields, PublishSizes
      <4>2. /\ start + 1 \in 1 .. n /\ start + 2 \in 1 .. n
            /\ (start + 2 + t) + 1 \in 1 .. n /\ (start + 2 + t) + 2 \in 1 .. n
        BY <1>1, <3>2
      <4>3. /\ buffer[start + 1] = bytes[start + 1] /\ buffer[start + 2] = bytes[start + 2]
            /\ buffer[(start + 2 + t) + 1] = bytes[(start + 2 + t) + 1]
            /\ buffer[(start + 2 + t) + 2] = bytes[(start + 2 + t) + 2]
        BY <1>2, <4>2 DEF Begins
      <4> QED BY <4>1, <4>3, ZenonT(60) DEF WordAt
    <3>4. ~ (start + 2 + t + 2 > l)
      BY <1>1, <1>5, <3>2
    <3> QED BY <1>4, <1>6, <1>7, <2>2, <3>3, <3>4, Zenon DEF mqtt_get_id
  <2> QED BY <2>1, <2>2
<1>9. mqtt_get_id(buffer, l) = IF packet.type = PUBLISH /\ packet.qos = 0 THEN 0 ELSE packet.id
  BY <1>8
<1> QED BY <1>3, <1>9, Zenon DEF Entry

----------------------------------------------------------------------------
(* The inductive invariant *)

\* What the application was told of a PUBLISH of which `read` bytes were read, the first at b.
Told(data, read, b, h, packet, start) ==
    /\ data \in [offset : Nat, len : Nat, total : Nat, at : Nat] /\ data.total = Len(packet.data)
    /\ Payload(packet, start) \in Nat /\ h >= Payload(packet, start)
    /\ Payload(packet, start) + data.offset + data.len = read
    /\ data.len > 0 => data.at = b + Payload(packet, start) + data.offset

Delivering(place, data, read, b, h, packet, bytes, start) ==
    /\ packet.type = PUBLISH /\ read \in Nat
    /\ place = "chunk" => read < Len(bytes)
    /\ place = "reply" => read = Len(bytes)
    /\ IdFits(packet, bytes, start) => Told(data, read, b, h, packet, start)

\* After n packets of session s: p bytes were taken, h of the packet that begins at b are in in_buffer.
AtPacket(s, n, place, p, b, h, data) ==
    /\ p \in Nat /\ b \in Nat /\ h \in Nat
    /\ h = 0 => place \in {"call", "first"} /\ p = Starts[s][n]
    /\ h > 0 => LET packet == Following(s, n)
                IN  /\ n < Len(Sessions[s]) /\ b = Starts[s][n]
                    /\ Reading(place, h, packet, Encode(packet), StartOf(packet))
                    /\ place \notin {"chunk", "reply"} => p = b + h
                    /\ place \in {"chunk", "reply"} =>
                           Delivering(place, data, p - b, b, h, packet, Encode(packet), StartOf(packet))

HeadersFit ==
    \A s \in DOMAIN Sessions : \A i \in DOMAIN Sessions[s] :
        IdFits(Sessions[s][i], Encode(Sessions[s][i]), StartOf(Sessions[s][i]))

QuietAcks == \A s \in DOMAIN Sessions : \A i \in DOMAIN Sessions[s] : QuietAck(Sessions[s][i])

\* What was handled is what was sent first.
Handles(s, log) ==
    /\ log \in Seq({log[i] : i \in DOMAIN log}) /\ Len(log) <= Len(Sessions[s])
    /\ HeadersFit => \A i \in DOMAIN log : log[i] = Entry(Sessions[s][i])

WireInv ==
    /\ session \in DOMAIN Sessions
    /\ phase = "closed" => pc = "call"
    /\ phase # "closed" /\ ~ cut =>
           /\ Handles(session, handled)
           /\ phase = "serve" => Len(handled) >= 1
           /\ AtPacket(session, Len(handled), pc, pos, begin, held, event)

\* The bytes from b on that are in the stream are those of the packet.
LEMMA BufferBegins ==
    ASSUME NEW stream, NEW start, NEW next, NEW bytes, Placed(stream, start, next, bytes),
           NEW n \in Nat, n <= Len(bytes)
    PROVE  Begins(SubSeq(stream, start + 1, start + n), bytes, n)
<1>1. /\ stream \in Seq(Nat) /\ start \in Nat /\ bytes \in Seq(Nat)
      /\ start + Len(bytes) <= Len(stream)
      /\ \A i \in 1 .. Len(bytes) : stream[start + i] = bytes[i]
  BY DEF Placed, At
<1>2. PICK buffer \in Seq(Nat) : buffer = SubSeq(stream, start + 1, start + n)
  <2>1. SubSeq(stream, start + 1, start + n) \in Seq(Nat)
    BY <1>1
  <2> QED BY <2>1
<1>3. Len(buffer) = n /\ \A i \in 1 .. n : buffer[i] = stream[start + i]
  BY <1>1, <1>2
<1>4. \A i \in 1 .. n : buffer[i] = bytes[i]
  <2> TAKE i \in 1 .. n
  <2>1. i \in 1 .. Len(bytes)
    <3>1. Len(bytes) \in Nat
      BY <1>1
    <3> QED BY <3>1
  <2>2. stream[start + i] = bytes[i]
    BY <1>1, <2>1
  <2> QED BY <1>3, <2>2
<1>5. Begins(buffer, bytes, n)
  BY <1>1, <1>3, <1>4 DEF Begins
<1> QED BY <1>2, <1>5

\* The packet that is being read.
Coming(s, n, packet, bytes, start, origin, next) ==
    /\ packet = Following(s, n) /\ bytes = Encode(packet) /\ start = StartOf(packet)
    /\ origin = Starts[s][n] /\ next = Starts[s][n + 1]
    /\ packet \in BrokerPackets /\ Sendable(packet) /\ (packet.type = CONNACK => n = 0)
    /\ QuietEnd(bytes) /\ (HeadersFit => IdFits(packet, bytes, start))
    /\ Formed(packet, bytes, start) /\ Placed(Streams[s], origin, next, bytes)
    /\ origin \in Nat /\ bytes \in Seq(Nat) /\ start \in Nat /\ next \in Nat
    /\ n \in Nat /\ n < Len(Sessions[s])

LEMMA ComingIs ==
    ASSUME QuietAcks, NEW s \in DOMAIN Sessions, NEW n \in Nat, n < Len(Sessions[s])
    PROVE  \E packet, bytes, start, origin, next :
               Coming(s, n, packet, bytes, start, origin, next)
<1>1. PICK packet, bytes, start, origin, next :
          /\ packet = Following(s, n) /\ bytes = Encode(packet) /\ start = StartOf(packet)
          /\ origin = Starts[s][n] /\ next = Starts[s][n + 1]
  OBVIOUS
<1>2. Sessions[s] \in Seq(BrokerPackets)
  BY SessionsAssumption
<1>3. n + 1 \in DOMAIN Sessions[s]
  BY <1>2
<1>4. /\ packet \in BrokerPackets /\ Sendable(packet) /\ (packet.type = CONNACK => n + 1 = 1)
      /\ bytes \in Seq(Nat)
  BY <1>1, <1>3, SessionPacket, Zenon DEF Following
<1>5. start \in Nat /\ Formed(packet, bytes, start)
  BY <1>1, <1>4, PacketFormed
<1>6. QuietEnd(bytes)
  <2>1. QuietAck(packet)
    BY <1>1, <1>3, Zenon DEF QuietAcks, Following
  <2> QED BY <1>4, <1>5, <2>1, QuietEnds
<1>7. HeadersFit => IdFits(packet, bytes, start)
  BY <1>1, <1>3, Zenon DEF HeadersFit, Following
<1>8. Placed(Streams[s], origin, next, bytes)
  BY <1>1, SessionPlaced
<1>9. origin \in Nat /\ next \in Nat
  BY <1>8 DEF Placed
<1>10. n + 1 = 1 => n = 0
  OBVIOUS
<1>11. Coming(s, n, packet, bytes, start, origin, next)
  BY <1>1, <1>4, <1>5, <1>6, <1>7, <1>8, <1>9, <1>10, Zenon DEF Coming
<1> QED BY <1>11

LEMMA StillReading ==
    ASSUME NEW s, NEW n, NEW packet, NEW bytes, NEW start, NEW origin, NEW next,
           Coming(s, n, packet, bytes, start, origin, next),
           NEW place, NEW h, Reading(place, h, packet, bytes, start), place \notin {"chunk", "reply"},
           NEW p, p = origin + h, NEW data
    PROVE  AtPacket(s, n, place, p, origin, h, data)
<1>1. /\ packet = Following(s, n) /\ bytes = Encode(packet) /\ start = StartOf(packet)
      /\ origin = Starts[s][n] /\ origin \in Nat /\ n < Len(Sessions[s])
  BY DEF Coming
<1>2. h \in Nat /\ h >= 1
  BY DEF Reading
<1>3. p \in Nat /\ h # 0
  BY <1>1, <1>2
<1> QED BY <1>1, <1>2, <1>3, Zenon DEF AtPacket

LEMMA StillDelivering ==
    ASSUME NEW s, NEW n, NEW packet, NEW bytes, NEW start, NEW origin, NEW next,
           Coming(s, n, packet, bytes, start, origin, next),
           NEW place \in {"chunk", "reply"}, NEW h, Reading(place, h, packet, bytes, start),
           NEW p \in Nat, NEW data,
           Delivering(place, data, p - origin, origin, h, packet, bytes, start)
    PROVE  AtPacket(s, n, place, p, origin, h, data)
<1>1. /\ packet = Following(s, n) /\ bytes = Encode(packet) /\ start = StartOf(packet)
      /\ origin = Starts[s][n] /\ origin \in Nat /\ n < Len(Sessions[s])
  BY DEF Coming
<1>2. h \in Nat /\ h >= 1
  BY DEF Reading
<1>3. h # 0
  BY <1>2
<1> QED BY <1>1, <1>2, <1>3, Zenon DEF AtPacket

LEMMA StillIdle ==
    ASSUME NEW s, NEW n, NEW place \in {"call", "first"}, NEW p \in Nat, p = Starts[s][n],
           NEW b \in Nat, NEW data
    PROVE  AtPacket(s, n, place, p, b, 0, data)
<1>1. 0 \in Nat /\ ~ (0 > 0)
  OBVIOUS
<1> QED BY <1>1, Zenon DEF AtPacket

\* A step that handles no packet, on a connection that stands.
LEMMA WireInvFrom ==
    ASSUME WireInv, session' = session, handled' = handled, phase' = phase, cut' = cut,
           phase = "closed" => pc' = "call",
           phase # "closed" /\ ~ cut =>
               AtPacket(session, Len(handled), pc', pos', begin', held', event')
    PROVE  WireInv'
BY Zenon DEF WireInv

LEMMA CloseInv ==
    ASSUME WireInv, Close
    PROVE  WireInv'
<1>1. session' = session /\ phase' = "closed" /\ pc' = "call"
  BY DEF Close
<1> QED BY <1>1, Zenon DEF WireInv

\* A packet is being read.
Underway(packet, bytes, start, origin, next) ==
    /\ Coming(session, Len(handled), packet, bytes, start, origin, next)
    /\ begin = origin /\ held \in Nat /\ pos \in Nat /\ begin \in Nat
    /\ Reading(pc, held, packet, bytes, start)
    /\ pc \notin {"chunk", "reply"} => pos = begin + held
    /\ pc \in {"chunk", "reply"} =>
           Delivering(pc, event, pos - begin, begin, held, packet, bytes, start)

LEMMA HandledLength ==
    ASSUME WireInv, phase # "closed", ~ cut
    PROVE  /\ session \in DOMAIN Sessions /\ Len(handled) \in Nat /\ held \in Nat /\ pos \in Nat
           /\ begin \in Nat /\ Len(handled) <= Len(Sessions[session])
           /\ AtPacket(session, Len(handled), pc, pos, begin, held, event)
           /\ Handles(session, handled)
<1>1. /\ session \in DOMAIN Sessions /\ Handles(session, handled)
      /\ AtPacket(session, Len(handled), pc, pos, begin, held, event)
  BY DEF WireInv
<1>2. Len(handled) \in Nat /\ Len(handled) <= Len(Sessions[session])
  BY <1>1 DEF Handles
<1>3. held \in Nat /\ pos \in Nat /\ begin \in Nat
  BY <1>1 DEF AtPacket
<1> QED BY <1>1, <1>2, <1>3

LEMMA UnderwayIs ==
    ASSUME QuietAcks, WireInv, phase # "closed", ~ cut, held # 0
    PROVE  \E packet, bytes, start, origin, next : Underway(packet, bytes, start, origin, next)
<1>1. PICK n \in Nat : n = Len(handled)
  BY HandledLength
<1>2. /\ session \in DOMAIN Sessions /\ AtPacket(session, n, pc, pos, begin, held, event)
      /\ held \in Nat /\ pos \in Nat /\ begin \in Nat
  BY <1>1, HandledLength
<1>3. held > 0
  BY <1>2
<1>4. n < Len(Sessions[session])
  BY <1>2, <1>3 DEF AtPacket
<1>5. PICK packet, bytes, start, origin, next :
          Coming(session, n, packet, bytes, start, origin, next)
  BY <1>2, <1>4, ComingIs
<1>6. /\ packet = Following(session, n) /\ bytes = Encode(packet) /\ start = StartOf(packet)
      /\ origin = Starts[session][n]
  BY <1>5 DEF Coming
<1>7. /\ begin = origin /\ Reading(pc, held, packet, bytes, start)
      /\ pc \notin {"chunk", "reply"} => pos = begin + held
      /\ pc \in {"chunk", "reply"} =>
             Delivering(pc, event, pos - begin, begin, held, packet, bytes, start)
  BY <1>2, <1>3, <1>6, Zenon DEF AtPacket
<1>8. Underway(packet, bytes, start, origin, next)
  BY <1>1, <1>2, <1>5, <1>7, Zenon DEF Underway
<1> QED BY <1>8

LEMMA InBufferBegins ==
    ASSUME NEW packet, NEW bytes, NEW start, NEW origin, NEW next,
           Underway(packet, bytes, start, origin, next), NEW n \in Nat, n <= Len(bytes)
    PROVE  /\ Begins(InBuffer(n), bytes, n)
           /\ n >= 1 => Stream[begin + n] = bytes[n]
<1>1. Placed(Streams[session], origin, next, bytes) /\ begin = origin
  BY DEF Underway, Coming
<1>2. Begins(SubSeq(Streams[session], origin + 1, origin + n), bytes, n)
  BY <1>1, BufferBegins
<1>3. Begins(InBuffer(n), bytes, n)
  BY <1>1, <1>2, Zenon DEF InBuffer, Stream
<1>4. \A i \in 1 .. Len(bytes) : Streams[session][origin + i] = bytes[i]
  BY <1>1 DEF Placed, At
<1>5. n >= 1 => n \in 1 .. Len(bytes)
  <2>1. Len(bytes) \in Nat
    BY <1>1 DEF Placed
  <2> QED BY <2>1
<1>6. n >= 1 => Stream[begin + n] = bytes[n]
  BY <1>1, <1>4, <1>5, Zenon DEF Stream
<1> QED BY <1>3, <1>6

LEMMA HeldBegins ==
    ASSUME NEW packet, NEW bytes, NEW start, NEW origin, NEW next,
           Underway(packet, bytes, start, origin, next)
    PROVE  /\ Begins(Buffer, bytes, held) /\ Stream[begin + held] = bytes[held]
           /\ held \in Nat /\ held >= 1 /\ held <= Len(bytes) /\ Formed(packet, bytes, start)
<1>1. held \in Nat /\ Reading(pc, held, packet, bytes, start) /\ Formed(packet, bytes, start)
  BY DEF Underway, Coming
<1>2. held >= 1 /\ held <= Fill(bytes)
  BY <1>1 DEF Reading
<1>3. Fill(bytes) <= Len(bytes) /\ Fill(bytes) \in Nat /\ Len(bytes) \in Nat
  BY <1>1, FillIs
<1>4. held <= Len(bytes)
  BY <1>1, <1>2, <1>3
<1> QED BY <1>1, <1>2, <1>4, InBufferBegins DEF Buffer

LEMMA HeldByPlace ==
    ASSUME WireInv, phase # "closed", ~ cut
    PROVE  /\ pc \notin {"call", "first"} => held # 0
           /\ pc = "first" => held = 0
           /\ held = 0 => pos = Starts[session][Len(handled)] /\ pos \in Nat
<1>1. AtPacket(session, Len(handled), pc, pos, begin, held, event) /\ held \in Nat /\ pos \in Nat
  BY HandledLength
<1>2. pc \notin {"call", "first"} => held # 0
  BY <1>1 DEF AtPacket
<1>3. pc = "first" => held = 0
  <2>1. CASE held > 0 /\ pc = "first"
    <3>1. PICK packet, bytes, start : Reading(pc, held, packet, bytes, start)
      BY <1>1, <2>1, Zenon DEF AtPacket
    <3> QED BY <2>1, <3>1 DEF Reading
  <2> QED BY <1>1, <2>1
<1>4. held = 0 => pos = Starts[session][Len(handled)]
  BY <1>1, Zenon DEF AtPacket
<1> QED BY <1>1, <1>2, <1>3, <1>4

LEMMA SentInv ==
    ASSUME WireInv, Sent
    PROVE  WireInv'
<1>1. /\ phase = "write" /\ phase' = "connack" /\ session' = session /\ pos' = pos /\ begin' = begin
      /\ held' = held /\ pc' = pc /\ event' = event /\ handled' = handled /\ cut' = cut
  BY DEF Sent, readVars
<1>2. "connack" # "closed" /\ "connack" # "serve" /\ phase # "closed"
  BY <1>1
<1> QED BY <1>1, <1>2, Zenon DEF WireInv

LEMMA CallInv ==
    ASSUME QuietAcks, WireInv, Call
    PROVE  WireInv'
<1>1. /\ pc = "call" /\ phase' = phase /\ session' = session /\ pos' = pos /\ begin' = begin
      /\ held' = held /\ event' = event /\ handled' = handled /\ cut' = cut
      /\ pc' = IF held = 0 THEN "first"
               ELSE IF InLength(held, Stream[begin + held]) THEN "length" ELSE AfterLength(Buffer)
  BY Zenon DEF Call, Goto
<1>2. phase # "closed"
  BY DEF Call, Receiving
<1>3. ASSUME ~ cut PROVE AtPacket(session, Len(handled), pc', pos, begin, held, event)
  <2>1. CASE held = 0
    <3>1. pos = Starts[session][Len(handled)] /\ pos \in Nat /\ begin \in Nat
      BY <1>2, <1>3, <2>1, HeldByPlace, HandledLength
    <3>2. "first" \in {"call", "first"}
      OBVIOUS
    <3>3. AtPacket(session, Len(handled), "first", pos, begin, 0, event)
      BY <3>1, <3>2, StillIdle
    <3> QED BY <1>1, <2>1, <3>3
  <2>2. CASE held # 0
    <3>1. PICK packet, bytes, start, origin, next : Underway(packet, bytes, start, origin, next)
      BY <1>2, <1>3, <2>2, UnderwayIs
    <3>2. /\ Begins(Buffer, bytes, held) /\ Stream[begin + held] = bytes[held]
          /\ Formed(packet, bytes, start)
      BY <3>1, HeldBegins
    <3>3. /\ Reading("call", held, packet, bytes, start) /\ begin = origin /\ pos = begin + held
          /\ Coming(session, Len(handled), packet, bytes, start, origin, next)
      BY <1>1, <3>1 DEF Underway
    <3>4. PICK place : place = IF InLength(held, bytes[held]) THEN "length" ELSE AfterLength(Buffer)
      OBVIOUS
    <3>5. Reading(place, held, packet, bytes, start)
      BY <3>2, <3>3, <3>4, CallReading
    <3>6. pc' = place
      BY <1>1, <2>2, <3>2, <3>4
    <3>7. place \notin {"chunk", "reply"}
      BY <3>4, Zenon DEF AfterLength
    <3>8. AtPacket(session, Len(handled), place, pos, origin, held, event)
      BY <3>3, <3>5, <3>7, StillReading
    <3> QED BY <3>3, <3>6, <3>8
  <2> QED BY <2>1, <2>2
<1> QED BY <1>1, <1>2, <1>3, WireInvFrom

LEMMA ReadFirstInv ==
    ASSUME QuietAcks, WireInv, ReadFirst
    PROVE  WireInv'
<1>1. /\ pc = "first" /\ phase' = phase /\ session' = session /\ pos' = pos + 1 /\ begin' = pos
      /\ held' = 1 /\ event' = event /\ handled' = handled /\ cut' = cut /\ Arriving > 0
      /\ pc' = IF mqtt_has_valid_msg_hdr(Stream[pos + 1]) THEN "length" ELSE "error"
  BY Zenon DEF ReadFirst, Goto
<1>2. phase # "closed"
  BY <1>1 DEF WireInv
<1>3. ASSUME ~ cut PROVE AtPacket(session, Len(handled), pc', pos', begin', held', event)
  <2>1. PICK n \in Nat : n = Len(handled)
    BY <1>2, <1>3, HandledLength
  <2>2. /\ pos = Starts[session][n] /\ pos \in Nat /\ session \in DOMAIN Sessions
        /\ n <= Len(Sessions[session])
    BY <1>1, <1>2, <1>3, <2>1, HeldByPlace, HandledLength
  <2>3. n < Len(Sessions[session])
    <3>1. /\ Len(Sessions[session]) \in Nat /\ Streams[session] \in Seq(Nat)
          /\ Starts[session][Len(Sessions[session])] = Len(Streams[session])
      BY <2>2, SessionEnds
    <3>2. Len(Streams[session]) - pos > 0
      BY <1>1 DEF Arriving, Stream
    <3>3. CASE n = Len(Sessions[session])
      <4>1. Len(Streams[session]) = pos
        BY <2>2, <3>1, <3>3
      <4> QED BY <2>2, <3>2, <4>1
    <3> QED BY <2>1, <2>2, <3>1, <3>3
  <2>4. PICK packet, bytes, start, origin, next :
            Coming(session, n, packet, bytes, start, origin, next)
    BY <2>2, <2>3, ComingIs
  <2>5. /\ origin = pos /\ Formed(packet, bytes, start) /\ Placed(Streams[session], origin, next, bytes)
    BY <2>2, <2>4 DEF Coming
  <2>6. bytes[1] = Stream[pos + 1]
    <3>1. \A i \in 1 .. Len(bytes) : Streams[session][origin + i] = bytes[i]
      BY <2>5 DEF Placed, At
    <3>2. 1 \in 1 .. Len(bytes)
      BY <2>5 DEF Formed, Shape
    <3> QED BY <2>5, <3>1, <3>2 DEF Stream
  <2>7. mqtt_has_valid_msg_hdr(bytes[1])
    BY <2>5 DEF Formed
  <2>8. pc' = "length"
    BY <1>1, <2>6, <2>7
  <2>9. Reading("length", 1, packet, bytes, start)
    BY <2>5, StartsReading
  <2>10. PICK p : p = pos + 1
    OBVIOUS
  <2>11. p = origin + 1 /\ "length" \notin {"chunk", "reply"}
    BY <2>5, <2>10
  <2>12. AtPacket(session, n, "length", p, origin, 1, event)
    BY <2>4, <2>9, <2>11, StillReading
  <2> QED BY <1>1, <2>1, <2>5, <2>8, <2>10, <2>12
<1>4. phase = "closed" => pc' = "call"
  BY <1>2
<1> QED BY <1>1, <1>3, <1>4, WireInvFrom

LEMMA ReadLengthInv ==
    ASSUME QuietAcks, WireInv, ReadLength
    PROVE  WireInv'
<1>1. /\ pc = "length" /\ phase' = phase /\ session' = session /\ pos' = pos + 1 /\ begin' = begin
      /\ held' = held + 1 /\ event' = event /\ handled' = handled /\ cut' = cut
      /\ pc' = IF InLength(held', Stream[pos']) THEN "length" ELSE AfterLength(InBuffer(held'))
  BY Zenon DEF ReadLength, Goto, Took
<1>2. phase # "closed"
  BY <1>1 DEF WireInv
<1>3. ASSUME ~ cut PROVE AtPacket(session, Len(handled), pc', pos', begin', held', event)
  <2>1. held # 0
    BY <1>1, <1>2, <1>3, HeldByPlace
  <2>2. PICK packet, bytes, start, origin, next : Underway(packet, bytes, start, origin, next)
    BY <1>2, <1>3, <2>1, UnderwayIs
  <2>3. /\ Reading("length", held, packet, bytes, start) /\ begin = origin /\ pos = begin + held
        /\ Coming(session, Len(handled), packet, bytes, start, origin, next)
        /\ held \in Nat /\ begin \in Nat
    BY <1>1, <2>2 DEF Underway
  <2>4. Formed(packet, bytes, start) /\ QuietEnd(bytes)
    BY <2>3 DEF Coming
  <2>5. PICK m \in Nat : m = held + 1 /\ m <= Len(bytes) /\ m >= 1
    <3>1. held < Fill(bytes)
      BY <2>3 DEF Reading
    <3>2. Fill(bytes) <= Len(bytes) /\ Fill(bytes) \in Nat /\ Len(bytes) \in Nat
      BY <2>4, FillIs
    <3>3. held + 1 \in Nat /\ held + 1 <= Len(bytes) /\ held + 1 >= 1
      BY <2>3, <3>1, <3>2
    <3> QED BY <3>3
  <2>6. Begins(InBuffer(m), bytes, m) /\ Stream[begin + m] = bytes[m]
    BY <2>2, <2>5, InBufferBegins
  <2>7. PICK buffer : buffer = InBuffer(m)
    OBVIOUS
  <2>8. PICK place : place = IF InLength(m, bytes[m]) THEN "length" ELSE AfterLength(buffer)
    OBVIOUS
  <2>9. Reading(place, m, packet, bytes, start)
    BY <2>3, <2>4, <2>5, <2>6, <2>7, <2>8, LengthReading
  <2>10. pos' = begin + m /\ held' = m
    BY <1>1, <2>3, <2>5
  <2>11. pc' = place
    BY <1>1, <2>6, <2>7, <2>8, <2>10
  <2>12. place \notin {"chunk", "reply"}
    BY <2>8, Zenon DEF AfterLength
  <2>13. PICK p : p = pos'
    OBVIOUS
  <2>14. AtPacket(session, Len(handled), place, p, origin, m, event)
    BY <2>3, <2>9, <2>10, <2>12, <2>13, StillReading
  <2> QED BY <1>1, <2>3, <2>10, <2>11, <2>13, <2>14
<1>4. phase = "closed" => pc' = "call"
  BY <1>2
<1> QED BY <1>1, <1>3, <1>4, WireInvFrom

LEMMA AtMostBounds ==
    ASSUME NEW a \in Int, Arriving \in Nat, NEW n \in AtMost(a)
    PROVE  n \in Nat /\ n \in 1 .. a
<1>1. PICK most \in Int : most = Min({a, Arriving}) /\ most <= a
  <2>1. CASE a <= Arriving
    <3>1. Min({a, Arriving}) = a
      BY <2>1, MinOfTwo
    <3> QED BY <3>1
  <2>2. CASE ~ (a <= Arriving)
    <3>1. Arriving \in Int /\ Arriving <= a
      BY <2>2
    <3>2. Min({a, Arriving}) = Arriving
      BY <3>1, MinOfTwo
    <3> QED BY <3>1, <3>2
  <2> QED BY <2>1, <2>2
<1>2. n \in 1 .. most
  BY <1>1, Zenon DEF AtMost
<1> QED BY <1>1, <1>2

\* The bytes of a packet are in the stream.
LEMMA ArrivingBytes ==
    ASSUME NEW packet, NEW bytes, NEW start, NEW origin, NEW next,
           Underway(packet, bytes, start, origin, next), pos <= begin + Len(bytes)
    PROVE  Arriving \in Nat
<1>1. /\ Placed(Streams[session], origin, next, bytes) /\ begin = origin /\ pos \in Nat
  BY DEF Underway, Coming
<1>2. /\ origin + Len(bytes) <= Len(Streams[session]) /\ Len(Streams[session]) \in Nat
      /\ origin \in Nat /\ Len(bytes) \in Nat
  BY <1>1 DEF Placed, At
<1>3. PICK l \in Nat : l = Len(Streams[session])
  BY <1>2
<1>4. l - pos \in Nat
  BY <1>1, <1>2, <1>3
<1> QED BY <1>3, <1>4 DEF Arriving, Stream

LEMMA ReadSizeInv ==
    ASSUME QuietAcks, WireInv, ReadSize
    PROVE  WireInv'
<1>1. PICK n : /\ n \in AtMost(held - fixed_size_len(Buffer, held) + 2)
               /\ pc = "size" /\ phase' = phase /\ session' = session /\ pos' = pos + n
               /\ begin' = begin /\ held' = held + n /\ event' = event /\ handled' = handled
               /\ cut' = cut
               /\ pc' = IF held' < fixed_size_len(Buffer, held) + 2 THEN "call"
                        ELSE AfterLength(InBuffer(held'))
  BY Zenon DEF ReadSize, Goto, Took
<1>2. phase # "closed"
  BY <1>1 DEF WireInv
<1>3. ASSUME ~ cut PROVE AtPacket(session, Len(handled), pc', pos', begin', held', event)
  <2>1. held # 0
    BY <1>1, <1>2, <1>3, HeldByPlace
  <2>2. PICK packet, bytes, start, origin, next : Underway(packet, bytes, start, origin, next)
    BY <1>2, <1>3, <2>1, UnderwayIs
  <2>3. /\ Reading("size", held, packet, bytes, start) /\ begin = origin /\ pos = begin + held
        /\ Coming(session, Len(handled), packet, bytes, start, origin, next)
        /\ held \in Nat /\ begin \in Nat
    BY <1>1, <2>2 DEF Underway
  <2>4. Formed(packet, bytes, start) /\ start \in Nat /\ start <= 5
    BY <2>3 DEF Coming, Formed
  <2>5. start <= held /\ held < start + 2 /\ IN_BUFFER < Len(bytes)
    BY <2>3 DEF Reading
  <2>6. Begins(Buffer, bytes, held) /\ held <= Len(bytes)
    BY <2>2, HeldBegins
  <2>7. fixed_size_len(Buffer, held) = start
    BY <2>4, <2>5, <2>6, BeginsHeader DEF HeaderOf
  <2>8. Arriving \in Nat
    <3>1. pos <= begin + Len(bytes)
      <4>1. Len(bytes) \in Nat
        BY <2>4, FillIs
      <4> QED BY <2>3, <2>6, <4>1
    <3> QED BY <2>2, <3>1, ArrivingBytes
  <2>9. n \in Nat /\ n \in 1 .. (held - start) + 2
    <3>1. held - start + 2 \in Int
      BY <2>3, <2>4
    <3> QED BY <1>1, <2>7, <2>8, <3>1, AtMostBounds
  <2>10. PICK m \in Nat : m = held + n /\ m <= Len(bytes)
    <3>1. IN_BUFFER \in Nat /\ IN_BUFFER >= 9 /\ Len(bytes) \in Nat
      BY <2>4, FillIs, MqttWireAssumption
    <3>2. held + n \in Nat /\ held + n <= start + 4
      BY <2>3, <2>4, <2>5, <2>9
    <3>3. held + n <= Len(bytes)
      BY <2>4, <2>5, <3>1, <3>2
    <3> QED BY <3>2, <3>3
  <2>11. Begins(InBuffer(m), bytes, m)
    BY <2>2, <2>10, InBufferBegins
  <2>12. PICK buffer : buffer = InBuffer(m)
    OBVIOUS
  <2>13. PICK place : place = IF m < start + 2 THEN "call" ELSE AfterLength(buffer)
    OBVIOUS
  <2>14. Reading(place, m, packet, bytes, start)
    BY <2>3, <2>4, <2>9, <2>10, <2>11, <2>12, <2>13, SizeReading
  <2>15. pos' = begin + m /\ held' = m
    BY <1>1, <2>3, <2>9, <2>10
  <2>16. pc' = place
    BY <1>1, <2>7, <2>12, <2>13, <2>15
  <2>17. place \notin {"chunk", "reply"}
    BY <2>13, Zenon DEF AfterLength
  <2>18. PICK p : p = pos'
    OBVIOUS
  <2>19. AtPacket(session, Len(handled), place, p, origin, m, event)
    BY <2>3, <2>14, <2>15, <2>17, <2>18, StillReading
  <2> QED BY <1>1, <2>3, <2>15, <2>16, <2>18, <2>19
<1>4. phase = "closed" => pc' = "call"
  BY <1>2
<1> QED BY <1>1, <1>3, <1>4, WireInvFrom

LEMMA ReadRestInv ==
    ASSUME QuietAcks, WireInv, ReadRest
    PROVE  WireInv'
<1>1. PICK n : /\ n \in AtMost(TotalLen(Buffer) - held)
               /\ pc = "rest" /\ phase' = phase /\ session' = session /\ pos' = pos + n
               /\ begin' = begin /\ held' = held + n /\ event' = event /\ handled' = handled
               /\ cut' = cut
               /\ pc' = IF held' < TotalLen(Buffer) THEN "call" ELSE "done"
  BY Zenon DEF ReadRest, Goto, Took
<1>2. phase # "closed"
  BY <1>1 DEF WireInv
<1>3. ASSUME ~ cut PROVE AtPacket(session, Len(handled), pc', pos', begin', held', event)
  <2>1. held # 0
    BY <1>1, <1>2, <1>3, HeldByPlace
  <2>2. PICK packet, bytes, start, origin, next : Underway(packet, bytes, start, origin, next)
    BY <1>2, <1>3, <2>1, UnderwayIs
  <2>3. /\ Reading("rest", held, packet, bytes, start) /\ begin = origin /\ pos = begin + held
        /\ Coming(session, Len(handled), packet, bytes, start, origin, next)
        /\ held \in Nat /\ begin \in Nat
    BY <1>1, <2>2 DEF Underway
  <2>4. Formed(packet, bytes, start)
    BY <2>3 DEF Coming
  <2>5. start <= held /\ held < Fill(bytes)
    BY <2>3 DEF Reading
  <2>6. Begins(Buffer, bytes, held) /\ held <= Len(bytes)
    BY <2>2, HeldBegins
  <2>7. PICK f \in Nat : f = Fill(bytes) /\ f <= Len(bytes)
    BY <2>4, FillIs
  <2>8. TotalLen(Buffer) = f
    <3>1. held >= start
      BY <2>3, <2>4, <2>5, FillIs
    <3> QED BY <2>4, <2>6, <2>7, <3>1, BeginsHeader
  <2>9. Arriving \in Nat
    <3>1. pos <= begin + Len(bytes)
      <4>1. Len(bytes) \in Nat
        BY <2>4, FillIs
      <4> QED BY <2>3, <2>6, <4>1
    <3> QED BY <2>2, <3>1, ArrivingBytes
  <2>10. n \in Nat /\ n \in 1 .. f - held
    <3>1. f - held \in Int
      BY <2>3, <2>7
    <3> QED BY <1>1, <2>8, <2>9, <3>1, AtMostBounds
  <2>11. PICK m \in Nat : m = held + n
    BY <2>3, <2>10
  <2>12. PICK place : place = IF m < f THEN "call" ELSE "done"
    OBVIOUS
  <2>13. Reading(place, m, packet, bytes, start)
    BY <2>3, <2>4, <2>7, <2>10, <2>11, <2>12, RestReading
  <2>14. pos' = begin + m /\ held' = m
    BY <1>1, <2>3, <2>10, <2>11
  <2>15. pc' = place
    BY <1>1, <2>8, <2>12, <2>14
  <2>16. place \notin {"chunk", "reply"}
    BY <2>12
  <2>17. PICK p : p = pos'
    OBVIOUS
  <2>18. AtPacket(session, Len(handled), place, p, origin, m, event)
    BY <2>3, <2>13, <2>14, <2>16, <2>17, StillReading
  <2> QED BY <1>1, <2>3, <2>14, <2>15, <2>17, <2>18
<1>4. phase = "closed" => pc' = "call"
  BY <1>2
<1> QED BY <1>1, <1>3, <1>4, WireInvFrom

LEMMA TimeOutInv ==
    ASSUME QuietAcks, WireInv, TimeOut
    PROVE  WireInv'
<1>1. CASE Close
  BY <1>1, CloseInv
<1>2. CASE Return /\ UNCHANGED readVars
  <2>1. /\ pc' = "call" /\ phase' = phase /\ session' = session /\ pos' = pos /\ begin' = begin
        /\ held' = held /\ event' = event /\ handled' = handled /\ cut' = cut
        /\ pc \in {"first", "length", "size", "rest"}
    BY <1>2 DEF TimeOut, Return, readVars
  <2>2. phase # "closed"
    BY <2>1 DEF WireInv
  <2>3. ASSUME ~ cut PROVE AtPacket(session, Len(handled), "call", pos, begin, held, event)
    <3>1. CASE pc = "first"
      <4>1. /\ held = 0 /\ pos = Starts[session][Len(handled)] /\ pos \in Nat /\ begin \in Nat
        BY <2>2, <2>3, <3>1, HeldByPlace, HandledLength
      <4>2. "call" \in {"call", "first"}
        OBVIOUS
      <4>3. AtPacket(session, Len(handled), "call", pos, begin, 0, event)
        BY <4>1, <4>2, StillIdle
      <4> QED BY <4>1, <4>3
    <3>2. CASE pc \in {"length", "size", "rest"}
      <4>1. held # 0
        BY <2>2, <2>3, <3>2, HeldByPlace
      <4>2. PICK packet, bytes, start, origin, next : Underway(packet, bytes, start, origin, next)
        BY <2>2, <2>3, <4>1, UnderwayIs
      <4>3. /\ Reading(pc, held, packet, bytes, start) /\ begin = origin /\ pos = begin + held
            /\ Coming(session, Len(handled), packet, bytes, start, origin, next)
        BY <3>2, <4>2 DEF Underway
      <4>4. Formed(packet, bytes, start)
        BY <4>3 DEF Coming
      <4>5. Reading("call", held, packet, bytes, start)
        BY <3>2, <4>3, <4>4, TimeOutReading
      <4>6. "call" \notin {"chunk", "reply"}
        OBVIOUS
      <4>7. AtPacket(session, Len(handled), "call", pos, origin, held, event)
        BY <4>3, <4>5, <4>6, StillReading
      <4> QED BY <4>3, <4>7
    <3> QED BY <2>1, <3>1, <3>2
  <2> QED BY <2>1, <2>2, <2>3, WireInvFrom
<1>3. Close \/ (Return /\ UNCHANGED readVars)
  BY DEF TimeOut
<1> QED BY <1>1, <1>2, <1>3

LEMMA ReadErrorInv ==
    ASSUME WireInv, ReadError
    PROVE  WireInv'
BY CloseInv DEF ReadError

LEMMA RejectInv ==
    ASSUME WireInv, Reject
    PROVE  WireInv'
BY CloseInv DEF Reject

LEMMA AppendHandles ==
    ASSUME NEW s \in DOMAIN Sessions, NEW log, Handles(s, log), NEW n, n = Len(log),
           n < Len(Sessions[s]), NEW entry, HeadersFit => entry = Entry(Following(s, n))
    PROVE  /\ Handles(s, Append(log, entry)) /\ n \in Nat
           /\ Len(Append(log, entry)) = n + 1
<1>1. PICK values : values = {log[i] : i \in DOMAIN log} /\ log \in Seq(values)
  BY DEF Handles
<1>2. n \in Nat /\ DOMAIN log = 1 .. n
  BY <1>1
<1>3. PICK more \in Seq(values \union {entry}) : more = Append(log, entry)
  <2>1. PICK wider : wider = values \union {entry} /\ values \subseteq wider /\ entry \in wider
    <3>1. values \subseteq values \union {entry} /\ entry \in values \union {entry}
      OBVIOUS
    <3> QED BY <3>1, Zenon
  <2>2. log \in Seq(wider)
    BY <1>1, <2>1, SeqMonotonic
  <2>3. Append(log, entry) \in Seq(wider)
    BY <2>1, <2>2
  <2> QED BY <2>1, <2>3
<1>4. /\ Len(more) = n + 1 /\ DOMAIN more = 1 .. n + 1 /\ more[n + 1] = entry
      /\ \A i \in 1 .. n : more[i] = log[i]
  BY <1>1, <1>2, <1>3
<1>5. more \in Seq({more[i] : i \in DOMAIN more})
  <2>1. PICK range : range = {more[i] : i \in DOMAIN more}
    OBVIOUS
  <2>2. \A i \in 1 .. n + 1 : more[i] \in range
    BY <1>4, <2>1
  <2>3. more = [i \in 1 .. n + 1 |-> more[i]]
    <3>1. PICK wider : more \in Seq(wider)
      BY <1>3
    <3>2. more \in [1 .. Len(more) -> wider]
      BY <3>1, LenProperties
    <3> QED BY <1>4, <3>2
  <2>4. more \in [1 .. n + 1 -> range]
    BY <2>2, <2>3
  <2>5. more \in Seq(range)
    BY <1>2, <2>4
  <2> QED BY <2>1, <2>5
<1>6. n + 1 <= Len(Sessions[s])
  BY <1>2, SessionEnds
<1>7. ASSUME HeadersFit, NEW i \in 1 .. n + 1 PROVE more[i] = Entry(Sessions[s][i])
  <2>1. CASE i \in 1 .. n
    BY <1>2, <1>4, <1>7, <2>1, Zenon DEF Handles
  <2>2. CASE i \notin 1 .. n
    <3>1. i = n + 1
      BY <1>2, <2>2
    <3> QED BY <1>4, <1>7, <3>1, Zenon DEF Following
  <2> QED BY <2>1, <2>2
<1>8. Handles(s, more)
  BY <1>4, <1>5, <1>6, <1>7 DEF Handles
<1> QED BY <1>2, <1>3, <1>4, <1>8

\* A packet was handled: the next one starts where it ends.
LEMMA HandledInv ==
    ASSUME WireInv, phase # "closed", ~ cut, NEW packet, NEW bytes, NEW start, NEW origin, NEW next,
           Underway(packet, bytes, start, origin, next),
           NEW entry, HeadersFit => entry = Entry(packet), handled' = Append(handled, entry),
           pos = begin + Len(bytes), held' = 0, pc' = "call", pos' = pos, begin' = begin,
           session' = session, phase' # "closed"
    PROVE  WireInv'
<1>1. PICK n \in Nat : n = Len(handled)
  BY HandledLength
<1>2. session \in DOMAIN Sessions /\ Handles(session, handled) /\ pos \in Nat /\ begin \in Nat
  BY HandledLength
<1>3. /\ packet = Following(session, n) /\ next = Starts[session][n + 1]
      /\ n < Len(Sessions[session]) /\ Placed(Streams[session], origin, next, bytes)
      /\ begin = origin
  BY <1>1 DEF Underway, Coming
<1>4. Handles(session, Append(handled, entry)) /\ Len(Append(handled, entry)) = n + 1
  BY <1>1, <1>2, <1>3, AppendHandles
<1>5. pos = Starts[session][n + 1]
  BY <1>3 DEF Placed
<1>6. PICK more : more = handled' /\ Handles(session, more) /\ Len(more) = n + 1
  BY <1>4
<1>7. AtPacket(session, Len(more), "call", pos, begin, 0, event')
  <2>1. "call" \in {"call", "first"} /\ Len(more) = n + 1
    BY <1>6
  <2>2. PICK data, m : data = event' /\ m = n + 1 /\ pos = Starts[session][m]
    BY <1>5
  <2>3. AtPacket(session, m, "call", pos, begin, 0, data)
    BY <1>2, <2>1, <2>2, StillIdle
  <2> QED BY <2>1, <2>2, <2>3
<1>8. Len(more) >= 1
  BY <1>1, <1>6
<1> QED BY <1>2, <1>6, <1>7, <1>8, Zenon DEF WireInv

LEMMA ConnackInv ==
    ASSUME QuietAcks, WireInv, Connack
    PROVE  WireInv'
<1>1. CASE Close
  BY <1>1, CloseInv
<1>2. CASE ~ Close
  <2>1. /\ phase = "connack" /\ pc = "done" /\ mqtt_get_type(Buffer) = CONNACK /\ Buffer[4] = 0
        /\ Handled([type |-> CONNACK, id |-> 0, size |-> 0]) /\ phase' = "serve" /\ cut' = cut
    BY <1>2 DEF Connack
  <2>2. PICK entry : /\ entry = [type |-> CONNACK, id |-> 0, size |-> 0]
                     /\ handled' = Append(handled, entry) /\ held' = 0 /\ pc' = "call"
                     /\ pos' = pos /\ begin' = begin /\ session' = session
    BY <2>1 DEF Handled
  <2>3. phase # "closed" /\ phase' # "closed"
    BY <2>1
  <2>4. CASE ~ cut
    <3>1. held # 0
      BY <2>1, <2>3, <2>4, HeldByPlace
    <3>2. PICK packet, bytes, start, origin, next : Underway(packet, bytes, start, origin, next)
      BY <2>3, <2>4, <3>1, UnderwayIs
    <3>3. /\ packet \in BrokerPackets /\ Sendable(packet) /\ Formed(packet, bytes, start)
          /\ Reading("done", held, packet, bytes, start) /\ pos = begin + held
      BY <2>1, <3>2 DEF Underway, Coming
    <3>4. PICK buffer : buffer = Buffer /\ Begins(buffer, bytes, held)
      BY <3>2, HeldBegins
    <3>5. "done" \in {"done", "chunk", "reply"}
      OBVIOUS
    <3>6. Complete(buffer, held, packet, bytes, start)
      BY <3>3, <3>4, <3>5, ReadingComplete
    <3>7. entry = Entry(packet)
      BY <2>1, <2>2, <3>3, <3>4, <3>6, ConnackEntry
    <3>8. held = Len(bytes)
      <4>1. Begins(buffer, bytes, held) /\ held >= start
        BY <3>6 DEF Complete
      <4>2. packet.type = CONNACK
        BY <2>1, <3>3, <3>4, <4>1, BeginsHeader
      <4> QED BY <3>6, <4>2, KindsOfPacket DEF Complete
    <3>9. pos = begin + Len(bytes)
      BY <3>3, <3>8
    <3> QED BY <2>2, <2>3, <2>4, <3>2, <3>7, <3>9, HandledInv
  <2>5. CASE cut
    BY <2>1, <2>2, <2>3, <2>5, Zenon DEF WireInv
  <2> QED BY <2>4, <2>5
<1> QED BY <1>1, <1>2

LEMMA OtherInv ==
    ASSUME QuietAcks, WireInv, Other
    PROVE  WireInv'
<1>1. PICK entry :
          /\ entry = [type |-> mqtt_get_type(Buffer), id |-> mqtt_get_id(Buffer, held), size |-> 0]
          /\ phase = "serve" /\ pc = "done" /\ mqtt_get_type(Buffer) # PUBLISH
          /\ handled' = Append(handled, entry) /\ held' = 0 /\ pc' = "call"
          /\ pos' = pos /\ begin' = begin /\ session' = session /\ phase' = phase /\ cut' = cut
  BY DEF Other, Handled
<1>2. phase # "closed" /\ phase' # "closed"
  BY <1>1
<1>3. CASE ~ cut
  <2>1. held # 0
    BY <1>1, <1>2, <1>3, HeldByPlace
  <2>2. PICK packet, bytes, start, origin, next : Underway(packet, bytes, start, origin, next)
    BY <1>2, <1>3, <2>1, UnderwayIs
  <2>3. /\ packet \in BrokerPackets /\ Sendable(packet) /\ Formed(packet, bytes, start)
        /\ Reading("done", held, packet, bytes, start) /\ pos = begin + held
        /\ packet.type = CONNACK => Len(handled) = 0
    BY <1>1, <2>2 DEF Underway, Coming
  <2>4. PICK buffer : buffer = Buffer /\ Begins(buffer, bytes, held)
    BY <2>2, HeldBegins
  <2>5. "done" \in {"done", "chunk", "reply"}
    OBVIOUS
  <2>6. Complete(buffer, held, packet, bytes, start)
    BY <2>3, <2>4, <2>5, ReadingComplete
  <2>7. packet.type # CONNACK
    <3>1. Len(handled) >= 1
      BY <1>1, <1>2, <1>3 DEF WireInv
    <3>2. Len(handled) # 0
      BY <3>1
    <3> QED BY <2>3, <3>2
  <2>8. entry = Entry(packet)
    BY <1>1, <2>3, <2>4, <2>6, <2>7, OtherEntry
  <2>9. held = Len(bytes)
    <3>1. Begins(buffer, bytes, held) /\ held >= start
      BY <2>6 DEF Complete
    <3>2. packet.type # PUBLISH
      BY <1>1, <2>3, <2>4, <3>1, BeginsHeader
    <3> QED BY <2>6, <3>2 DEF Complete
  <2>10. pos = begin + Len(bytes)
    BY <2>3, <2>9
  <2> QED BY <1>1, <1>2, <1>3, <2>2, <2>8, <2>10, HandledInv
<1>4. CASE cut
  BY <1>1, <1>2, <1>4, Zenon DEF WireInv
<1> QED BY <1>3, <1>4

LEMMA FirstTold ==
    ASSUME NEW packet \in BrokerPackets, packet.type = PUBLISH, NEW bytes, NEW start,
           Formed(packet, bytes, start), NEW n \in Nat, NEW piece, FirstPiece(piece, n, packet, start),
           NEW b \in Nat, NEW data,
           data = [offset |-> 0, len |-> piece.len, at |-> b + piece.from,
                   total |-> piece.len + Len(bytes) - n]
    PROVE  Told(data, n, b, n, packet, start)
<1>1. PICK p, len, from \in Nat :
          /\ p = Payload(packet, start) /\ len = piece.len /\ from = piece.from
          /\ n >= p /\ len = n - p /\ (len > 0 => from = p)
  BY DEF FirstPiece
<1>2. PICK d, l \in Nat : d = Len(packet.data) /\ l = Len(bytes) /\ p + d = l
  <2>1. packet.data \in Seq(Byte)
    BY DEF BrokerPackets
  <2>2. Len(packet.data) \in Nat /\ Len(bytes) \in Nat
    BY <2>1 DEF Formed, Shape
  <2>3. p + Len(packet.data) = Len(bytes)
    BY <1>1, Zenon DEF Formed, PublishFields
  <2> QED BY <2>2, <2>3
<1>3. len + l - n = d
  <2>1. len = n - p /\ p + d = l
    BY <1>1, <1>2
  <2> QED BY <2>1
<1>4. data = [offset |-> 0, len |-> len, at |-> b + from, total |-> d]
  BY <1>1, <1>2, <1>3
<1>5. b + from \in Nat /\ (len > 0 => b + from = b + p + 0) /\ p + 0 + len = n
  BY <1>1, SMTT(30)
<1>6. data \in [offset : Nat, len : Nat, total : Nat, at : Nat]
  BY <1>4, <1>5
<1>7. data.offset = 0 /\ data.len = len /\ data.at = b + from /\ data.total = d
  BY <1>4
<1> QED BY <1>1, <1>2, <1>5, <1>6, <1>7 DEF Told

LEMMA NextTold ==
    ASSUME NEW packet, NEW start, NEW data, NEW read \in Nat, NEW b \in Nat, NEW h,
           Told(data, read, b, h, packet, start), NEW n \in Nat, NEW p \in Nat, p = b + read,
           NEW more, more = [data EXCEPT !.offset = @ + data.len, !.len = n, !.at = p]
    PROVE  Told(more, read + n, b, h, packet, start)
<1>1. /\ data \in [offset : Nat, len : Nat, total : Nat, at : Nat] /\ data.total = Len(packet.data)
      /\ Payload(packet, start) \in Nat /\ h >= Payload(packet, start)
      /\ Payload(packet, start) + data.offset + data.len = read
  BY DEF Told
<1>2. PICK offset, len, k \in Nat : /\ offset = data.offset /\ len = data.len
                                    /\ k = Payload(packet, start) /\ k + offset + len = read
  BY <1>1
<1>3. /\ more.offset = offset + len /\ more.len = n /\ more.at = p /\ more.total = data.total
      /\ more \in [offset : Nat, len : Nat, total : Nat, at : Nat]
  <2>1. PICK sum \in Nat : sum = offset + len /\ sum = data.offset + data.len
    BY <1>2
  <2>2. data \in [offset : Nat, len : Nat, total : Nat, at : Nat]
    BY <1>1
  <2>3. more = [data EXCEPT !.offset = sum, !.len = n, !.at = p]
    BY <2>1, <2>2
  <2> QED BY <2>1, <2>2, <2>3
<1>4. k + (offset + len) + n = read + n /\ p = b + k + (offset + len)
  BY <1>2
<1> QED BY <1>1, <1>2, <1>3, <1>4 DEF Told

\* A DATA event was given to the application.
LEMMA ContinueInv ==
    ASSUME WireInv, phase # "closed", ~ cut, NEW packet, NEW bytes, NEW start, NEW origin, NEW next,
           Underway(packet, bytes, start, origin, next), packet.type = PUBLISH,
           Complete(Buffer, held, packet, bytes, start), NEW data, Continue(data),
           NEW read \in Nat, pos' = begin + read, read <= Len(bytes),
           IdFits(packet, bytes, start) => Told(data, read, begin, held, packet, start)
    PROVE  WireInv'
<1>1. /\ event' = data /\ phase' = phase /\ session' = session /\ begin' = begin /\ held' = held
      /\ handled' = handled /\ cut' = cut
      /\ pc' = IF pos' - begin < MessageLength THEN "chunk" ELSE "reply"
  BY DEF Continue
<1>2. /\ Coming(session, Len(handled), packet, bytes, start, origin, next) /\ begin = origin
      /\ begin \in Nat /\ held \in Nat /\ Formed(packet, bytes, start)
  BY DEF Underway, Coming
<1>3. PICK l \in Nat : l = Len(bytes)
  BY <1>2, FillIs
<1>4. MessageLength = l
  <2>1. Begins(Buffer, bytes, held) /\ held >= start
    BY DEF Complete
  <2> QED BY <1>2, <1>3, <2>1, BeginsHeader DEF HeaderOf, MessageLength
<1>5. PICK p \in Nat : p = pos' /\ p - begin = read /\ p - origin = read
  <2>1. begin + read \in Nat /\ (begin + read) - begin = read
    BY <1>2
  <2> QED BY <1>2, <2>1
<1>6. PICK place \in {"chunk", "reply"} :
          place = pc' /\ (place = "chunk" => read < l) /\ (place = "reply" => read = l)
  <2>1. CASE read < l
    BY <1>1, <1>4, <1>5, <2>1
  <2>2. CASE ~ (read < l)
    <3>1. read = l
      BY <1>3, <2>2
    <3> QED BY <1>1, <1>4, <1>5, <2>2, <3>1
  <2> QED BY <2>1, <2>2
<1>7. Reading(place, held, packet, bytes, start)
  <2>1. held = Fill(bytes) /\ HeaderFits(packet, bytes, start) /\ held >= 1
    BY DEF Complete, Underway, Reading
  <2>2. held <= Fill(bytes)
    BY <1>2, <2>1
  <2> QED BY <1>2, <1>6, <2>1, <2>2 DEF Reading
<1>8. Delivering(place, data, p - origin, origin, held, packet, bytes, start)
  BY <1>2, <1>3, <1>5, <1>6, Zenon DEF Delivering
<1>9. PICK n, h : n = Len(handled) /\ h = held
  OBVIOUS
<1>10. AtPacket(session, n, place, p, origin, h, data)
  BY <1>2, <1>5, <1>6, <1>7, <1>8, <1>9, StillDelivering
<1>11. AtPacket(session, Len(handled), pc', pos', begin', held', event')
  BY <1>1, <1>2, <1>5, <1>6, <1>9, <1>10
<1> QED BY <1>1, <1>11, WireInvFrom

LEMMA DeliverInv ==
    ASSUME QuietAcks, WireInv, Deliver
    PROVE  WireInv'
<1>1. CASE Close
  BY <1>1, CloseInv
<1>2. CASE ~ Close
  <2>1. PICK piece, data :
            /\ piece = mqtt_get_publish_data(Buffer, held)
            /\ data = [offset |-> 0, len |-> piece.len, at |-> begin + piece.from,
                       total |-> piece.len + MessageLength - ReadOfMessage]
            /\ phase = "serve" /\ pc = "done" /\ mqtt_get_type(Buffer) = PUBLISH
            /\ mqtt_get_publish_topic(Buffer, held) # NoRange /\ pos' = pos /\ Continue(data)
    BY <1>2, Zenon DEF Deliver
  <2>2. phase # "closed"
    BY <2>1
  <2>3. CASE ~ cut
    <3>1. held # 0
      BY <2>1, <2>2, <2>3, HeldByPlace
    <3>2. PICK packet, bytes, start, origin, next : Underway(packet, bytes, start, origin, next)
      BY <2>2, <2>3, <3>1, UnderwayIs
    <3>3. /\ packet \in BrokerPackets /\ Formed(packet, bytes, start)
          /\ Reading("done", held, packet, bytes, start) /\ pos = begin + held
          /\ held \in Nat /\ begin \in Nat /\ pos \in Nat
      BY <2>1, <3>2 DEF Underway, Coming
    <3>4. PICK buffer, n : buffer = Buffer /\ n = held /\ Begins(buffer, bytes, n)
      BY <3>2, HeldBegins
    <3>5. "done" \in {"done", "chunk", "reply"}
      OBVIOUS
    <3>6. Complete(buffer, n, packet, bytes, start)
      BY <3>3, <3>4, <3>5, ReadingComplete
    <3>7. n >= start /\ n <= Len(bytes) /\ Len(bytes) \in Nat
      BY <3>3, <3>6, FillIs DEF Complete
    <3>8. packet.type = PUBLISH /\ mqtt_get_total_length(buffer, n) = Len(bytes)
      BY <2>1, <3>3, <3>4, <3>7, BeginsHeader DEF HeaderOf
    <3>9. ASSUME IdFits(packet, bytes, start) PROVE Told(data, n, begin, n, packet, start)
      <4>1. mqtt_get_publish_topic(buffer, n) # NoRange /\ piece = mqtt_get_publish_data(buffer, n)
        BY <2>1, <3>4
      <4>2. FirstPiece(mqtt_get_publish_data(buffer, n), n, packet, start)
        BY <3>3, <3>6, <3>8, <3>9, <4>1, DeliverIs
      <4>3. FirstPiece(piece, n, packet, start)
        BY <4>1, <4>2
      <4>4. MessageLength = Len(bytes) /\ ReadOfMessage = n /\ n \in Nat
        <5>1. pos - begin = n
          BY <3>3, <3>4
        <5> QED BY <3>3, <3>4, <3>8, <5>1, Zenon DEF MessageLength, ReadOfMessage
      <4>5. data = [offset |-> 0, len |-> piece.len, at |-> begin + piece.from,
                    total |-> piece.len + Len(bytes) - n]
        BY <2>1, <4>4, Zenon
      <4>6. PICK b \in Nat : b = begin
        BY <3>3
      <4>7. data = [offset |-> 0, len |-> piece.len, at |-> b + piece.from,
                    total |-> piece.len + Len(bytes) - n]
        BY <4>5, <4>6
      <4>8. Told(data, n, b, n, packet, start)
        BY <3>3, <3>8, <4>3, <4>4, <4>6, <4>7, FirstTold
      <4> QED BY <4>6, <4>8
    <3>10. pos' = begin + n /\ n \in Nat
      BY <2>1, <3>3, <3>4
    <3>11. Complete(Buffer, held, packet, bytes, start)
           /\ (IdFits(packet, bytes, start) => Told(data, n, begin, held, packet, start))
      BY <3>4, <3>6, <3>9
    <3> QED BY <2>1, <2>2, <2>3, <3>2, <3>7, <3>8, <3>10, <3>11, ContinueInv
  <2>4. CASE cut
    <3>1. session' = session /\ phase' = phase /\ cut' = cut
      BY <2>1 DEF Continue
    <3> QED BY <2>2, <2>4, <3>1, Zenon DEF WireInv
  <2> QED BY <2>3, <2>4
<1> QED BY <1>1, <1>2

LEMMA ReadChunkInv ==
    ASSUME QuietAcks, WireInv, ReadChunk
    PROVE  WireInv'
<1>1. PICK n, data :
          /\ n \in AtMost(IF MessageLength - ReadOfMessage > IN_BUFFER THEN IN_BUFFER
                          ELSE MessageLength - ReadOfMessage)
          /\ data = [event EXCEPT !.offset = @ + event.len, !.len = n, !.at = pos]
          /\ pc = "chunk" /\ pos' = pos + n /\ Continue(data)
  BY Zenon DEF ReadChunk
<1>2. phase # "closed"
  BY <1>1 DEF WireInv
<1>3. CASE ~ cut
  <2>1. held # 0
    BY <1>1, <1>2, <1>3, HeldByPlace
  <2>2. PICK packet, bytes, start, origin, next : Underway(packet, bytes, start, origin, next)
    BY <1>2, <1>3, <2>1, UnderwayIs
  <2>3. /\ packet \in BrokerPackets /\ Formed(packet, bytes, start)
        /\ Reading("chunk", held, packet, bytes, start)
        /\ held \in Nat /\ begin \in Nat /\ pos \in Nat
        /\ Delivering("chunk", event, pos - begin, begin, held, packet, bytes, start)
    BY <1>1, <2>2 DEF Underway, Coming
  <2>4. PICK buffer, h : buffer = Buffer /\ h = held /\ Begins(buffer, bytes, h)
    BY <2>2, HeldBegins
  <2>5. "chunk" \in {"done", "chunk", "reply"}
    OBVIOUS
  <2>6. Complete(buffer, h, packet, bytes, start)
    BY <2>3, <2>4, <2>5, ReadingComplete
  <2>7. h >= start
    BY <2>6 DEF Complete
  <2>8. PICK l \in Nat : l = Len(bytes)
    BY <2>3, FillIs
  <2>9. mqtt_get_total_length(buffer, h) = l
    BY <2>3, <2>4, <2>7, <2>8, BeginsHeader DEF HeaderOf
  <2>10. PICK read \in Nat : read = pos - begin /\ read < l
    BY <2>3, <2>8 DEF Delivering
  <2>11. packet.type = PUBLISH
    BY <2>3 DEF Delivering
  <2>12. pos = begin + read
    BY <2>3, <2>10
  <2>13. n \in Nat /\ n \in 1 .. l - read
    <3>1. MessageLength - ReadOfMessage = l - read
      BY <2>4, <2>9, <2>10, Zenon DEF MessageLength, ReadOfMessage
    <3>2. PICK most \in Int : /\ most = (IF l - read > IN_BUFFER THEN IN_BUFFER ELSE l - read)
                              /\ most <= l - read
      <4>1. IN_BUFFER \in Nat
        BY MqttWireAssumption
      <4> QED BY <2>8, <2>10, <4>1
    <3>3. Arriving \in Nat
      <4>1. pos <= begin + Len(bytes)
        BY <2>3, <2>8, <2>10, <2>12
      <4> QED BY <2>2, <4>1, ArrivingBytes
    <3>4. n \in AtMost(most)
      BY <1>1, <3>1, <3>2
    <3>5. n \in Nat /\ n \in 1 .. most
      BY <3>3, <3>4, AtMostBounds
    <3> QED BY <3>2, <3>5
  <2>14. PICK more \in Nat : more = read + n /\ more <= l
    <3>1. read + n \in Nat /\ read + n <= l
      BY <2>13
    <3> QED BY <3>1
  <2>15. pos' = begin + more
    BY <1>1, <2>3, <2>12, <2>13, <2>14
  <2>16. ASSUME IdFits(packet, bytes, start) PROVE Told(data, more, begin, h, packet, start)
    <3>1. Told(event, read, begin, h, packet, start)
      BY <2>3, <2>4, <2>10, <2>16, Zenon DEF Delivering
    <3>2. PICK was, b, p : was = event /\ b = begin /\ p = pos
      OBVIOUS
    <3>3. Told(was, read, b, h, packet, start) /\ b \in Nat /\ p \in Nat /\ p = b + read
      BY <2>3, <2>12, <3>1, <3>2
    <3>4. data = [was EXCEPT !.offset = @ + was.len, !.len = n, !.at = p]
      BY <1>1, <3>2
    <3>5. Told(data, read + n, b, h, packet, start)
      BY <2>13, <3>3, <3>4, NextTold
    <3> QED BY <2>14, <3>2, <3>5
  <2>17. Complete(Buffer, held, packet, bytes, start) /\ more <= Len(bytes)
         /\ (IdFits(packet, bytes, start) => Told(data, more, begin, held, packet, start))
    BY <2>4, <2>6, <2>8, <2>14, <2>16
  <2> QED BY <1>1, <1>2, <1>3, <2>2, <2>11, <2>15, <2>17, ContinueInv
<1>4. CASE cut
  <2>1. session' = session /\ phase' = phase /\ cut' = cut
    BY <1>1 DEF Continue
  <2> QED BY <1>2, <1>4, <2>1, Zenon DEF WireInv
<1> QED BY <1>3, <1>4

\* What is done after it was given up is not followed.
LEMMA ChunkTimeOutInv ==
    ASSUME WireInv, ChunkTimeOut
    PROVE  WireInv'
<1>1. pc = "chunk" /\ cut' = TRUE /\ session' = session /\ phase' = phase
  BY DEF ChunkTimeOut
<1>2. phase # "closed"
  BY <1>1 DEF WireInv
<1> QED BY <1>1, <1>2, Zenon DEF WireInv

LEMMA ToldSize ==
    ASSUME NEW packet, NEW start, NEW was, NEW read, NEW b, NEW h, Told(was, read, b, h, packet, start),
           Len(packet.data) \in Nat, Payload(packet, start) + Len(packet.data) = read
    PROVE  was.offset + was.len = Len(packet.data)
<1>1. PICK offset, len, k \in Nat : /\ offset = was.offset /\ len = was.len
                                    /\ k = Payload(packet, start) /\ k + offset + len = read
  BY DEF Told
<1>2. PICK d \in Nat : d = Len(packet.data) /\ k + d = read
  BY <1>1
<1>3. offset + len = d
  <2>1. k + offset + len = k + d
    BY <1>1, <1>2
  <2> QED BY <2>1
<1> QED BY <1>1, <1>2, <1>3

LEMMA ReplyInv ==
    ASSUME QuietAcks, WireInv, Reply
    PROVE  WireInv'
<1>1. CASE Close
  BY <1>1, CloseInv
<1>2. CASE ~ Close
  <2>1. PICK entry :
            /\ entry = [type |-> PUBLISH, id |-> mqtt_get_id(Buffer, MessageLength),
                        size |-> event.offset + event.len]
            /\ pc = "reply" /\ handled' = Append(handled, entry) /\ held' = 0 /\ pc' = "call"
            /\ pos' = pos /\ begin' = begin /\ session' = session /\ phase' = phase /\ cut' = cut
    BY <1>2 DEF Reply, Handled
  <2>2. phase # "closed" /\ phase' # "closed"
    BY <2>1 DEF WireInv
  <2>3. CASE ~ cut
    <3>1. held # 0
      BY <2>1, <2>2, <2>3, HeldByPlace
    <3>2. PICK packet, bytes, start, origin, next : Underway(packet, bytes, start, origin, next)
      BY <2>2, <2>3, <3>1, UnderwayIs
    <3>3. /\ packet \in BrokerPackets /\ Formed(packet, bytes, start)
          /\ Reading("reply", held, packet, bytes, start)
          /\ held \in Nat /\ begin \in Nat /\ pos \in Nat
          /\ Delivering("reply", event, pos - begin, begin, held, packet, bytes, start)
          /\ HeadersFit => IdFits(packet, bytes, start)
      BY <2>1, <3>2 DEF Underway, Coming
    <3>4. PICK buffer, n : buffer = Buffer /\ n = held /\ Begins(buffer, bytes, n)
      BY <3>2, HeldBegins
    <3>5. "reply" \in {"done", "chunk", "reply"}
      OBVIOUS
    <3>6. Complete(buffer, n, packet, bytes, start)
      BY <3>3, <3>4, <3>5, ReadingComplete
    <3>7. n >= start
      BY <3>6 DEF Complete
    <3>8. packet.type = PUBLISH /\ pos - begin = Len(bytes)
      BY <3>3 DEF Delivering
    <3>9. mqtt_get_total_length(buffer, n) = Len(bytes)
      BY <3>3, <3>4, <3>7, BeginsHeader DEF HeaderOf
    <3>10. pos = begin + Len(bytes)
      BY <3>3, <3>8
    <3>11. ASSUME HeadersFit PROVE entry = Entry(packet)
      <4>1. Told(event, pos - begin, begin, n, packet, start)
        BY <3>3, <3>4, <3>11, Zenon DEF Delivering
      <4>2. PICK was, read : was = event /\ read = pos - begin /\ read = Len(bytes)
        BY <3>8
      <4>3. /\ was.offset \in Nat /\ was.len \in Nat /\ Payload(packet, start) \in Nat
            /\ n >= Payload(packet, start)
            /\ Payload(packet, start) + was.offset + was.len = read
        BY <4>1, <4>2 DEF Told
      <4>4. Payload(packet, start) + Len(packet.data) = Len(bytes) /\ Len(packet.data) \in Nat
        <5>1. packet.data \in Seq(Byte)
          BY <3>3 DEF BrokerPackets
        <5> QED BY <3>3, <3>8, <5>1 DEF Formed, PublishFields
      <4>5. was.offset + was.len = Len(packet.data)
        <5>1. Told(was, read, begin, n, packet, start)
               /\ Payload(packet, start) + Len(packet.data) = read
          BY <4>1, <4>2, <4>4
        <5> QED BY <4>4, <5>1, ToldSize
      <4>6. [type |-> PUBLISH, id |-> mqtt_get_id(buffer, Len(bytes)), size |-> Len(packet.data)]
                = Entry(packet)
        BY <3>3, <3>6, <3>8, <4>3, PublishEntry
      <4>7. MessageLength = Len(bytes)
        BY <3>4, <3>9, Zenon DEF MessageLength
      <4> QED BY <2>1, <3>4, <4>2, <4>5, <4>6, <4>7, Zenon
    <3> QED BY <2>1, <2>2, <2>3, <3>2, <3>10, <3>11, HandledInv
  <2>4. CASE cut
    BY <2>1, <2>2, <2>4, Zenon DEF WireInv
  <2> QED BY <2>3, <2>4
<1> QED BY <1>1, <1>2

LEMMA NothingHandled ==
    ASSUME NEW s \in DOMAIN Sessions
    PROVE  Handles(s, <<>>) /\ Len(<<>>) = 0 /\ Starts[s][0] = 0
<1>1. PICK none : none = <<>> /\ Len(none) = 0 /\ DOMAIN none = 1 .. 0
  OBVIOUS
<1>2. PICK range : range = {none[i] : i \in DOMAIN none}
  OBVIOUS
<1>3. none \in Seq(range)
  BY <1>1, EmptySeq
<1>4. Starts[s][0] = 0 /\ Len(Sessions[s]) \in Nat
  BY SessionEnds
<1>5. Handles(s, none)
  BY <1>1, <1>2, <1>3, <1>4 DEF Handles
<1> QED BY <1>1, <1>4, <1>5

LEMMA ReconnectInv ==
    ASSUME WireInv, Reconnect
    PROVE  WireInv'
<1>1. /\ phase = "closed" /\ phase' = "connack" /\ session' \in DOMAIN Sessions /\ pos' = 0
      /\ begin' = 0 /\ held' = 0 /\ handled' = <<>> /\ pc' = pc
  BY DEF Reconnect
<1>2. pc = "call"
  BY <1>1 DEF WireInv
<1>3. PICK s, log, data : s = session' /\ log = handled' /\ data = event' /\ s \in DOMAIN Sessions
  BY <1>1
<1>4. Handles(s, log) /\ Len(log) = 0 /\ 0 = Starts[s][0]
  BY <1>1, <1>3, NothingHandled
<1>5. AtPacket(s, 0, "call", 0, 0, 0, data)
  <2>1. "call" \in {"call", "first"} /\ 0 \in Nat
    OBVIOUS
  <2>2. 0 = Starts[s][0]
    BY <1>4
  <2> QED BY <2>1, <2>2, StillIdle
<1> QED BY <1>1, <1>2, <1>3, <1>4, <1>5, Zenon DEF WireInv

LEMMA WireInvInit ==
    ASSUME MqttWireInit
    PROVE  WireInv
<1>1. /\ phase = "write" /\ session \in DOMAIN Sessions /\ pos = 0
      /\ begin = 0 /\ held = 0 /\ handled = <<>> /\ pc = "call"
  BY DEF MqttWireInit
<1>2. Handles(session, handled) /\ Len(handled) = 0 /\ 0 = Starts[session][0]
  BY <1>1, NothingHandled
<1>3. AtPacket(session, 0, "call", 0, 0, 0, event)
  <2>1. "call" \in {"call", "first"} /\ 0 \in Nat
    OBVIOUS
  <2> QED BY <1>2, <2>1, StillIdle
<1>4. phase # "closed" /\ phase # "serve"
  BY <1>1
<1> QED BY <1>1, <1>2, <1>3, <1>4, Zenon DEF WireInv

LEMMA WireStep ==
    ASSUME QuietAcks, WireInv, [MqttWireNext]_wireVars
    PROVE  WireInv'
<1>1. CASE UNCHANGED wireVars
  <2>1. /\ phase' = phase /\ session' = session /\ pos' = pos /\ begin' = begin /\ held' = held
        /\ pc' = pc /\ event' = event /\ handled' = handled /\ cut' = cut
    BY <1>1 DEF wireVars, readVars
  <2> QED BY <2>1, Zenon DEF WireInv
<1>2. CASE Sent
  BY <1>2, SentInv
<1>3. CASE Call
  BY <1>3, CallInv
<1>4. CASE ReadFirst
  BY <1>4, ReadFirstInv
<1>5. CASE ReadLength
  BY <1>5, ReadLengthInv
<1>6. CASE ReadSize
  BY <1>6, ReadSizeInv
<1>7. CASE ReadRest
  BY <1>7, ReadRestInv
<1>8. CASE TimeOut
  BY <1>8, TimeOutInv
<1>9. CASE ReadError
  BY <1>9, ReadErrorInv
<1>10. CASE Reject
  BY <1>10, RejectInv
<1>11. CASE Connack
  BY <1>11, ConnackInv
<1>12. CASE Other
  BY <1>12, OtherInv
<1>13. CASE Deliver
  BY <1>13, DeliverInv
<1>14. CASE ReadChunk
  BY <1>14, ReadChunkInv
<1>15. CASE ChunkTimeOut
  BY <1>15, ChunkTimeOutInv
<1>16. CASE Reply
  BY <1>16, ReplyInv
<1>17. CASE Reconnect
  BY <1>17, ReconnectInv
<1> QED
  BY <1>1, <1>2, <1>3, <1>4, <1>5, <1>6, <1>7, <1>8, <1>9, <1>10, <1>11, <1>12, <1>13, <1>14,
     <1>15, <1>16, <1>17, Zenon DEF MqttWireNext

LEMMA OneMessageIs ==
    ASSUME QuietAcks, WireInv
    PROVE  OneMessage
<1> SUFFICES ASSUME ~ cut, pc = "done", MessageLength <= IN_BUFFER
             PROVE  held = MessageLength
  BY DEF OneMessage
<1>1. phase # "closed"
  BY DEF WireInv
<1>2. held # 0
  BY <1>1, HeldByPlace
<1>3. PICK packet, bytes, start, origin, next : Underway(packet, bytes, start, origin, next)
  BY <1>1, <1>2, UnderwayIs
<1>4. Formed(packet, bytes, start) /\ Reading("done", held, packet, bytes, start)
  BY <1>3 DEF Underway, Coming
<1>5. PICK buffer, n : buffer = Buffer /\ n = held /\ Begins(buffer, bytes, n)
  BY <1>3, HeldBegins
<1>6. "done" \in {"done", "chunk", "reply"}
  OBVIOUS
<1>7. Complete(buffer, n, packet, bytes, start)
  BY <1>4, <1>5, <1>6, ReadingComplete
<1>8. n >= start /\ n = Fill(bytes)
  BY <1>7 DEF Complete
<1>9. PICK l \in Nat : l = Len(bytes)
  BY <1>4, FillIs
<1>10. mqtt_get_total_length(buffer, n) = l
  BY <1>4, <1>5, <1>8, <1>9, BeginsHeader DEF HeaderOf
<1>11. MessageLength = l
  BY <1>5, <1>10, Zenon DEF MessageLength
<1>12. IN_BUFFER \in Nat
  BY MqttWireAssumption
<1>13. ~ (IN_BUFFER < l)
  BY <1>11, <1>12
<1> QED BY <1>5, <1>8, <1>9, <1>11, <1>13 DEF Fill

LEMMA PacketsAsSentIs ==
    ASSUME HeadersFit, WireInv
    PROVE  PacketsAsSent
<1> SUFFICES ASSUME ~ cut, phase # "closed"
             PROVE  /\ Len(handled) <= Len(Sessions[session])
                    /\ \A i \in DOMAIN handled : handled[i] = Entry(Sessions[session][i])
                    /\ held = 0 /\ pc \in {"call", "first"} => pos = Starts[session][Len(handled)]
  BY Zenon DEF PacketsAsSent
<1>1. Handles(session, handled)
  BY HandledLength
<1>2. held = 0 => pos = Starts[session][Len(handled)]
  BY HeldByPlace
<1> QED BY <1>1, <1>2, Zenon DEF Handles

LEMMA Stretch ==
    ASSUME NEW seq \in Seq(Nat), NEW from \in Nat, NEW k \in Nat, from + k <= Len(seq)
    PROVE  /\ SubSeq(seq, from + 1, from + k) \in Seq(Nat)
           /\ Len(SubSeq(seq, from + 1, from + k)) = k
           /\ \A i \in 1 .. k : SubSeq(seq, from + 1, from + k)[i] = seq[from + i]
<1>1. SubSeq(seq, from + 1, from + k) \in Seq(Nat) /\ Len(SubSeq(seq, from + 1, from + k)) = k
  OBVIOUS
<1>2. \A i \in 1 .. k : SubSeq(seq, from + 1, from + k)[i] = seq[from + i]
  BY SMTT(30)
<1> QED BY <1>1, <1>2

\* The same stretch of two sequences.
Cut(seq, from, k) == SubSeq(seq, from + 1, from + k)

SameFrom(s, a, t, b, n) ==
    /\ s \in Seq(Nat) /\ t \in Seq(Nat) /\ a \in Nat /\ b \in Nat /\ n \in Nat
    /\ a + n <= Len(s) /\ b + n <= Len(t)
    /\ \A j \in 1 .. n : s[a + j] = t[b + j]

LEMMA SameStretch ==
    ASSUME NEW s, NEW a, NEW t, NEW b, NEW n, SameFrom(s, a, t, b, n)
    PROVE  Cut(s, a, n) = Cut(t, b, n)
<1>1. PICK u \in Seq(Nat) : /\ u = SubSeq(s, a + 1, a + n) /\ Len(u) = n
                            /\ \A j \in 1 .. n : u[j] = s[a + j]
  BY Stretch DEF SameFrom
<1>2. PICK v \in Seq(Nat) : /\ v = SubSeq(t, b + 1, b + n) /\ Len(v) = n
                            /\ \A j \in 1 .. n : v[j] = t[b + j]
  BY Stretch DEF SameFrom
<1>3. u = v
  BY <1>1, <1>2, SeqEqual DEF SameFrom
<1> QED BY <1>1, <1>2, <1>3, Zenon DEF Cut

LEMMA NoStretch ==
    ASSUME NEW s \in Seq(Nat), NEW a \in Nat
    PROVE  SubSeq(s, a + 1, a + 0) = <<>>
<1>1. SubSeq(s, a + 1, a + 0) \in Seq(Nat) /\ Len(SubSeq(s, a + 1, a + 0)) = 0
  OBVIOUS
<1> QED BY <1>1, EmptySeq

\* What an event gives is the payload from its offset on.
GivesPayload(was, stream, data) ==
    /\ was.total = Len(data) /\ was.offset + was.len <= was.total
    /\ SubSeq(stream, was.at + 1, was.at + was.len)
         = SubSeq(data, was.offset + 1, was.offset + was.len)

LEMMA ToldPayload ==
    ASSUME NEW sent, NEW data \in Seq(Nat), data = sent.data, NEW bytes, NEW start, NEW stream,
           NEW origin, NEW next, Placed(stream, origin, next, bytes), NEW p, p = Payload(sent, start),
           At(bytes, p, data), p + Len(data) = Len(bytes),
           NEW was, NEW read, NEW h, Told(was, read, origin, h, sent, start),
           read \in Nat, read <= Len(bytes)
    PROVE  GivesPayload(was, stream, data)
<1>1. /\ stream \in Seq(Nat) /\ origin \in Nat /\ bytes \in Seq(Nat)
      /\ origin + Len(bytes) <= Len(stream)
      /\ \A i \in 1 .. Len(bytes) : stream[origin + i] = bytes[i]
  BY DEF Placed, At
<1>2. p \in Nat /\ \A i \in 1 .. Len(data) : bytes[p + i] = data[i]
  BY DEF Told, At
<1>3. PICK offset, len, at \in Nat :
          /\ offset = was.offset /\ len = was.len /\ at = was.at /\ was.total = Len(data)
          /\ p + offset + len = read /\ (len > 0 => at = origin + p + offset)
  BY DEF Told
<1>4. PICK d, l, m \in Nat : d = Len(data) /\ l = Len(bytes) /\ m = Len(stream)
  <2>1. Len(bytes) \in Nat /\ Len(stream) \in Nat
    BY DEF Placed
  <2>2. Len(data) \in Nat
    OBVIOUS
  <2> QED BY <2>1, <2>2
<1>5. offset + len <= d
  <2>1. p + offset + len <= p + d
    BY <1>3, <1>4
  <2> QED BY <1>2, <2>1
<1>6. SubSeq(stream, at + 1, at + len) = SubSeq(data, offset + 1, offset + len)
  <2>1. CASE len = 0
    <3>1. SubSeq(stream, at + 1, at + 0) = <<>>
      BY <1>1, NoStretch
    <3>2. SubSeq(data, offset + 1, offset + 0) = <<>>
      BY NoStretch
    <3> QED BY <2>1, <3>1, <3>2
  <2>2. CASE len > 0
    <3>1. at = origin + p + offset /\ p + d = l /\ origin + l <= m
      BY <1>1, <1>3, <1>4, <2>2
    <3>2. at + len <= m
      <4>1. at + len <= origin + p + d
        BY <1>1, <1>2, <1>5, <3>1, SMTT(30)
      <4>2. origin + p + d = origin + l /\ origin + l \in Nat /\ at + len \in Nat
        <5>1. /\ origin \in Nat /\ p \in Nat /\ d \in Nat /\ l \in Nat /\ at \in Nat /\ len \in Nat
              /\ p + d = l
          BY <1>1, <1>2, <1>3, <1>4, <3>1
        <5> QED BY <5>1, SMTT(30)
      <4>3. at + len <= origin + l
        BY <4>1, <4>2
      <4> QED BY <1>4, <3>1, <4>2, <4>3
    <3>3. ASSUME NEW j \in 1 .. len PROVE stream[at + j] = data[offset + j]
      <4>1. offset + j \in 1 .. d
        BY <1>5
      <4>2. p + (offset + j) \in 1 .. l
        BY <1>2, <3>1, <4>1, SMTT(30)
      <4>3. bytes[p + (offset + j)] = data[offset + j]
        BY <1>2, <1>4, <4>1
      <4>4. stream[origin + (p + (offset + j))] = bytes[p + (offset + j)]
        BY <1>1, <1>4, <4>2
      <4>5. at + j = origin + (p + (offset + j))
        BY <1>1, <1>2, <3>1, SMTT(30)
      <4> QED BY <4>3, <4>4, <4>5
    <3>4. at + len <= Len(stream) /\ offset + len <= Len(data) /\ stream \in Seq(Nat)
      BY <1>1, <1>4, <1>5, <3>2
    <3>5. SameFrom(stream, at, data, offset, len)
      BY <1>3, <3>3, <3>4 DEF SameFrom
    <3>6. Cut(stream, at, len) = Cut(data, offset, len)
      BY <3>5, SameStretch
    <3> QED BY <3>6, Zenon DEF Cut
  <2> QED BY <2>1, <2>2
<1> QED BY <1>3, <1>4, <1>5, <1>6 DEF GivesPayload

LEMMA PiecesIs ==
    ASSUME QuietAcks, HeadersFit, WireInv
    PROVE  PiecesOfPayload
<1> SUFFICES ASSUME ~ cut, pc \in {"chunk", "reply"}, NEW packet,
                    packet = Sessions[session][Len(handled) + 1]
             PROVE  /\ event.total = Len(packet.data) /\ event.offset + event.len <= event.total
                    /\ SubSeq(Stream, event.at + 1, event.at + event.len)
                         = SubSeq(packet.data, event.offset + 1, event.offset + event.len)
  BY Zenon DEF PiecesOfPayload
<1>1. phase # "closed"
  BY DEF WireInv
<1>2. held # 0
  BY <1>1, HeldByPlace
<1>3. PICK sent, bytes, start, origin, next : Underway(sent, bytes, start, origin, next)
  BY <1>1, <1>2, UnderwayIs
<1>4. /\ sent = packet /\ sent \in BrokerPackets /\ Formed(sent, bytes, start)
      /\ Placed(Streams[session], origin, next, bytes) /\ begin = origin
      /\ Delivering(pc, event, pos - begin, begin, held, sent, bytes, start)
      /\ IdFits(sent, bytes, start)
  BY <1>3 DEF Underway, Coming, Following
<1>5. PICK was, h, stream, read :
          was = event /\ h = held /\ stream = Stream /\ stream = Streams[session] /\ read = pos - begin
  BY DEF Stream
<1>6. /\ sent.type = PUBLISH /\ Told(was, read, origin, h, sent, start)
      /\ read \in Nat /\ (read < Len(bytes) \/ read = Len(bytes))
  BY <1>4, <1>5, Zenon DEF Delivering
<1>7. read <= Len(bytes)
  BY <1>4, <1>6, FillIs
<1>8. PICK data \in Seq(Nat) : data = sent.data
  <2>1. sent.data \in Seq(Byte)
    BY <1>4 DEF BrokerPackets
  <2> QED BY <2>1, BytesAreNumbers
<1>9. PICK p : p = Payload(sent, start) /\ At(bytes, p, data) /\ p + Len(data) = Len(bytes)
  BY <1>4, <1>6, <1>8, Zenon DEF Formed, PublishFields
<1>10. Placed(stream, origin, next, bytes) /\ data \in Seq(Nat) /\ data = sent.data
       /\ p = Payload(sent, start) /\ At(bytes, p, data) /\ p + Len(data) = Len(bytes)
       /\ Told(was, read, origin, h, sent, start) /\ read \in Nat /\ read <= Len(bytes)
  BY <1>4, <1>5, <1>6, <1>7, <1>8, <1>9
<1>11. GivesPayload(was, stream, data)
  BY <1>10, ToldPayload
<1> QED BY <1>4, <1>5, <1>8, <1>11 DEF GivesPayload

\* Where the client is in the stream, whatever the broker sends and however the reads cut
\* it: at the start of the packet after those it handled, or as far into that packet as
\* in_buffer and the DATA events account for (mqtt_message_receive, deliver_publish).
THEOREM PlaceInStream ==
    ASSUME QuietAcks
    PROVE  MqttWireSpec => []WireInv
<1>1. WireInv /\ [MqttWireNext]_wireVars => WireInv'
  BY WireStep
<1> QED BY <1>1, WireInvInit, PTL DEF MqttWireSpec

\* A packet that fits in in_buffer is there whole and alone when it is reported, as the
\* comment before mqtt_message_receive has it, for every acknowledgement whose id does not
\* look like the end of a length that goes on.
THEOREM MessageInBuffer ==
    ASSUME QuietAcks
    PROVE  MqttWireSpec => []OneMessage
<1>1. WireInv => OneMessage
  BY OneMessageIs
<1> QED BY <1>1, PlaceInStream, PTL

\* The client handles what the broker sent, each packet once, in order and as it was, and
\* takes up the next one at its first byte - if in_buffer does not end in a message id.
THEOREM PacketsHandledAsSent ==
    ASSUME QuietAcks, HeadersFit
    PROVE  MqttWireSpec => []PacketsAsSent
<1>1. WireInv => PacketsAsSent
  BY PacketsAsSentIs
<1> QED BY <1>1, PlaceInStream, PTL

\* The DATA events of a PUBLISH of any size are its payload, piece by piece, under the
\* same conditions on what is sent (deliver_publish).
THEOREM PayloadInPieces ==
    ASSUME QuietAcks, HeadersFit
    PROVE  MqttWireSpec => []PiecesOfPayload
<1>1. WireInv => PiecesOfPayload
  BY PiecesIs
<1> QED BY <1>1, PlaceInStream, PTL

----------------------------------------------------------------------------
(* What the client writes *)

\* Nothing, as the message did not fit, or a packet.
Emitted(bytes, first, rest) ==
    /\ first \in Nat /\ rest \in Seq(Nat)
    /\ bytes = <<>> \/ bytes = Frame(first, rest)

LEMMA FrameLegible ==
    ASSUME NEW first \in Nat, NEW rest \in Seq(Nat), NEW bytes, bytes = Frame(first, rest)
    PROVE  HeaderOf(bytes, Len(bytes), 1 + Len(remaining_length[Len(rest)]), Len(bytes))
<1>1. PICK start : start = 1 + Len(remaining_length[Len(rest)])
  OBVIOUS
<1>2. Framed(bytes, first, rest, start)
  BY <1>1, FrameShape
<1>3. PICK n \in Nat : n = Len(bytes) /\ n >= start /\ bytes \in Seq(Nat)
  BY <1>2 DEF Framed, Shape
<1>4. Begins(bytes, bytes, n)
  BY <1>3 DEF Begins
<1>5. Shape(bytes, start) /\ n >= start /\ n >= n
  BY <1>2, <1>3 DEF Framed
<1>6. HeaderOf(bytes, n, start, Len(bytes))
  BY <1>4, <1>5, HeaderRead
<1> QED BY <1>1, <1>3, <1>6

LEMMA EmittedLegible ==
    ASSUME NEW bytes, NEW first, NEW rest, Emitted(bytes, first, rest), bytes # <<>>
    PROVE  mqtt_get_total_length(bytes, Len(bytes)) = Len(bytes)
BY FrameLegible DEF Emitted, HeaderOf

\* The same of a message that is finished.
EmittedAs(made, first, rest) == Emitted(made.bytes, first, rest)

LEMMA FailedEmitted ==
    ASSUME NEW first \in Nat, NEW rest \in Seq(Nat)
    PROVE  EmittedAs(Failed, first, rest)
BY DEF Failed, Emitted, EmittedAs

LEMMA BuiltEmitted ==
    ASSUME NEW msg, NEW bytes, Built(msg, bytes), NEW type, NEW qos, NEW retain,
           FirstByte(type, qos, retain) \in Nat
    PROVE  EmittedAs(fini_message(msg, type, 0, qos, retain, 0), FirstByte(type, qos, retain), bytes)
<1>1. PICK made : made = fini_message(msg, type, 0, qos, retain, 0)
  OBVIOUS
<1>2. fini_message5(msg, type, qos, retain, 0) = made
  BY <1>1, Zenon DEF fini_message5
<1>3. PacketMade(made, FirstByte(type, qos, retain), bytes)
  BY <1>2, BuiltPacket
<1>4. made.ok \/ made = Failed
  <2>1. PICK s : s = <<type * 16 + 0 * 8 + qos * 2 + retain>>
                         \o remaining_length[Len(msg.bytes) + 0] \o msg.bytes
    OBVIOUS
  <2>2. made = [ok |-> TRUE, bytes |-> s] \/ made = Failed
    BY <1>1, <2>1, Zenon DEF fini_message
  <2> QED BY <2>2
<1>5. FirstByte(type, qos, retain) \in Nat /\ bytes \in Seq(Nat)
  BY <1>3 DEF PacketMade
<1>6. EmittedAs(made, FirstByte(type, qos, retain), bytes)
  <2>1. CASE made.ok
    BY <1>3, <1>5, <2>1 DEF PacketMade, Emitted, EmittedAs
  <2>2. CASE made = Failed
    BY <1>5, <2>2, FailedEmitted
  <2> QED BY <1>4, <2>1, <2>2
<1> QED BY <1>1, <1>6

\* The first bytes of what the application asks for.
LEMMA RequestFirst ==
    /\ FirstByte(CONNECT, 0, 0) \in Nat /\ FirstByte(SUBSCRIBE, 1, 0) \in Nat
    /\ FirstByte(UNSUBSCRIBE, 1, 0) \in Nat /\ FirstByte(PINGREQ, 0, 0) \in Nat
    /\ FirstByte(DISCONNECT, 0, 0) \in Nat
BY DEF FirstByte, CONNECT, SUBSCRIBE, UNSUBSCRIBE, PINGREQ, DISCONNECT

LEMMA ItemIs == ASSUME NEW S, NEW s \in Seq(S), NEW i \in 1 .. Len(s) PROVE s[i] \in S
OBVIOUS

LEMMA SubscribeEmitted ==
    ASSUME NEW topics \in Seq([filter : Seq(Byte), qos : 0 .. 2]), NEW id \in Word16
    PROVE  \E first, rest : EmittedAs(mqtt_msg_subscribe(topics, id), first, rest)
<1> DEFINE field(i) == Word(Len(topics[i].filter)) \o topics[i].filter \o <<topics[i].qos>>
<1>1. PICK fields : fields = [i \in DOMAIN topics |-> field(i)]
  OBVIOUS
<1>2. ASSUME NEW i \in 1 .. Len(topics) PROVE field(i) \in Seq(Nat)
  <2>1. topics[i] \in [filter : Seq(Byte), qos : 0 .. 2]
    BY ItemIs
  <2>2. PICK t \in Seq(Nat) : t = topics[i].filter /\ topics[i].qos \in Nat
    BY <2>1, BytesAreNumbers, SMTT(30)
  <2>3. PICK w \in Seq(Nat) : w = Word(Len(t))
    <3>1. Len(t) \in Nat
      OBVIOUS
    <3> QED BY <3>1, WordType
  <2>4. w \o t \o <<topics[i].qos>> \in Seq(Nat)
    BY <2>2
  <2> QED BY <2>2, <2>3, <2>4
<1>3. fields \in Seq(Seq(Nat))
  <2>1. PICK n \in Nat : DOMAIN topics = 1 .. n /\ Len(topics) = n
    OBVIOUS
  <2>2. PICK numbers : numbers = Seq(Nat)
    OBVIOUS
  <2>3. \A i \in 1 .. n : field(i) \in numbers
    BY <1>2, <2>1, <2>2
  <2> HIDE DEF field
  <2>4. fields \in [1 .. n -> numbers]
    BY <1>1, <2>1, <2>3
  <2>5. fields \in Seq(numbers)
    BY <2>4
  <2> QED BY <2>2, <2>5
<1>4. PICK all \in Seq(Nat) : all = FlattenSeq(fields)
  BY <1>3, FlattenType
<1>5. PICK msg : msg = append(append_message_id(Started, id), all)
  OBVIOUS
<1>6. Built(msg, (<<>> \o Word(id)) \o all)
  <2>1. id \in Nat
    BY WordsAreNumbers
  <2>2. Built(append_message_id(Started, id), <<>> \o Word(id))
    BY <2>1, BuiltStarted, BuiltId
  <2>3. PICK part, bytes : part = append_message_id(Started, id) /\ bytes = <<>> \o Word(id)
    OBVIOUS
  <2>4. Built(append(part, all), bytes \o all)
    BY <2>2, <2>3, BuiltAppend
  <2> QED BY <1>5, <2>3, <2>4
<1>7. EmittedAs(fini_message(msg, SUBSCRIBE, 0, 1, 0, 0), FirstByte(SUBSCRIBE, 1, 0),
              (<<>> \o Word(id)) \o all)
  BY <1>6, RequestFirst, BuiltEmitted
<1>8. \/ mqtt_msg_subscribe(topics, id) = Failed
      \/ mqtt_msg_subscribe(topics, id) = fini_message(msg, SUBSCRIBE, 0, 1, 0, 0)
  BY <1>1, <1>4, <1>5, Zenon DEF mqtt_msg_subscribe
<1>9. EmittedAs(Failed, 0, all)
  BY FailedEmitted
<1> QED BY <1>7, <1>8, <1>9

LEMMA UnsubscribeEmitted ==
    ASSUME NEW topic \in Seq(Byte), NEW id \in Word16
    PROVE  \E first, rest : EmittedAs(mqtt_msg_unsubscribe(topic, id), first, rest)
<1>1. topic \in Seq(Nat) /\ id \in Nat
  BY BytesAreNumbers, WordsAreNumbers
<1>2. PICK msg : msg = append_string(append_message_id(Started, id), topic)
  OBVIOUS
<1>3. Built(append_message_id(Started, id), <<>> \o Word(id))
  BY <1>1, BuiltStarted, BuiltId
<1>4. Built(msg, (<<>> \o Word(id)) \o String(topic))
  BY <1>1, <1>2, <1>3, BuiltString
<1>5. EmittedAs(fini_message(msg, UNSUBSCRIBE, 0, 1, 0, 0), FirstByte(UNSUBSCRIBE, 1, 0),
              (<<>> \o Word(id)) \o String(topic))
  BY <1>4, RequestFirst, BuiltEmitted
<1>6. \/ mqtt_msg_unsubscribe(topic, id) = Failed
      \/ mqtt_msg_unsubscribe(topic, id) = fini_message(msg, UNSUBSCRIBE, 0, 1, 0, 0)
  BY <1>2, Zenon DEF mqtt_msg_unsubscribe
<1>7. EmittedAs(Failed, 0, topic)
  BY <1>1, FailedEmitted
<1> QED BY <1>5, <1>6, <1>7

LEMMA PlainEmitted ==
    /\ \E first, rest : EmittedAs(mqtt_msg_pingreq, first, rest)
    /\ \E first, rest : EmittedAs(mqtt_msg_disconnect, first, rest)
BY BuiltStarted, RequestFirst, BuiltEmitted DEF mqtt_msg_pingreq, mqtt_msg_disconnect

\* A PUBLISH, with what goes in later writes.
LEMMA PublishEmitted ==
    ASSUME NEW topic \in Seq(Byte), NEW data \in Seq(Byte), NEW qos \in 0 .. 2,
           NEW retain \in 0 .. 1, NEW id \in Word16,
           NEW made, made = mqtt_msg_publish(topic, data, qos, retain, id), made.message.ok
    PROVE  \E first, rest : Emitted(made.message.bytes \o made.remaining, first, rest)
<1>1. /\ topic \in Seq(Nat) /\ data \in Seq(Nat) /\ id \in Nat
      /\ qos \in Nat /\ retain \in Nat
  BY BytesAreNumbers, WordsAreNumbers
<1>2. PICK first : first = FirstByte(PUBLISH, qos, retain) /\ first \in Nat
  BY FirstByteRead
<1>3. PICK rest \in Seq(Nat) : rest = PublishHead(topic, qos, id) \o data
  <2>1. PublishHead(topic, qos, id) \in Seq(Nat)
    BY <1>1, PublishHeadType
  <2>2. PublishHead(topic, qos, id) \o data \in Seq(Nat)
    BY <1>1, <2>1
  <2> QED BY <2>2
<1>4. PublishSent(made, topic, first, rest)
  BY <1>1, <1>2, <1>3, PublishSentFrame
<1>5. made.message.bytes \o made.remaining = Frame(first, rest)
  BY <1>4 DEF PublishSent, Fragmented
<1> QED BY <1>2, <1>5 DEF Emitted

----------------------------------------------------------------------------
(* The CONNECT *)

\* A string is announced by its length.
LEMMA StringIs == \A text : String(text) = Word(Len(text)) \o text
BY DEF String

StringPieces(list) == [i \in DOMAIN list |-> Word(Len(list[i])) \o list[i]]

LEMMA StringPiecesType ==
    ASSUME NEW list \in Seq(Seq(Nat))
    PROVE  /\ StringPieces(list) \in Seq(Seq(Nat)) /\ Len(StringPieces(list)) = Len(list)
           /\ \A i \in 1 .. Len(list) : StringPieces(list)[i] = String(list[i])
<1>1. PICK n \in Nat : DOMAIN list = 1 .. n /\ Len(list) = n
  OBVIOUS
<1>2. PICK numbers : numbers = Seq(Nat)
  OBVIOUS
<1>3. ASSUME NEW i \in 1 .. n PROVE String(list[i]) \in numbers
  <2>1. list[i] \in Seq(Nat)
    BY <1>1
  <2> QED BY <1>2, <2>1, StringType
<1>4. StringPieces(list) = [i \in 1 .. n |-> String(list[i])]
  BY <1>1, StringIs DEF StringPieces
<1>5. StringPieces(list) \in [1 .. n -> numbers] /\ \A i \in 1 .. n : StringPieces(list)[i] = String(list[i])
  BY <1>3, <1>4
<1>6. StringPieces(list) \in Seq(numbers) /\ Len(StringPieces(list)) = n
  BY <1>5
<1> QED BY <1>1, <1>2, <1>5, <1>6

LEMMA StringsAre ==
    ASSUME NEW list
    PROVE  StringsOf(list) = FlattenSeq(StringPieces(list))
BY Zenon DEF StringsOf, StringPieces

LEMMA StringsType ==
    ASSUME NEW list \in Seq(Seq(Nat))
    PROVE  StringsOf(list) \in Seq(Nat)
BY StringPiecesType, FlattenType, StringsAre

LEMMA StringsNone == StringsOf(<<>>) = <<>>
<1>1. StringPieces(<<>>) = <<>>
  BY DEF StringPieces
<1> QED BY <1>1, StringsAre, FlattenNone

LEMMA OneItem ==
    ASSUME NEW S, NEW item \in S
    PROVE  <<item>> \in Seq(S) /\ Len(<<item>>) = 1 /\ <<item>>[1] = item
OBVIOUS

LEMMA OnlyItem ==
    ASSUME NEW S, NEW s \in Seq(S), Len(s) = 1
    PROVE  s = <<s[1]>>
OBVIOUS

\* A sequence with another one behind it.
Parts(all, s, r, S) ==
    /\ all \in Seq(S) /\ all = s \o r /\ Len(all) = Len(s) + Len(r)
    /\ \A i \in 1 .. Len(s) : all[i] = s[i]
    /\ \A i \in 1 .. Len(r) : all[Len(s) + i] = r[i]

LEMMA BothParts ==
    ASSUME NEW S, NEW s \in Seq(S), NEW r \in Seq(S)
    PROVE  \E all : Parts(all, s, r, S)
<1>1. PICK all \in Seq(S) : all = s \o r
  <2>1. s \o r \in Seq(S)
    OBVIOUS
  <2> QED BY <2>1
<1>2. Parts(all, s, r, S)
  BY <1>1 DEF Parts
<1> QED BY <1>2

LEMMA StringsOne ==
    ASSUME NEW text \in Seq(Nat)
    PROVE  <<text>> \in Seq(Seq(Nat)) /\ StringsOf(<<text>>) = String(text)
<1>1. PICK list \in Seq(Seq(Nat)) : list = <<text>> /\ Len(list) = 1 /\ list[1] = text
  BY OneItem
<1>2. PICK pieces \in Seq(Seq(Nat)) : pieces = StringPieces(list) /\ Len(pieces) = 1 /\ pieces[1] = String(text)
  <2>1. 1 \in 1 .. Len(list)
    BY <1>1
  <2> QED BY <1>1, <2>1, StringPiecesType
<1>3. pieces = <<String(text)>>
  BY <1>2, OnlyItem
<1> QED BY <1>1, <1>2, <1>3, StringsAre, FlattenOne

LEMMA StringsThen ==
    ASSUME NEW list \in Seq(Seq(Nat)), NEW more \in Seq(Seq(Nat))
    PROVE  /\ list \o more \in Seq(Seq(Nat))
           /\ StringsOf(list \o more) = StringsOf(list) \o StringsOf(more)
<1> PICK numbers : numbers = Seq(Nat)
  OBVIOUS
<1>1. PICK both : Parts(both, list, more, numbers)
  BY BothParts
<1>2. PICK n \in Nat, m \in Nat : n = Len(list) /\ m = Len(more) /\ Len(both) = n + m /\ both \in Seq(Seq(Nat))
  <2>1. Len(both) = Len(list) + Len(more) /\ both \in Seq(numbers)
    BY <1>1 DEF Parts
  <2> QED BY <2>1
<1>3. PICK left \in Seq(Seq(Nat)) : /\ left = StringPieces(list) /\ Len(left) = n
                                    /\ \A i \in 1 .. n : left[i] = String(list[i])
  BY <1>2, StringPiecesType
<1>4. PICK right \in Seq(Seq(Nat)) : /\ right = StringPieces(more) /\ Len(right) = m
                                     /\ \A i \in 1 .. m : right[i] = String(more[i])
  BY <1>2, StringPiecesType
<1>5. PICK pieces \in Seq(Seq(Nat)) : /\ pieces = StringPieces(both) /\ Len(pieces) = n + m
                                      /\ \A i \in 1 .. n + m : pieces[i] = String(both[i])
  BY <1>2, StringPiecesType, ZenonT(60)
<1>6. PICK joined : Parts(joined, left, right, numbers)
  BY <1>3, <1>4, BothParts
<1>7. ASSUME NEW i \in 1 .. n + m PROVE pieces[i] = joined[i]
  <2>1. CASE i \in 1 .. n
    <3>1. both[i] = list[i] /\ joined[i] = left[i]
      BY <1>1, <1>2, <1>3, <1>6, <2>1 DEF Parts
    <3> QED BY <1>3, <1>5, <2>1, <3>1
  <2>2. CASE i \notin 1 .. n
    <3>1. PICK j \in 1 .. m : n + j = i
      <4>1. i - n \in 1 .. m /\ n + (i - n) = i
        BY <2>2
      <4> QED BY <4>1
    <3>2. both[n + j] = more[j] /\ joined[n + j] = right[j]
      BY <1>1, <1>2, <1>3, <1>4, <1>6, <3>1 DEF Parts
    <3> QED BY <1>4, <1>5, <3>1, <3>2
  <2> QED BY <2>1, <2>2
<1>8. pieces = joined
  <2>1. joined \in Seq(numbers) /\ Len(joined) = n + m
    BY <1>3, <1>4, <1>6 DEF Parts
  <2> QED BY <1>5, <1>7, <2>1, SeqEqual
<1>9. FlattenSeq(left \o right) = FlattenSeq(left) \o FlattenSeq(right)
  BY FlattenConcat
<1>10. both = list \o more /\ joined = left \o right /\ list \o more \in Seq(Seq(Nat))
  BY <1>1, <1>2, <1>6 DEF Parts
<1> QED BY <1>3, <1>4, <1>5, <1>8, <1>9, <1>10, StringsAre
\* A message that has the strings of a list behind its variable header.
Carrying(msg, head, list) ==
    /\ head \in Seq(Nat) /\ list \in Seq(Seq(Nat))
    /\ Built(msg, head \o StringsOf(list))

LEMMA CarryString ==
    ASSUME NEW msg, NEW head, NEW list, Carrying(msg, head, list), NEW text \in Seq(Nat)
    PROVE  Carrying(append_string(msg, text), head, list \o <<text>>)
<1>1. head \in Seq(Nat) /\ list \in Seq(Seq(Nat)) /\ Built(msg, head \o StringsOf(list))
  BY DEF Carrying
<1>2. PICK strings \in Seq(Nat) : strings = StringsOf(list)
  BY <1>1, StringsType
<1>3. PICK t \in Seq(Nat) : t = String(text)
  BY StringType
<1>4. <<text>> \in Seq(Seq(Nat)) /\ StringsOf(<<text>>) = t
  BY <1>3, StringsOne
<1>5. list \o <<text>> \in Seq(Seq(Nat)) /\ StringsOf(list \o <<text>>) = strings \o t
  BY <1>1, <1>2, <1>4, StringsThen
<1>6. Built(append_string(msg, text), (head \o strings) \o t)
  BY <1>1, <1>2, <1>3, BuiltString
<1>7. (head \o strings) \o t = head \o (strings \o t)
  BY <1>1, <1>2, <1>3, ThreeParts DEF Regrouped
<1> QED BY <1>1, <1>5, <1>6, <1>7 DEF Carrying

LEMMA CarryNothing ==
    ASSUME NEW msg, NEW head, NEW list, Carrying(msg, head, list)
    PROVE  Carrying(msg, head, list \o <<>>)
<1>1. PICK numbers : numbers = Seq(Nat) /\ list \in Seq(numbers)
  BY DEF Carrying
<1>2. list \o <<>> = list
  BY <1>1
<1> QED BY <1>2

\* The number that the CONNECT flags are, and its bits.
BitsOf(flags, user, password, will) ==
    /\ flags \in Nat
    /\ (flags \div 128) % 2 = 1 <=> user = 128
    /\ (flags \div 64) % 2 = 1 <=> password = 64
    /\ (flags \div 4) % 2 = 1 <=> will = 1
    /\ flags % 2 = 0

LEMMA FlagBits ==
    ASSUME NEW user \in {0, 128}, NEW password \in {0, 64}, NEW retain \in {0, 32},
           NEW qos \in 0 .. 2, NEW will \in {0, 1}, NEW clean \in {0, 2},
           NEW flags, flags = user + password + will * (retain + qos * 8 + 4) + clean
    PROVE  BitsOf(flags, user, password, will)
<1>1. \A u, p, r, q, w, c \in Nat :
          /\ u \in {0, 128} /\ p \in {0, 64} /\ r \in {0, 32} /\ q \in {0, 8, 16} /\ w \in {0, 4} /\ c \in {0, 2}
          => /\ ((u + p + r + q + w + c) \div 128) % 2 = 1 <=> u = 128
             /\ ((u + p + r + q + w + c) \div 64) % 2 = 1 <=> p = 64
             /\ ((u + p + r + q + w + c) \div 4) % 2 = 1 <=> w = 4
             /\ (u + p + r + q + w + c) % 2 = 0
  BY SMTT(60)
<1>2. CASE will = 0
  <2>1. flags = user + password + 0 + 0 + 0 + clean
    BY <1>2
  <2> QED BY <1>1, <1>2, <2>1 DEF BitsOf
<1>3. CASE will = 1
  <2>1. qos * 8 \in {0, 8, 16}
    <3>1. qos = 0 \/ qos = 1 \/ qos = 2
      OBVIOUS
    <3> QED BY <3>1
  <2>2. flags = user + password + retain + (qos * 8) + 4 + clean
    BY <1>3, <2>1
  <2> QED BY <1>1, <1>3, <2>1, <2>2 DEF BitsOf
<1> QED BY <1>2, <1>3

InfoStrings(info) ==
    /\ info.client_id \in Seq(Nat) /\ info.will_topic \in Seq(Nat) /\ info.will_message \in Seq(Nat)
    /\ info.username \in Seq(Nat) /\ info.password \in Seq(Nat)

LEMMA InfoFields ==
    ASSUME NEW info \in Infos
    PROVE  /\ InfoStrings(info) /\ info.will_qos \in 0 .. 2 /\ info.keepalive \in Nat
           /\ info.will_retain \in BOOLEAN /\ info.clean_session \in BOOLEAN
<1>1. /\ info.client_id \in Seq(Byte) /\ info.will_topic \in Seq(Byte)
      /\ info.will_message \in Seq(Byte) /\ info.username \in Seq(Byte)
      /\ info.password \in Seq(Byte) /\ info.will_qos \in 0 .. 2 /\ info.keepalive \in Word16
      /\ info.will_retain \in BOOLEAN /\ info.clean_session \in BOOLEAN
  BY Zenon DEF Infos
<1> QED BY <1>1, BytesAreNumbers, WordsAreNumbers DEF InfoStrings

HasUser(info) == info.username # <<>> \/ info.password # <<>>

FlagsOf(flags, info) ==
    /\ flags \in Nat
    /\ (flags \div 128) % 2 = 1 <=> HasUser(info)
    /\ (flags \div 64) % 2 = 1 <=> info.password # <<>>
    /\ (flags \div 4) % 2 = 1 <=> info.will_topic # <<>>
    /\ flags % 2 = 0

LEMMA ConnectFlags ==
    ASSUME NEW info \in Infos
    PROVE  FlagsOf(connect_flags(info), info)
<1>1. PICK user \in {0, 128} : user = Bit(HasUser(info), 128) /\ (user = 128 <=> HasUser(info))
  BY DEF Bit
<1>2. PICK password \in {0, 64} : /\ password = Bit(info.password # <<>>, 64)
                                  /\ password = 64 <=> info.password # <<>>
  BY DEF Bit
<1>3. PICK retain \in {0, 32} : retain = Bit(info.will_retain, 32)
  BY DEF Bit
<1>4. PICK qos \in 0 .. 2 : qos = info.will_qos
  BY InfoFields
<1>5. PICK will \in {0, 1} : /\ will * (retain + qos * 8 + 4)
                                   = Bit(info.will_topic # <<>>, retain + qos * 8 + 4)
                             /\ will = 1 <=> info.will_topic # <<>>
  <2>1. PICK w \in Nat : w = retain + qos * 8 + 4
    <3>1. qos * 8 \in Nat
      OBVIOUS
    <3> QED BY <3>1
  <2>2. CASE info.will_topic # <<>>
    <3>1. 1 * w = Bit(info.will_topic # <<>>, w)
      BY <2>2 DEF Bit
    <3> QED BY <2>1, <2>2, <3>1
  <2>3. CASE ~ (info.will_topic # <<>>)
    <3>1. 0 * w = Bit(info.will_topic # <<>>, w)
      BY <2>3 DEF Bit
    <3> QED BY <2>1, <2>3, <3>1
  <2> QED BY <2>2, <2>3
<1>6. PICK clean \in {0, 2} : clean = Bit(info.clean_session, 2)
  BY DEF Bit
<1>7. PICK flags : flags = user + password + will * (retain + qos * 8 + 4) + clean
  OBVIOUS
<1>8. flags = connect_flags(info)
  BY <1>1, <1>2, <1>3, <1>4, <1>5, <1>6, <1>7, Zenon DEF connect_flags, HasUser
<1>9. BitsOf(flags, user, password, will)
  BY <1>7, FlagBits
<1> QED BY <1>1, <1>2, <1>5, <1>8, <1>9 DEF FlagsOf, BitsOf

\* The fixed part of a CONNECT: protocol, flags, keepalive.
ConnectHead(info) ==
    Word(4) \o <<77, 81, 84, 84, 4, connect_flags(info)>> \o Word(info.keepalive)

LEMMA ThreeInTen ==
    ASSUME NEW w \in Seq(Nat), Len(w) = 2, NEW m \in Seq(Nat), Len(m) = 6,
           NEW k \in Seq(Nat), Len(k) = 2
    PROVE  \E head \in Seq(Nat) : head = w \o m \o k /\ Len(head) = 10 /\ head[8] = m[6]
<1>1. PICK front : Parts(front, w, m, Nat)
  BY BothParts
<1>2. front \in Seq(Nat) /\ Len(front) = 8 /\ front[8] = m[6] /\ front = w \o m
  <2>1. front \in Seq(Nat) /\ Len(front) = 8 /\ front = w \o m
    BY <1>1 DEF Parts
  <2>2. 6 \in 1 .. Len(m) /\ Len(w) + 6 = 8
    OBVIOUS
  <2>3. front[Len(w) + 6] = m[6]
    BY <1>1, <2>2 DEF Parts
  <2> QED BY <2>1, <2>2, <2>3
<1>3. PICK head : Parts(head, front, k, Nat)
  BY <1>2, BothParts
<1>4. head \in Seq(Nat) /\ Len(head) = 10 /\ head = front \o k
  BY <1>2, <1>3 DEF Parts
<1>5. 8 \in 1 .. Len(front)
  BY <1>2
<1>6. head[8] = front[8]
  BY <1>3, <1>5 DEF Parts
<1> QED BY <1>2, <1>4, <1>6

LEMMA ConnectHeadType ==
    ASSUME NEW info \in Infos
    PROVE  /\ ConnectHead(info) \in Seq(Nat) /\ Len(ConnectHead(info)) = 10
           /\ ConnectHead(info)[8] = connect_flags(info)
<1>1. PICK flags \in Nat : flags = connect_flags(info)
  BY ConnectFlags DEF FlagsOf
<1>2. PICK w \in Seq(Nat) : w = Word(4) /\ Len(w) = 2
  <2>1. 4 \in Nat
    OBVIOUS
  <2> QED BY <2>1, WordType
<1>3. PICK k \in Seq(Nat) : k = Word(info.keepalive) /\ Len(k) = 2
  BY InfoFields, WordType
<1>4. PICK m \in Seq(Nat) : m = <<77, 81, 84, 84, 4, flags>> /\ Len(m) = 6 /\ m[6] = flags
  <2>1. <<77, 81, 84, 84, 4, flags>> \in Seq(Nat)
    OBVIOUS
  <2> QED BY <2>1
<1>5. PICK head \in Seq(Nat) : head = w \o m \o k /\ Len(head) = 10 /\ head[8] = m[6]
  <2>1. Len(w) = 2 /\ Len(m) = 6 /\ Len(k) = 2
    BY <1>2, <1>3, <1>4
  <2> QED BY <2>1, ThreeInTen
<1>6. head = ConnectHead(info)
  BY <1>1, <1>2, <1>3, <1>4, <1>5, Zenon DEF ConnectHead
<1> QED BY <1>1, <1>4, <1>5, <1>6

\* The strings of a CONNECT with these flags.
ConnectStrings(info, flags) ==
    <<info.client_id>> \o Announced(flags, 4, info.will_topic)
        \o Announced(flags, 4, info.will_message) \o Announced(flags, 128, info.username)
        \o Announced(flags, 64, info.password)

LEMMA ConnectCarries ==
    ASSUME NEW info \in Infos
    PROVE  \E msg : /\ mqtt_msg_connect(info) = fini_message(msg, CONNECT, 0, 0, 0, 0)
                    /\ Carrying(msg, ConnectHead(info), ConnectStrings(info, connect_flags(info)))
<1>1. PICK flags : flags = connect_flags(info) /\ FlagsOf(flags, info)
  BY ConnectFlags
<1>2. InfoStrings(info)
  BY InfoFields
<1>3. PICK head \in Seq(Nat) : head = ConnectHead(info)
  BY ConnectHeadType
<1>4. PICK header : header = append(Started, head)
  OBVIOUS
<1>5. PICK id : id = append_string(header, info.client_id)
  OBVIOUS
<1>6. PICK topic : topic = append_string(id, info.will_topic)
  OBVIOUS
<1>7. PICK will : will = IF info.will_topic # <<>> THEN append_string(topic, info.will_message) ELSE id
  OBVIOUS
<1>8. PICK user : user = IF HasUser(info) THEN append_string(will, info.username) ELSE will
  OBVIOUS
<1>9. PICK password : password = IF info.password # <<>> THEN append_string(user, info.password) ELSE user
  OBVIOUS
<1>10. mqtt_msg_connect(info) = fini_message(password, CONNECT, 0, 0, 0, 0)
  BY <1>3, <1>4, <1>5, <1>6, <1>7, <1>8, <1>9, ZenonT(60) DEF mqtt_msg_connect, ConnectHead, HasUser, When
<1> DEFINE A1 == Announced(flags, 4, info.will_topic)
           A2 == Announced(flags, 4, info.will_message)
           A3 == Announced(flags, 128, info.username)
           A4 == Announced(flags, 64, info.password)
<1>11. /\ A1 = IF info.will_topic # <<>> THEN <<info.will_topic>> ELSE <<>>
       /\ A2 = IF info.will_topic # <<>> THEN <<info.will_message>> ELSE <<>>
       /\ A3 = IF HasUser(info) THEN <<info.username>> ELSE <<>>
       /\ A4 = IF info.password # <<>> THEN <<info.password>> ELSE <<>>
  BY <1>1, Zenon DEF Announced, FlagsOf
<1> HIDE DEF A1, A2, A3, A4
<1>12. Carrying(header, head, <<>>)
  <2>1. PICK none \in Seq(Nat) : none = <<>> /\ none = StringsOf(<<>>)
    BY EmptySeq, StringsNone
  <2>2. <<>> \in Seq(Seq(Nat))
    BY EmptySeq
  <2>3. Built(header, none \o head)
    BY <1>4, <2>1, BuiltStarted, BuiltAppend
  <2>4. none \o head = head \o none
    BY <2>1
  <2> QED BY <2>1, <2>2, <2>3, <2>4 DEF Carrying
<1>13. PICK l1 : l1 = <<info.client_id>> /\ Carrying(id, head, l1)
  <2>1. Carrying(id, head, <<>> \o <<info.client_id>>)
    BY <1>2, <1>5, <1>12, CarryString DEF InfoStrings
  <2>2. <<>> \o <<info.client_id>> = <<info.client_id>>
    BY <1>2 DEF InfoStrings
  <2> QED BY <2>1, <2>2
<1>14. PICK l3 : l3 = l1 \o A1 \o A2 /\ Carrying(will, head, l3)
  <2>1. CASE info.will_topic # <<>>
    <3>1. Carrying(topic, head, l1 \o A1)
      BY <1>2, <1>6, <1>11, <1>13, <2>1, CarryString DEF InfoStrings
    <3>2. Carrying(will, head, (l1 \o A1) \o A2)
      BY <1>2, <1>7, <1>11, <2>1, <3>1, CarryString DEF InfoStrings
    <3> QED BY <3>2
  <2>2. CASE ~ (info.will_topic # <<>>)
    <3>1. Carrying(id, head, l1 \o A1)
      BY <1>11, <1>13, <2>2, CarryNothing
    <3>2. Carrying(will, head, (l1 \o A1) \o A2)
      BY <1>7, <1>11, <2>2, <3>1, CarryNothing
    <3> QED BY <3>2
  <2> QED BY <2>1, <2>2
<1>15. PICK l4 : l4 = l3 \o A3 /\ Carrying(user, head, l4)
  <2>1. CASE HasUser(info)
    <3>1. Carrying(user, head, l3 \o A3)
      BY <1>2, <1>8, <1>11, <1>14, <2>1, CarryString DEF InfoStrings
    <3> QED BY <3>1
  <2>2. CASE ~ HasUser(info)
    <3>1. Carrying(user, head, l3 \o A3)
      BY <1>8, <1>11, <1>14, <2>2, CarryNothing
    <3> QED BY <3>1
  <2> QED BY <2>1, <2>2
<1>16. Carrying(password, head, l4 \o A4)
  <2>1. CASE info.password # <<>>
    BY <1>2, <1>9, <1>11, <1>15, <2>1, CarryString DEF InfoStrings
  <2>2. CASE ~ (info.password # <<>>)
    BY <1>9, <1>11, <1>15, <2>2, CarryNothing
  <2> QED BY <2>1, <2>2
<1>17. l4 \o A4 = ConnectStrings(info, flags)
  BY <1>13, <1>14, <1>15 DEF ConnectStrings, A1, A2, A3, A4
<1> QED BY <1>1, <1>3, <1>10, <1>16, <1>17

LEMMA ConnectReadable ==
    ASSUME NEW info \in Infos, NEW bytes, bytes = mqtt_msg_connect(info).bytes, bytes # <<>>
    PROVE  mqtt_get_total_length(bytes, Len(bytes)) = Len(bytes) /\ ConnectReads(bytes, info)
<1>1. PICK flags : flags = connect_flags(info) /\ FlagsOf(flags, info)
  BY ConnectFlags
<1>2. PICK head \in Seq(Nat) : head = ConnectHead(info) /\ Len(head) = 10 /\ head[8] = flags
  BY <1>1, ConnectHeadType
<1>3. PICK list : list = ConnectStrings(info, flags)
  OBVIOUS
<1>4. PICK msg : /\ mqtt_msg_connect(info) = fini_message(msg, CONNECT, 0, 0, 0, 0)
                 /\ Carrying(msg, head, list)
  BY <1>1, <1>2, <1>3, ConnectCarries
<1>5. PICK strings \in Seq(Nat) : strings = StringsOf(list) /\ Built(msg, head \o strings)
  BY <1>4, StringsType DEF Carrying
<1>6. PICK rest \in Seq(Nat) : rest = head \o strings
  <2>1. head \o strings \in Seq(Nat)
    OBVIOUS
  <2> QED BY <2>1
<1>7. PICK first \in Nat : first = FirstByte(CONNECT, 0, 0)
  BY RequestFirst
<1>8. EmittedAs(fini_message(msg, CONNECT, 0, 0, 0, 0), first, rest)
  BY <1>5, <1>6, <1>7, BuiltEmitted
<1>9. bytes = Frame(first, rest)
  BY <1>4, <1>8 DEF EmittedAs, Emitted
<1>10. PICK r \in Seq(Nat) : r = remaining_length[Len(rest)]
  <2>1. Len(rest) \in Nat
    OBVIOUS
  <2> QED BY <2>1, RemainingLengthType
<1>11. PICK fixed \in Nat : fixed = 1 + Len(r)
  OBVIOUS
<1>12. HeaderOf(bytes, Len(bytes), fixed, Len(bytes))
  BY <1>9, <1>10, <1>11, FrameLegible
<1>13. bytes \in Seq(Nat) /\ Len(bytes) = fixed + Len(rest) /\ At(bytes, fixed, rest)
  <2>1. /\ bytes \in Seq(Nat) /\ Len(bytes) = 1 + Len(r) + Len(rest)
        /\ At(bytes, 1 + Len(r), rest)
    BY <1>9, <1>10, FrameType, ZenonT(60)
  <2> QED BY <1>11, <2>1
<1>14. At(bytes, fixed, head) /\ At(bytes, fixed + 10, strings)
  <2>1. At(bytes, fixed, head \o strings)
    BY <1>6, <1>13
  <2>2. At(bytes, fixed, head) /\ At(bytes, fixed + Len(head), strings)
    BY <1>13, <2>1, AtConcat
  <2> QED BY <1>2, <2>2
<1>15. bytes[fixed + 8] = flags
  <2>1. 8 \in 1 .. Len(head)
    BY <1>2
  <2> QED BY <1>2, <1>14, <2>1 DEF At
<1>16. SubSeq(bytes, fixed + 11, Len(bytes)) = strings
  <2>1. PICK o \in Nat : o = fixed + 10 /\ o + 1 = fixed + 11
    <3>1. fixed + 10 \in Nat /\ (fixed + 10) + 1 = fixed + 11
      OBVIOUS
    <3> QED BY <3>1
  <2>2. SubSeq(bytes, o + 1, o + Len(strings)) = strings
    BY <1>13, <1>14, <2>1, AtSub
  <2>3. Len(rest) = Len(head) + Len(strings)
    BY <1>6
  <2>4. o + Len(strings) = Len(bytes)
    <3>1. Len(strings) \in Nat /\ Len(rest) \in Nat
      OBVIOUS
    <3> QED BY <1>2, <1>13, <2>1, <2>3, <3>1
  <2> QED BY <2>1, <2>2, <2>4
<1>17. fixed_size_len(bytes, Len(bytes)) = fixed /\ mqtt_get_total_length(bytes, Len(bytes)) = Len(bytes)
  BY <1>12 DEF HeaderOf
<1>18. /\ (flags \div 64) % 2 = 1 => (flags \div 128) % 2 = 1
       /\ flags % 2 = 0
  BY <1>1 DEF FlagsOf, HasUser
<1>19. strings = StringsOf(ConnectStrings(info, flags))
  BY <1>3, <1>5
<1>20. ConnectReads(bytes, info)
  BY <1>15, <1>16, <1>17, <1>18, <1>19, Zenon DEF ConnectReads, ConnectStrings
<1> QED BY <1>17, <1>20

----------------------------------------------------------------------------
(* A request is asked for once, before anything is received *)

AskedFor == phase = "write" => request \in Requests

LEMMA AskedForInit == MqttWireInit => AskedFor
BY DEF MqttWireInit, AskedFor

LEMMA AskedForStep == AskedFor /\ [MqttWireNext]_wireVars => AskedFor'
<1> SUFFICES ASSUME AskedFor, [MqttWireNext]_wireVars PROVE AskedFor'
  OBVIOUS
<1>1. CASE phase' = phase /\ request' = request
  BY <1>1 DEF AskedFor
<1>2. CASE phase' # "write"
  BY <1>2 DEF AskedFor
<1>3. (phase' = phase /\ request' = request) \/ phase' # "write"
  <2>1. CASE Sent
    BY <2>1 DEF Sent
  <2>2. CASE Call \/ ReadFirst \/ ReadLength \/ ReadSize \/ ReadRest
    BY <2>2, Zenon DEF Call, ReadFirst, ReadLength, ReadSize, ReadRest, Goto
  <2>3. CASE TimeOut
    BY <2>3, Zenon DEF TimeOut, Return, Close
  <2>4. CASE ReadError \/ Reject
    BY <2>4 DEF ReadError, Reject, Close
  <2>5. CASE Connack
    BY <2>5, Zenon DEF Connack, Handled, Close
  <2>6. CASE Other
    BY <2>6, Zenon DEF Other, Handled
  <2>7. CASE Deliver
    BY <2>7, Zenon DEF Deliver, Continue, Close
  <2>8. CASE ReadChunk
    BY <2>8, Zenon DEF ReadChunk, Continue
  <2>9. CASE ChunkTimeOut
    BY <2>9, Zenon DEF ChunkTimeOut
  <2>10. CASE Reply
    BY <2>10, Zenon DEF Reply, Handled, Close
  <2>11. CASE Reconnect
    BY <2>11 DEF Reconnect
  <2>12. CASE UNCHANGED wireVars
    BY <2>12 DEF wireVars
  <2> QED BY <2>1, <2>2, <2>3, <2>4, <2>5, <2>6, <2>7, <2>8, <2>9, <2>10, <2>11, <2>12 DEF MqttWireNext
<1> QED BY <1>1, <1>2, <1>3

\* The requests, by their kinds.
ConnectAsked == request.kind = "connect" /\ request.info \in Infos
PublishAsked ==
    /\ request.kind = "publish" /\ request.topic \in Seq(Byte) /\ request.data \in Seq(Byte)
    /\ request.qos \in 0 .. 2 /\ request.retain \in 0 .. 1 /\ request.id \in Word16
SubscribeAsked ==
    /\ request.kind = "subscribe" /\ request.id \in Word16
    /\ request.topics \in Seq([filter : Seq(Byte), qos : 0 .. 2])
UnsubscribeAsked ==
    request.kind = "unsubscribe" /\ request.topic \in Seq(Byte) /\ request.id \in Word16

LEMMA KindsAsked ==
    ASSUME request \in Requests
    PROVE  \/ ConnectAsked \/ PublishAsked \/ SubscribeAsked \/ UnsubscribeAsked
           \/ request.kind \in {"ping", "disconnect"}
<1>1. \/ request \in [kind : {"connect"}, info : Infos]
      \/ request \in [kind : {"publish"}, topic : Seq(Byte), data : Seq(Byte), qos : 0 .. 2,
                      retain : 0 .. 1, id : Word16]
      \/ request \in [kind : {"subscribe"}, topics : Seq([filter : Seq(Byte), qos : 0 .. 2]),
                      id : Word16]
      \/ request \in [kind : {"unsubscribe"}, topic : Seq(Byte), id : Word16]
      \/ request \in [kind : {"ping", "disconnect"}]
  BY RequestsAssumption, Zenon
<1>2. CASE request \in [kind : {"connect"}, info : Infos]
  BY <1>2, Zenon DEF ConnectAsked
<1>3. CASE request \in [kind : {"publish"}, topic : Seq(Byte), data : Seq(Byte), qos : 0 .. 2,
                        retain : 0 .. 1, id : Word16]
  BY <1>3, Zenon DEF PublishAsked
<1>4. CASE request \in [kind : {"subscribe"}, topics : Seq([filter : Seq(Byte), qos : 0 .. 2]),
                        id : Word16]
  BY <1>4, Zenon DEF SubscribeAsked
<1>5. CASE request \in [kind : {"unsubscribe"}, topic : Seq(Byte), id : Word16]
  BY <1>5, Zenon DEF UnsubscribeAsked
<1>6. CASE request \in [kind : {"ping", "disconnect"}]
  BY <1>6, Zenon
<1> QED BY <1>1, <1>2, <1>3, <1>4, <1>5, <1>6

LEMMA WrittenEmitted ==
    ASSUME request \in Requests, request.kind # "connect", Written # <<>>
    PROVE  mqtt_get_total_length(Written, Len(Written)) = Len(Written)
<1>1. CASE PublishAsked
  <2>1. PICK made : made = mqtt_msg_publish(request.topic, request.data, request.qos,
                                            request.retain, request.id)
    OBVIOUS
  <2>2. Written = IF made.message.ok THEN made.message.bytes \o made.remaining ELSE <<>>
    BY <1>1, <2>1 DEF Written, PublishAsked
  <2>3. made.message.ok /\ Written = made.message.bytes \o made.remaining
    BY <2>2
  <2>4. PICK first, rest : Emitted(made.message.bytes \o made.remaining, first, rest)
    BY <1>1, <2>1, <2>3, PublishEmitted DEF PublishAsked
  <2> QED BY <2>3, <2>4, EmittedLegible
<1>2. CASE SubscribeAsked
  <2>1. Written = mqtt_msg_subscribe(request.topics, request.id).bytes
    BY <1>2 DEF Written, SubscribeAsked
  <2>2. PICK first, rest : EmittedAs(mqtt_msg_subscribe(request.topics, request.id), first, rest)
    BY <1>2, SubscribeEmitted DEF SubscribeAsked
  <2> QED BY <2>1, <2>2, EmittedLegible DEF EmittedAs
<1>3. CASE UnsubscribeAsked
  <2>1. Written = mqtt_msg_unsubscribe(request.topic, request.id).bytes
    BY <1>3 DEF Written, UnsubscribeAsked
  <2>2. PICK first, rest : EmittedAs(mqtt_msg_unsubscribe(request.topic, request.id), first, rest)
    BY <1>3, UnsubscribeEmitted DEF UnsubscribeAsked
  <2> QED BY <2>1, <2>2, EmittedLegible DEF EmittedAs
<1>4. CASE request.kind \in {"ping", "disconnect"}
  <2>1. Written = mqtt_msg_pingreq.bytes \/ Written = mqtt_msg_disconnect.bytes
    BY <1>4 DEF Written
  <2>2. \E first, rest : Emitted(Written, first, rest)
    BY <2>1, PlainEmitted DEF EmittedAs
  <2> QED BY <2>2, EmittedLegible
<1> QED BY <1>1, <1>2, <1>3, <1>4, KindsAsked DEF ConnectAsked

LEMMA RequestReadableIs == AskedFor => RequestReadable
<1> SUFFICES ASSUME AskedFor, phase = "write", Written # <<>>
             PROVE  /\ mqtt_get_total_length(Written, Len(Written)) = Len(Written)
                    /\ request.kind = "connect" => ConnectReads(Written, request.info)
  BY DEF RequestReadable
<1>1. request \in Requests
  BY DEF AskedFor
<1>2. CASE request.kind = "connect"
  <2>1. request.info \in Infos
    BY <1>1, <1>2, KindsAsked DEF ConnectAsked, PublishAsked, SubscribeAsked, UnsubscribeAsked
  <2>2. Written = mqtt_msg_connect(request.info).bytes
    BY <1>2 DEF Written
  <2> QED BY <2>1, <2>2, ConnectReadable
<1>3. CASE request.kind # "connect"
  BY <1>1, <1>3, WrittenEmitted
<1> QED BY <1>2, <1>3

\* Whatever the application asks for, and whatever the size of the output buffer: a packet
\* is as long as its header says, and the flags of a CONNECT announce the strings it has
\* (fini_message, mqtt_msg_connect).
THEOREM RequestsReadable == MqttWireSpec => []RequestReadable
<1>1. MqttWireInit => AskedFor
  BY AskedForInit
<1>2. AskedFor /\ [MqttWireNext]_wireVars => AskedFor'
  BY AskedForStep
<1>3. AskedFor => RequestReadable
  BY RequestReadableIs
<1> QED BY <1>1, <1>2, <1>3, PTL DEF MqttWireSpec
=============================================================================
