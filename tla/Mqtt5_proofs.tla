---------------------------- MODULE Mqtt5_proofs ----------------------------
(***************************************************************************)
(* Proofs about Mqtt5: the client counts what is not acknowledged, keeps   *)
(* to what its broker announced, tells the application what the broker     *)
(* said, and writes packets that say what the application set.             *)
(***************************************************************************)
EXTENDS Mqtt5, MqttCodec_proofs

----------------------------------------------------------------------------
(* SUBSCRIBE and UNSUBSCRIBE *)

LEMMA FilterType ==
    ASSUME NEW filter \in Seq(Nat), NEW property, property.share_name \in Seq(Nat)
    PROVE  Filter(filter, property) \in Seq(Nat)
<1>1. PICK a, c \in Seq(Nat) : a = <<36, 115, 104, 97, 114, 101, 47>> /\ c = <<47>>
  <2>1. <<36, 115, 104, 97, 114, 101, 47>> \in Seq(Nat) /\ <<47>> \in Seq(Nat)
    OBVIOUS
  <2> QED BY <2>1
<1>2. a \o property.share_name \o c \o filter \in Seq(Nat)
  OBVIOUS
<1> QED BY <1>1, <1>2 DEF Filter

\* After the fixed header: a message id, properties, and what is asked for.
Request(number, properties, tail) == (Word(number) \o Prefixed(properties)) \o tail

RequestFound(bytes, o, known, got, users, tail) ==
    \E after \in Nat : /\ FoundIn(bytes, o + 2, known, after, got, users)
                       /\ At(bytes, after, tail) /\ after + Len(tail) = Len(bytes)

LEMMA RequestOpens ==
    ASSUME NEW number \in Nat, NEW properties, NEW got, NEW users, NEW known,
           Says(properties, got, users, known), NEW tail \in Seq(Nat), NEW bytes, NEW first, NEW o,
           Opens(bytes, first, Request(number, properties, tail), o)
    PROVE  RequestFound(bytes, o, known, got, users, tail)
<1>1. properties \in Seq(Nat)
  BY SaysType
<1>2. PICK w \in Seq(Nat) : w = Word(number) /\ Len(w) = 2
  BY WordType
<1>3. PICK s \in Seq(Nat) : s = Prefixed(properties)
  BY <1>1, PrefixedType
<1>4. PICK h \in Seq(Nat) : h = w \o s /\ Len(h) = Len(w) + Len(s)
  <2>1. w \o s \in Seq(Nat) /\ Len(w \o s) = Len(w) + Len(s)
    OBVIOUS
  <2> QED BY <2>1
<1>5. PICK rest : rest = h \o tail
  OBVIOUS
<1>6. rest = Request(number, properties, tail)
  BY <1>2, <1>3, <1>4, <1>5 DEF Request
<1>7. bytes \in Seq(Nat) /\ o \in Nat /\ At(bytes, o, h \o tail) /\ o + Len(rest) = Len(bytes)
  BY <1>5, <1>6 DEF Opens
<1>8. At(bytes, o, w \o s) /\ At(bytes, o + Len(h), tail)
  BY <1>4, <1>7, AtConcat
<1>9. At(bytes, o + Len(w), s)
  BY <1>7, <1>8, AtConcat
<1>10. PICK q \in Nat : q = o + 2 /\ q = o + Len(w)
  BY <1>2, <1>7
<1>11. FoundIn(bytes, q, known, q + Len(Prefixed(properties)), got, users)
  BY <1>3, <1>7, <1>9, <1>10, SectionFound
<1>12. PICK after \in Nat : after = o + Len(h) /\ after = q + Len(Prefixed(properties))
  <2>1. Len(h) \in Nat /\ Len(s) \in Nat
    OBVIOUS
  <2> QED BY <1>2, <1>3, <1>4, <1>7, <1>10, <2>1
<1>13. after + Len(tail) = Len(bytes)
  <2>1. Len(rest) = Len(h) + Len(tail)
    BY <1>5
  <2>2. Len(h) \in Nat /\ Len(tail) \in Nat
    OBVIOUS
  <2> QED BY <1>7, <1>12, <2>1, <2>2
<1> QED BY <1>8, <1>10, <1>11, <1>12, <1>13 DEF RequestFound

LEMMA RequestBuilt ==
    ASSUME NEW number \in Nat, NEW properties \in Seq(Nat), NEW tail \in Seq(Nat),
           NEW type \in {SUBSCRIBE, UNSUBSCRIBE}
    PROVE  PacketMade(fini_message5(append(append_properties(append_message_id(Started, number),
                                                             properties), tail), type, 1, 0, 0),
                      FirstByte(type, 1, 0), Request(number, properties, tail))
<1>1. PICK w \in Seq(Nat) : w = Word(number)
  BY WordType
<1>2. Built(append_message_id(Started, number), <<>> \o Word(number))
  BY BuiltStarted, BuiltId
<1>3. Built(append_message_id(Started, number), w)
  <2>1. <<>> \o w = w
    OBVIOUS
  <2> QED BY <1>1, <1>2, <2>1
<1>4. PICK a : a = append_properties(append_message_id(Started, number), properties)
  OBVIOUS
<1>5. Built(a, w \o Prefixed(properties))
  BY <1>3, <1>4, BuiltProperties
<1>6. Built(append(a, tail), (w \o Prefixed(properties)) \o tail)
  BY <1>5, BuiltAppend
<1>7. FirstByte(type, 1, 0) \in Nat
  BY DEF FirstByte, SUBSCRIBE, UNSUBSCRIBE
<1>8. PacketMade(fini_message5(append(a, tail), type, 1, 0, 0), FirstByte(type, 1, 0),
                 (w \o Prefixed(properties)) \o tail)
  BY <1>6, <1>7, BuiltPacket
<1> QED BY <1>1, <1>4, <1>8 DEF Request

UnsubscribeRest(topic, number, property) ==
    Request(number, UserProperties(property.user_property), String(Filter(topic, property)))

LEMMA UnsubscribeMade ==
    ASSUME NEW topic \in Seq(Nat), NEW number \in Nat, NEW property \in UnsubscribeSet
    PROVE  PacketMade(mqtt5_msg_unsubscribe(topic, number, property),
                      FirstByte(UNSUBSCRIBE, 1, 0), UnsubscribeRest(topic, number, property))
<1>1. property.user_property \in Seq(Pairs) /\ property.share_name \in Seq(Nat)
  BY DEF UnsubscribeSet
<1>2. PICK p \in Seq(Nat) : p = UserProperties(property.user_property)
  <2>1. USER_PROPERTY \in ConnackProperties
    BY ConnectIds
  <2>2. Piece(UserProperties(property.user_property), PairFields(property.user_property),
              ConnackProperties)
    BY <1>1, <2>1, PairsPiece
  <2> QED BY <2>2, PieceType
<1>3. PICK f \in Seq(Nat) : f = Filter(topic, property)
  BY <1>1, FilterType
<1>4. PICK tail \in Seq(Nat) : tail = String(f)
  BY StringType
<1>5. UNSUBSCRIBE \in {SUBSCRIBE, UNSUBSCRIBE}
  OBVIOUS
<1>6. PICK a : a = append_properties(append_message_id(Started, number), p)
  OBVIOUS
<1>7. PacketMade(fini_message5(append(a, tail), UNSUBSCRIBE, 1, 0, 0),
                 FirstByte(UNSUBSCRIBE, 1, 0), Request(number, p, tail))
  BY <1>5, <1>6, RequestBuilt
<1>8. append_string(a, f) = append(a, tail)
  BY <1>4 DEF append_string, String
<1>9. CASE topic = <<>>
  <2>1. mqtt5_msg_unsubscribe(topic, number, property) = Failed
    BY <1>9 DEF mqtt5_msg_unsubscribe
  <2>2. FirstByte(UNSUBSCRIBE, 1, 0) \in Nat /\ Request(number, p, tail) \in Seq(Nat)
    BY <1>7 DEF PacketMade
  <2>3. PacketMade(Failed, FirstByte(UNSUBSCRIBE, 1, 0), Request(number, p, tail))
    BY <2>2, FailedPacket
  <2> QED BY <1>2, <1>3, <1>4, <2>1, <2>3 DEF UnsubscribeRest
<1>10. CASE topic # <<>>
  <2>1. mqtt5_msg_unsubscribe(topic, number, property)
            = fini_message5(append_string(a, f), UNSUBSCRIBE, 1, 0, 0)
    BY <1>2, <1>3, <1>6, <1>10 DEF mqtt5_msg_unsubscribe
  <2> QED BY <1>2, <1>3, <1>4, <1>7, <1>8, <2>1 DEF UnsubscribeRest
<1> QED BY <1>9, <1>10

\* The first filter and the user properties of a request, as ReadBack reads them.
RequestReads(bytes, property) ==
    LET read == PropertiesIn(bytes, Start5(bytes, Len(bytes)).offset + 2, PublishProperties)
        first == SubSeq(bytes, read.after + 3, read.after + 2 + WordAt(bytes, read.after))
    IN  /\ UserPropertiesOf(read.list) = property.user_property
        /\ first = Filter(Topics[1].filter, property)

LEMMA FilterRead ==
    ASSUME NEW bytes, NEW first, NEW rest, NEW o, Opens(bytes, first, rest, o), NEW property,
           NEW got, NEW users, users = property.user_property, NEW tail,
           RequestFound(bytes, o, PublishProperties, got, users, tail),
           NEW text \in Seq(Nat), text = Filter(Topics[1].filter, property),
           NEW more \in Seq(Nat), tail = String(text) \o more
    PROVE  RequestReads(bytes, property)
<1>1. bytes \in Seq(Nat) /\ Start5(bytes, Len(bytes)).offset + 2 = o + 2
  BY DEF Opens
<1>2. PICK after \in Nat : /\ FoundIn(bytes, o + 2, PublishProperties, after, got, users)
                           /\ At(bytes, after, tail)
  BY DEF RequestFound
<1>3. At(bytes, after, String(text))
  <2>1. String(text) \in Seq(Nat)
    BY StringType
  <2> QED BY <1>1, <1>2, <2>1, AtConcat
<1>4. SubSeq(bytes, after + 3, after + 2 + WordAt(bytes, after)) = text
  BY <1>1, <1>3, StringRead
<1>5. PICK read : read = PropertiesIn(bytes, o + 2, PublishProperties)
  OBVIOUS
<1>6. Reads(read.list, got, users) /\ read.after = after
  BY <1>2, <1>5 DEF FoundIn
<1>7. UserPropertiesOf(read.list) = users
  BY <1>6 DEF Reads
<1> QED BY <1>1, <1>4, <1>5, <1>6, <1>7, Zenon DEF RequestReads

LEMMA UnsubscribeRead ==
    ASSUME NEW number \in Nat, NEW property \in UnsubscribeSet,
           mqtt5_msg_unsubscribe(Topics[1].filter, number, property).ok
    PROVE  RequestReads(mqtt5_msg_unsubscribe(Topics[1].filter, number, property).bytes, property)
<1>1. PICK topic \in Seq(Nat) : topic = Topics[1].filter
  <2>1. Topics[1].filter = <<102>>
    BY DEF Topics
  <2>2. <<102>> \in Seq(Nat)
    OBVIOUS
  <2> QED BY <2>1, <2>2
<1>2. PICK made : made = mqtt5_msg_unsubscribe(topic, number, property)
  OBVIOUS
<1>3. PICK bytes, first, rest : /\ bytes = made.bytes /\ first = FirstByte(UNSUBSCRIBE, 1, 0)
                                /\ rest = UnsubscribeRest(topic, number, property)
  OBVIOUS
<1>4. PICK o \in Nat : Opens(bytes, first, rest, o)
  BY <1>1, <1>2, <1>3, UnsubscribeMade, PacketOpens
<1>5. PICK users \in Seq(Pairs) : users = property.user_property
  BY DEF UnsubscribeSet
<1>6. USER_PROPERTY \in PublishProperties
  BY IdsAre
<1>7. PICK got : Says(UserProperties(users), got, users, PublishProperties)
  BY <1>6, UsersSaid
<1>8. PICK text \in Seq(Nat) : text = Filter(topic, property)
  BY FilterType DEF UnsubscribeSet
<1>9. PICK tail \in Seq(Nat) : tail = String(text)
  BY StringType
<1>10. rest = Request(number, UserProperties(users), tail)
  BY <1>3, <1>5, <1>8, <1>9 DEF UnsubscribeRest
<1>11. RequestFound(bytes, o, PublishProperties, got, users, tail)
  BY <1>4, <1>7, <1>10, RequestOpens
<1>12. PICK more \in Seq(Nat) : more = <<>> /\ tail \o more = tail
  <2>1. tail \o <<>> = tail
    OBVIOUS
  <2> QED BY <2>1, EmptySeq
<1>13. RequestReads(bytes, property)
  BY <1>1, <1>4, <1>5, <1>8, <1>9, <1>11, <1>12, FilterRead
<1> QED BY <1>1, <1>2, <1>3, <1>13


SubscribeBytes(property) ==
    Variable(SUBSCRIBE_IDENTIFIER, property.subscribe_id) \o UserProperties(property.user_property)

SubscribeOptions(property) ==
    Bit(property.no_local_flag, 4) + Bit(property.retain_as_published_flag, 8)
        + property.retain_handle * 16

\* Two filters, each with a byte after it.
TwoFilters(one, other, byte, last_byte) ==
    (String(one) \o <<byte>>) \o (String(other) \o <<last_byte>>)

SubscribeRest(number, property) ==
    Request(number, SubscribeBytes(property),
            TwoFilters(Filter(Topics[1].filter, property), Filter(Topics[2].filter, property),
                       SubscribeOptions(property) + 1, SubscribeOptions(property) + 2))

LEMMA TopicsAre ==
    /\ Topics[1].filter \in Seq(Nat) /\ Topics[2].filter \in Seq(Nat)
    /\ Topics[1].filter # <<>> /\ Topics[2].filter # <<>>
    /\ Topics[1].qos = 1 /\ Topics[2].qos = 2 /\ DOMAIN Topics = {1, 2}
<1>1. <<102>> \in Seq(Nat) /\ <<103>> \in Seq(Nat) /\ <<102>> # <<>> /\ <<103>> # <<>>
  OBVIOUS
<1>2. /\ Topics[1].filter = <<102>> /\ Topics[2].filter = <<103>> /\ Topics[1].qos = 1
      /\ Topics[2].qos = 2 /\ DOMAIN Topics = {1, 2}
  BY DEF Topics
<1> QED BY <1>1, <1>2

LEMMA OptionsType ==
    ASSUME NEW property \in SubscribeSet
    PROVE  SubscribeOptions(property) \in Nat
           /\ \E k \in Nat : SubscribeOptions(property) = 4 * k
<1>1. PICK a \in {0, 1} : Bit(property.no_local_flag, 4) = 4 * a
  BY DEF Bit
<1>2. PICK b \in {0, 2} : Bit(property.retain_as_published_flag, 8) = 4 * b
  BY DEF Bit
<1>3. PICK c \in Nat : c = property.retain_handle
  BY DEF SubscribeSet
<1>4. PICK k \in Nat : k = a + b + 4 * c
  OBVIOUS
<1>5. SubscribeOptions(property) = 4 * a + 4 * b + c * 16
  BY <1>1, <1>2, <1>3 DEF SubscribeOptions
<1>6. 4 * a + 4 * b + c * 16 = 4 * k
  BY <1>4
<1>7. 4 * k \in Nat
  OBVIOUS
<1> QED BY <1>5, <1>6, <1>7

LEMMA OptionsRead ==
    ASSUME NEW k \in Nat, NEW qos \in {1, 2}
    PROVE  (4 * k + qos) % 4 = qos
OBVIOUS

LEMMA TwoFiltersType ==
    ASSUME NEW one \in Seq(Nat), NEW other \in Seq(Nat), NEW byte \in Nat, NEW last_byte \in Nat
    PROVE  TwoFilters(one, other, byte, last_byte) \in Seq(Nat)
<1>1. PICK a, b \in Seq(Nat) : a = String(one) /\ b = String(other)
  BY StringType
<1>2. PICK c, d \in Seq(Nat) : c = <<byte>> /\ d = <<last_byte>>
  <2>1. <<byte>> \in Seq(Nat) /\ <<last_byte>> \in Seq(Nat)
    OBVIOUS
  <2> QED BY <2>1
<1>3. (a \o c) \o (b \o d) \in Seq(Nat)
  OBVIOUS
<1> QED BY <1>1, <1>2, <1>3 DEF TwoFilters

\* Two sequences of two pieces each that agree piece by piece are the same.
LEMMA SamePair ==
    ASSUME NEW a \in Seq(Seq(Nat)), NEW c \in Seq(Seq(Nat)), Len(a) = 2, Len(c) = 2,
           a[1] = c[1], a[2] = c[2]
    PROVE  a = c
<1>1. \A i \in 1 .. Len(a) : i = 1 \/ i = 2
  OBVIOUS
<1>2. \A i \in 1 .. Len(a) : a[i] = c[i]
  BY <1>1
<1>3. Len(a) = Len(c)
  OBVIOUS
<1> QED BY <1>2, <1>3, SeqEqual

LEMMA FlattenTwo ==
    ASSUME NEW one \in Seq(Nat), NEW other \in Seq(Nat), NEW pieces, pieces = <<one, other>>
    PROVE  FlattenSeq(pieces) = one \o other
<1>1. PICK l, r \in Seq(Seq(Nat)) : l = <<one>> /\ r = <<other>>
  <2>1. <<one>> \in Seq(Seq(Nat)) /\ <<other>> \in Seq(Seq(Nat))
    OBVIOUS
  <2> QED BY <2>1
<1>2. l \o r = pieces
  <2>1. PICK p \in Seq(Seq(Nat)) : p = l \o r /\ Len(p) = 2 /\ p[1] = one /\ p[2] = other
    <3>1. /\ l \o r \in Seq(Seq(Nat)) /\ Len(l) = 1 /\ Len(r) = 1 /\ l[1] = one /\ r[1] = other
          /\ Len(l \o r) = Len(l) + Len(r)
          /\ \A i \in 1 .. Len(l) : (l \o r)[i] = l[i]
          /\ \A i \in 1 .. Len(r) : (l \o r)[Len(l) + i] = r[i]
      BY <1>1
    <3>2. Len(l \o r) = 2
      BY <3>1
    <3>3. (l \o r)[1] = one
      BY <3>1
    <3>4. (l \o r)[1 + 1] = other
      BY <3>1
    <3> QED BY <3>1, <3>2, <3>3, <3>4
  <2>2. pieces \in Seq(Seq(Nat)) /\ Len(pieces) = 2 /\ pieces[1] = one /\ pieces[2] = other
    OBVIOUS
  <2>4. p = pieces
    BY <2>1, <2>2, SamePair
  <2> QED BY <2>1, <2>4
<1>3. FlattenSeq(l \o r) = FlattenSeq(l) \o FlattenSeq(r)
  BY FlattenConcat
<1>4. FlattenSeq(l) = one /\ FlattenSeq(r) = other
  BY <1>1, FlattenOne
<1> QED BY <1>2, <1>3, <1>4

LEMMA SubscribeSays ==
    ASSUME NEW property \in SubscribeSet
    PROVE  SaysOne(SubscribeBytes(property), SUBSCRIBE_IDENTIFIER,
                   IF property.subscribe_id = 0 THEN <<>> ELSE remaining_length[property.subscribe_id],
                   property.user_property, PublishProperties)
<1>1. PICK n \in Nat : n = property.subscribe_id
  BY DEF SubscribeSet
<1>2. property.user_property \in Seq(Pairs)
  BY DEF SubscribeSet
<1>3. SUBSCRIBE_IDENTIFIER \in PublishProperties /\ USER_PROPERTY \in PublishProperties
      /\ Id(SUBSCRIBE_IDENTIFIER)
  BY IdsAre DEF Id, SUBSCRIBE_IDENTIFIER, USER_PROPERTY
<1>4. PICK v \in Seq(Nat) : v = IF n = 0 THEN <<>> ELSE remaining_length[n]
  BY EmptySeq, RemainingLengthType
<1>5. PICK b : b = Variable(SUBSCRIBE_IDENTIFIER, n)
  OBVIOUS
<1>6. Option(b, SUBSCRIBE_IDENTIFIER, v, PublishProperties)
  BY <1>3, <1>4, <1>5, VariableOption
<1>7. SaysOne(b \o UserProperties(property.user_property), SUBSCRIBE_IDENTIFIER, v,
              property.user_property, PublishProperties)
  BY <1>2, <1>3, <1>4, <1>6, OneSaid
<1> QED BY <1>1, <1>4, <1>5, <1>7 DEF SubscribeBytes

LEMMA SubscribeMade ==
    ASSUME NEW number \in Nat, NEW property \in SubscribeSet
    PROVE  PacketMade(mqtt5_msg_subscribe(Topics, number, property),
                      FirstByte(SUBSCRIBE, 1, 0), SubscribeRest(number, property))
<1>1. PICK p \in Seq(Nat) : p = SubscribeBytes(property)
  BY SubscribeSays, SaysType DEF SaysOne
<1>2. PICK f, g \in Seq(Nat) : /\ f = Filter(Topics[1].filter, property)
                               /\ g = Filter(Topics[2].filter, property)
  <2>1. property.share_name \in Seq(Nat)
    BY DEF SubscribeSet
  <2> QED BY <2>1, TopicsAre, FilterType
<1>3. PICK x \in Nat : x = SubscribeOptions(property)
  BY OptionsType
<1>4. PICK b1, b2 \in Nat : b1 = x + 1 /\ b2 = x + 2
  <2>1. x + 1 \in Nat /\ x + 2 \in Nat
    OBVIOUS
  <2> QED BY <2>1
<1>5. PICK tail \in Seq(Nat) : tail = TwoFilters(f, g, b1, b2)
  BY TwoFiltersType
<1>6. PICK fields : fields = [i \in DOMAIN Topics |->
                                 LET filter == Filter(Topics[i].filter, property)
                                 IN  Word(Len(filter)) \o filter \o <<x + Topics[i].qos>>]
  OBVIOUS
<1>7. FlattenSeq(fields) = tail
  <2>1. PICK c, d \in Seq(Nat) : c = String(f) \o <<b1>> /\ d = String(g) \o <<b2>>
    <3>1. PICK s, r, m, n \in Seq(Nat) : s = String(f) /\ r = String(g) /\ m = <<b1>> /\ n = <<b2>>
      <4>1. <<b1>> \in Seq(Nat) /\ <<b2>> \in Seq(Nat)
        OBVIOUS
      <4> QED BY <4>1, StringType
    <3>2. s \o m \in Seq(Nat) /\ r \o n \in Seq(Nat)
      OBVIOUS
    <3> QED BY <3>1, <3>2
  <2>2. fields[1] = c /\ fields[2] = d /\ fields = [i \in {1, 2} |-> fields[i]]
    <3>1. fields[1] = Word(Len(f)) \o f \o <<x + Topics[1].qos>>
      BY <1>2, <1>6, TopicsAre
    <3>2. fields[2] = Word(Len(g)) \o g \o <<x + Topics[2].qos>>
      BY <1>2, <1>6, TopicsAre
    <3>3. fields = [i \in {1, 2} |-> fields[i]]
      BY <1>6, TopicsAre
    <3> QED BY <1>4, <2>1, <3>1, <3>2, <3>3, TopicsAre DEF String
  <2>3. fields = <<c, d>>
    <3>1. <<c, d>> = [i \in {1, 2} |-> IF i = 1 THEN c ELSE d]
      OBVIOUS
    <3> QED BY <2>2, <3>1
  <2>4. FlattenSeq(fields) = c \o d
    BY <2>3, FlattenTwo
  <2> QED BY <1>5, <2>1, <2>4 DEF TwoFilters
<1>8. SUBSCRIBE \in {SUBSCRIBE, UNSUBSCRIBE}
  OBVIOUS
<1>9. PICK a : a = append_properties(append_message_id(Started, number), p)
  OBVIOUS
<1>10. PacketMade(fini_message5(append(a, tail), SUBSCRIBE, 1, 0, 0),
                  FirstByte(SUBSCRIBE, 1, 0), Request(number, p, tail))
  BY <1>8, <1>9, RequestBuilt
<1>11. mqtt5_msg_subscribe(Topics, number, property)
           = fini_message5(append(a, tail), SUBSCRIBE, 1, 0, 0)
  <2>1. ~ \E i \in DOMAIN Topics : Topics[i].filter = <<>>
    BY TopicsAre
  <2>2. mqtt5_msg_subscribe(Topics, number, property)
            = IF \E i \in DOMAIN Topics : Topics[i].filter = <<>> THEN Failed
              ELSE fini_message5(append(a, FlattenSeq(fields)), SUBSCRIBE, 1, 0, 0)
    BY <1>1, <1>3, <1>6, <1>9, Zenon DEF mqtt5_msg_subscribe, SubscribeBytes, SubscribeOptions
  <2> QED BY <1>7, <2>1, <2>2
<1> QED BY <1>1, <1>2, <1>3, <1>4, <1>5, <1>10, <1>11 DEF SubscribeRest


\* The rest of a SUBSCRIBE: its identifier, and the QoS of each filter.
SubscribeReads(bytes, property) ==
    LET read == PropertiesIn(bytes, Start5(bytes, Len(bytes)).offset + 2, PublishProperties)
        first == SubSeq(bytes, read.after + 3, read.after + 2 + WordAt(bytes, read.after))
        subscribe_id == TextOf(read.list, SUBSCRIBE_IDENTIFIER, <<0>>)
    IN  /\ Base128(subscribe_id, 0, Len(subscribe_id)) = property.subscribe_id
        /\ bytes[read.after + Len(first) + 3] % 4 = Topics[1].qos
        /\ bytes[Len(bytes)] % 4 = Topics[2].qos

LEMMA IdentifierRead ==
    ASSUME NEW list, NEW got, NEW users, Reads(list, got, users), NEW number \in Nat,
           got[SUBSCRIBE_IDENTIFIER] = IF number = 0 THEN <<>> ELSE remaining_length[number],
           NEW text
    PROVE  text = TextOf(list, SUBSCRIBE_IDENTIFIER, <<0>>) =>
               Base128(text, 0, Len(text)) = number
<1> HAVE text = TextOf(list, SUBSCRIBE_IDENTIFIER, <<0>>)
<1>1. PICK i : i = SUBSCRIBE_IDENTIFIER /\ i \in Nat /\ i # USER_PROPERTY
  BY DEF SUBSCRIBE_IDENTIFIER, USER_PROPERTY
<1>2. list \in Seq(Field) /\ Got(list, i) = got[i]
      /\ \A j \in 1 .. Len(list) : list[j].id = USER_PROPERTY \/ list[j].value # <<>>
  BY <1>1 DEF Reads, Given
<1>3. PICK k : k = LastOf(list, i)
  OBVIOUS
<1>4. /\ Got(list, i) = IF k = 0 THEN <<>> ELSE list[k].value
      /\ text = IF k = 0 THEN <<0>> ELSE list[k].value
  BY <1>1, <1>3, TextOfAt DEF Got
<1>5. k # 0 => k \in 1 .. Len(list) /\ list[k].id = i
  BY <1>2, <1>3, LastOfIs
<1>6. k # 0 => list[k].value # <<>>
  BY <1>1, <1>2, <1>5
<1>7. PICK r \in Seq(Nat) : r = remaining_length[number] /\ Len(r) >= 1
  BY RemainingLengthType
<1>8. r # <<>>
  BY <1>7
<1>9. CASE number = 0
  <2>1. k = 0 /\ text = <<0>>
    BY <1>1, <1>2, <1>4, <1>6, <1>9
  <2>2. Base128(text, 0, 0 + 1) = (text[0 + 1] % 128) + 128 * Base128(text, 0 + 1, 0)
    <3>1. 0 \in Nat
      OBVIOUS
    <3> QED BY <3>1, Base128Steps, ZenonT(60)
  <2>3. Base128(text, 0 + 1, 0) = 0
    <3>1. 0 + 1 \in Nat /\ 0 \in Nat
      OBVIOUS
    <3> QED BY <3>1, Base128Steps
  <2>4. text[0 + 1] = 0 /\ Len(text) = 0 + 1
    BY <2>1
  <2>5. (0 % 128) + 128 * 0 = 0
    OBVIOUS
  <2> QED BY <1>9, <2>2, <2>3, <2>4, <2>5
<1>10. CASE number # 0
  <2>1. text = r
    BY <1>1, <1>2, <1>4, <1>7, <1>8, <1>10
  <2>2. At(r, 0, r)
    BY AtWhole
  <2>3. Base128(r, 0, Len(r)) = number
    <3>1. At(r, 0, remaining_length[number]) /\ 0 \in Nat
      BY <1>7, <2>2
    <3> QED BY <1>7, <3>1, DigitsRead
  <2> QED BY <2>1, <2>3
<1> QED BY <1>9, <1>10

\* What a packet of two filters says after its properties.
FiltersIn(property, tail, text, byte, last_part) ==
    /\ text \in Seq(Nat) /\ byte \in Seq(Nat) /\ last_part \in Seq(Nat)
    /\ text = Filter(Topics[1].filter, property)
    /\ tail = (String(text) \o byte) \o last_part

LEMMA FirstFilterRead ==
    ASSUME NEW bytes, NEW first, NEW rest, NEW o, Opens(bytes, first, rest, o), NEW property,
           NEW got, NEW users, users = property.user_property, NEW tail,
           RequestFound(bytes, o, PublishProperties, got, users, tail),
           NEW text, NEW byte, NEW last_part, FiltersIn(property, tail, text, byte, last_part)
    PROVE  RequestReads(bytes, property)
<1> text \in Seq(Nat) /\ byte \in Seq(Nat) /\ last_part \in Seq(Nat)
  BY DEF FiltersIn
<1>1. PICK whole \in Seq(Nat) : whole = String(text)
  BY StringType
<1>2. Regrouped(whole, byte, last_part)
  BY ThreeParts
<1>3. PICK more \in Seq(Nat) : more = byte \o last_part
  <2>1. byte \o last_part \in Seq(Nat)
    OBVIOUS
  <2> QED BY <2>1
<1>4. tail = String(text) \o more
  BY <1>1, <1>2, <1>3 DEF Regrouped, FiltersIn
<1>5. text = Filter(Topics[1].filter, property)
  BY DEF FiltersIn
<1> QED BY <1>4, <1>5, FilterRead

LEMMA SubscribeRead ==
    ASSUME NEW number \in Nat, NEW property \in SubscribeSet,
           mqtt5_msg_subscribe(Topics, number, property).ok
    PROVE  /\ RequestReads(mqtt5_msg_subscribe(Topics, number, property).bytes, property)
           /\ SubscribeReads(mqtt5_msg_subscribe(Topics, number, property).bytes, property)
<1>1. PICK made : made = mqtt5_msg_subscribe(Topics, number, property)
  OBVIOUS
<1>2. PICK bytes, first, rest : /\ bytes = made.bytes /\ first = FirstByte(SUBSCRIBE, 1, 0)
                                /\ rest = SubscribeRest(number, property)
  OBVIOUS
<1>3. PICK o \in Nat : Opens(bytes, first, rest, o)
  BY <1>1, <1>2, SubscribeMade, PacketOpens
<1>4. PICK users \in Seq(Pairs) : users = property.user_property
  BY DEF SubscribeSet
<1>5. PICK n \in Nat : n = property.subscribe_id
  BY DEF SubscribeSet
<1>6. PICK got : /\ Says(SubscribeBytes(property), got, users, PublishProperties)
                 /\ got[SUBSCRIBE_IDENTIFIER] = IF n = 0 THEN <<>> ELSE remaining_length[n]
  BY <1>4, <1>5, SubscribeSays DEF SaysOne
<1>7. PICK f, g \in Seq(Nat) : /\ f = Filter(Topics[1].filter, property)
                               /\ g = Filter(Topics[2].filter, property)
  <2>1. property.share_name \in Seq(Nat)
    BY DEF SubscribeSet
  <2> QED BY <2>1, TopicsAre, FilterType
<1>8. PICK x, k \in Nat : x = SubscribeOptions(property) /\ x = 4 * k
  BY OptionsType
<1>9. PICK b1, b2 \in Nat : b1 = x + 1 /\ b2 = x + 2
  <2>1. x + 1 \in Nat /\ x + 2 \in Nat
    OBVIOUS
  <2> QED BY <2>1
<1>10. PICK s, r, m, d \in Seq(Nat) : /\ s = String(f) /\ r = String(g) /\ m = <<b1>> /\ d = <<b2>>
                                      /\ Len(s) = 2 + Len(f)
  <2>1. <<b1>> \in Seq(Nat) /\ <<b2>> \in Seq(Nat)
    OBVIOUS
  <2> QED BY <2>1, StringType
<1>11. PICK left, right \in Seq(Nat) : left = s \o m /\ right = r \o d
  <2>1. s \o m \in Seq(Nat) /\ r \o d \in Seq(Nat)
    OBVIOUS
  <2> QED BY <2>1
<1>12. PICK tail \in Seq(Nat) : tail = left \o right
  <2>1. left \o right \in Seq(Nat)
    OBVIOUS
  <2> QED BY <2>1
<1>13. rest = Request(number, SubscribeBytes(property), tail)
  <2>1. tail = TwoFilters(f, g, b1, b2)
    BY <1>10, <1>11, <1>12 DEF TwoFilters
  <2> QED BY <1>2, <1>7, <1>8, <1>9, <2>1 DEF SubscribeRest
<1>14. RequestFound(bytes, o, PublishProperties, got, users, tail)
  BY <1>3, <1>6, <1>12, <1>13, RequestOpens
<1>15. PICK after \in Nat : /\ FoundIn(bytes, o + 2, PublishProperties, after, got, users)
                            /\ At(bytes, after, tail) /\ after + Len(tail) = Len(bytes)
  BY <1>14 DEF RequestFound
<1>16. bytes \in Seq(Nat) /\ Start5(bytes, Len(bytes)).offset + 2 = o + 2
  BY <1>3 DEF Opens
<1>17. RequestReads(bytes, property)
  <2>1. FiltersIn(property, tail, f, m, right)
    BY <1>7, <1>10, <1>11, <1>12 DEF FiltersIn
  <2>2. users = property.user_property
    BY <1>4
  <2> QED BY <1>3, <1>14, <2>1, <2>2, FirstFilterRead
<1>18. At(bytes, after, left) /\ At(bytes, after + Len(left), right)
  BY <1>12, <1>15, <1>16, AtConcat
<1>19. At(bytes, after, s) /\ At(bytes, after + Len(s), m)
  BY <1>11, <1>16, <1>18, AtConcat
<1>20. SubSeq(bytes, after + 3, after + 2 + WordAt(bytes, after)) = f
  BY <1>10, <1>16, <1>19, StringRead
<1>21. bytes[after + Len(f) + 3] = b1
  <2>1. PICK p \in Nat : p = after + Len(s) /\ p + 1 = after + Len(f) + 3
    <3>1. Len(f) \in Nat /\ Len(s) \in Nat
      OBVIOUS
    <3>2. after + Len(s) \in Nat /\ (after + Len(s)) + 1 = after + Len(f) + 3
      BY <1>10, <3>1
    <3> QED BY <3>2
  <2>2. At(bytes, p, m)
    BY <1>19, <2>1
  <2>3. m[1] = b1 /\ 1 \in 1 .. Len(m)
    BY <1>10
  <2>4. bytes[p + 1] = m[1]
    BY <2>2, <2>3 DEF At
  <2> QED BY <2>1, <2>3, <2>4
<1>22. bytes[Len(bytes)] = b2
  <2>1. PICK p \in Nat : p = after + Len(left)
    OBVIOUS
  <2>2. At(bytes, p, r \o d)
    BY <1>11, <1>18, <2>1
  <2>3. At(bytes, p + Len(r), d)
    BY <1>16, <2>2, AtConcat
  <2>4. PICK q \in Nat : q = p + Len(r) /\ q + 1 = Len(bytes)
    <3>1. Len(tail) = Len(left) + Len(right) /\ Len(right) = Len(r) + Len(d) /\ Len(d) = 1
      BY <1>10, <1>11, <1>12
    <3>2. Len(left) \in Nat /\ Len(r) \in Nat /\ Len(bytes) = after + Len(tail)
      BY <1>15
    <3>3. PICK u, v \in Nat : u = Len(left) /\ v = Len(r)
      BY <3>2
    <3>4. Len(bytes) = after + (u + (v + 1)) /\ p = after + u
      BY <2>1, <3>1, <3>2, <3>3
    <3>5. p + v \in Nat /\ (p + v) + 1 = Len(bytes)
      BY <3>4
    <3> QED BY <3>3, <3>5
  <2>5. At(bytes, q, d)
    BY <2>3, <2>4
  <2>6. d[1] = b2 /\ 1 \in 1 .. Len(d)
    BY <1>10
  <2>7. bytes[q + 1] = d[1]
    BY <2>5, <2>6 DEF At
  <2> QED BY <2>4, <2>6, <2>7
<1>23. b1 % 4 = Topics[1].qos /\ b2 % 4 = Topics[2].qos
  <2>1. (4 * k + 1) % 4 = 1 /\ (4 * k + 2) % 4 = 2
    BY OptionsRead
  <2> QED BY <1>8, <1>9, <2>1, TopicsAre
<1>24. PICK read : read = PropertiesIn(bytes, o + 2, PublishProperties)
  OBVIOUS
<1>25. Reads(read.list, got, users) /\ read.after = after
  BY <1>15, <1>24 DEF FoundIn
<1>26. PICK given : given = TextOf(read.list, SUBSCRIBE_IDENTIFIER, <<0>>)
  OBVIOUS
<1>27. Base128(given, 0, Len(given)) = n
  BY <1>6, <1>25, <1>26, IdentifierRead
<1>28. SubscribeReads(bytes, property)
  BY <1>5, <1>16, <1>20, <1>21, <1>22, <1>23, <1>24, <1>25, <1>26, <1>27, Zenon DEF SubscribeReads
<1> QED BY <1>1, <1>2, <1>17, <1>28

----------------------------------------------------------------------------
(* CONNACK *)

LEMMA BytesType ==
    ASSUME NEW text \in Bytes
    PROVE  text \in Seq(Nat) /\ Len(text) \in Nat
<1>1. Byte \subseteq Nat
  BY DEF Byte
<1>2. Seq(Byte) \subseteq Seq(Nat)
  BY <1>1, SeqMonotonic
<1>3. text \in Seq(Nat)
  BY <1>2 DEF Bytes
<1> QED BY <1>3

\* The ids that a CONNACK may have: all but one are of strings, or of a fixed size.
LEMMA ConnackIds ==
    /\ \A id \in ConnackProperties : id \in Nat /\ id # 0
    /\ \A id \in ConnackProperties \ {USER_PROPERTY} :
           id \notin OneByte \cup TwoBytes \cup FourBytes => id \in Strings(ConnackProperties)
BY DEF Strings, ConnackProperties, OneByte, TwoBytes, FourBytes,
   PAYLOAD_FORMAT_INDICATOR, MESSAGE_EXPIRY_INTERVAL,
   SUBSCRIBE_IDENTIFIER, SESSION_EXPIRY_INTERVAL, ASSIGNED_CLIENT_IDENTIFIER,
   SERVER_KEEP_ALIVE, REQUEST_PROBLEM_INFO, WILL_DELAY_INTERVAL, REQUEST_RESP_INFO, RESP_INFO,
   REASON_STRING, RECEIVE_MAXIMUM, TOPIC_ALIAS_MAXIMUM, TOPIC_ALIAS, MAXIMUM_QOS,
   RETAIN_AVAILABLE, USER_PROPERTY, MAXIMUM_PACKET_SIZE

Sized(id) == id \in OneByte \cup TwoBytes \cup FourBytes

\* What a property of a CONNACK reads as: its value, or what follows the length of a string.
ConnackField(p) ==
    Plain(p.id, IF Sized(p.id) THEN p.value ELSE SubSeq(p.value, 3, Len(p.value)))

\* One that reads back.
ConnackReads(p) ==
    /\ ConnackField(p) \in Field /\ p.id \in ConnackProperties /\ p.id # USER_PROPERTY
    /\ p.value \in Seq(Nat) /\ (Sized(p.id) => Sizes(p.id, p.value))
    /\ Carries(<<p.id>> \o p.value, <<ConnackField(p)>>, ConnackProperties)

LEMMA ConnackFieldRead ==
    ASSUME NEW p \in ConnackProperty
    PROVE  ConnackReads(p)
<1>1. /\ p.id \in ConnackProperties /\ p.id # USER_PROPERTY /\ p.value \in Bytes
      /\ \/ p.id \in OneByte /\ Len(p.value) = 1
         \/ p.id \in TwoBytes /\ Len(p.value) = 2
         \/ p.id \in FourBytes /\ Len(p.value) = 4
         \/ /\ p.id \notin OneByte \cup TwoBytes \cup FourBytes
            /\ Len(p.value) >= 2
            /\ p.value = Word(Len(p.value) - 2) \o SubSeq(p.value, 3, Len(p.value))
  BY DEF ConnackProperty
<1>2. PICK i \in Nat : i = p.id /\ i # 0
  BY <1>1, ConnackIds
<1>3. PICK v \in Seq(Nat) : v = p.value
  BY <1>1, BytesType
<1>4. CASE Sized(i)
  <2>1. Sizes(i, v)
    BY <1>1, <1>2, <1>3, <1>4 DEF Sizes, Sized
  <2>2. ConnackField(p) = Plain(i, v)
    BY <1>2, <1>3, <1>4 DEF ConnackField
  <2>3. Plain(i, v) \in Field
    BY PlainType
  <2>4. Carries(<<i>> \o v, <<Plain(i, v)>>, ConnackProperties)
    BY <1>1, <1>2, <2>1, SizedCarries
  <2> QED BY <1>1, <1>2, <1>3, <2>1, <2>2, <2>3, <2>4 DEF ConnackReads
<1>5. CASE ~ Sized(i)
  <2>1. Len(v) \in Nat /\ Len(v) >= 2 /\ v = Word(Len(v) - 2) \o SubSeq(v, 3, Len(v))
    <3>1. i \notin OneByte \cup TwoBytes \cup FourBytes
      BY <1>5 DEF Sized
    <3>2. Len(v) >= 2 /\ v = Word(Len(v) - 2) \o SubSeq(v, 3, Len(v))
      BY <1>1, <1>2, <1>3, <3>1, Zenon
    <3>3. Len(v) \in Nat
      OBVIOUS
    <3> QED BY <3>2, <3>3
  <2>2. PICK t \in Seq(Nat) : t = SubSeq(v, 3, Len(v)) /\ Len(t) = Len(v) - 2
    <3>1. SubSeq(v, 3, Len(v)) \in Seq(Nat) /\ Len(SubSeq(v, 3, Len(v))) = Len(v) - 2
      <4>1. PICK n \in Nat : n = Len(v) /\ n >= 2
        BY <2>1
      <4>2. SubSeq(v, 3, n) \in Seq(Nat) /\ Len(SubSeq(v, 3, n)) = n - 2
        BY <4>1
      <4> QED BY <4>1, <4>2
    <3> QED BY <3>1
  <2>5. t \in Seq(Nat) /\ t = SubSeq(v, 3, Len(v))
    BY <2>2
  <2>6. v = String(t)
    BY <2>1, <2>2 DEF String
  <2>7. i \in Strings(ConnackProperties)
    BY <1>1, <1>2, <1>5, ConnackIds DEF Sized
  <2>8. Carries(<<i>> \o String(t), <<Plain(i, t)>>, ConnackProperties)
    BY <2>5, <2>7, TextCarries
  <2>9. ConnackField(p) = Plain(i, t)
    BY <1>2, <1>3, <1>5, <2>5 DEF ConnackField
  <2>10. Plain(i, t) \in Field
    BY <2>5, PlainType
  <2> QED BY <1>1, <1>2, <1>3, <1>5, <2>6, <2>8, <2>9, <2>10 DEF ConnackReads
<1> QED BY <1>4, <1>5

ConnackFields(list) == [i \in 1 .. Len(list) |-> ConnackField(list[i])]
ConnackBytes(list) == FlattenSeq([i \in DOMAIN list |-> <<list[i].id>> \o list[i].value])

LEMMA ConnackCarries ==
    ASSUME NEW list \in Seq(ConnackProperty)
    PROVE  Carries(ConnackBytes(list), ConnackFields(list), ConnackProperties)
<1>1. PICK fields : fields = ConnackFields(list)
  OBVIOUS
<1>2. PICK pieces : pieces = [i \in DOMAIN list |-> <<list[i].id>> \o list[i].value]
  OBVIOUS
<1>3. PICK n \in Nat : n = Len(list) /\ DOMAIN list = 1 .. n
  OBVIOUS
<1>4. ASSUME NEW i \in 1 .. n
      PROVE  /\ fields[i] \in Field /\ pieces[i] \in Seq(Nat)
             /\ Carries(pieces[i], <<fields[i]>>, ConnackProperties)
  <2>1. PICK p \in ConnackProperty : p = list[i]
    BY <1>3
  <2>2. ConnackReads(p)
    BY ConnackFieldRead
  <2>3. fields[i] = ConnackField(p) /\ pieces[i] = <<p.id>> \o p.value
    BY <1>1, <1>2, <1>3, <2>1 DEF ConnackFields
  <2>4. Carries(pieces[i], <<fields[i]>>, ConnackProperties)
    BY <2>2, <2>3 DEF ConnackReads
  <2>5. pieces[i] \in Seq(Nat)
    BY <2>4 DEF Carries
  <2>6. fields[i] \in Field
    BY <2>2, <2>3 DEF ConnackReads
  <2> QED BY <2>4, <2>5, <2>6
<1>5. fields \in [1 .. n -> Field] /\ pieces \in [1 .. n -> Seq(Nat)]
  <2>1. fields = [i \in 1 .. n |-> fields[i]]
    BY <1>1, <1>3 DEF ConnackFields
  <2>2. pieces = [i \in 1 .. n |-> pieces[i]]
    BY <1>2, <1>3
  <2> QED BY <1>4, <2>1, <2>2
<1>6. fields \in Seq(Field) /\ Len(fields) = n
  BY <1>5, IsASeq, LenProperties
<1>7. pieces \in Seq(Seq(Nat)) /\ Len(pieces) = n
  BY <1>5, IsASeq, LenProperties
<1>8. Carries(FlattenSeq(pieces), fields, ConnackProperties)
  <2>1. Len(pieces) = Len(fields) /\ \A i \in 1 .. Len(fields) : Carries(pieces[i], <<fields[i]>>, ConnackProperties)
    BY <1>4, <1>6, <1>7
  <2> QED BY <1>6, <1>7, <2>1, FlattenCarries
<1> QED BY <1>1, <1>2, <1>8 DEF ConnackBytes

\* What a list of properties leaves of the settings: what it names, and the rest as before.
ServerOf(list, old) ==
    [receive_maximum |-> NumberOf(list, RECEIVE_MAXIMUM, old.receive_maximum),
     max_qos |-> NumberOf(list, MAXIMUM_QOS, old.max_qos),
     retain_available |-> NumberOf(list, RETAIN_AVAILABLE, old.retain_available),
     maximum_packet_size |-> NumberOf(list, MAXIMUM_PACKET_SIZE, old.maximum_packet_size),
     topic_alias_maximum |-> NumberOf(list, TOPIC_ALIAS_MAXIMUM, old.topic_alias_maximum),
     wildcard_subscribe_available |-> NumberOf(list, 40, old.wildcard_subscribe_available),
     subscribe_identifiers_available |-> NumberOf(list, 41, old.subscribe_identifiers_available),
     shared_subscribe_available |-> NumberOf(list, 42, old.shared_subscribe_available),
     response_info |-> TextOf(list, RESP_INFO, old.response_info)]
ConnectOf(list, old) ==
    [old EXCEPT !.session_expiry_interval = NumberOf(list, SESSION_EXPIRY_INTERVAL, @)]
InfoOf(list, old) ==
    [old EXCEPT !.keepalive = NumberOf(list, SERVER_KEEP_ALIVE, @),
                !.client_id = TextOf(list, ASSIGNED_CLIENT_IDENTIFIER, @)]

\* mqtt5_msg_parse_connack_property, a name for each part.
ConnackSteps(parsed, buffer, length, old) ==
    \E start, size, list :
        /\ start = Start5(buffer, length)
        /\ size = get_variable_len(buffer, start.offset + 2, length)
        /\ list = Properties(buffer, start.offset + 2 + size.bytes, size.len, ConnackProperties)
        /\ parsed = [ok |-> start.total <= length /\ WellFormed(list),
                     ack_flag |-> buffer[start.offset + 1],
                     reason_code |-> buffer[start.offset + 2],
                     user_property |-> UserPropertiesOf(list),
                     server |-> ServerOf(list, old.server),
                     connect |-> ConnectOf(list, old.connect),
                     info |-> InfoOf(list, old.info)]

LEMMA ConnackStepsOf ==
    ASSUME NEW buffer, NEW length, NEW old
    PROVE  ConnackSteps(mqtt5_msg_parse_connack_property(buffer, length, old), buffer, length, old)
BY Zenon DEF mqtt5_msg_parse_connack_property, ConnackSteps, ServerOf, ConnectOf, InfoOf

\* What the client takes from a CONNACK.
ConnackTaken(parsed, fields, code, old) ==
    /\ parsed.ok /\ parsed.reason_code = code
    /\ parsed.server = ServerOf(fields, old.server)
    /\ parsed.connect = ConnectOf(fields, old.connect)
    /\ parsed.info = InfoOf(fields, old.info)

\* The bytes of a CONNACK of any broker.
ConnackOpens(bytes, code, properties, o) ==
    /\ bytes \in Seq(Nat) /\ o \in Nat
    /\ Start5(bytes, Len(bytes)) = [offset |-> o, total |-> Len(bytes)]
    /\ bytes[o + 2] = code
    /\ At(bytes, o + 2, Prefixed(properties)) /\ o + 2 + Len(Prefixed(properties)) = Len(bytes)

LEMMA ConnackBytesOpen ==
    ASSUME NEW ack, ack.code \in Nat, ConnackBytes(ack.list) \in Seq(Nat)
    PROVE  \E o \in Nat : ConnackOpens(Connack(ack), ack.code, ConnackBytes(ack.list), o)
<1>1. PICK p \in Seq(Nat) : p = ConnackBytes(ack.list)
  OBVIOUS
<1>2. PICK code \in Nat : code = ack.code
  OBVIOUS
<1>3. PICK z \in Nat : z = 0
  OBVIOUS
<1>4. PICK h \in Seq(Nat) : h = <<z, code>> /\ Len(h) = 2 /\ h[2] = code
  <2>1. <<z, code>> \in Seq(Nat) /\ Len(<<z, code>>) = 2 /\ <<z, code>>[2] = code
    BY <1>2, <1>3
  <2> QED BY <2>1
<1>5. PICK r \in Seq(Nat) : r = remaining_length[Len(p)]
  BY RemainingLengthType
<1>6. PICK tail \in Seq(Nat) : tail = r \o p /\ tail = Prefixed(p)
  <2>1. r \o p \in Seq(Nat)
    OBVIOUS
  <2> QED BY <1>5, <2>1 DEF Prefixed
<1>7. PICK body \in Seq(Nat) : body = h \o tail /\ body = (h \o r) \o p
                               /\ Len(body) = 2 + Len(tail)
  <2>1. Regrouped(h, r, p)
    BY ThreeParts
  <2>2. h \o tail \in Seq(Nat) /\ Len(h \o tail) = Len(h) + Len(tail)
    OBVIOUS
  <2> QED BY <1>4, <1>6, <2>1, <2>2 DEF Regrouped
<1>8. CONNACK * 16 = 32
  BY DEF CONNACK
<1>9. PICK bytes : bytes = Connack(ack)
  OBVIOUS
<1>10. bytes = Frame(32, body)
  <2>1. bytes = (<<32>> \o remaining_length[Len(body)]) \o body
    BY <1>1, <1>2, <1>3, <1>4, <1>5, <1>7, <1>8, <1>9, Zenon DEF Connack, ConnackBytes
  <2> QED BY <2>1 DEF Frame
<1>11. bytes \in Seq(Nat)
  BY <1>10, FrameType
<1>12. PICK o \in Nat : /\ Start5(bytes, Len(bytes)) = [offset |-> o, total |-> Len(bytes)]
                        /\ At(bytes, o, body) /\ o + Len(body) = Len(bytes)
  <2>1. 1 + Len(remaining_length[Len(body)]) \in Nat
    BY <1>10, <1>11, FrameRead
  <2> QED BY <1>10, <1>11, <2>1, FrameRead
<1>13. At(bytes, o, h) /\ At(bytes, o + Len(h), tail)
  <2>1. At(bytes, o, h \o tail)
    BY <1>7, <1>12, Zenon
  <2> QED BY <1>11, <2>1, AtConcat
<1>14. bytes[o + 2] = code
  <2>1. 2 \in 1 .. Len(h)
    BY <1>4
  <2> QED BY <1>4, <1>13, <2>1 DEF At
<1>15. o + 2 + Len(tail) = Len(bytes)
  <2>1. Len(tail) \in Nat
    OBVIOUS
  <2> QED BY <1>7, <1>12, <2>1
<1>16. ConnackOpens(bytes, code, p, o)
  BY <1>4, <1>6, <1>11, <1>12, <1>13, <1>14, <1>15 DEF ConnackOpens
<1> QED BY <1>1, <1>2, <1>9, <1>16

LEMMA ConnackParsed ==
    ASSUME NEW ack, ack.code \in Nat, ack.list \in Seq(ConnackProperty), NEW old
    PROVE  ConnackTaken(mqtt5_msg_parse_connack_property(Connack(ack), Len(Connack(ack)), old),
                        ConnackFields(ack.list), ack.code, old)
<1>1. PICK p, fields, code, bytes : /\ p = ConnackBytes(ack.list) /\ fields = ConnackFields(ack.list)
                                    /\ code = ack.code /\ bytes = Connack(ack)
  OBVIOUS
<1>2. Carries(p, fields, ConnackProperties)
  BY <1>1, ConnackCarries
<1>3. p \in Seq(Nat) /\ fields \in Seq(Field)
  BY <1>2 DEF Carries
<1>4. PICK o \in Nat : ConnackOpens(bytes, code, p, o)
  BY <1>1, <1>3, ConnackBytesOpen
<1>5. PICK l \in Nat : l = Len(bytes)
  BY <1>4 DEF ConnackOpens
<1>6. PICK at \in Nat : at = o + 2
  OBVIOUS
<1>7. /\ bytes \in Seq(Nat) /\ Start5(bytes, l) = [offset |-> o, total |-> l]
      /\ bytes[o + 2] = code /\ At(bytes, at, Prefixed(p)) /\ at + Len(Prefixed(p)) <= l
      /\ l <= Len(bytes)
  BY <1>4, <1>5, <1>6 DEF ConnackOpens
<1>8. PICK k \in Nat : /\ get_variable_len(bytes, at, l) = [len |-> Len(p), bytes |-> k]
                       /\ At(bytes, at + k, p)
  BY <1>3, <1>7, PrefixedRead
<1>9. Properties(bytes, at + k, Len(p), ConnackProperties) = fields
  <2>1. at + k \in Nat
    OBVIOUS
  <2> QED BY <1>2, <1>7, <1>8, <2>1, CarriesAll
<1>10. PICK parsed : parsed = mqtt5_msg_parse_connack_property(bytes, l, old)
  OBVIOUS
<1>11. PICK start, size, list :
        /\ start = Start5(bytes, l)
        /\ size = get_variable_len(bytes, start.offset + 2, l)
        /\ list = Properties(bytes, start.offset + 2 + size.bytes, size.len, ConnackProperties)
        /\ parsed = [ok |-> start.total <= l /\ WellFormed(list),
                     ack_flag |-> bytes[start.offset + 1],
                     reason_code |-> bytes[start.offset + 2],
                     user_property |-> UserPropertiesOf(list),
                     server |-> ServerOf(list, old.server),
                     connect |-> ConnectOf(list, old.connect),
                     info |-> InfoOf(list, old.info)]
  BY <1>10, ConnackStepsOf DEF ConnackSteps
<1>12. start.offset = o /\ start.total = l
  BY <1>7, <1>11
<1>13. size.len = Len(p) /\ size.bytes = k
  BY <1>6, <1>8, <1>11, <1>12
<1>14. list = fields
  BY <1>6, <1>9, <1>11, <1>12, <1>13
<1>15. WellFormed(fields)
  <2>1. \A i \in 1 .. Len(fields) : fields[i].id # Malformed.id
    <3>1. SUFFICES ASSUME NEW i \in 1 .. Len(fields) PROVE fields[i].id # 0
      BY DEF Malformed
    <3>2. PICK q \in ConnackProperty : q = ack.list[i] /\ fields[i] = ConnackField(q)
      <4>1. PICK n \in Nat : n = Len(ack.list)
        OBVIOUS
      <4>2. fields = [j \in 1 .. n |-> ConnackField(ack.list[j])]
        BY <1>1, <4>1 DEF ConnackFields
      <4>3. DOMAIN fields = 1 .. n
        BY <4>2
      <4>4. i \in 1 .. n
        BY <1>3, <4>3
      <4> QED BY <4>1, <4>2, <4>4
    <3>3. ConnackReads(q)
      BY ConnackFieldRead
    <3>4. fields[i].id = q.id
      BY <3>2 DEF ConnackField, Plain
    <3> QED BY <3>3, <3>4, ConnackIds DEF ConnackReads
  <2>2. DOMAIN fields = 1 .. Len(fields)
    BY <1>3
  <2> QED BY <2>1, <2>2 DEF WellFormed
<1>16. parsed.ok = (start.total <= l /\ WellFormed(list)) /\ parsed.reason_code = bytes[start.offset + 2]
       /\ parsed.server = ServerOf(list, old.server) /\ parsed.connect = ConnectOf(list, old.connect)
       /\ parsed.info = InfoOf(list, old.info)
  BY <1>11, Zenon
<1>17. ConnackTaken(parsed, fields, code, old)
  <2>1. parsed.ok
    <3>1. start.total <= l
      BY <1>5, <1>12
    <3> QED BY <1>14, <1>15, <1>16, <3>1, Zenon
  <2> QED BY <1>7, <1>12, <1>14, <1>16, <2>1, Zenon DEF ConnackTaken
<1> QED BY <1>1, <1>5, <1>10, <1>17

LEMMA ConnackFieldsType ==
    ASSUME NEW list \in Seq(ConnackProperty)
    PROVE  /\ ConnackFields(list) \in Seq(Field) /\ Len(ConnackFields(list)) = Len(list)
           /\ \A i \in 1 .. Len(list) : /\ ConnackReads(list[i])
                                        /\ ConnackFields(list)[i] = ConnackField(list[i])
<1>1. PICK fields : fields = ConnackFields(list)
  OBVIOUS
<1>2. PICK n \in Nat : n = Len(list)
  OBVIOUS
<1>3. fields = [i \in 1 .. n |-> ConnackField(list[i])]
  BY <1>1, <1>2 DEF ConnackFields
<1>4. fields \in Seq(Field)
  BY <1>1, ConnackCarries DEF Carries
<1>5. DOMAIN fields = 1 .. n
  BY <1>3
<1>6. Len(fields) = n
  BY <1>4, <1>5, LenProperties
<1>7. ASSUME NEW i \in 1 .. n PROVE ConnackReads(list[i]) /\ fields[i] = ConnackField(list[i])
  <2>1. list[i] \in ConnackProperty
    BY <1>2
  <2> QED BY <1>3, <2>1, ConnackFieldRead
<1> QED BY <1>1, <1>2, <1>4, <1>6, <1>7

LEMMA ConnackLast ==
    ASSUME NEW list \in Seq(ConnackProperty), NEW id
    PROVE  LastOf(ConnackFields(list), id) = LastOf(list, id)
<1>1. PICK fields : fields = ConnackFields(list)
  OBVIOUS
<1>2. PICK n \in Nat : n = Len(list) /\ n = Len(fields)
  BY <1>1, ConnackFieldsType
<1>3. \A i \in 1 .. n : fields[i].id = list[i].id
  <2>1. ASSUME NEW i \in 1 .. n PROVE fields[i].id = list[i].id
    <3>1. PICK p : p = list[i]
      OBVIOUS
    <3>2. fields[i] = ConnackField(p)
      BY <1>1, <1>2, <3>1, ConnackFieldsType
    <3> QED BY <3>1, <3>2 DEF ConnackField, Plain
  <2> QED BY <2>1
<1>4. {i \in 1 .. n : fields[i].id = id} = {i \in 1 .. n : list[i].id = id}
  BY <1>3
<1>5. PICK I : I = {i \in 1 .. n : list[i].id = id}
  OBVIOUS
<1>6. LastOf(list, id) = IF I # {} THEN Max(I) ELSE 0
  BY <1>2, <1>5 DEF LastOf, SelectLastInSeq
<1>7. LastOf(fields, id) = IF I # {} THEN Max(I) ELSE 0
  BY <1>2, <1>4, <1>5 DEF LastOf, SelectLastInSeq
<1> QED BY <1>1, <1>6, <1>7

LEMMA ValueType ==
    ASSUME NEW id, NEW value \in Seq(Nat), Sizes(id, value)
    PROVE  Value(value) \in Nat
<1>1. CASE Len(value) = 1
  <2>1. value[1] \in Nat
    BY <1>1
  <2> QED BY <1>1, <2>1 DEF Value
<1>2. CASE Len(value) = 2
  <2>1. PICK a, b \in Nat : a = value[1] /\ b = value[2]
    BY <1>2
  <2>2. Value(value) = a * 256 + b
    BY <1>2, <2>1 DEF Value, WordAt
  <2> QED BY <2>2
<1>3. CASE Len(value) = 4
  <2>1. PICK a, b, c, d \in Nat : a = value[1] /\ b = value[2] /\ c = value[3] /\ d = value[4]
    BY <1>3, SMTT(30)
  <2>2. Value(value) = (a * 256 + b) * 65536 + (c * 256 + d)
    BY <1>3, <2>1 DEF Value, WordAt
  <2>3. PICK m \in Nat : m = a * 256 + b
    OBVIOUS
  <2> QED BY <2>2, <2>3
<1> QED BY <1>1, <1>2, <1>3 DEF Sizes

LEMMA ConnackNumber ==
    ASSUME NEW list \in Seq(ConnackProperty), NEW id, Sized(id), NEW default
    PROVE  /\ NumberOf(ConnackFields(list), id, default) = NumberOf(list, id, default)
           /\ default \in Nat => NumberOf(list, id, default) \in Nat
<1>1. PICK fields \in Seq(Field) : fields = ConnackFields(list) /\ Len(fields) = Len(list)
  BY ConnackFieldsType
<1>2. PICK k : k = LastOf(list, id) /\ k = LastOf(fields, id)
  BY <1>1, ConnackLast
<1>3. CASE k = 0
  BY <1>1, <1>2, <1>3, TextOfAt
<1>4. CASE k # 0
  <2>1. k \in 1 .. Len(list) /\ fields[k].id = id
    BY <1>1, <1>2, <1>4, LastOfIs
  <2>2. PICK p : p = list[k]
    OBVIOUS
  <2>3. ConnackReads(p) /\ fields[k] = ConnackField(p)
    BY <1>1, <2>1, <2>2, ConnackFieldsType
  <2>4. p.id = id
    BY <2>1, <2>3 DEF ConnackField, Plain
  <2>5. fields[k].value = p.value
    BY <2>3, <2>4 DEF ConnackField, Plain
  <2>6. Value(p.value) \in Nat
    <3>1. p.value \in Seq(Nat) /\ Sizes(p.id, p.value)
      BY <2>3, <2>4 DEF ConnackReads
    <3> QED BY <3>1, ValueType
  <2>7. NumberOf(list, id, default) = Value(p.value)
    BY <1>2, <1>4, <2>2, TextOfAt
  <2>8. NumberOf(fields, id, default) = Value(p.value)
    BY <1>2, <1>4, <2>5, TextOfAt
  <2> QED BY <1>1, <2>6, <2>7, <2>8
<1> QED BY <1>3, <1>4

LEMMA ConnackText ==
    ASSUME NEW list \in Seq(ConnackProperty), NEW id, NEW default \in Seq(Nat)
    PROVE  TextOf(ConnackFields(list), id, default) \in Seq(Nat)
<1>1. PICK fields \in Seq(Field) : fields = ConnackFields(list) /\ Len(fields) = Len(list)
  BY ConnackFieldsType
<1>2. PICK k : k = LastOf(fields, id)
  OBVIOUS
<1>3. CASE k = 0
  BY <1>1, <1>2, <1>3, TextOfAt
<1>4. CASE k # 0
  <2>1. k \in 1 .. Len(fields)
    BY <1>2, <1>4, LastOfIs
  <2>2. fields[k].value \in Seq(Nat)
    <3>1. PICK f \in Field : f = fields[k]
      BY <2>1
    <3> QED BY <3>1 DEF Field
  <2> QED BY <1>1, <1>2, <1>4, <2>2, TextOfAt
<1> QED BY <1>3, <1>4

\* What the client keeps of its brokers, and of its configuration.
ServerSet ==
    [receive_maximum : Nat, max_qos : Nat, retain_available : Nat, maximum_packet_size : Nat,
     topic_alias_maximum : Nat, wildcard_subscribe_available : Nat,
     subscribe_identifiers_available : Nat, shared_subscribe_available : Nat,
     response_info : Seq(Nat)]
InfoSet ==
    [client_id : Seq(Nat), username : Seq(Nat), password : Seq(Nat), will_topic : Seq(Nat),
     will_message : Seq(Nat), will_qos : 0 .. 2, will_retain : BOOLEAN, clean_session : BOOLEAN,
     keepalive : Nat]

LEMMA SizedIds ==
    /\ Sized(RECEIVE_MAXIMUM) /\ Sized(MAXIMUM_QOS) /\ Sized(RETAIN_AVAILABLE)
    /\ Sized(MAXIMUM_PACKET_SIZE) /\ Sized(TOPIC_ALIAS_MAXIMUM) /\ Sized(40) /\ Sized(41)
    /\ Sized(42) /\ Sized(SESSION_EXPIRY_INTERVAL) /\ Sized(SERVER_KEEP_ALIVE)
BY DEF Sized, OneByte, TwoBytes, FourBytes

\* The numbers that a CONNACK leaves are those that it names as they are written.
LEMMA ServerTaken ==
    ASSUME NEW list \in Seq(ConnackProperty), NEW old \in ServerSet, NEW new,
           new = ServerOf(ConnackFields(list), old)
    PROVE  /\ new \in ServerSet
           /\ new.receive_maximum = NumberOf(list, RECEIVE_MAXIMUM, old.receive_maximum)
           /\ new.max_qos = NumberOf(list, MAXIMUM_QOS, old.max_qos)
           /\ new.retain_available = NumberOf(list, RETAIN_AVAILABLE, old.retain_available)
           /\ new.topic_alias_maximum
                  = NumberOf(list, TOPIC_ALIAS_MAXIMUM, old.topic_alias_maximum)
<1>1. PICK fields : fields = ConnackFields(list)
  OBVIOUS
<1>2. /\ old.receive_maximum \in Nat /\ old.max_qos \in Nat /\ old.retain_available \in Nat
      /\ old.maximum_packet_size \in Nat /\ old.topic_alias_maximum \in Nat
      /\ old.wildcard_subscribe_available \in Nat /\ old.subscribe_identifiers_available \in Nat
      /\ old.shared_subscribe_available \in Nat /\ old.response_info \in Seq(Nat)
  BY DEF ServerSet
<1>3. PICK a1, a2, a3, a4, a5, a6, a7, a8, t :
        /\ a1 = NumberOf(fields, RECEIVE_MAXIMUM, old.receive_maximum)
        /\ a2 = NumberOf(fields, MAXIMUM_QOS, old.max_qos)
        /\ a3 = NumberOf(fields, RETAIN_AVAILABLE, old.retain_available)
        /\ a4 = NumberOf(fields, MAXIMUM_PACKET_SIZE, old.maximum_packet_size)
        /\ a5 = NumberOf(fields, TOPIC_ALIAS_MAXIMUM, old.topic_alias_maximum)
        /\ a6 = NumberOf(fields, 40, old.wildcard_subscribe_available)
        /\ a7 = NumberOf(fields, 41, old.subscribe_identifiers_available)
        /\ a8 = NumberOf(fields, 42, old.shared_subscribe_available)
        /\ t = TextOf(fields, RESP_INFO, old.response_info)
  OBVIOUS
<1>4. /\ a1 \in Nat /\ a1 = NumberOf(list, RECEIVE_MAXIMUM, old.receive_maximum)
      /\ a2 \in Nat /\ a2 = NumberOf(list, MAXIMUM_QOS, old.max_qos)
      /\ a3 \in Nat /\ a3 = NumberOf(list, RETAIN_AVAILABLE, old.retain_available)
      /\ a4 \in Nat
      /\ a5 \in Nat /\ a5 = NumberOf(list, TOPIC_ALIAS_MAXIMUM, old.topic_alias_maximum)
      /\ a6 \in Nat /\ a7 \in Nat /\ a8 \in Nat
  BY <1>1, <1>2, <1>3, SizedIds, ConnackNumber
<1>5. t \in Seq(Nat)
  BY <1>1, <1>2, <1>3, ConnackText
<1>6. new = [receive_maximum |-> a1, max_qos |-> a2, retain_available |-> a3,
             maximum_packet_size |-> a4, topic_alias_maximum |-> a5,
             wildcard_subscribe_available |-> a6, subscribe_identifiers_available |-> a7,
             shared_subscribe_available |-> a8, response_info |-> t]
  BY <1>1, <1>3, Zenon DEF ServerOf
<1>7. new \in ServerSet
  BY <1>4, <1>5, <1>6 DEF ServerSet
<1> QED BY <1>4, <1>6, <1>7


----------------------------------------------------------------------------
(* What the client keeps, in types *)

LEMMA PairListType == UserPropertyList \subseteq Seq(Pairs)
<1>1. [key : Bytes, value : Bytes] \subseteq Pairs
  <2>1. Bytes \subseteq Seq(Nat)
    BY BytesType
  <2> QED BY <2>1 DEF Pairs
<1> QED BY <1>1, SeqMonotonic DEF UserPropertyList

\* What the application passes to esp_mqtt5_client_set_connect_property.
ConnectGiven ==
    [session_expiry_interval : Nat, maximum_packet_size : Nat, receive_maximum : Nat,
     topic_alias_maximum : Nat, request_resp_info : BOOLEAN, request_problem_info : BOOLEAN,
     user_property : Seq(Pairs), will_delay_interval : Nat, message_expiry_interval : Nat,
     payload_format_indicator : BOOLEAN, content_type : Seq(Nat), response_topic : Seq(Nat),
     correlation_data : Seq(Nat), will_user_property : Seq(Pairs)]

LEMMA SettingsGiven ==
    /\ Info \in InfoSet /\ ConnectSettings \subseteq ConnectGiven
    /\ PublishSettings \subseteq PublishSet /\ SubscribeSettings \subseteq SubscribeSet
    /\ UnsubscribeSettings \subseteq UnsubscribeSet /\ DisconnectSettings \subseteq DisconnectSet
<1>1. PICK B : B = Bytes
  OBVIOUS
<1>2. PICK L : L = UserPropertyList
  OBVIOUS
<1>3. B \subseteq Seq(Nat) /\ L \subseteq Seq(Pairs)
  BY <1>1, <1>2, BytesType, PairListType
<1>4. PICK W, V, C : W = Word16 /\ V = Word32 /\ C = Byte
  OBVIOUS
<1>5. W \subseteq Nat /\ V \subseteq Nat /\ C \subseteq Nat
  <2>1. W \subseteq Nat /\ C \subseteq Nat
    BY <1>4 DEF Word16, Byte
  <2>2. V \subseteq Nat
    <3>1. ASSUME NEW n \in Word32 PROVE n \in Nat
      BY <3>1 DEF Word32
    <3> QED BY <1>4, <3>1
  <2> QED BY <2>1, <2>2
<1>6. Info \in InfoSet
  BY <1>1, <1>3, <1>4, <1>5, SettingsAssumption DEF InfoSet
<1>7. ConnectSettings \subseteq ConnectGiven
  BY <1>1, <1>2, <1>3, <1>4, <1>5, SettingsAssumption DEF ConnectGiven
<1>8. PublishSettings \subseteq PublishSet
  <2>1. PICK N : N = {0} /\ N \subseteq Nat
    <3>1. {0} \subseteq Nat
      OBVIOUS
    <3> QED BY <3>1
  <2> QED BY <1>1, <1>2, <1>3, <1>4, <1>5, <2>1, SettingsAssumption DEF PublishSet
<1>9. SubscribeSettings \subseteq SubscribeSet
  BY <1>1, <1>2, <1>3, <1>4, <1>5, SettingsAssumption DEF SubscribeSet
<1>10. UnsubscribeSettings \subseteq UnsubscribeSet
  BY <1>1, <1>2, <1>3, <1>4, <1>5, SettingsAssumption DEF UnsubscribeSet
<1>11. DisconnectSettings \subseteq DisconnectSet
  BY <1>1, <1>2, <1>3, <1>4, <1>5, SettingsAssumption DEF DisconnectSet
<1> QED BY <1>6, <1>7, <1>8, <1>9, <1>10, <1>11

LEMMA NoSettings ==
    /\ NoPublish \in PublishSet /\ NoSubscribe \in SubscribeSet /\ NoUnsubscribe \in UnsubscribeSet
    /\ NoDisconnect \in DisconnectSet /\ NoConnect \in ConnectSet /\ NoWill \in WillSet
    /\ DefaultServer \in ServerSet
<1>1. PICK e : e = <<>> /\ e \in Seq(Nat) /\ e \in Seq(Pairs)
  <2>1. PICK r : r = <<>>
    OBVIOUS
  <2>2. r \in Seq(Nat) /\ r \in Seq(Pairs)
    BY <2>1
  <2> QED BY <2>1, <2>2
<1>2. NoPublish \in PublishSet
  BY <1>1 DEF NoPublish, PublishSet
<1>3. NoSubscribe \in SubscribeSet
  BY <1>1 DEF NoSubscribe, SubscribeSet
<1>4. NoUnsubscribe \in UnsubscribeSet
  BY <1>1 DEF NoUnsubscribe, UnsubscribeSet
<1>5. NoDisconnect \in DisconnectSet
  BY <1>1 DEF NoDisconnect, DisconnectSet
<1>6. NoConnect \in ConnectSet
  BY <1>1 DEF NoConnect, ConnectSet
<1>7. NoWill \in WillSet
  BY <1>1 DEF NoWill, WillSet
<1>8. DefaultServer \in ServerSet
  BY <1>1 DEF DefaultServer, ServerSet
<1> QED BY <1>2, <1>3, <1>4, <1>5, <1>6, <1>7, <1>8

\* The settings of the application, the configuration and what brokers said.
SettingsInv ==
    /\ connected \in BOOLEAN /\ connect \in ConnectSet /\ will \in WillSet /\ info \in InfoSet
    /\ server \in ServerSet /\ publish_property \in PublishSet
    /\ subscribe_property \in SubscribeSet /\ unsubscribe_property \in UnsubscribeSet
    /\ disconnect_property \in DisconnectSet /\ callsMade \in Nat

LEMMA SettingsInit == Mqtt5Init => SettingsInv
<1> SUFFICES ASSUME Mqtt5Init PROVE SettingsInv
  OBVIOUS
<1>1. /\ connected = FALSE /\ connect = NoConnect /\ will = NoWill /\ info = Info
      /\ server = DefaultServer /\ publish_property = NoPublish
      /\ subscribe_property = NoSubscribe /\ unsubscribe_property = NoUnsubscribe
      /\ disconnect_property = NoDisconnect /\ callsMade = 0
  BY DEF Mqtt5Init
<1> QED BY <1>1, SettingsGiven, NoSettings DEF SettingsInv

LEMMA OrType ==
    /\ \A new, old \in Nat : Or(new, old) \in Nat
    /\ \A new, old \in Seq(Nat) : OrText(new, old) \in Seq(Nat)
    /\ \A new, old \in Seq(Pairs) : OrText(new, old) \in Seq(Pairs)
BY DEF Or, OrText

\* What most steps keep.
SettingsKept ==
    UNCHANGED <<connect, will, info, server, publish_property, subscribe_property,
                unsubscribe_property, disconnect_property>>

LEMMA SettingsKeptType ==
    SettingsInv /\ SettingsKept /\ connected' \in BOOLEAN /\ callsMade' \in Nat => SettingsInv'
BY DEF SettingsInv, SettingsKept

LEMMA CalledType == SettingsInv /\ Called => callsMade' \in Nat
BY DEF SettingsInv, Called

LEMMA SetConnectType ==
    ASSUME SettingsInv, NEW new \in ConnectSettings, SetConnectProperty(new)
    PROVE  SettingsInv'
<1>1. new \in ConnectGiven
  BY SettingsGiven
<1>2. connect \in ConnectSet /\ will \in WillSet
  BY DEF SettingsInv
<1>3. /\ Called /\ connected' = connected /\ info' = info /\ server' = server
      /\ publish_property' = publish_property /\ subscribe_property' = subscribe_property
      /\ unsubscribe_property' = unsubscribe_property
      /\ disconnect_property' = disconnect_property
  BY DEF SetConnectProperty, aboutBroker, subscribeVars
<1>4. PICK expiry \in Nat : expiry = Or(new.session_expiry_interval, connect.session_expiry_interval)
  <2>1. new.session_expiry_interval \in Nat /\ connect.session_expiry_interval \in Nat
    BY <1>1, <1>2 DEF ConnectGiven, ConnectSet
  <2> QED BY <2>1, OrType
<1>5. CASE new.maximum_packet_size > IN_BUFFER
  <2>1. connect' = [connect EXCEPT !.session_expiry_interval = expiry] /\ will' = will
    BY <1>4, <1>5 DEF SetConnectProperty
  <2>2. connect' \in ConnectSet
    BY <1>2, <2>1 DEF ConnectSet
  <2> QED BY <1>2, <1>3, <2>1, <2>2, CalledType DEF SettingsInv
<1>6. CASE ~ (new.maximum_packet_size > IN_BUFFER)
  <2>1. PICK size, receive, alias, users :
            /\ size = Or(new.maximum_packet_size, IN_BUFFER)
            /\ receive = Or(new.receive_maximum, connect.receive_maximum)
            /\ alias = Or(new.topic_alias_maximum, connect.topic_alias_maximum)
            /\ users = OrText(new.user_property, connect.user_property)
    OBVIOUS
  <2>2. /\ new.maximum_packet_size \in Nat /\ new.receive_maximum \in Nat
        /\ connect.receive_maximum \in Nat /\ new.topic_alias_maximum \in Nat
        /\ connect.topic_alias_maximum \in Nat /\ new.user_property \in Seq(Pairs)
        /\ connect.user_property \in Seq(Pairs) /\ IN_BUFFER \in Nat
    BY <1>1, <1>2, Mqtt5Assumption DEF ConnectGiven, ConnectSet
  <2>3. size \in Nat /\ receive \in Nat /\ alias \in Nat /\ users \in Seq(Pairs)
    BY <2>1, <2>2, OrType
  <2>4. connect' =
            [session_expiry_interval |-> expiry, maximum_packet_size |-> size,
             receive_maximum |-> receive, topic_alias_maximum |-> alias,
             request_resp_info |-> new.request_resp_info \/ connect.request_resp_info,
             request_problem_info |-> new.request_problem_info \/ connect.request_problem_info,
             user_property |-> users]
    BY <1>4, <1>6, <2>1 DEF SetConnectProperty
  <2>5. connect' \in ConnectSet
    BY <2>3, <2>4 DEF ConnectSet
  <2>6. PICK delay, message, kind, topic, data, pairs :
            /\ delay = Or(new.will_delay_interval, will.will_delay_interval)
            /\ message = Or(new.message_expiry_interval, will.message_expiry_interval)
            /\ kind = OrText(new.content_type, will.content_type)
            /\ topic = OrText(new.response_topic, will.response_topic)
            /\ data = OrText(new.correlation_data, will.correlation_data)
            /\ pairs = OrText(new.will_user_property, will.user_property)
    OBVIOUS
  <2>7. /\ new.will_delay_interval \in Nat /\ will.will_delay_interval \in Nat
        /\ new.message_expiry_interval \in Nat /\ will.message_expiry_interval \in Nat
        /\ new.content_type \in Seq(Nat) /\ will.content_type \in Seq(Nat)
        /\ new.response_topic \in Seq(Nat) /\ will.response_topic \in Seq(Nat)
        /\ new.correlation_data \in Seq(Nat) /\ will.correlation_data \in Seq(Nat)
        /\ new.will_user_property \in Seq(Pairs) /\ will.user_property \in Seq(Pairs)
    BY <1>1, <1>2 DEF ConnectGiven, WillSet
  <2>8. /\ delay \in Nat /\ message \in Nat /\ kind \in Seq(Nat) /\ topic \in Seq(Nat)
        /\ data \in Seq(Nat) /\ pairs \in Seq(Pairs)
    BY <2>6, <2>7, OrType
  <2>9. will' =
            [will_delay_interval |-> delay, message_expiry_interval |-> message,
             payload_format_indicator |->
                 new.payload_format_indicator \/ will.payload_format_indicator,
             content_type |-> kind, response_topic |-> topic, correlation_data |-> data,
             user_property |-> pairs]
    BY <1>6, <2>6 DEF SetConnectProperty
  <2>10. will' \in WillSet
    BY <2>8, <2>9 DEF WillSet
  <2> QED BY <1>3, <2>5, <2>10, CalledType DEF SettingsInv
<1> QED BY <1>5, <1>6

LEMMA SetDisconnectType ==
    ASSUME SettingsInv, NEW new \in DisconnectSettings, SetDisconnectProperty(new)
    PROVE  SettingsInv'
<1>1. new \in DisconnectSet /\ disconnect_property \in DisconnectSet
  BY SettingsGiven DEF SettingsInv
<1>2. PICK old : old = disconnect_property
  OBVIOUS
<1>3. PICK expiry, reason, users :
          /\ expiry = Or(new.session_expiry_interval, old.session_expiry_interval)
          /\ reason = Or(new.disconnect_reason, old.disconnect_reason)
          /\ users = OrText(new.user_property, old.user_property)
  OBVIOUS
<1>4. expiry \in Nat /\ reason \in Nat /\ users \in Seq(Pairs)
  <2>1. /\ new.session_expiry_interval \in Nat /\ old.session_expiry_interval \in Nat
        /\ new.disconnect_reason \in Nat /\ old.disconnect_reason \in Nat
        /\ new.user_property \in Seq(Pairs) /\ old.user_property \in Seq(Pairs)
    BY <1>1, <1>2 DEF DisconnectSet
  <2> QED BY <1>3, <2>1, OrType
<1>5. disconnect_property' = [session_expiry_interval |-> expiry, disconnect_reason |-> reason,
                              user_property |-> users]
  BY <1>2, <1>3 DEF SetDisconnectProperty
<1>6. disconnect_property' \in DisconnectSet
  BY <1>4, <1>5 DEF DisconnectSet
<1>7. /\ Called /\ connected' = connected /\ info' = info /\ server' = server
      /\ connect' = connect /\ will' = will
      /\ publish_property' = publish_property /\ subscribe_property' = subscribe_property
      /\ unsubscribe_property' = unsubscribe_property
  BY DEF SetDisconnectProperty, aboutBroker, subscribeVars
<1> QED BY <1>6, <1>7, CalledType DEF SettingsInv

\* A CONNACK that was taken.
LEMMA ConnectTaken ==
    ASSUME SettingsInv, Connect
    PROVE  \E ack \in Connacks :
               /\ ack.code \in Nat /\ ack.list \in Seq(ConnackProperty) /\ announced' = ack.list
               /\ server' = ServerOf(ConnackFields(ack.list), server)
               /\ connect' = ConnectOf(ConnackFields(ack.list), connect)
               /\ info' = InfoOf(ConnackFields(ack.list), info)
               /\ connected' = (ack.code = 0) /\ count' = IF connected' THEN 0 ELSE count
<1>1. PICK ack \in Connacks : esp_mqtt5_parse_connack(Parsed(ack)) /\ announced' = ack.list
  BY DEF Connect
<1>2. ack.code \in Nat /\ ack.list \in Seq(ConnackProperty)
  <2>1. ack \in [code : Byte, list : Seq(ConnackProperty)]
    BY MessagesAssumption, Zenon
  <2>2. Byte \subseteq Nat
    BY DEF Byte
  <2> QED BY <2>1, <2>2
<1>3. PICK old : old = [server |-> server, connect |-> connect, info |-> info]
  OBVIOUS
<1>4. old.server = server /\ old.connect = connect /\ old.info = info
  BY <1>3
<1>5. PICK parsed : parsed = Parsed(ack)
  OBVIOUS
<1>6. PICK fields, code : fields = ConnackFields(ack.list) /\ code = ack.code
  OBVIOUS
<1>7. ConnackTaken(parsed, fields, code, old)
  BY <1>2, <1>3, <1>5, <1>6, ConnackParsed DEF Parsed
<1>8. /\ server' = parsed.server /\ connect' = parsed.connect /\ info' = parsed.info
      /\ connected' = (parsed.ok /\ parsed.reason_code = 0)
      /\ count' = IF connected' THEN 0 ELSE count
  BY <1>1, <1>5 DEF esp_mqtt5_parse_connack
<1>9. /\ server' = ServerOf(fields, server) /\ connect' = ConnectOf(fields, connect)
      /\ info' = InfoOf(fields, info)
  BY <1>4, <1>7, <1>8 DEF ConnackTaken
<1>10. connected' = (code = 0)
  BY <1>7, <1>8, Zenon DEF ConnackTaken
<1> QED BY <1>1, <1>2, <1>6, <1>8, <1>9, <1>10, Zenon

LEMMA ConnectType ==
    ASSUME SettingsInv, Connect
    PROVE  SettingsInv'
<1>1. PICK ack \in Connacks :
          /\ ack.list \in Seq(ConnackProperty)
          /\ server' = ServerOf(ConnackFields(ack.list), server)
          /\ connect' = ConnectOf(ConnackFields(ack.list), connect)
          /\ info' = InfoOf(ConnackFields(ack.list), info)
          /\ connected' = (ack.code = 0)
  BY ConnectTaken
<1>2. PICK list \in Seq(ConnackProperty) : list = ack.list
  BY <1>1
<1>3. PICK fields : fields = ConnackFields(list)
  OBVIOUS
<1>4. server' \in ServerSet
  BY <1>1, <1>2, ServerTaken DEF SettingsInv
<1>5. connect' \in ConnectSet
  <2>1. connect \in ConnectSet /\ connect.session_expiry_interval \in Nat
    BY DEF SettingsInv, ConnectSet
  <2>2. PICK n : n = NumberOf(fields, SESSION_EXPIRY_INTERVAL, connect.session_expiry_interval)
    OBVIOUS
  <2>3. n \in Nat
    BY <1>3, <2>1, <2>2, SizedIds, ConnackNumber
  <2>4. connect' = [connect EXCEPT !.session_expiry_interval = n]
    BY <1>1, <1>2, <1>3, <2>2 DEF ConnectOf
  <2> QED BY <2>1, <2>3, <2>4 DEF ConnectSet
<1>6. info' \in InfoSet
  <2>1. info \in InfoSet /\ info.keepalive \in Nat /\ info.client_id \in Seq(Nat)
    BY DEF SettingsInv, InfoSet
  <2>2. PICK n, t : /\ n = NumberOf(fields, SERVER_KEEP_ALIVE, info.keepalive)
                    /\ t = TextOf(fields, ASSIGNED_CLIENT_IDENTIFIER, info.client_id)
    OBVIOUS
  <2>3. n \in Nat
    BY <1>3, <2>1, <2>2, SizedIds, ConnackNumber
  <2>4. t \in Seq(Nat)
    BY <1>3, <2>1, <2>2, ConnackText
  <2>5. info' = [info EXCEPT !.keepalive = n, !.client_id = t]
    BY <1>1, <1>2, <1>3, <2>2 DEF InfoOf
  <2> QED BY <2>1, <2>3, <2>4, <2>5 DEF InfoSet
<1>7. connected' \in BOOLEAN
  BY <1>1
<1>8. /\ will' = will /\ publish_property' = publish_property
      /\ subscribe_property' = subscribe_property /\ unsubscribe_property' = unsubscribe_property
      /\ disconnect_property' = disconnect_property /\ callsMade' = callsMade
  BY DEF Connect, subscribeVars
<1> QED BY <1>4, <1>5, <1>6, <1>7, <1>8 DEF SettingsInv

\* Every step keeps what the client keeps of the right kind.
LEMMA SettingsStep == SettingsInv /\ [Mqtt5Next]_mqtt5Vars => SettingsInv'
<1> SUFFICES ASSUME SettingsInv, [Mqtt5Next]_mqtt5Vars PROVE SettingsInv'
  OBVIOUS
<1>0. connected \in BOOLEAN /\ callsMade \in Nat
  BY DEF SettingsInv
<1>1. ASSUME NEW new \in ConnectSettings, SetConnectProperty(new) PROVE SettingsInv'
  BY <1>1, SetConnectType
<1>2. ASSUME NEW new \in PublishSettings, SetPublishProperty(new) PROVE SettingsInv'
  <2>1. new \in PublishSet /\ callsMade' \in Nat
    BY <1>2, SettingsGiven, CalledType DEF SetPublishProperty
  <2>2. publish_property' = [new EXCEPT !.n = callsMade']
    BY <1>2 DEF SetPublishProperty
  <2>3. publish_property' \in PublishSet
    BY <2>1, <2>2 DEF PublishSet
  <2>4. /\ connected' = connected /\ info' = info /\ server' = server /\ connect' = connect
        /\ will' = will /\ subscribe_property' = subscribe_property
        /\ unsubscribe_property' = unsubscribe_property
        /\ disconnect_property' = disconnect_property
    BY <1>2 DEF SetPublishProperty, aboutBroker, subscribeVars
  <2> QED BY <2>1, <2>3, <2>4 DEF SettingsInv
<1>3. ASSUME NEW new \in SubscribeSettings, SetSubscribeProperty(new) PROVE SettingsInv'
  <2>1. subscribe_property' \in SubscribeSet /\ callsMade' \in Nat
    BY <1>3, SettingsGiven, CalledType DEF SetSubscribeProperty
  <2>2. /\ connected' = connected /\ info' = info /\ server' = server /\ connect' = connect
        /\ will' = will /\ publish_property' = publish_property
        /\ unsubscribe_property' = unsubscribe_property
        /\ disconnect_property' = disconnect_property
    BY <1>3 DEF SetSubscribeProperty, aboutBroker
  <2> QED BY <2>1, <2>2 DEF SettingsInv
<1>4. ASSUME NEW new \in UnsubscribeSettings, SetUnsubscribeProperty(new) PROVE SettingsInv'
  <2>1. unsubscribe_property' \in UnsubscribeSet /\ callsMade' \in Nat
    BY <1>4, SettingsGiven, CalledType DEF SetUnsubscribeProperty
  <2>2. /\ connected' = connected /\ info' = info /\ server' = server /\ connect' = connect
        /\ will' = will /\ publish_property' = publish_property
        /\ subscribe_property' = subscribe_property
        /\ disconnect_property' = disconnect_property
    BY <1>4 DEF SetUnsubscribeProperty, aboutBroker
  <2> QED BY <2>1, <2>2 DEF SettingsInv
<1>5. ASSUME NEW new \in DisconnectSettings, SetDisconnectProperty(new) PROVE SettingsInv'
  BY <1>5, SetDisconnectType
<1>6. CASE Connect
  BY <1>6, ConnectType
<1>7. CASE Break
  <2>1. SettingsKept /\ connected' = FALSE /\ callsMade' = callsMade
    BY <1>7 DEF Break, SettingsKept, aboutBroker, settings, subscribeVars, bounds
  <2> QED BY <1>0, <2>1, SettingsKeptType
<1>8. CASE Disconnect
  <2>1. disconnect_property' \in {NoDisconnect, disconnect_property}
    BY <1>8 DEF Disconnect
  <2>2. disconnect_property' \in DisconnectSet
    BY <2>1, NoSettings DEF SettingsInv
  <2>3. callsMade' \in Nat
    BY <1>8, CalledType DEF Disconnect
  <2>4. /\ connected' = FALSE /\ info' = info /\ server' = server /\ connect' = connect
        /\ will' = will /\ publish_property' = publish_property
        /\ subscribe_property' = subscribe_property
        /\ unsubscribe_property' = unsubscribe_property
    BY <1>8 DEF Disconnect, aboutBroker, subscribeVars
  <2> QED BY <2>2, <2>3, <2>4 DEF SettingsInv
<1>9. ASSUME NEW request \in Publishes, Publish(request) \/ Enqueue(request) PROVE SettingsInv'
  <2>1. publish_property' = NoPublish /\ Called
    BY <1>9 DEF Publish, Enqueue, make_publish
  <2>2. publish_property' \in PublishSet /\ callsMade' \in Nat
    BY <2>1, NoSettings, CalledType
  <2>3. /\ connected' = connected /\ info' = info /\ server' = server /\ connect' = connect
        /\ will' = will /\ disconnect_property' = disconnect_property
        /\ subscribe_property' = subscribe_property
        /\ unsubscribe_property' = unsubscribe_property
    BY <1>9 DEF Publish, Enqueue, aboutBroker, subscribeVars
  <2> QED BY <2>2, <2>3 DEF SettingsInv
<1>10. CASE ResendQueued \/ ResendTransmitted \/ ResendPubrel
  <2>1. SettingsKept /\ connected' = connected /\ callsMade' = callsMade
    BY <1>10 DEF ResendQueued, ResendTransmitted, ResendPubrel, Resends, SettingsKept, settings,
                 subscribeVars, bounds
  <2> QED BY <1>0, <2>1, SettingsKeptType
<1>11. CASE Subscribe \/ Unsubscribe
  <2>1. /\ subscribe_property' \in {NoSubscribe, subscribe_property}
        /\ unsubscribe_property' \in {NoUnsubscribe, unsubscribe_property}
    BY <1>11 DEF Subscribe, Unsubscribe
  <2>2. subscribe_property' \in SubscribeSet /\ unsubscribe_property' \in UnsubscribeSet
    BY <2>1, NoSettings DEF SettingsInv
  <2>3. PICK kind, property, made : Requested(kind, property, made)
    BY <1>11, Zenon DEF Subscribe, Unsubscribe
  <2>4. /\ connected' = connected /\ info' = info /\ server' = server /\ connect' = connect
        /\ will' = will /\ publish_property' = publish_property
        /\ disconnect_property' = disconnect_property /\ callsMade' \in Nat
    BY <2>3, CalledType DEF Requested, aboutBroker
  <2> QED BY <2>2, <2>4 DEF SettingsInv
<1>12. CASE SubscriptionAnswered \/ BrokerDisconnects
  <2>1. SettingsKept /\ connected' = connected /\ callsMade' = callsMade
    BY <1>12 DEF SubscriptionAnswered, BrokerDisconnects, SettingsKept, aboutBroker, settings,
                 subscribeVars, bounds
  <2> QED BY <1>0, <2>1, SettingsKeptType
<1>13. ASSUME NEW id \in 1 .. MAX_CALLS, Answer(id) PROVE SettingsInv'
  <2>1. SettingsKept /\ connected' = connected /\ callsMade' = callsMade
    BY <1>13 DEF Answer, SettingsKept, settings, subscribeVars, bounds
  <2> QED BY <1>0, <2>1, SettingsKeptType
<1>14. ASSUME NEW message \in Messages, Incoming(message) PROVE SettingsInv'
  <2>1. SettingsKept /\ callsMade' = callsMade
    BY <1>14 DEF Incoming, SettingsKept, settings, subscribeVars
  <2>2. connected' \in {connected, FALSE}
    BY <1>14 DEF Incoming, ReceiveBytes, Receive
  <2> QED BY <1>0, <2>1, <2>2, SettingsKeptType
<1>15. CASE UNCHANGED mqtt5Vars
  <2>1. SettingsKept /\ connected' = connected /\ callsMade' = callsMade
    BY <1>15 DEF mqtt5Vars, SettingsKept, aboutBroker, settings, subscribeVars, bounds
  <2> QED BY <1>0, <2>1, SettingsKeptType
<1> QED BY <1>1, <1>2, <1>3, <1>4, <1>5, <1>6, <1>7, <1>8, <1>9, <1>10, <1>11, <1>12, <1>13,
           <1>14, <1>15 DEF Mqtt5Next


----------------------------------------------------------------------------
(* The outbox *)

Items == [id : Nat, qos : 0 .. 2, pending : {"QUEUED", "TRANSMITTED", "ACKNOWLEDGED"},
          bytes : {b \in Seq(Nat) : Len(b) >= 1}]

LEMMA MinExists ==
    ASSUME NEW limit \in Nat, NEW indices, indices \subseteq 1 .. limit, indices # {}
    PROVE  Min(indices) \in indices
<1>1. \E x \in indices : \A y \in indices : x <= y
  <2> DEFINE S == {k \in Nat : k \notin indices}
  <2>1. CASE \E k \in Nat : k \in indices /\ \A m \in 0 .. k - 1 : m \notin indices
    <3>1. PICK k \in Nat : k \in indices /\ \A m \in 0 .. k - 1 : m \notin indices
      BY <2>1
    <3>2. \A y \in indices : k <= y
      <4> SUFFICES ASSUME NEW y \in indices, ~ (k <= y) PROVE FALSE
        OBVIOUS
      <4>1. y \in 0 .. k - 1
        OBVIOUS
      <4> QED BY <3>1, <4>1
    <3> QED BY <3>1, <3>2
  <2>2. CASE ~ \E k \in Nat : k \in indices /\ \A m \in 0 .. k - 1 : m \notin indices
    <3>1. ASSUME NEW k \in Nat, \A m \in 0 .. k - 1 : m \in S PROVE k \in S
      <4>1. \A m \in 0 .. k - 1 : m \notin indices
        BY <3>1
      <4> QED BY <2>2, <4>1
    <3>2. Nat \subseteq S
      <4> HIDE DEF S
      <4> QED BY <3>1, NatSetStrong
    <3>3. PICK y \in indices : TRUE
      OBVIOUS
    <3> QED BY <3>2, <3>3
  <2> QED BY <2>1, <2>2
<1> QED BY <1>1 DEF Min

\* What SelectInSeq finds, for each of its uses.
LEMMA FirstIs ==
    ASSUME outbox \in Seq(Items), NEW pending
    PROVE  First(pending) # 0 =>
               First(pending) \in 1 .. Len(outbox) /\ outbox[First(pending)].pending = pending
<1>1. PICK I : I = {i \in 1 .. Len(outbox) : outbox[i].pending = pending}
  OBVIOUS
<1>2. First(pending) = IF I # {} THEN Min(I) ELSE 0
  BY <1>1 DEF First, SelectInSeq
<1>3. Len(outbox) \in Nat /\ I \subseteq 1 .. Len(outbox)
  BY <1>1
<1>4. I # {} => Min(I) \in I
  BY <1>3, MinExists
<1> QED BY <1>1, <1>2, <1>4

LEMMA PositionIs ==
    ASSUME outbox \in Seq(Items), NEW id
    PROVE  Position(id) # 0 =>
               /\ Position(id) \in 1 .. Len(outbox) /\ outbox[Position(id)].id = id
               /\ mqtt_get_type(outbox[Position(id)].bytes) = PUBLISH
<1>1. PICK I : I = {i \in 1 .. Len(outbox) :
                        outbox[i].id = id /\ mqtt_get_type(outbox[i].bytes) = PUBLISH}
  OBVIOUS
<1>2. Position(id) = IF I # {} THEN Min(I) ELSE 0
  BY <1>1 DEF Position, SelectInSeq
<1>3. Len(outbox) \in Nat /\ I \subseteq 1 .. Len(outbox)
  BY <1>1
<1>4. I # {} => Min(I) \in I
  BY <1>3, MinExists
<1> QED BY <1>1, <1>2, <1>4

Subscription == SelectInSeq(outbox, LAMBDA item : mqtt_get_type(item.bytes) # PUBLISH)

LEMMA SubscriptionIs ==
    ASSUME outbox \in Seq(Items)
    PROVE  Subscription # 0 => Subscription \in 1 .. Len(outbox)
<1>1. PICK I : I = {i \in 1 .. Len(outbox) : mqtt_get_type(outbox[i].bytes) # PUBLISH}
  OBVIOUS
<1>2. Subscription = IF I # {} THEN Min(I) ELSE 0
  BY <1>1 DEF Subscription, SelectInSeq
<1>3. Len(outbox) \in Nat /\ I \subseteq 1 .. Len(outbox)
  BY <1>1
<1>4. I # {} => Min(I) \in I
  BY <1>3, MinExists
<1> QED BY <1>1, <1>2, <1>4

\* An item of the outbox, when the calls so far are known and what is in flight.  One that
\* waits is no duplicate, and is not in flight.
Waits(item, calls, flight) ==
    /\ item \in Items /\ item.id \in 1 .. calls
    /\ item.pending = "QUEUED" => mqtt_get_dup(item.bytes) = 0 /\ item.id \notin flight

Box(box, calls, flight) ==
    /\ box \in Seq(Items) /\ calls \in Nat
    /\ \A i \in 1 .. Len(box) : Waits(box[i], calls, flight)
    /\ \A i, j \in 1 .. Len(box) : box[i].id = box[j].id => i = j

LEMMA BoxAppend ==
    ASSUME NEW box, NEW calls, NEW flight, Box(box, calls, flight), NEW item, NEW more,
           Waits(item, calls + 1, more), item.id = calls + 1, more \subseteq flight \cup {calls + 1}
    PROVE  Box(Append(box, item), calls + 1, more)
<1>1. /\ box \in Seq(Items) /\ calls \in Nat
      /\ \A i \in 1 .. Len(box) : Waits(box[i], calls, flight)
      /\ \A i, j \in 1 .. Len(box) : box[i].id = box[j].id => i = j
  BY DEF Box
<1>2. item \in Items
  BY DEF Waits
<1>3. PICK n \in Nat : n = Len(box)
  BY <1>1
<1>4. PICK new \in Seq(Items) : new = Append(box, item)
  <2>1. Append(box, item) \in Seq(Items)
    BY <1>1, <1>2
  <2> QED BY <2>1
<1>5. Len(new) = n + 1 /\ new[n + 1] = item /\ \A i \in 1 .. n : new[i] = box[i]
  BY <1>1, <1>2, <1>3, <1>4
<1>6. ASSUME NEW i \in 1 .. n PROVE Waits(new[i], calls + 1, more) /\ new[i].id # calls + 1
  <2>1. PICK old : old = box[i] /\ old = new[i]
    BY <1>5
  <2>2. Waits(old, calls, flight)
    BY <1>1, <1>3, <2>1
  <2>3. old.id \in 1 .. calls + 1 /\ old.id # calls + 1
    BY <1>1, <2>2 DEF Waits
  <2>4. old.id \notin flight => old.id \notin more
    BY <2>3
  <2> QED BY <2>1, <2>2, <2>3, <2>4 DEF Waits
<1>7. \A i \in 1 .. n + 1 : i \in 1 .. n \/ i = n + 1
  OBVIOUS
<1>8. \A i \in 1 .. Len(new) : Waits(new[i], calls + 1, more)
  BY <1>5, <1>6, <1>7
<1>9. ASSUME NEW i \in 1 .. Len(new), NEW j \in 1 .. Len(new), new[i].id = new[j].id PROVE i = j
  <2>1. CASE i \in 1 .. n /\ j \in 1 .. n
    BY <1>1, <1>3, <1>5, <1>9, <2>1
  <2>2. CASE i \in 1 .. n /\ j = n + 1
    BY <1>5, <1>6, <1>9, <2>2
  <2>3. CASE i = n + 1 /\ j \in 1 .. n
    BY <1>5, <1>6, <1>9, <2>3
  <2> QED BY <1>5, <1>7, <2>1, <2>2, <2>3
<1>10. calls + 1 \in Nat
  BY <1>1
<1> QED BY <1>4, <1>8, <1>9, <1>10 DEF Box

LEMMA BoxChange ==
    ASSUME NEW box, NEW calls, NEW flight, Box(box, calls, flight), NEW i \in 1 .. Len(box),
           NEW item, NEW more, Waits(item, calls, more), item.id = box[i].id,
           more \subseteq flight \cup {box[i].id}
    PROVE  Box([box EXCEPT ![i] = item], calls, more)
<1>1. /\ box \in Seq(Items) /\ calls \in Nat
      /\ \A j \in 1 .. Len(box) : Waits(box[j], calls, flight)
      /\ \A j, k \in 1 .. Len(box) : box[j].id = box[k].id => j = k
  BY DEF Box
<1>2. item \in Items
  BY DEF Waits
<1>3. PICK new \in Seq(Items) : new = [box EXCEPT ![i] = item]
  <2>1. [box EXCEPT ![i] = item] \in Seq(Items)
    BY <1>1, <1>2, ExceptSeq
  <2> QED BY <2>1
<1>4. Len(new) = Len(box) /\ \A j \in 1 .. Len(box) : new[j] = IF j = i THEN item ELSE box[j]
  <2>1. DOMAIN new = 1 .. Len(box) /\ Len(box) \in Nat
    BY <1>1, <1>3
  <2>2. Len(new) = Len(box)
    BY <2>1, LenProperties
  <2> QED BY <1>1, <1>3, <2>2
<1>5. ASSUME NEW j \in 1 .. Len(box) PROVE Waits(new[j], calls, more) /\ new[j].id = box[j].id
  <2>1. CASE j = i
    BY <1>4, <2>1
  <2>2. CASE j # i
    <3>1. PICK old : old = box[j] /\ old = new[j]
      BY <1>4, <2>2
    <3>2. Waits(old, calls, flight) /\ old.id # box[i].id
      BY <1>1, <2>2, <3>1
    <3>3. old.id \notin flight => old.id \notin more
      BY <3>2
    <3> QED BY <3>1, <3>2, <3>3 DEF Waits
  <2> QED BY <2>1, <2>2
<1> QED BY <1>1, <1>3, <1>4, <1>5 DEF Box

LEMMA RemoveAtIs ==
    ASSUME NEW Kinds, NEW list \in Seq(Kinds), NEW i \in 1 .. Len(list)
    PROVE  /\ RemoveAt(list, i) \in Seq(Kinds) /\ Len(RemoveAt(list, i)) = Len(list) - 1
           /\ \A j \in 1 .. Len(list) - 1 : RemoveAt(list, i)[j] = list[IF j < i THEN j ELSE j + 1]
<1>1. PICK n \in Nat : n = Len(list)
  OBVIOUS
<1>2. PICK a, c \in Seq(Kinds) : a = SubSeq(list, 1, i - 1) /\ c = SubSeq(list, i + 1, n)
  <2>1. SubSeq(list, 1, i - 1) \in Seq(Kinds) /\ SubSeq(list, i + 1, n) \in Seq(Kinds)
    BY <1>1
  <2> QED BY <2>1
<1>3. Len(a) = i - 1 /\ \A j \in 1 .. i - 1 : a[j] = list[j]
  BY <1>1, <1>2
<1>4. Len(c) = n - i /\ \A j \in 1 .. n - i : c[j] = list[i + j]
  BY <1>1, <1>2
<1>5. PICK w \in Seq(Kinds) : w = a \o c
  <2>1. a \o c \in Seq(Kinds)
    OBVIOUS
  <2> QED BY <2>1
<1>6. /\ Len(w) = Len(a) + Len(c) /\ \A j \in 1 .. Len(a) : w[j] = a[j]
      /\ \A j \in 1 .. Len(c) : w[Len(a) + j] = c[j]
  BY <1>5
<1>7. Len(w) = n - 1
  BY <1>1, <1>3, <1>4, <1>6
<1>8. ASSUME NEW j \in 1 .. n - 1 PROVE w[j] = list[IF j < i THEN j ELSE j + 1]
  <2>1. CASE j < i
    <3>1. j \in 1 .. i - 1
      BY <2>1
    <3> QED BY <1>3, <1>6, <2>1, <3>1
  <2>2. CASE ~ (j < i)
    <3>1. PICK k : k = j - (i - 1)
      OBVIOUS
    <3>2. k \in 1 .. n - i /\ (i - 1) + k = j /\ i + k = j + 1
      BY <1>1, <2>2, <3>1
    <3>3. w[(i - 1) + k] = c[k]
      BY <1>3, <1>4, <1>6, <3>2
    <3>4. c[k] = list[j + 1]
      BY <1>4, <3>2
    <3> QED BY <2>2, <3>2, <3>3, <3>4
  <2> QED BY <2>1, <2>2
<1>9. w = RemoveAt(list, i)
  BY <1>1, <1>2, <1>5 DEF RemoveAt
<1> QED BY <1>1, <1>7, <1>8, <1>9

LEMMA BoxRemove ==
    ASSUME NEW box, NEW calls, NEW flight, Box(box, calls, flight), NEW i \in 1 .. Len(box)
    PROVE  Box(RemoveAt(box, i), calls, flight)
<1>1. /\ box \in Seq(Items) /\ calls \in Nat
      /\ \A j \in 1 .. Len(box) : Waits(box[j], calls, flight)
      /\ \A j, k \in 1 .. Len(box) : box[j].id = box[k].id => j = k
  BY DEF Box
<1>2. PICK n \in Nat : n = Len(box)
  BY <1>1
<1>3. PICK new \in Seq(Items) : /\ new = RemoveAt(box, i) /\ Len(new) = n - 1
                                /\ \A j \in 1 .. n - 1 : new[j] = box[IF j < i THEN j ELSE j + 1]
  <2>1. i \in 1 .. n
    BY <1>2
  <2> QED BY <1>1, <1>2, <2>1, RemoveAtIs, SMTT(30)
<1>4. ASSUME NEW j \in 1 .. n - 1 PROVE (IF j < i THEN j ELSE j + 1) \in 1 .. n
  OBVIOUS
<1>5. \A j \in 1 .. Len(new) : Waits(new[j], calls, flight)
  BY <1>1, <1>2, <1>3, <1>4
<1>6. ASSUME NEW j \in 1 .. Len(new), NEW k \in 1 .. Len(new), new[j].id = new[k].id PROVE j = k
  <2>1. PICK x, y \in 1 .. n : x = (IF j < i THEN j ELSE j + 1) /\ y = (IF k < i THEN k ELSE k + 1)
    BY <1>3, <1>4
  <2>2. new[j] = box[x] /\ new[k] = box[y]
    BY <1>3, <2>1
  <2>3. x = y
    BY <1>1, <1>2, <1>6, <2>2
  <2> QED BY <1>2, <1>3, <2>1, <2>3
<1> QED BY <1>1, <1>3, <1>5, <1>6 DEF Box

LEMMA BoxFlight ==
    ASSUME NEW box, NEW calls, NEW flight, Box(box, calls, flight), NEW more, more \subseteq flight,
           NEW later \in Nat, later >= calls
    PROVE  Box(box, later, more)
<1>1. /\ box \in Seq(Items) /\ calls \in Nat
      /\ \A j \in 1 .. Len(box) : Waits(box[j], calls, flight)
      /\ \A j, k \in 1 .. Len(box) : box[j].id = box[k].id => j = k
  BY DEF Box
<1>2. ASSUME NEW j \in 1 .. Len(box) PROVE Waits(box[j], later, more)
  <2>1. PICK old : old = box[j]
    OBVIOUS
  <2>2. Waits(old, calls, flight)
    BY <1>1, <2>1
  <2>3. old.id \in 1 .. later
    BY <1>1, <2>2 DEF Waits
  <2> QED BY <2>1, <2>2, <2>3 DEF Waits
<1> QED BY <1>1, <1>2 DEF Box


----------------------------------------------------------------------------
(* The count of what is not acknowledged *)

LEMMA RequestGiven ==
    ASSUME NEW request \in Publishes
    PROVE  /\ request.topic \in Seq(Nat) /\ request.data \in Seq(Nat)
           /\ request.qos \in 0 .. 2 /\ request.retain \in 0 .. 1
<1>1. request \in [topic : Bytes, data : Bytes, qos : 0 .. 2, retain : 0 .. 1]
  BY MessagesAssumption, Zenon
<1>2. request.topic \in Bytes /\ request.data \in Bytes
  BY <1>1
<1>3. request.qos \in 0 .. 2 /\ request.retain \in 0 .. 1
  BY <1>1
<1> QED BY <1>2, <1>3, BytesType

\* What a request is made into: the packet, and the item of the outbox for it.
ItemMade(request, item) ==
    /\ item.bytes = Frame(FirstByte(PUBLISH, request.qos, request.retain),
                          PublishRest(request.topic, request.qos, callsMade + 1,
                                      PublishBytes(publish_property, server.response_info),
                                      request.data))
    /\ item.bytes \in Seq(Nat) /\ item \in Items /\ item.id = callsMade + 1
    /\ mqtt_get_dup(item.bytes) = 0 /\ mqtt_get_type(item.bytes) = PUBLISH

LEMMA MadeFrame ==
    ASSUME SettingsInv, NEW request \in Publishes, Made(request).message.ok
    PROVE  /\ Made(request).message.bytes \in Seq(Nat) /\ Len(Made(request).message.bytes) >= 1
           /\ Made(request).remaining \in Seq(Nat)
           /\ Made(request).message.bytes \o Made(request).remaining
                  = Frame(FirstByte(PUBLISH, request.qos, request.retain),
                          PublishRest(request.topic, request.qos, callsMade + 1,
                                      PublishBytes(publish_property, server.response_info),
                                      request.data))
           /\ OUT_BUFFER >= HEADER_SIZE
<1>1. PICK topic, data \in Seq(Nat) : topic = request.topic /\ data = request.data
  BY RequestGiven
<1>2. PICK qos, retain \in Nat : qos = request.qos /\ retain = request.retain
  BY RequestGiven, SMTT(30)
<1>3. PICK number \in Nat : number = callsMade + 1
  BY DEF SettingsInv
<1>4. PICK property \in PublishSet : property = publish_property
  BY DEF SettingsInv
<1>5. PICK resp_info \in Seq(Nat) : resp_info = server.response_info
  BY DEF SettingsInv, ServerSet
<1>6. PICK made : made = mqtt5_msg_publish(topic, data, qos, retain, number, property, resp_info)
  OBVIOUS
<1>7. made = Made(request)
  BY <1>1, <1>2, <1>3, <1>4, <1>5, <1>6 DEF Made
<1>8. PublishMade(made, FirstByte(PUBLISH, qos, retain),
                  PublishRest(topic, qos, number, PublishBytes(property, resp_info), data))
  BY <1>6, PublishFrame
<1> QED BY <1>1, <1>2, <1>3, <1>4, <1>5, <1>7, <1>8 DEF PublishMade

LEMMA ItemOf ==
    ASSUME SettingsInv, NEW request \in Publishes, Made(request).message.ok,
           NEW pending \in {"QUEUED", "TRANSMITTED"}
    PROVE  ItemMade(request, Item(request, pending)) /\ Item(request, pending).pending = pending
           /\ Item(request, pending).qos = request.qos
<1>1. PICK first : first = FirstByte(PUBLISH, request.qos, request.retain)
  OBVIOUS
<1>2. /\ first \in Nat /\ (first \div 8) % 2 = 0 /\ first \div 16 = PUBLISH
      /\ request.qos \in 0 .. 2
  BY <1>1, RequestGiven, FirstByteRead
<1>3. PICK rest : rest = PublishRest(request.topic, request.qos, callsMade + 1,
                                     PublishBytes(publish_property, server.response_info),
                                     request.data)
  OBVIOUS
<1>4. PICK head, tail \in Seq(Nat) : /\ head = Made(request).message.bytes
                                     /\ tail = Made(request).remaining /\ Len(head) >= 1
                                     /\ head \o tail = Frame(first, rest)
  BY <1>1, <1>3, MadeFrame
<1>5. PICK bytes \in Seq(Nat) : bytes = head \o tail /\ Len(bytes) >= 1 /\ bytes[1] = head[1]
  <2>1. PICK n, k \in Nat : n = Len(head) /\ k = Len(tail) /\ n >= 1
    BY <1>4
  <2>2. head \o tail \in Seq(Nat)
    OBVIOUS
  <2>3. Len(head \o tail) = n + k
    BY <2>1
  <2>4. 1 \in 1 .. n
    BY <2>1
  <2>5. (head \o tail)[1] = head[1]
    BY <2>1, <2>4
  <2>6. n + k >= 1
    BY <2>1
  <2>7. Len(head \o tail) >= 1
    BY <2>3, <2>6
  <2> QED BY <2>2, <2>5, <2>7
<1>6. bytes[1] = first
  <2>2. rest \in Seq(Nat)
    <3>1. PublishHead(request.topic, request.qos, callsMade + 1) \in Seq(Nat)
      <4>1. request.topic \in Seq(Nat) /\ request.qos \in 0 .. 2
        BY RequestGiven
      <4>2. request.qos \in Nat
        BY <4>1
      <4>3. callsMade \in Nat
        BY DEF SettingsInv
      <4>4. callsMade + 1 \in Nat
        BY <4>3
      <4> QED BY <4>1, <4>2, <4>4, PublishHeadType
    <3>2. PublishBytes(publish_property, server.response_info) \in Seq(Nat)
      <4>1. publish_property \in PublishSet /\ server.response_info \in Seq(Nat)
        BY DEF SettingsInv, ServerSet
      <4> QED BY <4>1, PublishSays, SaysType
    <3>3. Prefixed(PublishBytes(publish_property, server.response_info)) \in Seq(Nat)
      BY <3>2, PrefixedType
    <3>4. request.data \in Seq(Nat)
      BY RequestGiven
    <3> QED BY <1>3, <3>1, <3>3, <3>4 DEF PublishRest
  <2>3. Frame(first, rest)[1] = first
    BY <1>2, <2>2, FrameType
  <2>4. bytes = Frame(first, rest)
    BY <1>4, <1>5
  <2> QED BY <2>3, <2>4
<1>7. PICK item : item = Item(request, pending)
  OBVIOUS
<1>8. PICK number \in Nat : number = callsMade + 1
  BY DEF SettingsInv
<1>9. item = [id |-> number, qos |-> request.qos, pending |-> pending, bytes |-> bytes]
  BY <1>4, <1>5, <1>7, <1>8 DEF Item
<1>10. item \in Items
  BY <1>2, <1>5, <1>9 DEF Items
<1>11. item.bytes = bytes /\ item.id = number /\ item.pending = pending /\ item.qos = request.qos
  BY <1>9
<1>12. mqtt_get_dup(bytes) = 0 /\ mqtt_get_type(bytes) = PUBLISH
  BY <1>2, <1>6 DEF mqtt_get_dup, mqtt_get_type
<1>13. ItemMade(request, item)
  BY <1>1, <1>3, <1>4, <1>5, <1>8, <1>10, <1>11, <1>12 DEF ItemMade
<1> QED BY <1>7, <1>11, <1>13

LEMMA DupType ==
    ASSUME NEW bytes, bytes[1] \in Nat
    PROVE  mqtt_get_dup(bytes) \in {0, 1}
<1>1. PICK b \in Nat : b = bytes[1]
  OBVIOUS
<1>2. PICK m \in Nat : m = b \div 8
  OBVIOUS
<1>3. m % 2 \in {0, 1}
  OBVIOUS
<1> QED BY <1>1, <1>2, <1>3 DEF mqtt_get_dup

\* What is written last of a message is a byte of it.
LEMMA PieceStarts ==
    ASSUME NEW length \in Nat, length >= 1, NEW size \in Nat, size >= 1
    PROVE  ((length - 1) \div size) * size + 1 \in 1 .. length
<1>1. PICK k \in Nat : k = length - 1
  OBVIOUS
<1>2. PICK d \in Nat : d = k \div size
  OBVIOUS
<1>3. d * size <= k /\ d * size \in Nat
  BY <1>2
<1> QED BY <1>1, <1>2, <1>3

LEMMA LastWrittenDup ==
    ASSUME SettingsInv, NEW request \in Publishes, Made(request).message.ok
    PROVE  mqtt_get_dup(LastWritten(request)) \in {0, 1}
<1>1. PICK head, tail \in Seq(Nat) : /\ head = Made(request).message.bytes
                                     /\ tail = Made(request).remaining /\ Len(head) >= 1
  BY MadeFrame
<1>2. OUT_BUFFER \in Nat /\ OUT_BUFFER >= 1
  <2>1. OUT_BUFFER >= HEADER_SIZE
    BY MadeFrame
  <2> QED BY <2>1, MqttMsgAssumption DEF HEADER_SIZE
<1>3. CASE tail = <<>>
  <2>1. LastWritten(request) = head
    BY <1>1, <1>3 DEF LastWritten
  <2>2. head[1] \in Nat
    BY <1>1
  <2> QED BY <2>1, <2>2, DupType
<1>4. CASE tail # <<>>
  <2>1. PICK l \in Nat : l = Len(tail) /\ l >= 1
    BY <1>4
  <2>2. PICK i : i = ((l - 1) \div OUT_BUFFER) * OUT_BUFFER + 1
    OBVIOUS
  <2>3. i \in 1 .. l
    BY <1>2, <2>1, <2>2, PieceStarts
  <2>4. LastWritten(request) = SubSeq(tail, i, l)
    BY <1>1, <1>4, <2>1, <2>2 DEF LastWritten
  <2>5. SubSeq(tail, i, l)[1] = tail[i] /\ tail[i] \in Nat
    BY <2>1, <2>3
  <2> QED BY <2>4, <2>5, DupType
<1> QED BY <1>3, <1>4


\* What is counted on a connection is what is in flight on it; no other message has such a
\* number, and one that waits is not sent.
CountInv ==
    /\ SettingsInv /\ Box(outbox, callsMade, inFlight) /\ inFlight \subseteq 1 .. callsMade
    /\ CountTrue

LEMMA FlightFinite ==
    ASSUME NEW calls \in Nat, NEW flight, flight \subseteq 1 .. calls
    PROVE  /\ IsFiniteSet(flight) /\ Cardinality(flight) \in Nat
           /\ \A id : id \notin flight => Cardinality(flight \cup {id}) = Cardinality(flight) + 1
           /\ \A id \in flight : Cardinality(flight \ {id}) = Cardinality(flight) - 1
<1>1. IsFiniteSet(1 .. calls)
  BY FS_Interval
<1>2. IsFiniteSet(flight)
  BY <1>1, FS_Subset
<1> QED BY <1>2, FS_CardinalityType, FS_AddElement, FS_RemoveElement

\* Steps that leave the outbox and what is in flight as they are.
LEMMA CountKept ==
    ASSUME CountInv, SettingsInv', callsMade' >= callsMade, connected' => connected,
           UNCHANGED <<outbox, inFlight, count, miscounted>>
    PROVE  CountInv'
<1>1. callsMade \in Nat /\ callsMade' \in Nat /\ inFlight \subseteq 1 .. callsMade
  BY DEF CountInv, SettingsInv
<1>2. Box(outbox, callsMade', inFlight)
  BY <1>1, BoxFlight DEF CountInv
<1>3. inFlight' \subseteq 1 .. callsMade'
  BY <1>1
<1>4. CountTrue'
  BY DEF CountInv, CountTrue
<1> QED BY <1>2, <1>3, <1>4 DEF CountInv

LEMMA CountPublish ==
    ASSUME CountInv, SettingsInv', NEW request \in Publishes, Publish(request)
    PROVE  CountInv'
<1>1. /\ SettingsInv /\ Box(outbox, callsMade, inFlight) /\ inFlight \subseteq 1 .. callsMade
      /\ callsMade \in Nat
  BY DEF CountInv, SettingsInv
<1>2. /\ callsMade' = callsMade + 1 /\ Made(request).message.ok /\ connected' = connected
      /\ request.qos \in 0 .. 2
  BY RequestGiven DEF Publish, Called, make_publish
<1>3. CASE connected /\ request.qos > 0
  <2>1. PICK item : item = Item(request, "TRANSMITTED")
    OBVIOUS
  <2>2. ItemMade(request, item) /\ item.pending = "TRANSMITTED"
    BY <1>1, <1>2, <2>1, ItemOf
  <2>3. /\ outbox' = Append(outbox, item) /\ inFlight' = inFlight \cup {callsMade + 1}
        /\ count' = count + 1 - mqtt_get_dup(LastWritten(request))
        /\ miscounted' = (miscounted \/ count' = count)
    BY <1>2, <1>3, <2>1 DEF Publish, esp_mqtt5_increment_packet_counter
  <2>4. Waits(item, callsMade + 1, inFlight') /\ item.id = callsMade + 1
    <3>1. item \in Items /\ item.id = callsMade + 1
      BY <2>2 DEF ItemMade
    <3>2. item.id \in 1 .. callsMade + 1
      BY <1>1, <3>1
    <3> QED BY <2>2, <3>1, <3>2 DEF Waits
  <2>5. Box(outbox', callsMade', inFlight')
    BY <1>1, <1>2, <2>3, <2>4, BoxAppend
  <2>6. inFlight' \subseteq 1 .. callsMade'
    BY <1>1, <1>2, <2>3
  <2>7. ASSUME connected', ~ miscounted' PROVE count' = Cardinality(inFlight')
    <3>1. PICK dup : dup = mqtt_get_dup(LastWritten(request)) /\ dup \in {0, 1}
      BY <1>1, <1>2, LastWrittenDup
    <3>2. PICK n \in Nat : n = Cardinality(inFlight)
      BY <1>1, FlightFinite
    <3>3. count = n /\ count' # count
      BY <1>2, <2>3, <2>7, <3>2 DEF CountInv, CountTrue
    <3>4. count' = n + 1
      BY <2>3, <3>1, <3>3
    <3>5. callsMade + 1 \notin inFlight
      BY <1>1
    <3> QED BY <1>1, <2>3, <3>2, <3>4, <3>5, FlightFinite
  <2> QED BY <2>5, <2>6, <2>7 DEF CountInv, CountTrue
<1>4. CASE ~ connected /\ request.qos > 0
  <2>1. PICK item : item = Item(request, "QUEUED")
    OBVIOUS
  <2>2. ItemMade(request, item) /\ item.pending = "QUEUED"
    BY <1>1, <1>2, <2>1, ItemOf
  <2>3. outbox' = Append(outbox, item) /\ inFlight' = inFlight
    BY <1>4, <2>1 DEF Publish
  <2>4. Waits(item, callsMade + 1, inFlight) /\ item.id = callsMade + 1
    <3>1. item \in Items /\ item.id = callsMade + 1 /\ mqtt_get_dup(item.bytes) = 0
      BY <2>2 DEF ItemMade
    <3>2. item.id \in 1 .. callsMade + 1 /\ item.id \notin inFlight
      BY <1>1, <3>1
    <3> QED BY <3>1, <3>2 DEF Waits
  <2>5. Box(outbox', callsMade', inFlight')
    BY <1>1, <1>2, <2>3, <2>4, BoxAppend
  <2>6. inFlight' \subseteq 1 .. callsMade'
    BY <1>1, <1>2, <2>3
  <2> QED BY <1>2, <1>4, <2>5, <2>6 DEF CountInv, CountTrue
<1>5. CASE ~ (request.qos > 0)
  <2>1. UNCHANGED <<outbox, inFlight, count, miscounted>>
    BY <1>5 DEF Publish
  <2> QED BY <1>1, <1>2, <2>1, CountKept
<1> QED BY <1>3, <1>4, <1>5

LEMMA CountEnqueue ==
    ASSUME CountInv, SettingsInv', NEW request \in Publishes, Enqueue(request)
    PROVE  CountInv'
<1>1. /\ SettingsInv /\ Box(outbox, callsMade, inFlight) /\ inFlight \subseteq 1 .. callsMade
      /\ callsMade \in Nat
  BY DEF CountInv, SettingsInv
<1>2. /\ callsMade' = callsMade + 1 /\ Made(request).message.ok /\ connected' = connected
      /\ inFlight' = inFlight /\ count' = count /\ miscounted' = miscounted
  BY DEF Enqueue, Called, make_publish, aboutBroker, brokerVars, flags
<1>3. PICK item : item = Item(request, "QUEUED")
  OBVIOUS
<1>4. ItemMade(request, item) /\ item.pending = "QUEUED"
  BY <1>1, <1>2, <1>3, ItemOf
<1>5. outbox' = Append(outbox, item)
  BY <1>3 DEF Enqueue
<1>6. Waits(item, callsMade + 1, inFlight) /\ item.id = callsMade + 1
  <2>1. item \in Items /\ item.id = callsMade + 1 /\ mqtt_get_dup(item.bytes) = 0
    BY <1>4 DEF ItemMade
  <2>2. item.id \in 1 .. callsMade + 1 /\ item.id \notin inFlight
    BY <1>1, <2>1
  <2> QED BY <2>1, <2>2 DEF Waits
<1>7. Box(outbox', callsMade', inFlight')
  BY <1>1, <1>2, <1>5, <1>6, BoxAppend
<1>8. inFlight' \subseteq 1 .. callsMade'
  BY <1>1, <1>2
<1>9. CountTrue'
  BY <1>2 DEF CountInv, CountTrue
<1> QED BY <1>7, <1>8, <1>9 DEF CountInv


LEMMA CountResendQueued ==
    ASSUME CountInv, SettingsInv', ResendQueued
    PROVE  CountInv'
<1>1. /\ SettingsInv /\ Box(outbox, callsMade, inFlight) /\ inFlight \subseteq 1 .. callsMade
      /\ callsMade \in Nat /\ outbox \in Seq(Items)
  BY DEF CountInv, SettingsInv, Box
<1>2. PICK i : i = First("QUEUED")
  OBVIOUS
<1>3. i # 0 /\ connected /\ UNCHANGED <<connected, miscounted, callsMade>>
  BY <1>2 DEF ResendQueued, bounds
<1>4. i \in 1 .. Len(outbox) /\ outbox[i].pending = "QUEUED"
  BY <1>1, <1>2, <1>3, FirstIs
<1>5. PICK entry : entry = outbox[i] /\ Waits(entry, callsMade, inFlight)
  BY <1>1, <1>4 DEF Box
<1>6. /\ entry \in Items /\ entry.id \in 1 .. callsMade /\ mqtt_get_dup(entry.bytes) = 0
      /\ entry.id \notin inFlight
  BY <1>4, <1>5 DEF Waits
<1>7. CASE entry.qos > 0
  <2>1. /\ outbox' = [outbox EXCEPT ![i].pending = "TRANSMITTED"]
        /\ inFlight' = inFlight \cup {entry.id}
        /\ count' = count + 1 - mqtt_get_dup(entry.bytes)
    BY <1>2, <1>5, <1>7 DEF ResendQueued, esp_mqtt5_increment_packet_counter
  <2>2. PICK new : new = [entry EXCEPT !.pending = "TRANSMITTED"]
    OBVIOUS
  <2>3. new \in Items /\ new.id = entry.id /\ new.pending = "TRANSMITTED"
    BY <1>6, <2>2 DEF Items
  <2>4. Waits(new, callsMade, inFlight')
    BY <1>6, <2>3 DEF Waits
  <2>5. outbox' = [outbox EXCEPT ![i] = new]
    BY <1>5, <2>1, <2>2
  <2>6. Box(outbox', callsMade, inFlight')
    <3>1. new.id = outbox[i].id /\ inFlight' \subseteq inFlight \cup {outbox[i].id}
      BY <1>5, <2>1, <2>3
    <3>2. Box([outbox EXCEPT ![i] = new], callsMade, inFlight')
      BY <1>1, <1>4, <2>4, <3>1, BoxChange
    <3> QED BY <2>5, <3>2
  <2>7. inFlight' \subseteq 1 .. callsMade'
    BY <1>1, <1>3, <1>6, <2>1
  <2>8. ASSUME ~ miscounted' PROVE count' = Cardinality(inFlight')
    <3>1. PICK n \in Nat : n = Cardinality(inFlight)
      BY <1>1, FlightFinite
    <3>2. count = n
      BY <1>3, <2>8, <3>1 DEF CountInv, CountTrue
    <3>3. count' = n + 1
      BY <1>6, <2>1, <3>2
    <3> QED BY <1>1, <1>6, <2>1, <3>1, <3>3, FlightFinite
  <2> QED BY <1>3, <2>6, <2>7, <2>8 DEF CountInv, CountTrue
<1>8. CASE ~ (entry.qos > 0)
  <2>1. outbox' = RemoveAt(outbox, i) /\ inFlight' = inFlight /\ count' = count
    BY <1>2, <1>5, <1>8 DEF ResendQueued
  <2>2. Box(outbox', callsMade, inFlight)
    BY <1>1, <1>4, <2>1, BoxRemove
  <2> QED BY <1>1, <1>3, <2>1, <2>2 DEF CountInv, CountTrue
<1> QED BY <1>7, <1>8

LEMMA CountResendTransmitted ==
    ASSUME CountInv, SettingsInv', ResendTransmitted
    PROVE  CountInv'
<1>1. /\ SettingsInv /\ Box(outbox, callsMade, inFlight) /\ inFlight \subseteq 1 .. callsMade
      /\ callsMade \in Nat /\ outbox \in Seq(Items)
  BY DEF CountInv, SettingsInv, Box
<1>2. PICK i : i = First("TRANSMITTED")
  OBVIOUS
<1>3. i # 0 /\ UNCHANGED callsMade /\ miscounted' = TRUE
  BY <1>2 DEF ResendTransmitted, Resends
<1>4. i \in 1 .. Len(outbox) /\ outbox[i].pending = "TRANSMITTED"
  BY <1>1, <1>2, <1>3, FirstIs
<1>5. PICK entry : entry = outbox[i] /\ Waits(entry, callsMade, inFlight)
  BY <1>1, <1>4 DEF Box
<1>6. entry \in Items /\ entry.id \in 1 .. callsMade /\ entry.pending = "TRANSMITTED"
  BY <1>4, <1>5 DEF Waits
<1>7. CASE mqtt_get_type(entry.bytes) = PUBLISH
  <2>1. PICK mark : mark = entry.bytes[1] + 8 * (1 - mqtt_get_dup(<<entry.bytes[1]>>))
    OBVIOUS
  <2>2. /\ outbox' = [outbox EXCEPT ![i].bytes[1] = mark]
        /\ inFlight' = inFlight \cup {entry.id}
    BY <1>2, <1>5, <1>7, <2>1 DEF ResendTransmitted
  <2>3. entry.bytes \in Seq(Nat) /\ Len(entry.bytes) >= 1
    BY <1>6 DEF Items
  <2>4. mark \in Nat
    <3>1. PICK first \in Nat : first = entry.bytes[1]
      BY <2>3
    <3>2. mqtt_get_dup(<<first>>) \in {0, 1}
      BY DupType, <<first>>[1] = first
    <3> QED BY <2>1, <3>1, <3>2
  <2>5. PICK bytes : bytes = [entry.bytes EXCEPT ![1] = mark]
    OBVIOUS
  <2>6. bytes \in Seq(Nat) /\ Len(bytes) >= 1
    <3>1. PICK n \in Nat : n = Len(entry.bytes) /\ n >= 1 /\ 1 \in 1 .. n
      BY <2>3
    <3>2. bytes \in Seq(Nat)
      BY <2>3, <2>4, <2>5, <3>1, ExceptSeq
    <3>3. DOMAIN bytes = 1 .. n
      BY <2>3, <2>5, <3>1
    <3>4. Len(bytes) = n
      BY <3>1, <3>2, <3>3, LenProperties
    <3> QED BY <3>1, <3>2, <3>4
  <2>7. PICK new : new = [entry EXCEPT !.bytes = bytes]
    OBVIOUS
  <2>8. new \in Items /\ new.id = entry.id /\ new.pending = "TRANSMITTED"
    BY <1>6, <2>6, <2>7 DEF Items
  <2>9. Waits(new, callsMade, inFlight')
    BY <1>6, <2>8 DEF Waits
  <2>10. outbox' = [outbox EXCEPT ![i] = new]
    BY <1>5, <2>2, <2>5, <2>7
  <2>11. Box(outbox', callsMade, inFlight')
    <3>1. new.id = outbox[i].id /\ inFlight' \subseteq inFlight \cup {outbox[i].id}
      BY <1>5, <2>2, <2>8
    <3>2. Box([outbox EXCEPT ![i] = new], callsMade, inFlight')
      BY <1>1, <1>4, <2>9, <3>1, BoxChange
    <3> QED BY <2>10, <3>2
  <2>12. inFlight' \subseteq 1 .. callsMade'
    BY <1>1, <1>3, <1>6, <2>2
  <2> QED BY <1>3, <2>11, <2>12 DEF CountInv, CountTrue
<1>8. CASE mqtt_get_type(entry.bytes) # PUBLISH
  <2>1. outbox' = outbox /\ inFlight' = inFlight
    BY <1>2, <1>5, <1>8 DEF ResendTransmitted
  <2> QED BY <1>1, <1>3, <2>1 DEF CountInv, CountTrue
<1> QED BY <1>7, <1>8

LEMMA CountResendPubrel ==
    ASSUME CountInv, SettingsInv', ResendPubrel
    PROVE  CountInv'
<1>1. /\ SettingsInv /\ Box(outbox, callsMade, inFlight) /\ inFlight \subseteq 1 .. callsMade
      /\ callsMade \in Nat /\ outbox \in Seq(Items)
  BY DEF CountInv, SettingsInv, Box
<1>2. PICK i : i = First("ACKNOWLEDGED")
  OBVIOUS
<1>3. /\ i # 0 /\ UNCHANGED <<outbox, callsMade>> /\ miscounted' = TRUE
      /\ inFlight' = inFlight \cup {outbox[i].id}
  BY <1>2 DEF ResendPubrel, Resends
<1>4. i \in 1 .. Len(outbox) /\ outbox[i].pending = "ACKNOWLEDGED"
  BY <1>1, <1>2, <1>3, FirstIs
<1>5. PICK item : item = outbox[i] /\ Waits(item, callsMade, inFlight)
  BY <1>1, <1>4 DEF Box
<1>6. item \in Items /\ item.id \in 1 .. callsMade /\ item.pending = "ACKNOWLEDGED"
  BY <1>4, <1>5 DEF Waits
<1>7. Waits(item, callsMade, inFlight')
  BY <1>6 DEF Waits
<1>8. outbox = [outbox EXCEPT ![i] = item]
  BY <1>1, <1>5
<1>9. Box(outbox, callsMade, inFlight')
  BY <1>1, <1>3, <1>4, <1>5, <1>7, <1>8, BoxChange
<1>10. inFlight' \subseteq 1 .. callsMade'
  BY <1>1, <1>3, <1>5, <1>6
<1> QED BY <1>3, <1>9, <1>10 DEF CountInv, CountTrue

LEMMA CountRequested ==
    ASSUME CountInv, SettingsInv', NEW kind, NEW property, NEW made, NEW first, NEW rest,
           PacketMade(made, first, rest), Requested(kind, property, made)
    PROVE  CountInv'
<1>1. /\ SettingsInv /\ Box(outbox, callsMade, inFlight) /\ inFlight \subseteq 1 .. callsMade
      /\ callsMade \in Nat
  BY DEF CountInv, SettingsInv
<1>2. /\ callsMade' = callsMade + 1 /\ made.ok
      /\ UNCHANGED <<connected, inFlight, count, miscounted>>
  BY DEF Requested, Called, aboutBroker, brokerVars, flags
<1>3. PICK bytes : bytes = made.bytes
  OBVIOUS
<1>4. bytes \in Seq(Nat) /\ Len(bytes) >= 1
  <2>1. first \in Nat /\ rest \in Seq(Nat) /\ bytes = Frame(first, rest)
    BY <1>2, <1>3 DEF PacketMade
  <2>2. PICK n, k \in Nat : n = Len(rest) /\ k = Len(remaining_length[n])
    BY <2>1, RemainingLengthType
  <2>3. Len(bytes) = 1 + k + n /\ bytes \in Seq(Nat)
    BY <2>1, <2>2, FrameType
  <2> QED BY <2>3
<1>5. PICK item : item = [id |-> callsMade + 1, qos |-> 0, pending |-> "TRANSMITTED", bytes |-> bytes]
  OBVIOUS
<1>6. outbox' = Append(outbox, item)
  BY <1>2, <1>3, <1>5 DEF Requested
<1>7. item \in Items /\ item.id = callsMade + 1 /\ item.pending = "TRANSMITTED"
  BY <1>1, <1>4, <1>5 DEF Items
<1>8. Waits(item, callsMade + 1, inFlight)
  BY <1>1, <1>7 DEF Waits
<1>9. Box(outbox', callsMade', inFlight')
  BY <1>1, <1>2, <1>6, <1>7, <1>8, BoxAppend
<1>10. inFlight' \subseteq 1 .. callsMade'
  BY <1>1, <1>2
<1> QED BY <1>2, <1>9, <1>10 DEF CountInv, CountTrue


LEMMA BoxReceived ==
    ASSUME CountInv, NEW bytes, Received(bytes)
    PROVE  Box(outbox', callsMade, inFlight)
<1>1. Box(outbox, callsMade, inFlight) /\ outbox \in Seq(Items)
  BY DEF CountInv, Box
<1>2. PICK j : j = Position(mqtt5_get_id(bytes, Len(bytes)))
  OBVIOUS
<1>3. outbox' = IF j = 0 THEN outbox ELSE [outbox EXCEPT ![j].pending = "ACKNOWLEDGED"]
  BY <1>2 DEF Received
<1>4. CASE j # 0
  <2>1. j \in 1 .. Len(outbox)
    BY <1>1, <1>2, <1>4, PositionIs
  <2>2. PICK entry : entry = outbox[j] /\ Waits(entry, callsMade, inFlight)
    BY <1>1, <2>1 DEF Box
  <2>3. PICK new : new = [entry EXCEPT !.pending = "ACKNOWLEDGED"]
    OBVIOUS
  <2>4. new \in Items /\ new.id = entry.id /\ new.pending = "ACKNOWLEDGED"
    BY <2>2, <2>3 DEF Items, Waits
  <2>5. Waits(new, callsMade, inFlight)
    BY <2>2, <2>4 DEF Waits
  <2>6. new.id = outbox[j].id
    BY <2>2, <2>4
  <2>7. Box([outbox EXCEPT ![j] = new], callsMade, inFlight)
    BY <1>1, <2>1, <2>5, <2>6, BoxChange
  <2>8. outbox' = [outbox EXCEPT ![j] = new]
    BY <1>3, <1>4, <2>2, <2>3
  <2> QED BY <2>7, <2>8
<1> QED BY <1>1, <1>3, <1>4

LEMMA BoxFinish ==
    ASSUME CountInv, NEW bytes, NEW code, Finish(bytes, code)
    PROVE  Box(outbox', callsMade, inFlight)
<1>1. Box(outbox, callsMade, inFlight) /\ outbox \in Seq(Items)
  BY DEF CountInv, Box
<1>2. PICK j : j = Position(mqtt5_get_id(bytes, Len(bytes)))
  OBVIOUS
<1>3. outbox' = IF j = 0 THEN outbox ELSE RemoveAt(outbox, j)
  BY <1>2 DEF Finish
<1>4. CASE j # 0
  <2>1. j \in 1 .. Len(outbox)
    BY <1>1, <1>2, <1>4, PositionIs
  <2>2. Box(RemoveAt(outbox, j), callsMade, inFlight)
    BY <1>1, <2>1, BoxRemove
  <2> QED BY <1>3, <1>4, <2>2
<1> QED BY <1>1, <1>3, <1>4

LEMMA CountAnswer ==
    ASSUME CountInv, SettingsInv', NEW id, Answer(id)
    PROVE  CountInv'
<1>1. /\ SettingsInv /\ Box(outbox, callsMade, inFlight) /\ inFlight \subseteq 1 .. callsMade
      /\ callsMade \in Nat
  BY DEF CountInv, SettingsInv
<1>2. /\ connected /\ id \in inFlight /\ UNCHANGED <<connected, callsMade, miscounted>>
  BY DEF Answer, bounds, flags
<1>3. PICK code : \/ Received(AckOf(PUBREC, id, code)) /\ UNCHANGED inFlight
                  \/ \E type : /\ Finish(AckOf(type, id, code), code)
                               /\ \/ inFlight' = inFlight \ {id}
                                  \/ miscounted /\ UNCHANGED inFlight
  <2>1. PICK i : i = Position(id)
    OBVIOUS
  <2>2. PICK code \in {0, 151} :
            IF i # 0 /\ outbox[i].qos = 2 /\ outbox[i].pending = "TRANSMITTED"
            THEN Received(AckOf(PUBREC, id, code)) /\ UNCHANGED inFlight
            ELSE /\ Finish(AckOf(IF i # 0 /\ outbox[i].qos = 2 THEN PUBCOMP ELSE PUBACK,
                                 id, code), code)
                 /\ \/ inFlight' = inFlight \ {id}
                    \/ i # 0 /\ resends > 0 /\ miscounted /\ UNCHANGED inFlight
    BY <2>1 DEF Answer
  <2>3. PICK type : type = IF i # 0 /\ outbox[i].qos = 2 THEN PUBCOMP ELSE PUBACK
    OBVIOUS
  <2> QED BY <2>2, <2>3
<1>4. CASE Received(AckOf(PUBREC, id, code)) /\ UNCHANGED inFlight
  <2>1. Box(outbox', callsMade, inFlight)
    BY <1>4, BoxReceived
  <2>2. count' = count
    BY <1>4 DEF Received
  <2> QED BY <1>1, <1>2, <1>4, <2>1, <2>2 DEF CountInv, CountTrue
<1>5. CASE \E type : /\ Finish(AckOf(type, id, code), code)
                     /\ \/ inFlight' = inFlight \ {id}
                        \/ miscounted /\ UNCHANGED inFlight
  <2>1. PICK bytes : /\ Finish(bytes, code)
                     /\ inFlight' = inFlight \ {id} \/ (miscounted /\ UNCHANGED inFlight)
    <3>1. PICK type : /\ Finish(AckOf(type, id, code), code)
                      /\ inFlight' = inFlight \ {id} \/ (miscounted /\ UNCHANGED inFlight)
      BY <1>5
    <3>2. PICK bytes : bytes = AckOf(type, id, code)
      OBVIOUS
    <3> QED BY <3>1, <3>2
  <2>2. Box(outbox', callsMade, inFlight)
    BY <2>1, BoxFinish
  <2>3. inFlight' \subseteq inFlight
    BY <2>1
  <2>4. Box(outbox', callsMade, inFlight')
    <3>1. callsMade >= callsMade
      BY <1>1
    <3> QED BY <1>1, <2>2, <2>3, <3>1, BoxFlight
  <2>5. inFlight' \subseteq 1 .. callsMade'
    BY <1>1, <1>2, <2>3
  <2>6. ASSUME ~ miscounted' PROVE count' = Cardinality(inFlight')
    <3>1. inFlight' = inFlight \ {id}
      BY <1>2, <2>1, <2>6
    <3>2. PICK n \in Nat : n = Cardinality(inFlight)
      BY <1>1, FlightFinite
    <3>3. inFlight' \subseteq 1 .. callsMade
      BY <1>2, <2>5
    <3>4. PICK m \in Nat : m = Cardinality(inFlight')
      BY <1>1, <3>3, FlightFinite
    <3>5. m = n - 1
      BY <1>1, <1>2, <3>1, <3>2, <3>4, FlightFinite
    <3>6. count = n
      BY <1>2, <2>6, <3>2 DEF CountInv, CountTrue
    <3>7. count' = IF count > 0 THEN count - 1 ELSE 0
      BY <2>1 DEF Finish, esp_mqtt5_decrement_packet_counter
    <3> QED BY <3>4, <3>5, <3>6, <3>7
  <2> QED BY <1>2, <2>4, <2>5, <2>6 DEF CountInv, CountTrue
<1> QED BY <1>3, <1>4, <1>5

LEMMA CountSubscriptionAnswered ==
    ASSUME CountInv, SettingsInv', SubscriptionAnswered
    PROVE  CountInv'
<1>1. /\ SettingsInv /\ Box(outbox, callsMade, inFlight) /\ inFlight \subseteq 1 .. callsMade
      /\ callsMade \in Nat /\ outbox \in Seq(Items)
  BY DEF CountInv, SettingsInv, Box
<1>2. PICK i : i = Subscription
  OBVIOUS
<1>3. /\ i # 0 /\ outbox' = RemoveAt(outbox, i)
      /\ UNCHANGED <<connected, inFlight, count, miscounted, callsMade>>
  BY <1>2 DEF SubscriptionAnswered, Subscription, aboutBroker, brokerVars, flags, bounds
<1>4. i \in 1 .. Len(outbox)
  BY <1>1, <1>2, <1>3, SubscriptionIs
<1>5. Box(RemoveAt(outbox, i), callsMade, inFlight)
  BY <1>1, <1>4, BoxRemove
<1> QED BY <1>1, <1>3, <1>5 DEF CountInv, CountTrue

LEMMA CountConnect ==
    ASSUME CountInv, SettingsInv', Connect
    PROVE  CountInv'
<1>1. Box(outbox, callsMade, inFlight) /\ callsMade \in Nat
  BY DEF CountInv, SettingsInv
<1>2. /\ UNCHANGED <<outbox, callsMade>> /\ inFlight' = {}
  BY DEF Connect
<1>3. count' = IF connected' THEN 0 ELSE count
  <2>1. SettingsInv
    BY DEF CountInv
  <2> QED BY <2>1, ConnectTaken
<1>4. Box(outbox, callsMade, {})
  BY <1>1, BoxFlight
<1>5. Cardinality({}) = 0
  BY FS_EmptySet
<1>6. CountTrue'
  BY <1>2, <1>3, <1>5 DEF CountTrue
<1> QED BY <1>2, <1>4, <1>6 DEF CountInv

\* The steps that neither publish nor answer.
Aside ==
    \/ \E new \in ConnectSettings : SetConnectProperty(new)
    \/ \E new \in PublishSettings : SetPublishProperty(new)
    \/ \E new \in SubscribeSettings : SetSubscribeProperty(new)
    \/ \E new \in UnsubscribeSettings : SetUnsubscribeProperty(new)
    \/ \E new \in DisconnectSettings : SetDisconnectProperty(new)
    \/ Break \/ Disconnect \/ BrokerDisconnects
    \/ \E message \in Messages : Incoming(message)
    \/ UNCHANGED mqtt5Vars

LEMMA AsideKeeps ==
    ASSUME callsMade \in Nat, Aside
    PROVE  /\ callsMade' >= callsMade /\ (connected' => connected)
           /\ UNCHANGED <<outbox, inFlight, count, miscounted, queuedSent, announced, server,
                          connections>>
<1>1. CASE \/ \E new \in ConnectSettings : SetConnectProperty(new)
           \/ \E new \in PublishSettings : SetPublishProperty(new)
           \/ \E new \in SubscribeSettings : SetSubscribeProperty(new)
           \/ \E new \in UnsubscribeSettings : SetUnsubscribeProperty(new)
           \/ \E new \in DisconnectSettings : SetDisconnectProperty(new)
  BY <1>1 DEF SetConnectProperty, SetPublishProperty, SetSubscribeProperty, SetUnsubscribeProperty,
              SetDisconnectProperty, Called, aboutBroker, brokerVars, flags
<1>2. CASE Break \/ BrokerDisconnects \/ UNCHANGED mqtt5Vars
  BY <1>2 DEF Break, BrokerDisconnects, mqtt5Vars, aboutBroker, brokerVars, flags, bounds
<1>3. CASE Disconnect
  BY <1>3 DEF Disconnect, Called, aboutBroker, brokerVars, flags
<1>4. CASE \E message \in Messages : Incoming(message)
  <2>1. PICK message \in Messages : Incoming(message)
    BY <1>4
  <2>2. connected
    BY <2>1 DEF Incoming
  <2> QED BY <2>1, <2>2 DEF Incoming, flags
<1> QED BY <1>1, <1>2, <1>3, <1>4 DEF Aside

LEMMA CountInit == Mqtt5Init => CountInv
<1> SUFFICES ASSUME Mqtt5Init PROVE CountInv
  OBVIOUS
<1>1. outbox = <<>> /\ inFlight = {} /\ connected = FALSE /\ callsMade = 0
  BY DEF Mqtt5Init
<1>2. Box(outbox, callsMade, inFlight)
  <2>1. PICK box : box = <<>>
    OBVIOUS
  <2>2. box \in Seq(Items) /\ 1 .. Len(box) = {}
    BY <2>1
  <2> QED BY <1>1, <2>1, <2>2 DEF Box
<1> QED BY <1>1, <1>2, SettingsInit DEF CountInv, CountTrue

LEMMA CountStep == CountInv /\ [Mqtt5Next]_mqtt5Vars => CountInv'
<1> SUFFICES ASSUME CountInv, [Mqtt5Next]_mqtt5Vars PROVE CountInv'
  OBVIOUS
<1>1. SettingsInv /\ callsMade \in Nat
  BY DEF CountInv, SettingsInv
<1>2. SettingsInv'
  BY <1>1, SettingsStep
<1>3. CASE Aside
  <2>1. /\ callsMade' >= callsMade /\ (connected' => connected)
        /\ UNCHANGED <<outbox, inFlight, count, miscounted>>
    BY <1>1, <1>3, AsideKeeps
  <2> QED BY <1>2, <2>1, CountKept
<1>4. ASSUME NEW request \in Publishes, Publish(request) \/ Enqueue(request) PROVE CountInv'
  BY <1>2, <1>4, CountPublish, CountEnqueue
<1>5. CASE ResendQueued \/ ResendTransmitted \/ ResendPubrel
  BY <1>2, <1>5, CountResendQueued, CountResendTransmitted, CountResendPubrel
<1>6. CASE Subscribe
  <2>1. PICK made : made = mqtt5_msg_subscribe(Topics, callsMade + 1, subscribe_property)
    OBVIOUS
  <2>2. callsMade + 1 \in Nat /\ subscribe_property \in SubscribeSet
    BY <1>1 DEF SettingsInv
  <2>3. PacketMade(made, FirstByte(SUBSCRIBE, 1, 0), SubscribeRest(callsMade + 1, subscribe_property))
    BY <2>1, <2>2, SubscribeMade
  <2>4. Requested("subscribe", subscribe_property, made)
    BY <1>6, <2>1 DEF Subscribe
  <2> QED BY <1>2, <2>3, <2>4, CountRequested
<1>7. CASE Unsubscribe
  <2>1. PICK made, topic : made = mqtt5_msg_unsubscribe(topic, callsMade + 1, unsubscribe_property)
                           /\ topic = Topics[1].filter
    OBVIOUS
  <2>2. callsMade + 1 \in Nat /\ unsubscribe_property \in UnsubscribeSet /\ topic \in Seq(Nat)
    BY <1>1, <2>1, TopicsAre DEF SettingsInv
  <2>3. PacketMade(made, FirstByte(UNSUBSCRIBE, 1, 0),
                   UnsubscribeRest(topic, callsMade + 1, unsubscribe_property))
    BY <2>1, <2>2, UnsubscribeMade
  <2>4. Requested("unsubscribe", unsubscribe_property, made)
    BY <1>7, <2>1 DEF Unsubscribe
  <2> QED BY <1>2, <2>3, <2>4, CountRequested
<1>8. CASE Connect
  BY <1>2, <1>8, CountConnect
<1>9. CASE SubscriptionAnswered
  BY <1>2, <1>9, CountSubscriptionAnswered
<1>10. ASSUME NEW id \in 1 .. MAX_CALLS, Answer(id) PROVE CountInv'
  BY <1>2, <1>10, CountAnswer
<1> QED BY <1>3, <1>4, <1>5, <1>6, <1>7, <1>8, <1>9, <1>10 DEF Mqtt5Next, Aside

\* Mqtt5: on a connection on which nothing was sent twice, the client has counted exactly the
\* messages that its broker has still to acknowledge (esp_mqtt5_increment_packet_counter and
\* esp_mqtt5_decrement_packet_counter), whatever is published, queued, resent and answered.
THEOREM CountIsTrue == Mqtt5Spec => []CountTrue
<1>1. CountInv => CountTrue
  BY DEF CountInv
<1> QED BY <1>1, CountInit, CountStep, PTL DEF Mqtt5Spec


----------------------------------------------------------------------------
(* What the broker takes *)

\* A number that was announced, or the default: whoever is asked, the same is known.
LEMMA NumberNamed ==
    ASSUME NEW list, NEW id, NEW known
    PROVE  /\ NumberOf(list, id, NumberOf(list, id, known)) = NumberOf(list, id, known)
           /\ known = NumberOf(list, id, known) =>
                  \A default : NumberOf(list, id, default) \in {known, default}
BY DEF NumberOf

LEMMA WordOfBytes ==
    \A a, b \in 0 .. 255 : a * 256 + b \in Word16
BY SMT DEF Word16

LEMMA ReceiveMaximumWord ==
    ASSUME NEW list \in Seq(ConnackProperty), NEW default \in Word16
    PROVE  NumberOf(list, RECEIVE_MAXIMUM, default) \in Word16
<1>1. PICK fields \in Seq(Field) : fields = ConnackFields(list) /\ Len(fields) = Len(list)
  BY ConnackFieldsType
<1>2. PICK k : k = LastOf(list, RECEIVE_MAXIMUM) /\ k = LastOf(fields, RECEIVE_MAXIMUM)
  BY <1>1, ConnackLast
<1>3. CASE k = 0
  BY <1>2, <1>3, TextOfAt
<1>4. CASE k # 0
  <2>1. k \in 1 .. Len(list) /\ fields[k].id = RECEIVE_MAXIMUM
    BY <1>1, <1>2, <1>4, LastOfIs
  <2>2. PICK p \in ConnackProperty : p = list[k]
    BY <2>1
  <2>3. fields[k] = ConnackField(p)
    BY <1>1, <2>1, <2>2, ConnackFieldsType
  <2>4. p.id = RECEIVE_MAXIMUM
    BY <2>1, <2>3 DEF ConnackField, Plain
  <2>5. p.value \in Seq(Byte) /\ Len(p.value) = 2
    <3>1. RECEIVE_MAXIMUM \in TwoBytes /\ RECEIVE_MAXIMUM \notin OneByte \cup FourBytes
      BY DEF RECEIVE_MAXIMUM, TwoBytes, OneByte, FourBytes, SERVER_KEEP_ALIVE,
             TOPIC_ALIAS_MAXIMUM, TOPIC_ALIAS, PAYLOAD_FORMAT_INDICATOR, REQUEST_PROBLEM_INFO,
             REQUEST_RESP_INFO, MAXIMUM_QOS, RETAIN_AVAILABLE, MESSAGE_EXPIRY_INTERVAL,
             SESSION_EXPIRY_INTERVAL, WILL_DELAY_INTERVAL, MAXIMUM_PACKET_SIZE
    <3> QED BY <2>2, <2>4, <3>1 DEF ConnackProperty, Bytes
  <2>6. PICK a, b \in 0 .. 255 : a = p.value[1] /\ b = p.value[2]
    <3>1. PICK a, b \in Byte : a = p.value[1] /\ b = p.value[2]
      BY <2>5
    <3> QED BY <3>1 DEF Byte
  <2>7. Value(p.value) = a * 256 + b
    BY <2>5, <2>6 DEF Value, WordAt
  <2>8. NumberOf(list, RECEIVE_MAXIMUM, default) = Value(p.value)
    BY <1>2, <1>4, <2>2, TextOfAt
  <2>9. a * 256 + b \in Word16
    BY <2>6, WordOfBytes
  <2> QED BY <2>7, <2>8, <2>9
<1> QED BY <1>3, <1>4

\* What the client believes of its broker is what this broker said, if it said it.
Believed ==
    /\ announced \in Seq(ConnackProperty) /\ server.receive_maximum \in Word16
    /\ server.max_qos = NumberOf(announced, MAXIMUM_QOS, server.max_qos)
    /\ server.retain_available = NumberOf(announced, RETAIN_AVAILABLE, server.retain_available)
    /\ server.receive_maximum = NumberOf(announced, RECEIVE_MAXIMUM, server.receive_maximum)
    /\ server.topic_alias_maximum
           = NumberOf(announced, TOPIC_ALIAS_MAXIMUM, server.topic_alias_maximum)

LEMMA BelievedKept == Believed /\ UNCHANGED <<announced, server>> => Believed'
BY DEF Believed

LEMMA BelievedConnect ==
    ASSUME SettingsInv, Believed, Connect
    PROVE  Believed'
<1>1. PICK ack \in Connacks : /\ ack.list \in Seq(ConnackProperty) /\ announced' = ack.list
                              /\ server' = ServerOf(ConnackFields(ack.list), server)
  BY ConnectTaken
<1>2. PICK list \in Seq(ConnackProperty) : list = ack.list
  BY <1>1
<1>3. PICK old \in ServerSet : old = server
  BY DEF SettingsInv
<1>4. PICK new : new = server' /\ new = ServerOf(ConnackFields(list), old)
  BY <1>1, <1>2, <1>3
<1>5. /\ new.receive_maximum = NumberOf(list, RECEIVE_MAXIMUM, old.receive_maximum)
      /\ new.max_qos = NumberOf(list, MAXIMUM_QOS, old.max_qos)
      /\ new.retain_available = NumberOf(list, RETAIN_AVAILABLE, old.retain_available)
      /\ new.topic_alias_maximum = NumberOf(list, TOPIC_ALIAS_MAXIMUM, old.topic_alias_maximum)
  BY <1>4, ServerTaken
<1>6. new.receive_maximum \in Word16
  BY <1>3, <1>5, ReceiveMaximumWord DEF Believed
<1>7. new.max_qos = NumberOf(list, MAXIMUM_QOS, new.max_qos)
  BY <1>5, NumberNamed
<1>8. new.retain_available = NumberOf(list, RETAIN_AVAILABLE, new.retain_available)
  BY <1>5, NumberNamed
<1>9. new.receive_maximum = NumberOf(list, RECEIVE_MAXIMUM, new.receive_maximum)
  BY <1>5, NumberNamed
<1>10. new.topic_alias_maximum = NumberOf(list, TOPIC_ALIAS_MAXIMUM, new.topic_alias_maximum)
  BY <1>5, NumberNamed
<1>11. announced' = list
  BY <1>1, <1>2
<1> QED BY <1>4, <1>6, <1>7, <1>8, <1>9, <1>10, <1>11 DEF Believed

\* What the broker takes without an acknowledgement.
Window == Announced(RECEIVE_MAXIMUM, 65535)

LEMMA AnnouncedType ==
    ASSUME SettingsInv, Believed
    PROVE  /\ Window \in Nat /\ server.receive_maximum <= Window
           /\ \A qos \in 0 .. 2 : qos <= server.max_qos => qos <= Announced(MAXIMUM_QOS, 2)
           /\ \A retain \in 0 .. 1 : (retain = 1 => server.retain_available = 1) =>
                  retain <= Announced(RETAIN_AVAILABLE, 1)
<1>1. PICK a, b, c \in Nat :
          a = server.receive_maximum /\ b = server.max_qos /\ c = server.retain_available
  BY DEF SettingsInv, ServerSet
<1>2. PICK m \in Nat : m = 65535 /\ a <= m
  <2>1. a \in Word16
    BY <1>1 DEF Believed
  <2> QED BY <2>1, SMT DEF Word16
<1>3. Window \in Nat /\ a <= Window
  <2>1. Window = NumberOf(announced, RECEIVE_MAXIMUM, m)
    BY <1>2, SMT DEF Window, Announced
  <2>2. NumberOf(announced, RECEIVE_MAXIMUM, m) \in {a, m}
    BY <1>1, NumberNamed DEF Believed
  <2> QED BY <1>2, <2>1, <2>2
<1>4. Announced(MAXIMUM_QOS, 2) \in {b, 2}
  BY <1>1, NumberNamed DEF Believed, Announced
<1>5. Announced(RETAIN_AVAILABLE, 1) \in {c, 1}
  BY <1>1, NumberNamed DEF Believed, Announced
<1> QED BY <1>1, <1>3, <1>4, <1>5

\* A number that the broker names is known without a default.
LEMMA NamedNumber ==
    ASSUME NEW list \in Seq(ConnackProperty), NEW id, NEW i \in 1 .. Len(list), list[i].id = id
    PROVE  \A a, b : NumberOf(list, id, a) = NumberOf(list, id, b)
<1>1. PICK fields \in Seq(Field) : fields = ConnackFields(list) /\ Len(fields) = Len(list)
  BY ConnackFieldsType
<1>2. PICK p : p = list[i]
  OBVIOUS
<1>3. fields[i] = ConnackField(p)
  BY <1>1, <1>2, ConnackFieldsType
<1>4. fields[i].id = id
  BY <1>2, <1>3 DEF ConnackField, Plain
<1>5. LastOf(fields, id) # 0
  BY <1>1, <1>4, LastOfIs
<1>6. LastOf(list, id) # 0
  BY <1>1, <1>5, ConnackLast
<1> QED BY <1>6, TextOfAt

\* The alias that the next message carries: one that the broker takes, if it is the first one or
\* named a number before the alias was set.
AliasMaximum == Announced(TOPIC_ALIAS_MAXIMUM, 0)

AliasesFit ==
    /\ connections \in Nat
    /\ connections = 0 => server.topic_alias_maximum = 0 /\ publish_property.topic_alias = 0
    /\ connections = 1 => /\ server.topic_alias_maximum = AliasMaximum
                          /\ publish_property.topic_alias <= AliasMaximum
    /\ setHere /\ Names(TOPIC_ALIAS_MAXIMUM) => publish_property.topic_alias <= AliasMaximum

LEMMA AliasMaximumType ==
    ASSUME Believed
    PROVE  /\ AliasMaximum \in Nat
           /\ Names(TOPIC_ALIAS_MAXIMUM) => server.topic_alias_maximum = AliasMaximum
<1>1. PICK list \in Seq(ConnackProperty) : list = announced
  BY DEF Believed
<1>2. PICK none \in Nat : none = 0
  OBVIOUS
<1>3. AliasMaximum = NumberOf(list, TOPIC_ALIAS_MAXIMUM, none)
  BY <1>1, <1>2 DEF AliasMaximum, Announced
<1>4. AliasMaximum \in Nat
  BY <1>3, SizedIds, ConnackNumber
<1>5. ASSUME Names(TOPIC_ALIAS_MAXIMUM) PROVE server.topic_alias_maximum = AliasMaximum
  <2>1. PICK i \in 1 .. Len(list) : list[i].id = TOPIC_ALIAS_MAXIMUM
    BY <1>1, <1>5 DEF Names
  <2>2. \A a, b : NumberOf(list, TOPIC_ALIAS_MAXIMUM, a) = NumberOf(list, TOPIC_ALIAS_MAXIMUM, b)
    BY <2>1, NamedNumber
  <2> QED BY <1>1, <1>3, <2>2 DEF Believed
<1> QED BY <1>4, <1>5

LEMMA AliasesKept ==
    ASSUME Believed, AliasesFit, UNCHANGED <<server, announced, connections>>, setHere' => setHere,
           publish_property' = publish_property \/ publish_property' = NoPublish
    PROVE  AliasesFit'
<1>1. PICK m \in Nat : m = AliasMaximum /\ m = AliasMaximum'
  BY AliasMaximumType DEF AliasMaximum, Announced
<1>2. Names(TOPIC_ALIAS_MAXIMUM)' = Names(TOPIC_ALIAS_MAXIMUM)
  BY DEF Names
<1>3. CASE publish_property' = publish_property
  BY <1>1, <1>2, <1>3 DEF AliasesFit
<1>4. CASE publish_property' = NoPublish
  <2>1. publish_property'.topic_alias = 0
    BY <1>4 DEF NoPublish
  <2> QED BY <1>1, <2>1 DEF AliasesFit
<1> QED BY <1>3, <1>4

LEMMA AliasSet ==
    ASSUME Believed, AliasesFit, NEW new \in PublishSettings, SetPublishProperty(new)
    PROVE  AliasesFit'
<1>1. UNCHANGED <<server, announced, connections>>
  BY DEF SetPublishProperty, Called, aboutBroker, brokerVars
<1>2. PICK alias \in Nat : alias = publish_property'.topic_alias /\ alias <= server.topic_alias_maximum
  <2>1. new \in PublishSet
    BY SettingsGiven
  <2>2. new.topic_alias \in Nat /\ publish_property'.topic_alias = new.topic_alias
    BY <2>1 DEF PublishSet, SetPublishProperty
  <2> QED BY <2>2 DEF SetPublishProperty
<1>3. PICK m \in Nat : m = AliasMaximum /\ m = AliasMaximum'
  BY <1>1, AliasMaximumType DEF AliasMaximum, Announced
<1>4. Names(TOPIC_ALIAS_MAXIMUM)' => server.topic_alias_maximum = m
  BY <1>1, <1>3, AliasMaximumType DEF Names
<1> QED BY <1>1, <1>2, <1>3, <1>4 DEF AliasesFit

LEMMA AliasConnect ==
    ASSUME SettingsInv, Believed', AliasesFit, Connect
    PROVE  AliasesFit'
<1>1. PICK ack \in Connacks : /\ ack.list \in Seq(ConnackProperty) /\ announced' = ack.list
                              /\ server' = ServerOf(ConnackFields(ack.list), server)
  BY ConnectTaken
<1>2. PICK list \in Seq(ConnackProperty) : list = ack.list
  BY <1>1
<1>3. server' = ServerOf(ConnackFields(list), server) /\ server \in ServerSet
  BY <1>1, <1>2 DEF SettingsInv
<1>4. server'.topic_alias_maximum
          = NumberOf(list, TOPIC_ALIAS_MAXIMUM, server.topic_alias_maximum)
  BY <1>3, ServerTaken
<1>5. PICK m : m = AliasMaximum' /\ m = NumberOf(list, TOPIC_ALIAS_MAXIMUM, 0)
  BY <1>1, <1>2 DEF AliasMaximum, Announced
<1>6. m \in Nat
  <2>1. PICK none \in Nat : none = 0
    OBVIOUS
  <2> QED BY <1>5, <2>1, SizedIds, ConnackNumber
<1>7. connections' = connections + 1 /\ ~ setHere' /\ publish_property' = publish_property
  BY DEF Connect
<1>8. connections = 0 => server'.topic_alias_maximum = m
  BY <1>4, <1>5 DEF AliasesFit
<1> QED BY <1>5, <1>6, <1>7, <1>8 DEF AliasesFit

LEMMA AliasesStep ==
    ASSUME SettingsInv, Believed, AliasesFit, [Mqtt5Next]_mqtt5Vars, Connect => Believed'
    PROVE  AliasesFit'
<1>1. CASE Connect
  BY <1>1, AliasConnect
<1>2. ASSUME NEW new \in PublishSettings, SetPublishProperty(new) PROVE AliasesFit'
  BY <1>2, AliasSet
<1>3. CASE \/ \E new \in ConnectSettings : SetConnectProperty(new)
           \/ \E new \in SubscribeSettings : SetSubscribeProperty(new)
           \/ \E new \in UnsubscribeSettings : SetUnsubscribeProperty(new)
           \/ \E new \in DisconnectSettings : SetDisconnectProperty(new)
  <2>1. UNCHANGED <<server, announced, connections, setHere, publish_property>>
    BY <1>3 DEF SetConnectProperty, SetSubscribeProperty, SetUnsubscribeProperty,
                SetDisconnectProperty, Called, aboutBroker, brokerVars, flags
  <2> QED BY <2>1, AliasesKept
<1>4. CASE Break \/ Disconnect \/ BrokerDisconnects \/ UNCHANGED mqtt5Vars
  <2>1. UNCHANGED <<server, announced, connections, setHere, publish_property>>
    BY <1>4 DEF Break, Disconnect, BrokerDisconnects, Called, mqtt5Vars, aboutBroker, brokerVars,
                flags, settings, bounds
  <2> QED BY <2>1, AliasesKept
<1>5. ASSUME NEW request \in Publishes, Publish(request) \/ Enqueue(request) PROVE AliasesFit'
  <2>1. /\ UNCHANGED <<server, announced, connections, setHere>>
        /\ publish_property' = NoPublish
    BY <1>5 DEF Publish, Enqueue, make_publish, Called, aboutBroker, brokerVars, flags
  <2> QED BY <2>1, AliasesKept
<1>6. CASE ResendQueued \/ ResendTransmitted \/ ResendPubrel
  <2>1. UNCHANGED <<server, announced, connections, setHere, publish_property>>
    BY <1>6 DEF ResendQueued, ResendTransmitted, ResendPubrel, Resends, settings, bounds
  <2> QED BY <2>1, AliasesKept
<1>7. CASE Subscribe \/ Unsubscribe \/ SubscriptionAnswered
  <2>1. UNCHANGED <<server, announced, connections, setHere, publish_property>>
    BY <1>7 DEF Subscribe, Unsubscribe, Requested, SubscriptionAnswered, Called, aboutBroker,
                brokerVars, flags, settings, bounds
  <2> QED BY <2>1, AliasesKept
<1>8. ASSUME NEW id \in 1 .. MAX_CALLS, Answer(id) PROVE AliasesFit'
  <2>1. UNCHANGED <<server, announced, connections, setHere, publish_property>>
    BY <1>8 DEF Answer, flags, settings, bounds
  <2> QED BY <2>1, AliasesKept
<1>9. ASSUME NEW message \in Messages, Incoming(message) PROVE AliasesFit'
  <2>1. UNCHANGED <<server, announced, connections, setHere, publish_property>>
    BY <1>9 DEF Incoming, flags, settings
  <2> QED BY <2>1, AliasesKept
<1> QED BY <1>1, <1>2, <1>3, <1>4, <1>5, <1>6, <1>7, <1>8, <1>9 DEF Mqtt5Next

\* What BrokerRespected says, in parts.
AliasOnce == connections = 1 \/ (last.setHere /\ Names(TOPIC_ALIAS_MAXIMUM))

PublishedFits ==
    last.kind = "publish" =>
        /\ last.request.qos <= Announced(MAXIMUM_QOS, 2)
        /\ last.request.retain <= Announced(RETAIN_AVAILABLE, 1)
        /\ AliasOnce => last.property.topic_alias <= AliasMaximum
FlightFits == ~ miscounted /\ ~ queuedSent => Cardinality(inFlight) <= Window + 1

BrokerInv == CountInv /\ Believed /\ AliasesFit /\ (connected => PublishedFits /\ FlightFits)

LEMMA RespectedIs == BrokerInv => BrokerRespected
BY SMT DEF BrokerInv, BrokerRespected, PublishedFits, AliasOnce, AliasMaximum, FlightFits, Window

\* A step that publishes nothing at once, and sends nothing that is counted.
LEMMA BrokerKept ==
    ASSUME BrokerInv, CountInv', AliasesFit', UNCHANGED <<announced, server, connections>>,
           connected' => connected,
           last' = last \/ last'.kind # "publish",
           connected' /\ ~ miscounted' /\ ~ queuedSent' =>
               ~ miscounted /\ ~ queuedSent /\ inFlight' \subseteq inFlight
    PROVE  BrokerInv'
<1>1. Believed'
  BY BelievedKept DEF BrokerInv
<1>2. ASSUME connected' PROVE PublishedFits'
  <2>1. PublishedFits
    BY <1>2 DEF BrokerInv
  <2> QED BY <2>1 DEF PublishedFits, AliasOnce, AliasMaximum, Announced, Names
<1>3. ASSUME connected', ~ miscounted', ~ queuedSent' PROVE Cardinality(inFlight') <= Window' + 1
  <2>1. FlightFits /\ ~ miscounted /\ ~ queuedSent /\ inFlight' \subseteq inFlight
    BY <1>3 DEF BrokerInv
  <2>2. Window' = Window
    BY SMT DEF Window, Announced
  <2>3. callsMade \in Nat /\ inFlight \subseteq 1 .. callsMade /\ SettingsInv /\ Believed
    BY DEF BrokerInv, CountInv, SettingsInv
  <2>4. IsFiniteSet(inFlight)
    BY <2>3, FlightFinite
  <2>5. Cardinality(inFlight') <= Cardinality(inFlight)
    BY <2>1, <2>4, FS_Subset
  <2>6. inFlight' \subseteq 1 .. callsMade
    BY <2>1, <2>3
  <2>7. Cardinality(inFlight) \in Nat /\ Cardinality(inFlight') \in Nat /\ Window \in Nat
    BY <2>3, <2>6, FlightFinite, AnnouncedType
  <2>8. Cardinality(inFlight) <= Window + 1
    BY <2>1 DEF FlightFits
  <2> QED BY <2>2, <2>5, <2>7, <2>8
<1> QED BY <1>1, <1>2, <1>3 DEF BrokerInv, FlightFits

LEMMA BrokerPublish ==
    ASSUME BrokerInv, CountInv', AliasesFit', NEW request \in Publishes, Publish(request)
    PROVE  BrokerInv'
<1>1. /\ SettingsInv /\ Believed /\ CountTrue /\ inFlight \subseteq 1 .. callsMade
      /\ callsMade \in Nat
  BY DEF BrokerInv, CountInv, SettingsInv
<1>2. /\ UNCHANGED <<announced, server, connected, queuedSent, connections>>
      /\ callsMade' = callsMade + 1
  BY DEF Publish, Called
<1>3. /\ request.qos \in 0 .. 2 /\ request.retain \in 0 .. 1
      /\ request.qos <= server.max_qos
      /\ request.retain = 1 => server.retain_available = 1
      /\ count <= server.receive_maximum
  BY RequestGiven DEF Publish, esp_mqtt5_client_publish_check
<1>4. Believed'
  BY <1>1, <1>2, BelievedKept
<1>5. ASSUME connected PROVE PublishedFits'
  <2>1. /\ last'.request = request /\ last'.property = publish_property
        /\ last'.setHere = setHere
    BY <1>5 DEF Publish
  <2>2. /\ request.qos <= Announced(MAXIMUM_QOS, 2)
        /\ request.retain <= Announced(RETAIN_AVAILABLE, 1)
    BY <1>1, <1>3, AnnouncedType
  <2>3. /\ Announced(MAXIMUM_QOS, 2)' = Announced(MAXIMUM_QOS, 2)
        /\ Announced(RETAIN_AVAILABLE, 1)' = Announced(RETAIN_AVAILABLE, 1)
    BY <1>2 DEF Announced
  <2>4. AliasMaximum' = AliasMaximum
    BY <1>2 DEF AliasMaximum, Announced
  <2>5. AliasOnce' => publish_property.topic_alias <= AliasMaximum
    <3>1. AliasOnce' => connections = 1 \/ (setHere /\ Names(TOPIC_ALIAS_MAXIMUM))
      BY <1>2, <2>1 DEF AliasOnce, Names
    <3>2. AliasesFit
      BY DEF BrokerInv
    <3> QED BY <3>1, <3>2 DEF AliasesFit
  <2> QED BY <2>1, <2>2, <2>3, <2>4, <2>5 DEF PublishedFits
<1>6. ASSUME connected, ~ miscounted', ~ queuedSent' PROVE Cardinality(inFlight') <= Window' + 1
  <2>1. Window' = Window
    BY <1>2, SMT DEF Window, Announced
  <2>2. PICK n, w \in Nat : n = Cardinality(inFlight) /\ w = Window
    BY <1>1, FlightFinite, AnnouncedType
  <2>3. CASE request.qos > 0
    <3>1. inFlight' = inFlight \cup {callsMade + 1} /\ ~ miscounted
      BY <1>2, <1>6, <2>3 DEF Publish
    <3>2. callsMade + 1 \notin inFlight
      BY <1>1
    <3>3. Cardinality(inFlight') = n + 1
      BY <1>1, <2>2, <3>1, <3>2, FlightFinite
    <3>4. n <= server.receive_maximum
      BY <1>1, <1>3, <1>6, <2>2, <3>1 DEF CountTrue
    <3>5. server.receive_maximum <= w
      BY <1>1, <2>2, AnnouncedType
    <3>6. server.receive_maximum \in Nat
      BY <1>1 DEF SettingsInv, ServerSet
    <3> QED BY <2>1, <2>2, <3>3, <3>4, <3>5, <3>6
  <2>4. CASE ~ (request.qos > 0)
    <3>1. inFlight' = inFlight /\ ~ miscounted /\ ~ queuedSent
      BY <1>2, <1>6, <2>4 DEF Publish
    <3>2. n <= w + 1
      BY <1>6, <2>2, <3>1 DEF BrokerInv, FlightFits
    <3> QED BY <2>1, <2>2, <3>1, <3>2
  <2> QED BY <2>3, <2>4
<1> QED BY <1>2, <1>4, <1>5, <1>6 DEF BrokerInv, FlightFits

LEMMA BrokerConnect ==
    ASSUME BrokerInv, CountInv', AliasesFit', Connect
    PROVE  BrokerInv'
<1>1. SettingsInv /\ Believed
  BY DEF BrokerInv, CountInv
<1>2. Believed'
  BY <1>1, BelievedConnect
<1>3. inFlight' = {} /\ last'.kind = "connect"
  BY DEF Connect
<1>4. PublishedFits'
  BY <1>3 DEF PublishedFits
<1>5. Cardinality(inFlight') <= Window' + 1
  <2>1. SettingsInv'
    BY DEF CountInv
  <2>2. Window' \in Nat
    <3>1. PICK a \in Nat : a = server'.receive_maximum
      BY <2>1 DEF SettingsInv, ServerSet
    <3>2. PICK m \in Nat : m = 65535
      OBVIOUS
    <3>3. Window' = NumberOf(announced', RECEIVE_MAXIMUM, m)
      BY <3>2, SMT DEF Window, Announced
    <3>4. NumberOf(announced', RECEIVE_MAXIMUM, m) \in {a, m}
      BY <1>2, <3>1, NumberNamed DEF Believed
    <3> QED BY <3>3, <3>4
  <2>3. Cardinality(inFlight') = 0
    BY <1>3, FS_EmptySet
  <2>4. PICK w, n : w = Window' /\ n = Cardinality(inFlight')
    OBVIOUS
  <2>5. w \in Nat /\ n = 0
    BY <2>2, <2>3, <2>4
  <2>6. n <= w + 1
    BY <2>5
  <2> QED BY <2>4, <2>6
<1> QED BY <1>2, <1>4, <1>5 DEF BrokerInv, FlightFits

\* What is published at once, is published by Publish.
LEMMA LastKind ==
    ASSUME [Mqtt5Next]_mqtt5Vars, \A request \in Publishes : ~ Publish(request)
    PROVE  last' = last \/ last'.kind # "publish"
<1>1. CASE \/ \E new \in ConnectSettings : SetConnectProperty(new)
           \/ \E new \in PublishSettings : SetPublishProperty(new)
           \/ \E new \in SubscribeSettings : SetSubscribeProperty(new)
           \/ \E new \in UnsubscribeSettings : SetUnsubscribeProperty(new)
           \/ \E new \in DisconnectSettings : SetDisconnectProperty(new)
  BY <1>1 DEF SetConnectProperty, SetPublishProperty, SetSubscribeProperty, SetUnsubscribeProperty,
              SetDisconnectProperty, Nothing
<1>2. CASE Break \/ Connect \/ Disconnect \/ BrokerDisconnects
  BY <1>2 DEF Break, Connect, Disconnect, BrokerDisconnects, Nothing
<1>3. CASE ResendQueued \/ ResendTransmitted \/ ResendPubrel
  BY <1>3 DEF ResendQueued, ResendTransmitted, ResendPubrel, Resends, Nothing
<1>4. CASE Subscribe \/ Unsubscribe \/ SubscriptionAnswered
  BY <1>4 DEF Subscribe, Unsubscribe, SubscriptionAnswered, Requested
<1>5. CASE \E request \in Publishes : Enqueue(request)
  BY <1>5 DEF Enqueue, Nothing
<1>6. CASE \E id \in 1 .. MAX_CALLS : Answer(id)
  BY <1>6 DEF Answer, Received, Finish, Nothing
<1>7. CASE \E message \in Messages : Incoming(message)
  <2>1. PICK event, message : Receive(event, message)
    BY <1>7 DEF Incoming, ReceiveBytes
  <2> QED BY <2>1 DEF Receive
<1>8. CASE UNCHANGED mqtt5Vars
  BY <1>8 DEF mqtt5Vars
<1> QED BY <1>1, <1>2, <1>3, <1>4, <1>5, <1>6, <1>7, <1>8 DEF Mqtt5Next

LEMMA BrokerInit == Mqtt5Init => BrokerInv
<1> SUFFICES ASSUME Mqtt5Init PROVE BrokerInv
  OBVIOUS
<1>1. connected = FALSE /\ announced = <<>> /\ server = DefaultServer
  BY DEF Mqtt5Init
<1>2. Believed
  <2>1. PICK list : list = <<>>
    OBVIOUS
  <2>2. list \in Seq(ConnackProperty)
    BY <2>1
  <2>3. \A id, default : NumberOf(list, id, default) = default
    <3>1. {i \in 1 .. Len(list) : FALSE} = {} /\ 1 .. Len(list) = {}
      BY <2>1
    <3>2. ASSUME NEW id PROVE LastOf(list, id) = 0
      BY <3>1 DEF LastOf, SelectLastInSeq
    <3> QED BY <3>2, TextOfAt
  <2>4. server.receive_maximum \in Word16
    BY <1>1, SMT DEF DefaultServer, Word16
  <2> QED BY <1>1, <2>1, <2>2, <2>3, <2>4 DEF Believed
<1>3. AliasesFit
  <2>1. connections = 0 /\ setHere = FALSE /\ publish_property = NoPublish
    BY DEF Mqtt5Init
  <2> QED BY <1>1, <2>1, SMT DEF AliasesFit, DefaultServer, NoPublish
<1> QED BY <1>1, <1>2, <1>3, CountInit DEF BrokerInv

LEMMA BrokerStep == BrokerInv /\ [Mqtt5Next]_mqtt5Vars => BrokerInv'
<1> SUFFICES ASSUME BrokerInv, [Mqtt5Next]_mqtt5Vars PROVE BrokerInv'
  OBVIOUS
<1>1. CountInv' /\ callsMade \in Nat
  BY CountStep DEF BrokerInv, CountInv, SettingsInv
<1>0. AliasesFit'
  <2>1. SettingsInv /\ Believed /\ AliasesFit
    BY DEF BrokerInv, CountInv
  <2>2. Connect => Believed'
    BY <2>1, BelievedConnect
  <2> QED BY <2>1, <2>2, AliasesStep
<1>2. ASSUME NEW request \in Publishes, Publish(request) PROVE BrokerInv'
  BY <1>0, <1>1, <1>2, BrokerPublish
<1>3. CASE Connect
  BY <1>0, <1>1, <1>3, BrokerConnect
<1>4. CASE ~ Connect /\ \A request \in Publishes : ~ Publish(request)
  <2>1. last' = last \/ last'.kind # "publish"
    BY <1>4, LastKind
  <2>2. CASE Aside
    <3>1. /\ connected' => connected
          /\ UNCHANGED <<inFlight, miscounted, queuedSent, announced, server, connections>>
      BY <1>1, <2>2, AsideKeeps
    <3> QED BY <1>0, <1>1, <2>1, <3>1, BrokerKept
  <2>3. CASE \/ \E request \in Publishes : Enqueue(request)
             \/ Subscribe \/ Unsubscribe \/ SubscriptionAnswered
    <3>1. UNCHANGED <<connected, inFlight, miscounted, queuedSent, announced, server, connections>>
      BY <2>3 DEF Enqueue, Subscribe, Unsubscribe, Requested, SubscriptionAnswered, Called,
                  aboutBroker, brokerVars, flags, bounds
    <3> QED BY <1>0, <1>1, <2>1, <3>1, BrokerKept
  <2>4. CASE ResendQueued \/ ResendTransmitted \/ ResendPubrel
    <3>1. /\ UNCHANGED <<connected, announced, server, connections>>
          /\ miscounted' \/ queuedSent'
      BY <2>4 DEF ResendQueued, ResendTransmitted, ResendPubrel, Resends, bounds
    <3> QED BY <1>0, <1>1, <2>1, <3>1, BrokerKept
  <2>5. ASSUME NEW id \in 1 .. MAX_CALLS, Answer(id) PROVE BrokerInv'
    <3>1. /\ UNCHANGED <<connected, announced, server, miscounted, queuedSent, connections>>
          /\ inFlight' \subseteq inFlight
      BY <2>5 DEF Answer, flags, bounds
    <3> QED BY <1>0, <1>1, <2>1, <3>1, BrokerKept
  <2> QED BY <1>4, <2>2, <2>3, <2>4, <2>5 DEF Mqtt5Next, Aside
<1> QED BY <1>2, <1>3, <1>4

\* Mqtt5: esp_mqtt5_client_publish_check lets no QoS and no retain flag through that the broker
\* of the connection does not take, whatever earlier brokers announced, and at most one message
\* more than its receive maximum is unacknowledged as long as the task sends nothing by itself.
\* The check of aliases in esp_mqtt5_client_set_publish_property holds for the first broker, and
\* for a later one that names a number, of an alias that was set on its connection; no more can
\* be said of aliases, since server_resp_property_info is not reset.
THEOREM BrokerIsRespected == Mqtt5Spec => []BrokerRespected
BY BrokerInit, BrokerStep, RespectedIs, PTL DEF Mqtt5Spec


----------------------------------------------------------------------------
(* Answers, as they are told *)

\* mqtt5_get_puback_data and mqtt5_get_suback_data, a name for each part.
PubackSteps(read, buffer, length) ==
    \E start, code, users :
        /\ start = Start5(buffer, length) /\ code = start.offset + 2
        /\ read = [data |-> IF code < start.total THEN <<buffer[code + 1]>> ELSE <<>>,
                   user_property |-> users]

LEMMA PubackStepsOf ==
    ASSUME NEW buffer, NEW length
    PROVE  PubackSteps(mqtt5_get_puback_data(buffer, length), buffer, length)
BY Zenon DEF mqtt5_get_puback_data, PubackSteps

SubackSteps(read, buffer, length) ==
    \E start, size, codes, users :
        /\ start = Start5(buffer, length)
        /\ size = get_variable_len(buffer, start.offset + 2, start.total)
        /\ codes = start.offset + 2 + size.bytes + size.len
        /\ read = IF start.total > length \/ codes >= start.total
                  THEN [data |-> <<>>, user_property |-> <<>>]
                  ELSE [data |-> SubSeq(buffer, codes + 1, start.total), user_property |-> users]

LEMMA SubackStepsOf ==
    ASSUME NEW buffer, NEW length
    PROVE  SubackSteps(mqtt5_get_suback_data(buffer, length), buffer, length)
BY Zenon DEF mqtt5_get_suback_data, SubackSteps

\* The reason code of an acknowledgement is told; 0 may be left out.
PublishedAs(data, code) == data = <<code>> \/ (data = <<>> /\ code = 0)

LEMMA AckRead ==
    ASSUME NEW type \in Nat, NEW id, NEW code \in Nat, NEW bytes, bytes = AckOf(type, id, code),
           id \in Nat
    PROVE  PublishedAs(mqtt5_get_puback_data(bytes, Len(bytes)).data, code)
<1>1. PICK w \in Seq(Nat) : w = Word(id) /\ Len(w) = 2
  BY WordType
<1>2. PICK tail : tail = IF code = 0 THEN <<>> ELSE <<code, 0>>
  OBVIOUS
<1>3. PICK k \in {0, 2} : tail \in Seq(Nat) /\ k = Len(tail) /\ (k = 0 <=> code = 0)
                          /\ (k = 2 => tail[1] = code)
  <2>1. CASE code = 0
    <3>1. tail = <<>>
      BY <1>2, <2>1
    <3>2. tail \in Seq(Nat) /\ Len(tail) = 0
      BY <3>1
    <3> QED BY <2>1, <3>2
  <2>2. CASE code # 0
    <3>1. tail = <<code, 0>>
      BY <1>2, <2>2
    <3>2. tail \in Seq(Nat) /\ Len(tail) = 2 /\ tail[1] = code
      BY <3>1
    <3> QED BY <2>2, <3>2
  <2> QED BY <2>1, <2>2
<1>4. PICK rest \in Seq(Nat) : rest = w \o tail /\ Len(rest) = 2 + k /\ (k = 2 => rest[3] = code)
  <2>1. w \o tail \in Seq(Nat) /\ Len(w \o tail) = Len(w) + Len(tail)
    BY <1>3
  <2>2. Len(w \o tail) = 2 + k
    BY <1>1, <1>3, <2>1
  <2>0. w \o tail \in Seq(Nat)
    BY <1>3
  <2>3. ASSUME k = 2 PROVE (w \o tail)[3] = code
    <3>1. PICK n, m : n = Len(w) /\ m = Len(tail) /\ n = 2 /\ m = 2
      BY <1>1, <1>3, <2>3
    <3>2. tail \in Seq(Nat) /\ tail[1] = code
      BY <1>3, <2>3
    <3>3. At(w \o tail, 2, tail)
      <4>1. PICK u \in Seq(Nat) : u = w \o tail
        BY <2>0
      <4>2. At(u, 0, w \o tail)
        BY <4>1, AtWhole
      <4>3. At(u, 0 + Len(w), tail)
        BY <3>2, <4>1, <4>2, AtConcat
      <4> QED BY <1>1, <4>1, <4>3
    <3>4. 1 \in 1 .. Len(tail)
      BY <3>1
    <3> QED BY <3>2, <3>3, <3>4 DEF At
  <2> QED BY <2>1, <2>2, <2>3
<1>5. PICK first \in Nat : first = type * 16
  OBVIOUS
<1>6. bytes = <<first, Len(rest)>> \o rest
  BY <1>1, <1>2, <1>4, <1>5 DEF AckOf
<1>7. Len(rest) < 128
  <2>1. k \in Nat /\ k <= 2
    OBVIOUS
  <2>2. Len(rest) = 2 + k
    BY <1>4
  <2> QED BY <2>1, <2>2
<1>8. Opens(bytes, first, rest, 2)
  BY <1>6, <1>7, SmallOpens
<1>9. PICK l \in Nat : l = Len(bytes) /\ l = 4 + k
  BY <1>3, <1>4, <1>8 DEF Opens
<1>10. PICK read, start, number, users :
           /\ read = mqtt5_get_puback_data(bytes, l)
           /\ start = Start5(bytes, l) /\ number = start.offset + 2
           /\ read = [data |-> IF number < start.total THEN <<bytes[number + 1]>> ELSE <<>>,
                      user_property |-> users]
  BY PubackStepsOf DEF PubackSteps
<1>11. start.offset = 2 /\ start.total = l /\ number = 4
  BY <1>8, <1>9, <1>10 DEF Opens
<1>12. read.data = IF 4 < l THEN <<bytes[5]>> ELSE <<>>
  BY <1>10, <1>11
<1>13. CASE k = 0
  BY <1>3, <1>9, <1>10, <1>12, <1>13 DEF PublishedAs
<1>14. CASE k = 2
  <2>1. At(bytes, 2, rest) /\ 3 \in 1 .. Len(rest)
    BY <1>4, <1>8, <1>14 DEF Opens
  <2>2. bytes[5] = rest[3]
    BY <2>1 DEF At
  <2>3. bytes[5] = code /\ 4 < l
    BY <1>4, <1>9, <1>14, <2>2
  <2>4. read.data = <<code>>
    BY <1>12, <2>3
  <2> QED BY <1>9, <1>10, <2>4 DEF PublishedAs
<1> QED BY <1>3, <1>13, <1>14


\* A length of one byte is read.
SmallLength(read, size) == read.len = size /\ read.bytes = 1

LEMMA SmallLengthRead ==
    ASSUME NEW number \in Nat, number < 128, NEW buffer \in Seq(Nat), NEW offset \in Nat,
           At(buffer, offset, <<number>>), NEW limit \in Nat, offset + 1 <= limit, limit <= Len(buffer)
    PROVE  SmallLength(get_variable_len(buffer, offset, limit), number)
<1>1. PICK d \in Seq(Nat) : d = <<number>> /\ Len(d) = 1
  <2>1. <<number>> \in Seq(Nat) /\ Len(<<number>>) = 1
    OBVIOUS
  <2> QED BY <2>1
<1>2. remaining_length[number] = d
  BY <1>1, RemainingLengthSteps
<1>3. At(buffer, offset, remaining_length[number])
  BY <1>1, <1>2
<1>4. offset + Len(remaining_length[number]) <= limit
  BY <1>1, <1>2
<1>5. get_variable_len(buffer, offset, limit) = [len |-> number, bytes |-> Len(remaining_length[number])]
  BY <1>3, <1>4, VarLenRead
<1> QED BY <1>1, <1>2, <1>5 DEF SmallLength

\* The SUBACK of a broker, as SubscriptionAnswered writes it.
SubackOf(id, code, extra) ==
    LET body == Word(id) \o <<Len(extra)>> \o extra \o <<1, code>>
    IN  <<SUBACK * 16, Len(body)>> \o body

LEMMA SubackRead ==
    ASSUME NEW id \in Nat, NEW code \in Nat, NEW extra \in Seq(Nat), Len(extra) < 100,
           NEW bytes, bytes = SubackOf(id, code, extra)
    PROVE  mqtt5_get_suback_data(bytes, Len(bytes)).data = <<1, code>>
<1>25. PICK body : body = Word(id) \o <<Len(extra)>> \o extra \o <<1, code>>
  OBVIOUS
<1>26. bytes = <<SUBACK * 16, Len(body)>> \o body
  BY <1>25 DEF SubackOf
<1>1. PICK e \in Nat : e = Len(extra) /\ e < 100
  OBVIOUS
<1>2. PICK w, d, c \in Seq(Nat) : w = Word(id) /\ d = <<e>> /\ c = <<1, code>>
  <2>1. <<e>> \in Seq(Nat) /\ <<1, code>> \in Seq(Nat)
    BY <1>1
  <2> QED BY <2>1, WordType
<1>3. Len(w) = 2 /\ Len(d) = 1 /\ Len(c) = 2
  BY <1>2, WordType
<1>4. PICK f, g, rest \in Seq(Nat) : f = w \o d /\ g = f \o extra /\ rest = g \o c
  <2>1. w \o d \in Seq(Nat)
    OBVIOUS
  <2>2. (w \o d) \o extra \in Seq(Nat)
    BY <2>1
  <2>3. ((w \o d) \o extra) \o c \in Seq(Nat)
    BY <2>2
  <2> QED BY <2>1, <2>2, <2>3
<1>5. Len(f) = 3 /\ Len(g) = 3 + e /\ Len(rest) = 5 + e
  <2>1. Len(f) = Len(w) + Len(d) /\ Len(g) = Len(f) + Len(extra) /\ Len(rest) = Len(g) + Len(c)
    BY <1>4
  <2> QED BY <1>1, <1>3, <2>1
<1>6. rest = body /\ Len(rest) < 128
  <2>1. rest = body
    BY <1>1, <1>2, <1>4, <1>25
  <2> QED BY <1>1, <1>5, <2>1
<1>7. PICK first \in Nat : first = SUBACK * 16
  BY DEF SUBACK
<1>8. Opens(bytes, first, rest, 2)
  <2>1. bytes = <<first, Len(rest)>> \o rest
    BY <1>6, <1>7, <1>26
  <2> QED BY <1>6, <2>1, SmallOpens
<1>9. bytes \in Seq(Nat) /\ At(bytes, 2, rest)
  BY <1>8 DEF Opens
<1>10. At(bytes, 2, g) /\ At(bytes, 2 + Len(g), c)
  BY <1>4, <1>9, AtConcat
<1>11. At(bytes, 2, f)
  BY <1>4, <1>9, <1>10, AtConcat
<1>12. At(bytes, 2 + Len(w), d)
  BY <1>4, <1>9, <1>11, AtConcat
<1>13. PICK l \in Nat : l = Len(bytes) /\ l = 7 + e
  BY <1>5, <1>8 DEF Opens
<1>14. PICK o \in Nat : o = 4
  OBVIOUS
<1>15. SmallLength(get_variable_len(bytes, o, l), e)
  <2>1. At(bytes, o, <<e>>)
    BY <1>2, <1>3, <1>12, <1>14
  <2>2. o + 1 <= l /\ l <= Len(bytes) /\ e < 128
    BY <1>1, <1>13, <1>14
  <2> QED BY <1>9, <2>1, <2>2, SmallLengthRead
<1>23. SubackSteps(mqtt5_get_suback_data(bytes, l), bytes, l)
  BY SubackStepsOf
<1>16. PICK start, size, codes, users :
           /\ start = Start5(bytes, l)
           /\ size = get_variable_len(bytes, start.offset + 2, start.total)
           /\ codes = start.offset + 2 + size.bytes + size.len
           /\ mqtt5_get_suback_data(bytes, l) =
                 IF start.total > l \/ codes >= start.total
                 THEN [data |-> <<>>, user_property |-> <<>>]
                 ELSE [data |-> SubSeq(bytes, codes + 1, start.total), user_property |-> users]
  BY <1>23, Zenon DEF SubackSteps
<1>24. PICK read : read = mqtt5_get_suback_data(bytes, l)
  OBVIOUS
<1>17. start.offset = 2 /\ start.total = l
  BY <1>8, <1>13, <1>16 DEF Opens
<1>18. size.len = e /\ size.bytes = 1
  <2>1. start.offset + 2 = o
    BY <1>14, <1>17
  <2>2. size = get_variable_len(bytes, o, l)
    BY <1>16, <1>17, <2>1
  <2> QED BY <1>15, <2>2 DEF SmallLength
<1>19. codes = 5 + e
  <2>1. codes = 2 + 2 + 1 + e
    BY <1>16, <1>17, <1>18
  <2> QED BY <1>1, <2>1
<1>20. read.data = SubSeq(bytes, codes + 1, l)
  <2>1. ~ (start.total > l \/ codes >= start.total)
    BY <1>13, <1>17, <1>19
  <2>2. read = [data |-> SubSeq(bytes, codes + 1, start.total), user_property |-> users]
    BY <1>16, <1>24, <2>1
  <2> QED BY <1>17, <2>2
<1>21. SubSeq(bytes, codes + 1, l) = c
  <2>1. At(bytes, codes, c) /\ codes \in Nat /\ codes + Len(c) = l
    <3>1. codes = 2 + Len(g)
      BY <1>5, <1>19
    <3>2. codes + Len(c) = l
      BY <1>3, <1>13, <1>19
    <3> QED BY <1>10, <1>19, <3>1, <3>2
  <2> QED BY <1>9, <2>1, AtSub
<1> QED BY <1>2, <1>13, <1>20, <1>21, <1>24

LEMMA BrokerDisconnectRead ==
    ASSUME NEW bytes, bytes = <<DISCONNECT * 16, 1, 139>>
    PROVE  mqtt5_msg_get_reason_code(bytes, Len(bytes)) = 139
<1>1. PICK rest \in Seq(Nat) : rest = <<139>> /\ Len(rest) = 1 /\ rest[1] = 139
  <2>1. <<139>> \in Seq(Nat)
    OBVIOUS
  <2> QED BY <2>1
<1>2. PICK first \in Nat : first = FirstByte(DISCONNECT, 0, 0) /\ first = DISCONNECT * 16
  BY DEF FirstByte, DISCONNECT
<1>3. bytes = <<first, Len(rest)>> \o rest
  <2>1. PICK a \in Seq(Nat) : a = <<first, 1>> /\ Len(a) = 2 /\ a[1] = first /\ a[2] = 1
    <3>1. <<first, 1>> \in Seq(Nat)
      OBVIOUS
    <3> QED BY <3>1
  <2>2. PICK c \in Seq(Nat) : c = bytes /\ Len(c) = 3 /\ c[1] = first /\ c[2] = 1 /\ c[3] = 139
    <3>1. <<first, 1, 139>> \in Seq(Nat)
      OBVIOUS
    <3> QED BY <1>2, <3>1
  <2>3. PICK d \in Seq(Nat) : d = a \o rest
    <3>1. a \o rest \in Seq(Nat)
      OBVIOUS
    <3> QED BY <3>1
  <2>4. Len(d) = 3 /\ d[1] = first /\ d[2] = 1 /\ d[3] = 139
    BY <1>1, <2>1, <2>3
  <2>5. \A i \in 1 .. 3 : i = 1 \/ i = 2 \/ i = 3
    OBVIOUS
  <2>6. \A i \in 1 .. 3 : d[i] = c[i]
    BY <2>2, <2>4, <2>5
  <2>7. d = c
    BY <2>2, <2>4, <2>6, SeqEqual
  <2> QED BY <1>1, <2>1, <2>2, <2>3, <2>7
<1>4. Opens(bytes, first, rest, 2)
  <2>1. Len(rest) < 128
    BY <1>1
  <2> QED BY <1>3, <2>1, SmallOpens
<1>5. Len(rest) >= 1 /\ 2 \in Nat
  BY <1>1
<1>6. Opens(bytes, FirstByte(DISCONNECT, 0, 0), rest, 2)
  BY <1>2, <1>4
<1>7. mqtt5_msg_get_reason_code(bytes, Len(bytes)) = rest[1]
  BY <1>5, <1>6, ReasonCodeOf
<1> QED BY <1>1, <1>7

\* The application reads all the user properties that a byte can count.
LEMMA UserPropertiesRead ==
    ASSUME NEW list \in Seq(Pairs), Len(list) < 256
    PROVE  ReadUserProperties(list) = list
<1>1. PICK n \in Nat : n = Len(list) /\ n < 256
  OBVIOUS
<1>2. n % 256 = n
  BY <1>1
<1>3. Min({n, n}) = n
  <2>2. \E x \in {n, n} : \A y \in {n, n} : x <= y
    OBVIOUS
  <2>3. (CHOOSE x \in {n, n} : \A y \in {n, n} : x <= y) \in {n, n}
    BY <2>2
  <2> QED BY <2>3 DEF Min
<1>4. SubSeq(list, 1, n) = list
  BY <1>1
<1> QED BY <1>1, <1>2, <1>3, <1>4
    DEF ReadUserProperties, esp_mqtt5_client_get_user_property,
        esp_mqtt5_client_get_user_property_count


----------------------------------------------------------------------------
(* Messages, as they are told *)

\* The aliases of a list, and the topic of one of them.
AliasEntry == [topic_alias : Nat, topic : Seq(Nat)]
AliasList == Seq(AliasEntry)
AliasAt(list, alias) == {i \in 1 .. Len(list) : list[i].topic_alias = alias}
AliasIs(list, alias, topic) == Alias(list, alias) # 0 /\ list[Alias(list, alias)].topic = topic

LEMMA AliasFound ==
    ASSUME NEW list \in AliasList, NEW alias
    PROVE  /\ Alias(list, alias) = IF AliasAt(list, alias) # {} THEN Min(AliasAt(list, alias)) ELSE 0
           /\ Alias(list, alias) # 0 => Alias(list, alias) \in AliasAt(list, alias)
<1>1. PICK I : I = {i \in 1 .. Len(list) : list[i].topic_alias = alias}
  OBVIOUS
<1>2. I = AliasAt(list, alias)
  BY <1>1 DEF AliasAt
<1>3. Alias(list, alias) = IF I # {} THEN Min(I) ELSE 0
  BY <1>1 DEF Alias, SelectInSeq
<1>4. Len(list) \in Nat /\ I \subseteq 1 .. Len(list)
  BY <1>1 DEF AliasList
<1>5. I # {} => Min(I) \in I
  BY <1>4, MinExists
<1> QED BY <1>2, <1>3, <1>5

\* What an update leaves: the topic for its alias, and the topics of the others.
Updated(new, list, alias, topic) ==
    /\ new \in AliasList /\ AliasIs(new, alias, topic)
    /\ \A a, t : a # alias /\ AliasIs(list, a, t) => AliasIs(new, a, t)

LEMMA AliasUpdated ==
    ASSUME NEW list \in AliasList, NEW alias \in Nat, NEW topic \in Seq(Nat)
    PROVE  Updated(esp_mqtt5_client_update_topic_alias(list, alias, topic), list, alias, topic)
<1>1. PICK new : new = esp_mqtt5_client_update_topic_alias(list, alias, topic)
  OBVIOUS
<1>2. PICK n \in Nat : n = Len(list)
  BY DEF AliasList
<1>3. CASE Alias(list, alias) # 0
  <2>1. PICK k \in 1 .. n : k = Alias(list, alias) /\ list[k].topic_alias = alias
    BY <1>2, <1>3, AliasFound DEF AliasAt
  <2>2. new = [list EXCEPT ![k].topic = topic]
    BY <1>1, <1>3, <2>1 DEF esp_mqtt5_client_update_topic_alias
  <2>3. \A i \in 1 .. n : list[i] \in AliasEntry
    BY <1>2 DEF AliasList
  <2>4. PICK item \in AliasEntry :
            /\ item = [list[k] EXCEPT !.topic = topic]
            /\ item.topic_alias = alias /\ item.topic = topic
    <3>1. list[k] \in [topic_alias : Nat, topic : Seq(Nat)]
      BY <2>1, <2>3 DEF AliasEntry
    <3>2. [list[k] EXCEPT !.topic = topic] \in [topic_alias : Nat, topic : Seq(Nat)]
      BY <3>1
    <3>3. [list[k] EXCEPT !.topic = topic].topic_alias = alias
      BY <2>1, <3>1
    <3>4. [list[k] EXCEPT !.topic = topic].topic = topic
      BY <3>1
    <3> QED BY <3>2, <3>3, <3>4 DEF AliasEntry
  <2>5. new = [list EXCEPT ![k] = item]
    BY <2>2, <2>4
  <2>6. new \in AliasList /\ Len(new) = n
    BY <1>2, <2>1, <2>5 DEF AliasList
  <2>7. \A i \in 1 .. n : new[i] = IF i = k THEN item ELSE list[i]
    BY <1>2, <2>1, <2>5 DEF AliasList
  <2>8. \A a : AliasAt(new, a) = AliasAt(list, a)
    BY <1>2, <2>1, <2>4, <2>6, <2>7 DEF AliasAt
  <2>9. \A a : Alias(new, a) = Alias(list, a)
    BY <2>6, <2>8, AliasFound
  <2>10. AliasIs(new, alias, topic)
    <3>1. Alias(new, alias) = k /\ k # 0
      BY <2>1, <2>9
    <3>2. new[k].topic = topic
      BY <2>1, <2>4, <2>7
    <3> QED BY <3>1, <3>2 DEF AliasIs
  <2>11. ASSUME NEW a, NEW t, a # alias, AliasIs(list, a, t) PROVE AliasIs(new, a, t)
    <3>1. PICK j : j = Alias(list, a) /\ j # 0 /\ list[j].topic = t
      BY <2>11 DEF AliasIs
    <3>2. j \in 1 .. n /\ list[j].topic_alias = a
      BY <1>2, <3>1, AliasFound DEF AliasAt
    <3>3. j # k
      BY <2>1, <2>11, <3>2
    <3>4. new[j].topic = t
      BY <2>7, <3>1, <3>2, <3>3
    <3> QED BY <2>9, <3>1, <3>4 DEF AliasIs
  <2> QED BY <1>1, <2>6, <2>10, <2>11 DEF Updated
<1>4. CASE Alias(list, alias) = 0
  <2>1. PICK item \in AliasEntry :
            /\ item = [topic_alias |-> alias, topic |-> topic]
            /\ item.topic_alias = alias /\ item.topic = topic
    <3>1. [topic_alias |-> alias, topic |-> topic] \in [topic_alias : Nat, topic : Seq(Nat)]
      OBVIOUS
    <3> QED BY <3>1 DEF AliasEntry
  <2>2. new = Append(list, item)
    BY <1>1, <1>4, <2>1 DEF esp_mqtt5_client_update_topic_alias
  <2>3. /\ new \in AliasList /\ Len(new) = n + 1 /\ new[n + 1] = item
        /\ \A i \in 1 .. n : new[i] = list[i]
    BY <1>2, <2>1, <2>2 DEF AliasList
  <2>4. AliasAt(list, alias) = {}
    <3>1. ASSUME AliasAt(list, alias) # {} PROVE FALSE
      <4>1. Alias(list, alias) = Min(AliasAt(list, alias))
        BY <3>1, AliasFound
      <4>2. AliasAt(list, alias) \subseteq 1 .. n
        BY <1>2 DEF AliasAt
      <4>3. Min(AliasAt(list, alias)) \in 1 .. n
        BY <3>1, <4>2, MinExists
      <4> QED BY <1>4, <4>1, <4>3
    <3> QED BY <3>1
  <2>5. AliasAt(new, alias) = {n + 1}
    BY <1>2, <2>1, <2>3, <2>4 DEF AliasAt
  <2>6. Alias(new, alias) = n + 1
    <3>1. Alias(new, alias) = Min(AliasAt(new, alias)) /\ AliasAt(new, alias) \subseteq 1 .. n + 1
      <4>1. AliasAt(new, alias) # {} /\ AliasAt(new, alias) \subseteq 1 .. n + 1
        BY <2>5
      <4> QED BY <2>3, <4>1, AliasFound
    <3>2. Min(AliasAt(new, alias)) \in AliasAt(new, alias)
      <4>1. n + 1 \in Nat /\ AliasAt(new, alias) # {}
        BY <2>5
      <4> QED BY <3>1, <4>1, MinExists
    <3> QED BY <2>5, <3>1, <3>2
  <2>7. AliasIs(new, alias, topic)
    BY <2>1, <2>3, <2>6 DEF AliasIs
  <2>8. ASSUME NEW a, NEW t, a # alias, AliasIs(list, a, t) PROVE AliasIs(new, a, t)
    <3>1. PICK j : j = Alias(list, a) /\ j # 0 /\ list[j].topic = t
      BY <2>8 DEF AliasIs
    <3>2. j \in 1 .. n
      BY <1>2, <3>1, AliasFound DEF AliasAt
    <3>3. AliasAt(new, a) = AliasAt(list, a)
      BY <1>2, <2>1, <2>3, <2>8 DEF AliasAt
    <3>4. Alias(new, a) = j
      BY <2>3, <3>1, <3>3, AliasFound
    <3> QED BY <2>3, <3>1, <3>2, <3>4 DEF AliasIs
  <2> QED BY <1>1, <2>3, <2>7, <2>8 DEF Updated
<1> QED BY <1>3, <1>4


LEMMA MessageGiven ==
    ASSUME NEW message \in Messages
    PROVE  /\ message.topic \in Seq(Nat) /\ message.data \in Seq(Nat) /\ message.qos \in 0 .. 2
           /\ message.user_property \in Seq(Pairs)
<1>1. message \in [topic : Bytes, data : Bytes, qos : 0 .. 2, user_property : UserPropertyList]
  BY MessagesAssumption, Zenon
<1>2. message.topic \in Bytes /\ message.data \in Bytes
  BY <1>1
<1>3. message.qos \in 0 .. 2 /\ message.user_property \in UserPropertyList
  BY <1>1
<1> QED BY <1>2, <1>3, BytesType, PairListType

\* What the client reads in a PUBLISH of the broker.
SentRead(read, topic, data, alias, users) ==
    /\ read.ok /\ read.topic = topic /\ read.payload = data
    /\ NumberOf(read.properties, TOPIC_ALIAS, 0) = alias
    /\ UserPropertiesOf(read.properties) = users

LEMMA AliasRead ==
    ASSUME NEW list, NEW got, NEW users, Reads(list, got, users), NEW alias \in Nat,
           got[TOPIC_ALIAS] = BigEndianOf(alias, 2)
    PROVE  NumberOf(list, TOPIC_ALIAS, 0) = alias
<1>1. Id(TOPIC_ALIAS)
  BY IdsAre DEF PublishProperties
<1>2. 2 \in {2, 4}
  OBVIOUS
<1> QED BY <1>1, <1>2, ReadsNumber

LEMMA SentIsRead ==
    ASSUME NEW message \in Messages, NEW topic \in Seq(Nat), NEW alias \in Nat,
           Sent(message, topic, alias).message.ok, Sent(message, topic, alias).remaining = <<>>,
           NEW bytes, bytes = Sent(message, topic, alias).message.bytes
    PROVE  SentRead(mqtt5_get_publish_property_payload(bytes, Len(bytes)), topic, message.data,
                    alias, message.user_property)
<1>1. PICK data \in Seq(Nat) : data = message.data
  BY MessageGiven
<1>2. PICK users \in Seq(Pairs) : users = message.user_property
  BY MessageGiven
<1>3. PICK qos \in 0 .. 2 : qos = message.qos
  BY MessageGiven
<1>4. PICK property : property = [NoPublish EXCEPT !.topic_alias = alias, !.user_property = users]
  OBVIOUS
<1>5. property \in PublishSet /\ property.topic_alias = alias /\ property.user_property = users
  <2>1. PICK none \in PublishSet : none = NoPublish
    BY NoSettings
  <2>2. property = [none EXCEPT !.topic_alias = alias, !.user_property = users]
    BY <1>4, <2>1
  <2>3. property \in PublishSet
    BY <2>2 DEF PublishSet
  <2>4. property.topic_alias = alias
    BY <2>2 DEF PublishSet
  <2>5. property.user_property = users
    BY <2>2 DEF PublishSet
  <2> QED BY <2>3, <2>4, <2>5
<1>6. PICK resp_info \in Seq(Nat) : resp_info = <<>>
  BY EmptySeq
<1>7. PICK retain, num \in Nat : retain = 0 /\ num = 9
  OBVIOUS
<1>8. PICK made : made = mqtt5_msg_publish(topic, data, qos, retain, num, property, resp_info)
  OBVIOUS
<1>9. made = Sent(message, topic, alias)
  BY <1>1, <1>2, <1>3, <1>4, <1>6, <1>7, <1>8 DEF Sent
<1>10. qos \in Nat
  OBVIOUS
<1>11. PICK properties : properties = PublishBytes(property, resp_info)
  OBVIOUS
<1>12. PublishMade(made, FirstByte(PUBLISH, qos, retain),
                   PublishRest(topic, qos, num, properties, data))
  BY <1>5, <1>8, <1>10, <1>11, PublishFrame
<1>13. bytes \in Seq(Nat) /\ bytes \o <<>> = Frame(FirstByte(PUBLISH, qos, retain),
                                                PublishRest(topic, qos, num, properties, data))
  BY <1>9, <1>12 DEF PublishMade
<1>14. bytes = Frame(FirstByte(PUBLISH, qos, retain),
                     PublishRest(topic, qos, num, properties, data))
  <2>1. bytes \o <<>> = bytes
    BY <1>13
  <2> QED BY <1>13, <2>1
<1>15. PICK got \in [Nat -> Seq(Nat)] :
           /\ Says(properties, got, property.user_property, PublishProperties)
           /\ got[TOPIC_ALIAS] = BigEndianOf(property.topic_alias, 2)
  BY <1>5, <1>11, PublishSays
<1>16. Says(properties, got, users, PublishProperties) /\ got[TOPIC_ALIAS] = BigEndianOf(alias, 2)
  BY <1>5, <1>15
<1>17. PICK read : read = mqtt5_get_publish_property_payload(bytes, Len(bytes))
  OBVIOUS
<1>18. PublishReadAs(read, topic, data, got, users)
  <2>1. retain \in 0 .. 1
    BY <1>7
  <2> QED BY <1>13, <1>14, <1>16, <1>17, <2>1, PublishRead
<1>19. Reads(read.properties, got, users)
  BY <1>18 DEF PublishReadAs
<1>20. NumberOf(read.properties, TOPIC_ALIAS, 0) = alias
  <2>2. alias \in Nat
    OBVIOUS
  <2> QED BY <1>16, <1>19, <2>2, AliasRead
<1>21. UserPropertiesOf(read.properties) = users
  BY <1>19 DEF Reads
<1> QED BY <1>1, <1>2, <1>17, <1>18, <1>20, <1>21 DEF PublishReadAs, SentRead


\* The event of a message, in a sequence, and what the client makes of its alias.
Told(read, topic, list) ==
    <<[topic |-> topic, data |-> read.payload, properties |-> read.properties, aliases |-> list]>>

LEMMA EventCases ==
    ASSUME NEW read, NEW alias \in Nat, connect.topic_alias_maximum \in Nat
    PROVE  /\ alias > connect.topic_alias_maximum => EventOf(read, alias) = <<>>
           /\ alias = 0 => EventOf(read, alias) = Told(read, read.topic, peer_topic_alias)
           /\ alias \in 1 .. connect.topic_alias_maximum /\ read.topic # <<>> =>
                  EventOf(read, alias)
                      = Told(read, read.topic, esp_mqtt5_client_update_topic_alias(
                                                   peer_topic_alias, alias, read.topic))
           /\ /\ alias \in 1 .. connect.topic_alias_maximum /\ read.topic = <<>>
              /\ Alias(peer_topic_alias, alias) # 0
              => EventOf(read, alias)
                     = Told(read, peer_topic_alias[Alias(peer_topic_alias, alias)].topic,
                            peer_topic_alias)
<1>1. PICK top \in Nat : top = connect.topic_alias_maximum
  OBVIOUS
<1>2. CASE alias > top
  <2>1. ~ (alias = 0) /\ ~ (alias \in 1 .. top)
    BY <1>2
  <2>2. EventOf(read, alias) = <<>>
    BY <1>1, <1>2, <2>1 DEF EventOf
  <2> QED BY <1>1, <2>1, <2>2
<1>3. CASE alias = 0
  <2>1. ~ (alias > top) /\ ~ (alias \in 1 .. top)
    BY <1>3
  <2>2. EventOf(read, alias) = Told(read, read.topic, peer_topic_alias)
    BY <1>1, <1>3, <2>1 DEF EventOf, Told
  <2> QED BY <1>1, <1>3, <2>1, <2>2
<1>4. CASE alias \in 1 .. top
  <2>1. ~ (alias > top) /\ ~ (alias = 0)
    BY <1>4
  <2>2. CASE read.topic # <<>>
    <3>1. EventOf(read, alias)
              = Told(read, read.topic, esp_mqtt5_client_update_topic_alias(
                                           peer_topic_alias, alias, read.topic))
      BY <1>1, <1>4, <2>1, <2>2 DEF EventOf, Told
    <3> QED BY <1>1, <2>1, <2>2, <3>1
  <2>3. CASE read.topic = <<>>
    <3>1. ASSUME Alias(peer_topic_alias, alias) # 0
          PROVE  EventOf(read, alias)
                     = Told(read, peer_topic_alias[Alias(peer_topic_alias, alias)].topic,
                            peer_topic_alias)
      BY <1>1, <1>4, <2>1, <2>3, <3>1 DEF EventOf, Told
    <3> QED BY <1>1, <2>1, <2>3, <3>1
  <2> QED BY <2>2, <2>3
<1>5. alias > top \/ alias = 0 \/ alias \in 1 .. top
  BY <1>1
<1> QED BY <1>2, <1>3, <1>4, <1>5

\* The aliases that the broker uses stand for the same topics here.
Agreed(list, known) ==
    0 \notin DOMAIN known /\ \A a \in DOMAIN known : AliasIs(list, a, known[a])

\* The broker gives an alias a topic.
Extended(more, known, alias, topic) ==
    more = [a \in DOMAIN known \cup {alias} |-> IF a = alias THEN topic ELSE known[a]]

LEMMA AgreedUpdate ==
    ASSUME NEW list, NEW new, NEW known, NEW alias \in Nat, alias # 0, NEW topic,
           Agreed(list, known), Updated(new, list, alias, topic),
           NEW more, Extended(more, known, alias, topic)
    PROVE  Agreed(new, more)
<1>1. DOMAIN more = DOMAIN known \cup {alias}
  BY DEF Extended
<1>2. 0 \notin DOMAIN more
  BY <1>1 DEF Agreed
<1>3. ASSUME NEW b \in DOMAIN more PROVE AliasIs(new, b, more[b])
  <2>1. CASE b = alias
    <3>1. more[b] = topic
      BY <1>1, <2>1 DEF Extended
    <3> QED BY <2>1, <3>1 DEF Updated
  <2>2. CASE b # alias
    <3>1. b \in DOMAIN known /\ more[b] = known[b]
      BY <1>1, <2>2 DEF Extended
    <3>2. AliasIs(list, b, known[b])
      BY <3>1 DEF Agreed
    <3> QED BY <2>2, <3>1, <3>2 DEF Updated
  <2> QED BY <2>1, <2>2
<1> QED BY <1>2, <1>3 DEF Agreed

\* An alias that stands for its topic already.
LEMMA AgreedSame ==
    ASSUME NEW list, NEW known, NEW alias \in DOMAIN known, NEW topic, Agreed(list, known),
           known[alias] = topic,
           NEW more, Extended(more, known, alias, topic)
    PROVE  Agreed(list, more)
<1>1. DOMAIN more = DOMAIN known
  BY DEF Extended
<1>2. \A b \in DOMAIN known : more[b] = known[b]
  BY DEF Extended
<1> QED BY <1>1, <1>2 DEF Agreed


\* No message has more user properties than the byte of mqtt5_client.c counts in which
\* esp_mqtt5_client_get_user_property_count returns their number.
FewUserProperties == \A message \in Messages : Len(message.user_property) < 256

LEMMA ToldMeant ==
    ASSUME FewUserProperties, NEW message \in Messages, NEW read, NEW topic, NEW alias, NEW list,
           SentRead(read, topic, message.data, alias, message.user_property),
           Receive(Told(read, message.topic, list), message)
    PROVE  EventsAsMeant' /\ peer_topic_alias' = list
<1>1. PICK event : event = [topic |-> message.topic, data |-> read.payload,
                            properties |-> read.properties, aliases |-> list]
  OBVIOUS
<1>2. PICK told : told = <<event>> /\ told # <<>> /\ told[1] = event
  <2>1. <<event>> # <<>> /\ <<event>>[1] = event
    OBVIOUS
  <2> QED BY <2>1
<1>3. Receive(told, message)
  BY <1>1, <1>2 DEF Told
<1>4. /\ last' = [kind |-> "data", message |-> message, topic |-> event.topic, data |-> event.data,
                  user_property |-> ReadUserProperties(UserPropertiesOf(event.properties))]
      /\ peer_topic_alias' = event.aliases
  BY <1>2, <1>3 DEF Receive
<1>5. event.topic = message.topic /\ event.data = read.payload /\ event.aliases = list
  BY <1>1
<1>6. event.properties = read.properties
  BY <1>1
<1>7. read.payload = message.data /\ UserPropertiesOf(event.properties) = message.user_property
  BY <1>6 DEF SentRead
<1>8. PICK users \in Seq(Pairs) : users = message.user_property
  BY MessageGiven
<1>9. ReadUserProperties(users) = users
  <2>1. Len(users) < 256
    BY <1>8 DEF FewUserProperties
  <2> QED BY <2>1, UserPropertiesRead
<1>10. last'.kind = "data" /\ last'.message = message
  BY <1>4
<1>11. last'.topic = message.topic /\ last'.data = message.data
  BY <1>4, <1>5, <1>7
<1>12. last'.user_property = message.user_property
  BY <1>4, <1>7, <1>8, <1>9
<1>13. EventsAsMeant'
  BY <1>10, <1>11, <1>12 DEF EventsAsMeant
<1> QED BY <1>4, <1>5, <1>13

LEMMA RefusedMeant ==
    ASSUME NEW message, NEW event, event = <<>>, Receive(event, message), connect' = connect,
           aliasMaximum' = aliasMaximum, connect.topic_alias_maximum < aliasMaximum
    PROVE  EventsAsMeant' /\ connected' = FALSE /\ peer_topic_alias' = peer_topic_alias
<1>1. connected' = FALSE /\ last' = [kind |-> "refused"] /\ peer_topic_alias' = peer_topic_alias
  BY DEF Receive
<1>2. last'.kind = "refused"
  BY <1>1
<1> QED BY <1>1, <1>2 DEF EventsAsMeant

LEMMA IncomingMeant ==
    ASSUME FewUserProperties, SettingsInv, aliasMaximum \in Nat, peer_topic_alias \in AliasList,
           connected => Agreed(peer_topic_alias, aliases), NEW message \in Messages,
           Incoming(message)
    PROVE  /\ EventsAsMeant' /\ peer_topic_alias' \in AliasList
           /\ connected' => Agreed(peer_topic_alias', aliases')
<1>1. PICK alias \in 0 .. aliasMaximum, topic \in {<<>>, message.topic} :
          /\ topic = <<>> => alias \in DOMAIN aliases /\ aliases[alias] = message.topic
          /\ Sent(message, topic, alias).message.ok /\ Sent(message, topic, alias).remaining = <<>>
          /\ ReceiveBytes(Sent(message, topic, alias).message.bytes, message)
          /\ aliases' = IF alias = 0 THEN aliases
                        ELSE [a \in DOMAIN aliases \cup {alias} |->
                                 IF a = alias THEN message.topic ELSE aliases[a]]
  BY DEF Incoming
<1>2. connected /\ connect' = connect /\ aliasMaximum' = aliasMaximum
  BY DEF Incoming, settings
<1>3. alias \in Nat /\ topic \in Seq(Nat) /\ alias <= aliasMaximum
  <2>1. PICK none \in Seq(Nat) : none = <<>>
    BY EmptySeq
  <2>2. topic \in Seq(Nat)
    BY <1>1, <2>1, MessageGiven
  <2> QED BY <1>1, <2>2
<1>4. PICK bytes : bytes = Sent(message, topic, alias).message.bytes
  OBVIOUS
<1>5. PICK read : read = mqtt5_get_publish_property_payload(bytes, Len(bytes))
  OBVIOUS
<1>6. SentRead(read, topic, message.data, alias, message.user_property)
  BY <1>1, <1>3, <1>4, <1>5, SentIsRead
<1>7. Receive(EventOf(read, alias), message)
  <2>1. Receive(esp_mqtt5_get_publish_data(read), message)
    BY <1>1, <1>4, <1>5 DEF ReceiveBytes
  <2>2. esp_mqtt5_get_publish_data(read) = EventOf(read, alias)
    BY <1>6 DEF SentRead, esp_mqtt5_get_publish_data
  <2> QED BY <2>1, <2>2
<1>8. PICK top \in Nat : top = connect.topic_alias_maximum
  BY DEF SettingsInv, ConnectSet
<1>9. Agreed(peer_topic_alias, aliases)
  BY <1>2
<1>10. read.topic = topic
  BY <1>6 DEF SentRead
<1>11. CASE alias > top
  <2>1. EventOf(read, alias) = <<>>
    BY <1>3, <1>8, <1>11, EventCases
  <2>2. connect.topic_alias_maximum < aliasMaximum
    BY <1>3, <1>8, <1>11
  <2>3. EventsAsMeant' /\ connected' = FALSE /\ peer_topic_alias' = peer_topic_alias
    BY <1>2, <1>7, <2>1, <2>2, RefusedMeant
  <2> QED BY <2>3
<1>12. CASE alias = 0
  <2>1. topic = message.topic
    BY <1>1, <1>9, <1>12 DEF Agreed
  <2>2. EventOf(read, alias) = Told(read, message.topic, peer_topic_alias)
    BY <1>3, <1>8, <1>10, <1>12, <2>1, EventCases
  <2>3. EventsAsMeant' /\ peer_topic_alias' = peer_topic_alias
    BY <1>6, <1>7, <2>2, ToldMeant
  <2>4. aliases' = aliases
    BY <1>1, <1>12
  <2> QED BY <1>9, <2>3, <2>4
<1>13. CASE alias \in 1 .. top /\ topic # <<>>
  <2>1. PICK new : new = esp_mqtt5_client_update_topic_alias(peer_topic_alias, alias, topic)
    OBVIOUS
  <2>2. Updated(new, peer_topic_alias, alias, topic)
    BY <1>3, <2>1, AliasUpdated
  <2>3. topic = message.topic /\ alias # 0
    BY <1>1, <1>13
  <2>4. EventOf(read, alias) = Told(read, message.topic, new)
    BY <1>3, <1>8, <1>10, <1>13, <2>1, <2>3, EventCases
  <2>5. EventsAsMeant' /\ peer_topic_alias' = new
    BY <1>6, <1>7, <2>4, ToldMeant
  <2>6. Agreed(new, aliases')
    <3>1. Extended(aliases', aliases, alias, topic)
      BY <1>1, <2>3 DEF Extended
    <3> QED BY <1>3, <1>9, <2>2, <2>3, <3>1, AgreedUpdate
  <2> QED BY <2>2, <2>5, <2>6 DEF Updated
<1>14. CASE alias \in 1 .. top /\ topic = <<>>
  <2>1. alias \in DOMAIN aliases /\ aliases[alias] = message.topic /\ alias # 0
    BY <1>1, <1>14
  <2>2. AliasIs(peer_topic_alias, alias, message.topic)
    BY <1>9, <2>1 DEF Agreed
  <2>3. /\ Alias(peer_topic_alias, alias) # 0
        /\ peer_topic_alias[Alias(peer_topic_alias, alias)].topic = message.topic
    BY <2>2 DEF AliasIs
  <2>4. EventOf(read, alias) = Told(read, message.topic, peer_topic_alias)
    BY <1>3, <1>8, <1>10, <1>14, <2>3, EventCases
  <2>5. EventsAsMeant' /\ peer_topic_alias' = peer_topic_alias
    BY <1>6, <1>7, <2>4, ToldMeant
  <2>6. Agreed(peer_topic_alias, aliases')
    <3>1. Extended(aliases', aliases, alias, message.topic)
      BY <1>1, <2>1 DEF Extended
    <3> QED BY <1>9, <2>1, <3>1, AgreedSame
  <2> QED BY <2>5, <2>6
<1>15. alias > top \/ alias = 0 \/ alias \in 1 .. top
  BY <1>3, <1>8
<1> QED BY <1>11, <1>12, <1>13, <1>14, <1>15


\* A step that tells the application nothing.
Quiet(entry) == entry.kind \notin {"data", "refused", "published", "subscribed", "disconnected"}

LEMMA QuietMeant == Quiet(last') => EventsAsMeant'
BY DEF Quiet, EventsAsMeant

LEMMA QuietNothing == ASSUME last' = Nothing PROVE EventsAsMeant'
BY QuietMeant DEF Quiet, Nothing

LEMMA FinishMeant ==
    ASSUME NEW type \in Nat, NEW id \in Nat, NEW code \in Nat, Finish(AckOf(type, id, code), code)
    PROVE  EventsAsMeant'
<1>1. PICK bytes : bytes = AckOf(type, id, code)
  OBVIOUS
<1>2. PublishedAs(mqtt5_get_puback_data(bytes, Len(bytes)).data, code)
  BY <1>1, AckRead
<1>3. \/ last' = Nothing
      \/ last' = [kind |-> "published", code |-> code,
                  data |-> mqtt5_get_puback_data(bytes, Len(bytes)).data]
  BY <1>1 DEF Finish
<1>4. PICK data : data = mqtt5_get_puback_data(bytes, Len(bytes)).data
  OBVIOUS
<1>5. ASSUME last' = [kind |-> "published", code |-> code, data |-> data] PROVE EventsAsMeant'
  <2>1. last'.kind = "published" /\ last'.code = code /\ last'.data = data
    BY <1>5
  <2>2. data = <<code>> \/ (data = <<>> /\ code = 0)
    BY <1>2, <1>4 DEF PublishedAs
  <2> QED BY <2>1, <2>2 DEF EventsAsMeant
<1> QED BY <1>3, <1>4, <1>5, QuietNothing

LEMMA AnswerMeant ==
    ASSUME CountInv, NEW id, Answer(id)
    PROVE  EventsAsMeant'
<1>1. id \in Nat
  <2>1. id \in inFlight /\ inFlight \subseteq 1 .. callsMade /\ callsMade \in Nat
    BY DEF Answer, CountInv, SettingsInv
  <2> QED BY <2>1
<1>2. PICK i : i = Position(id)
  OBVIOUS
<1>3. PICK code \in {0, 151} :
          \/ Received(AckOf(PUBREC, id, code))
          \/ Finish(AckOf(IF i # 0 /\ outbox[i].qos = 2 THEN PUBCOMP ELSE PUBACK, id, code), code)
  BY <1>2 DEF Answer
<1>4. CASE Received(AckOf(PUBREC, id, code))
  BY <1>4, QuietNothing DEF Received
<1>5. PICK type \in Nat : type = IF i # 0 /\ outbox[i].qos = 2 THEN PUBCOMP ELSE PUBACK
  BY DEF PUBCOMP, PUBACK
<1>6. ASSUME Finish(AckOf(type, id, code), code) PROVE EventsAsMeant'
  <2>1. code \in Nat
    BY <1>3
  <2> QED BY <1>1, <1>5, <1>6, <2>1, FinishMeant
<1> QED BY <1>3, <1>4, <1>5, <1>6

LEMMA ReasonText ==
    ASSUME NEW extra
    PROVE  extra \in {<<>>, Text(REASON_STRING, <<120>>)} =>
               extra \in Seq(Nat) /\ Len(extra) < 100
<1> HAVE extra \in {<<>>, Text(REASON_STRING, <<120>>)}
<1>1. CASE extra = <<>>
  <2>1. PICK none : none = <<>>
    OBVIOUS
  <2>2. none \in Seq(Nat) /\ Len(none) = 0
    BY <2>1
  <2> QED BY <1>1, <2>1, <2>2
<1>2. CASE extra = Text(REASON_STRING, <<120>>)
  <2>1. PICK t \in Seq(Nat) : t = <<120>> /\ Len(t) = 1 /\ t # <<>>
    <3>1. <<120>> \in Seq(Nat) /\ Len(<<120>>) = 1 /\ <<120>> # <<>>
      OBVIOUS
    <3> QED BY <3>1
  <2>2. PICK w \in Seq(Nat) : w = Word(Len(t)) /\ Len(w) = 2
    BY <2>1, WordType
  <2>3. PICK d \in Seq(Nat) : d = <<REASON_STRING>> /\ Len(d) = 1
    <3>1. <<REASON_STRING>> \in Seq(Nat) /\ Len(<<REASON_STRING>>) = 1
      BY DEF REASON_STRING
    <3> QED BY <3>1
  <2>4. PICK f \in Seq(Nat) : f = d \o w /\ Len(f) = 3
    <3>1. d \o w \in Seq(Nat) /\ Len(d \o w) = Len(d) + Len(w)
      OBVIOUS
    <3>2. Len(d \o w) = 3
      BY <2>2, <2>3, <3>1
    <3> QED BY <3>1, <3>2
  <2>5. f \o t \in Seq(Nat) /\ Len(f \o t) = Len(f) + Len(t)
    OBVIOUS
  <2>6. extra = f \o t
    BY <1>2, <2>1, <2>2, <2>3, <2>4 DEF Text
  <2>7. Len(f \o t) = 4
    BY <2>1, <2>4, <2>5
  <2> QED BY <2>5, <2>6, <2>7
<1> QED BY <1>1, <1>2

\* What the application is told of it.
SubackEvent(id, code, extra) ==
    last' = [kind |-> "subscribed", code |-> code,
             data |-> mqtt5_get_suback_data(SubackOf(id, code, extra),
                                            Len(SubackOf(id, code, extra))).data]

LEMMA SubackMeant ==
    ASSUME NEW id \in Nat, NEW code \in Nat, NEW extra \in Seq(Nat), Len(extra) < 100,
           SubackEvent(id, code, extra)
    PROVE  EventsAsMeant'
<1>1. PICK bytes : bytes = SubackOf(id, code, extra)
  OBVIOUS
<1>2. mqtt5_get_suback_data(bytes, Len(bytes)).data = <<1, code>>
  BY <1>1, SubackRead
<1>3. last'.kind = "subscribed" /\ last'.code = code
  BY DEF SubackEvent
<1>4. last'.data = <<1, code>>
  BY <1>1, <1>2 DEF SubackEvent
<1> QED BY <1>3, <1>4 DEF EventsAsMeant

SubackTold ==
    \E code \in {0, 135}, extra \in {<<>>, Text(REASON_STRING, <<120>>)} :
        SubackEvent(outbox[Subscription].id, code, extra)

LEMMA SubackIsTold == SubscriptionAnswered => SubackTold
BY Zenon DEF SubscriptionAnswered, SubackTold, SubackEvent, Subscription, SubackOf

LEMMA SubscriptionMeant ==
    ASSUME CountInv, SubscriptionAnswered
    PROVE  EventsAsMeant'
<1>1. PICK i : i = Subscription
  OBVIOUS
<1>2. i # 0
  BY <1>1 DEF SubscriptionAnswered, Subscription
<1>3. outbox \in Seq(Items) /\ i \in 1 .. Len(outbox)
  <2>1. outbox \in Seq(Items)
    BY DEF CountInv, Box
  <2> QED BY <1>1, <1>2, <2>1, SubscriptionIs
<1>4. PICK id \in Nat : id = outbox[i].id
  <2>1. outbox[i] \in Items
    BY <1>3
  <2> QED BY <2>1 DEF Items
<1>13. SubackTold
  BY SubackIsTold
<1>5. PICK code \in {0, 135}, extra \in {<<>>, Text(REASON_STRING, <<120>>)} :
          SubackEvent(id, code, extra)
  BY <1>1, <1>4, <1>13 DEF SubackTold
<1>6. extra \in Seq(Nat) /\ Len(extra) < 100
  <2>1. extra \in {<<>>, Text(REASON_STRING, <<120>>)}
    BY <1>5
  <2> QED BY <2>1, ReasonText
<1>7. code \in Nat
  BY <1>5
<1> QED BY <1>4, <1>5, <1>6, <1>7, SubackMeant

LEMMA DisconnectedMeant ==
    ASSUME BrokerDisconnects
    PROVE  EventsAsMeant'
<1>1. PICK bytes : bytes = <<DISCONNECT * 16, 1, 139>>
  OBVIOUS
<1>2. last' = [kind |-> "disconnected", code |-> 139,
               data |-> <<mqtt5_msg_get_reason_code(bytes, Len(bytes))>>]
  BY <1>1 DEF BrokerDisconnects
<1>3. mqtt5_msg_get_reason_code(bytes, Len(bytes)) = 139
  BY <1>1, BrokerDisconnectRead
<1>4. last'.kind = "disconnected" /\ last'.code = 139 /\ last'.data = <<139>>
  BY <1>2, <1>3
<1> QED BY <1>4 DEF EventsAsMeant


\* The aliases are those of the connection, and the last event was as the broker meant it.
EventsInv ==
    /\ CountInv /\ aliasMaximum \in Nat /\ peer_topic_alias \in AliasList
    /\ connected => Agreed(peer_topic_alias, aliases)
    /\ EventsAsMeant

LEMMA EventsKept ==
    ASSUME EventsInv, CountInv', UNCHANGED <<peer_topic_alias, aliases, aliasMaximum>>,
           connected' => connected, EventsAsMeant'
    PROVE  EventsInv'
BY DEF EventsInv

\* A step of the application, of the task or of the network about which nothing is told.
LEMMA EventsAside ==
    ASSUME EventsInv, CountInv', [Mqtt5Next]_mqtt5Vars, ~ Connect,
           \A message \in Messages : ~ Incoming(message)
    PROVE  EventsInv'
<1>1. CASE \/ \E new \in ConnectSettings : SetConnectProperty(new)
           \/ \E new \in PublishSettings : SetPublishProperty(new)
           \/ \E new \in SubscribeSettings : SetSubscribeProperty(new)
           \/ \E new \in UnsubscribeSettings : SetUnsubscribeProperty(new)
           \/ \E new \in DisconnectSettings : SetDisconnectProperty(new)
  <2>1. last' = Nothing
    BY <1>1 DEF SetConnectProperty, SetPublishProperty, SetSubscribeProperty,
                SetUnsubscribeProperty, SetDisconnectProperty
  <2>2. connected' = connected /\ UNCHANGED <<peer_topic_alias, aliases, aliasMaximum>>
    BY <1>1 DEF SetConnectProperty, SetPublishProperty, SetSubscribeProperty,
                SetUnsubscribeProperty, SetDisconnectProperty, aboutBroker, brokerVars
  <2> QED BY <2>1, <2>2, QuietNothing, EventsKept
<1>2. CASE Break
  <2>1. last' = Nothing /\ connected /\ UNCHANGED <<peer_topic_alias, aliases, aliasMaximum>>
    BY <1>2 DEF Break, aboutBroker, brokerVars
  <2> QED BY <2>1, QuietNothing, EventsKept
<1>3. CASE Disconnect
  <2>1. last'.kind = "disconnect" \/ last' = Nothing
    BY <1>3 DEF Disconnect
  <2>2. Quiet(last')
    BY <2>1 DEF Quiet, Nothing
  <2>3. connected /\ UNCHANGED <<peer_topic_alias, aliases, aliasMaximum>>
    BY <1>3 DEF Disconnect, aboutBroker, brokerVars
  <2> QED BY <2>2, <2>3, QuietMeant, EventsKept
<1>4. ASSUME NEW request \in Publishes, Publish(request) PROVE EventsInv'
  <2>1. last'.kind = "publish" \/ last' = Nothing
    BY <1>4 DEF Publish
  <2>2. Quiet(last')
    BY <2>1 DEF Quiet, Nothing
  <2>3. connected' = connected /\ UNCHANGED <<peer_topic_alias, aliases, aliasMaximum>>
    BY <1>4 DEF Publish
  <2> QED BY <2>2, <2>3, QuietMeant, EventsKept
<1>5. ASSUME NEW request \in Publishes, Enqueue(request) PROVE EventsInv'
  <2>1. last' = Nothing
    BY <1>5 DEF Enqueue
  <2>2. connected' = connected /\ UNCHANGED <<peer_topic_alias, aliases, aliasMaximum>>
    BY <1>5 DEF Enqueue, aboutBroker, brokerVars
  <2> QED BY <2>1, <2>2, QuietNothing, EventsKept
<1>6. CASE ResendQueued \/ ResendTransmitted \/ ResendPubrel
  <2>1. last' = Nothing
    BY <1>6 DEF ResendQueued, ResendTransmitted, ResendPubrel, Resends
  <2>2. connected' = connected /\ UNCHANGED <<peer_topic_alias, aliases, aliasMaximum>>
    BY <1>6 DEF ResendQueued, ResendTransmitted, ResendPubrel, Resends
  <2> QED BY <2>1, <2>2, QuietNothing, EventsKept
<1>7. CASE Subscribe \/ Unsubscribe
  <2>1. PICK kind, property, made : kind \in {"subscribe", "unsubscribe"} /\ Requested(kind, property, made)
    BY <1>7 DEF Subscribe, Unsubscribe
  <2>2. last'.kind \in {"subscribe", "unsubscribe"}
    BY <2>1 DEF Requested
  <2>3. Quiet(last')
    BY <2>2 DEF Quiet
  <2>4. connected' = connected /\ UNCHANGED <<peer_topic_alias, aliases, aliasMaximum>>
    BY <2>1 DEF Requested, aboutBroker, brokerVars
  <2> QED BY <2>3, <2>4, QuietMeant, EventsKept
<1>8. CASE SubscriptionAnswered
  <2>1. EventsAsMeant'
    BY <1>8, SubscriptionMeant DEF EventsInv
  <2>2. connected' = connected /\ UNCHANGED <<peer_topic_alias, aliases, aliasMaximum>>
    BY <1>8 DEF SubscriptionAnswered, aboutBroker, brokerVars
  <2> QED BY <2>1, <2>2, EventsKept
<1>9. CASE BrokerDisconnects
  <2>1. EventsAsMeant'
    BY <1>9, DisconnectedMeant
  <2>2. connected' = connected /\ UNCHANGED <<peer_topic_alias, aliases, aliasMaximum>>
    BY <1>9 DEF BrokerDisconnects, aboutBroker, brokerVars
  <2> QED BY <2>1, <2>2, EventsKept
<1>10. ASSUME NEW id \in 1 .. MAX_CALLS, Answer(id) PROVE EventsInv'
  <2>1. EventsAsMeant'
    BY <1>10, AnswerMeant DEF EventsInv
  <2>2. connected' = connected /\ UNCHANGED <<peer_topic_alias, aliases, aliasMaximum>>
    BY <1>10 DEF Answer
  <2> QED BY <2>1, <2>2, EventsKept
<1>11. CASE UNCHANGED mqtt5Vars
  <2>1. UNCHANGED <<last, connect, connected, peer_topic_alias, aliases, aliasMaximum>>
    BY <1>11 DEF mqtt5Vars, aboutBroker, settings, brokerVars
  <2>2. EventsAsMeant'
    BY <2>1 DEF EventsInv, EventsAsMeant
  <2> QED BY <2>1, <2>2, EventsKept
<1> QED BY <1>1, <1>2, <1>3, <1>4, <1>5, <1>6, <1>7, <1>8, <1>9, <1>10, <1>11 DEF Mqtt5Next

LEMMA EventsConnect ==
    ASSUME EventsInv, CountInv', Connect
    PROVE  EventsInv'
<1>1. last'.kind = "connect" /\ peer_topic_alias' = peer_topic_alias
  BY DEF Connect
<1>2. aliasMaximum' \in Nat
  BY DEF Connect, EventsInv, CountInv, SettingsInv, ConnectSet
<1>3. Agreed(peer_topic_alias, aliases')
  <2>1. aliases' = <<>>
    BY DEF Connect
  <2>2. PICK none : none = <<>> /\ DOMAIN none = {}
    OBVIOUS
  <2> QED BY <2>1, <2>2 DEF Agreed
<1>4. Quiet(last')
  BY <1>1 DEF Quiet
<1> QED BY <1>1, <1>2, <1>3, <1>4, QuietMeant DEF EventsInv

LEMMA EventsBegin == Mqtt5Init => EventsInv
<1> SUFFICES ASSUME Mqtt5Init PROVE EventsInv
  OBVIOUS
<1>1. connected = FALSE /\ aliasMaximum = 0 /\ last = Nothing /\ peer_topic_alias = <<>>
  BY DEF Mqtt5Init
<1>2. peer_topic_alias \in AliasList
  <2>1. PICK none : none = <<>>
    OBVIOUS
  <2>2. none \in Seq(AliasEntry)
    BY <2>1
  <2> QED BY <1>1, <2>1, <2>2 DEF AliasList
<1>3. EventsAsMeant
  BY <1>1 DEF EventsAsMeant, Nothing
<1> QED BY <1>1, <1>2, <1>3, CountInit DEF EventsInv

LEMMA EventsStep ==
    ASSUME FewUserProperties, EventsInv, [Mqtt5Next]_mqtt5Vars
    PROVE  EventsInv'
<1>1. CountInv /\ CountInv' /\ SettingsInv
  BY CountStep DEF EventsInv, CountInv
<1>2. CASE Connect
  BY <1>1, <1>2, EventsConnect
<1>3. ASSUME NEW message \in Messages, Incoming(message) PROVE EventsInv'
  <2>1. /\ EventsAsMeant' /\ peer_topic_alias' \in AliasList
        /\ connected' => Agreed(peer_topic_alias', aliases')
    BY <1>1, <1>3, IncomingMeant DEF EventsInv
  <2>2. aliasMaximum' = aliasMaximum
    BY <1>3 DEF Incoming
  <2> QED BY <1>1, <2>1, <2>2 DEF EventsInv
<1> QED BY <1>1, <1>2, <1>3, EventsAside

\* Mqtt5: what the application is told is what the broker meant, over every sequence of settings,
\* connections and messages: the topic of a message that an alias stands for, its data and
\* user properties, and the codes of answers (esp_mqtt5_get_publish_data,
\* esp_mqtt5_client_update_topic_alias, mqtt5_get_puback_data, mqtt5_get_suback_data).  It is so
\* for messages whose user properties a byte counts.
THEOREM EventsMeant ==
    ASSUME FewUserProperties
    PROVE  Mqtt5Spec => []EventsAsMeant
<1>1. EventsInv => EventsAsMeant
  BY DEF EventsInv
<1>2. EventsInv /\ [Mqtt5Next]_mqtt5Vars => EventsInv'
  BY EventsStep
<1> QED BY <1>1, <1>2, EventsBegin, PTL DEF Mqtt5Spec


----------------------------------------------------------------------------
(* CONNECT *)

\* The ten bytes before the properties.
ConnectHead(given) ==
    Word(4) \o <<77, 81, 84, 84, 5, connect_flags(given)>> \o Word(given.keepalive)

LEMMA BitType == ASSUME NEW condition, NEW value \in Nat PROVE Bit(condition, value) \in Nat
BY DEF Bit

LEMMA FlagsType ==
    ASSUME NEW given \in InfoSet
    PROVE  connect_flags(given) \in Nat
<1>1. given.will_qos \in Nat
  BY DEF InfoSet
<1>2. PICK a, b, c \in Nat : /\ a = Bit(given.username # <<>> \/ given.password # <<>>, 128)
                             /\ b = Bit(given.password # <<>>, 64)
                             /\ c = Bit(given.clean_session, 2)
  BY BitType
<1>3. PICK d \in Nat : d = Bit(given.will_retain, 32)
  BY BitType
<1>4. PICK e \in Nat : e = d + given.will_qos * 8 + 4
  BY <1>1, <1>3
<1>5. PICK f \in Nat : f = Bit(given.will_topic # <<>>, e)
  BY BitType
<1>6. connect_flags(given) = a + b + f + c
  BY <1>2, <1>3, <1>4, <1>5 DEF connect_flags
<1>7. PICK g \in Nat : g = a + b + f + c
  <2>1. a \in Nat /\ b \in Nat /\ f \in Nat /\ c \in Nat
    BY <1>2, <1>5
  <2>2. a + b + f + c \in Nat
    BY <2>1
  <2> QED BY <2>2
<1> QED BY <1>6, <1>7

LEMMA ConnectHeadType ==
    ASSUME NEW given \in InfoSet
    PROVE  ConnectHead(given) \in Seq(Nat) /\ Len(ConnectHead(given)) = 10
<1>1. PICK flags_byte \in Nat : flags_byte = connect_flags(given)
  BY FlagsType
<1>2. PICK w, k \in Seq(Nat) : w = Word(4) /\ k = Word(given.keepalive) /\ Len(w) = 2 /\ Len(k) = 2
  <2>1. given.keepalive \in Nat /\ 4 \in Nat
    BY DEF InfoSet
  <2> QED BY <2>1, WordType
<1>3. PICK m \in Seq(Nat) : m = <<77, 81, 84, 84, 5, flags_byte>> /\ Len(m) = 6
  <2>1. <<77, 81, 84, 84, 5, flags_byte>> \in Seq(Nat) /\ Len(<<77, 81, 84, 84, 5, flags_byte>>) = 6
    BY <1>1
  <2> QED BY <2>1
<1>4. PICK h \in Seq(Nat) : h = w \o m /\ Len(h) = 8
  <2>1. w \o m \in Seq(Nat) /\ Len(w \o m) = Len(w) + Len(m)
    OBVIOUS
  <2>3. Len(w) = 2 /\ Len(m) = 6
    BY <1>2, <1>3
  <2>2. Len(w \o m) = 8
    BY <2>1, <2>3
  <2> QED BY <2>1, <2>2
<1>5. PICK r \in Seq(Nat) : r = h \o k /\ Len(r) = 10
  <2>1. h \o k \in Seq(Nat) /\ Len(h \o k) = Len(h) + Len(k)
    OBVIOUS
  <2>3. Len(h) = 8 /\ Len(k) = 2
    BY <1>2, <1>4
  <2>2. Len(h \o k) = 10
    BY <2>1, <2>3
  <2> QED BY <2>1, <2>2
<1>6. r = w \o m \o k
  BY <1>4, <1>5
<1>7. r = ConnectHead(given)
  BY <1>1, <1>2, <1>3, <1>6 DEF ConnectHead
<1> QED BY <1>5, <1>7

\* What follows the head: the properties, the client id, and the will if there is one.
Identified(given, connection) ==
    (ConnectHead(given) \o Prefixed(ConnectProperties(connection))) \o String(given.client_id)
Willed(given, connection, testament) ==
    IF given.will_topic # <<>>
    THEN ((Identified(given, connection) \o Prefixed(WillProperties(testament)))
              \o String(given.will_topic)) \o String(given.will_message)
    ELSE Identified(given, connection)

LEMMA ConnectPropertiesType ==
    ASSUME NEW connection \in ConnectSet
    PROVE  ConnectProperties(connection) \in Seq(Nat)
<1>1. PICK got : Says(ConnectProperties(connection), got, connection.user_property, ConnectKnown)
  BY ConnectSays DEF ConnectSaid
<1> QED BY <1>1, SaysType

LEMMA WillPropertiesType ==
    ASSUME NEW testament \in WillSet
    PROVE  WillProperties(testament) \in Seq(Nat)
<1>1. PICK got : Says(WillProperties(testament), got, testament.user_property, WillKnown)
  BY WillSays DEF WillSaid
<1> QED BY <1>1, SaysType

LEMMA IdentifiedType ==
    ASSUME NEW given \in InfoSet, NEW connection \in ConnectSet
    PROVE  Identified(given, connection) \in Seq(Nat)
<1>1. PICK h \in Seq(Nat) : h = ConnectHead(given)
  BY ConnectHeadType
<1>2. PICK p \in Seq(Nat) : p = Prefixed(ConnectProperties(connection))
  BY ConnectPropertiesType, PrefixedType
<1>3. PICK c \in Seq(Nat) : c = String(given.client_id)
  BY StringType DEF InfoSet
<1>4. (h \o p) \o c \in Seq(Nat)
  OBVIOUS
<1> QED BY <1>1, <1>2, <1>3, <1>4 DEF Identified

\* mqtt5_msg_connect, a name for each part.
ConnectSteps5(made, given, connection, testament) ==
    \E header, id, willed, user, password :
        /\ header = append(Started, Word(4) \o <<77, 81, 84, 84, 5, connect_flags(given)>>
                                            \o Word(given.keepalive))
        /\ id = append_string(append_properties(header, ConnectProperties(connection)),
                              given.client_id)
        /\ willed = IF given.will_topic # <<>>
                    THEN append_string(
                             append_string(append_properties(id, WillProperties(testament)),
                                           given.will_topic), given.will_message)
                    ELSE id
        /\ user = IF given.username # <<>> \/ given.password # <<>>
                  THEN append_string(willed, given.username) ELSE willed
        /\ password = IF given.password # <<>> THEN append_string(user, given.password) ELSE user
        /\ made = fini_message5(password, CONNECT, 0, 0, 0)

LEMMA ConnectSteps5Of ==
    ASSUME NEW given, NEW connection, NEW testament
    PROVE  ConnectSteps5(mqtt5_msg_connect(given, connection, testament), given, connection, testament)
BY DEF mqtt5_msg_connect, When, ConnectSteps5


LEMMA OptionalString ==
    ASSUME NEW msg, NEW bytes, Built(msg, bytes), NEW text \in Seq(Nat), NEW condition \in BOOLEAN,
           NEW new, new = IF condition THEN append_string(msg, text) ELSE msg
    PROVE  \E more \in Seq(Nat) : Built(new, bytes \o more)
<1>1. CASE condition
  <2>1. Built(new, bytes \o String(text))
    BY <1>1, BuiltString
  <2> QED BY <2>1, StringType
<1>2. CASE ~ condition
  <2>1. PICK none \in Seq(Nat) : none = <<>>
    BY EmptySeq
  <2>2. bytes \in Seq(Nat)
    BY DEF Built
  <2>3. bytes \o none = bytes
    BY <2>1, <2>2
  <2>4. Built(new, bytes \o none)
    BY <1>2, <2>3
  <2> QED BY <2>1, <2>4
<1> QED BY <1>1, <1>2

ConnectMadeAs(made, given, connection, testament) ==
    \E u, v \in Seq(Nat) : PacketMade(made, FirstByte(CONNECT, 0, 0),
                                      (Willed(given, connection, testament) \o u) \o v)

LEMMA ConnectMade ==
    ASSUME NEW given \in InfoSet, NEW connection \in ConnectSet, NEW testament \in WillSet
    PROVE  ConnectMadeAs(mqtt5_msg_connect(given, connection, testament),
                         given, connection, testament)
<1>1. PICK made : made = mqtt5_msg_connect(given, connection, testament)
  OBVIOUS
<1>2. ConnectSteps5(made, given, connection, testament)
  BY <1>1, ConnectSteps5Of
<1>3. PICK header, id, willed, user, password :
        /\ header = append(Started, Word(4) \o <<77, 81, 84, 84, 5, connect_flags(given)>>
                                            \o Word(given.keepalive))
        /\ id = append_string(append_properties(header, ConnectProperties(connection)),
                              given.client_id)
        /\ willed = IF given.will_topic # <<>>
                    THEN append_string(
                             append_string(append_properties(id, WillProperties(testament)),
                                           given.will_topic), given.will_message)
                    ELSE id
        /\ user = IF given.username # <<>> \/ given.password # <<>>
                  THEN append_string(willed, given.username) ELSE willed
        /\ password = IF given.password # <<>> THEN append_string(user, given.password) ELSE user
        /\ made = fini_message5(password, CONNECT, 0, 0, 0)
  BY <1>2, Zenon DEF ConnectSteps5
<1>4. /\ given.client_id \in Seq(Nat) /\ given.will_topic \in Seq(Nat)
      /\ given.will_message \in Seq(Nat) /\ given.username \in Seq(Nat)
      /\ given.password \in Seq(Nat)
  BY DEF InfoSet
<1>5. PICK h \in Seq(Nat) : h = ConnectHead(given)
  BY ConnectHeadType
<1>6. PICK p \in Seq(Nat) : p = ConnectProperties(connection)
  BY ConnectPropertiesType
<1>7. PICK q \in Seq(Nat) : q = WillProperties(testament)
  BY WillPropertiesType
<1>8. Built(header, h)
  <2>1. header = append(Started, h)
    BY <1>3, <1>5 DEF ConnectHead
  <2>2. Built(append(Started, h), <<>> \o h)
    BY BuiltStarted, BuiltAppend
  <2>3. <<>> \o h = h
    OBVIOUS
  <2> QED BY <2>1, <2>2, <2>3
<1>9. PICK i : i = Identified(given, connection)
  OBVIOUS
<1>10. Built(id, i)
  <2>1. PICK named : named = append_properties(header, p)
    OBVIOUS
  <2>2. Built(named, h \o Prefixed(p))
    BY <1>8, <2>1, BuiltProperties
  <2>3. PICK text \in Seq(Nat) : text = given.client_id
    BY <1>4
  <2>4. Built(append_string(named, text), (h \o Prefixed(p)) \o String(text))
    BY <2>2, BuiltString
  <2>5. i = (h \o Prefixed(p)) \o String(text)
    BY <1>5, <1>6, <1>9, <2>3 DEF Identified
  <2>6. id = append_string(named, text)
    BY <1>3, <1>6, <2>1, <2>3
  <2> QED BY <2>4, <2>5, <2>6
<1>11. PICK w : w = Willed(given, connection, testament)
  OBVIOUS
<1>12. Built(willed, w)
  <2>1. CASE given.will_topic # <<>>
    <3>1. PICK one : one = append_properties(id, q)
      OBVIOUS
    <3>2. Built(one, i \o Prefixed(q))
      BY <1>10, <3>1, BuiltProperties
    <3>3. PICK topic, message \in Seq(Nat) : topic = given.will_topic /\ message = given.will_message
      BY <1>4
    <3>4. PICK two : two = append_string(one, topic)
      OBVIOUS
    <3>5. Built(two, (i \o Prefixed(q)) \o String(topic))
      BY <3>2, <3>4, BuiltString
    <3>6. Built(append_string(two, message),
                ((i \o Prefixed(q)) \o String(topic)) \o String(message))
      BY <3>5, BuiltString
    <3>7. w = ((i \o Prefixed(q)) \o String(topic)) \o String(message)
      BY <1>7, <1>9, <1>11, <2>1, <3>3 DEF Willed
    <3>8. willed = append_string(two, message)
      BY <1>3, <1>7, <2>1, <3>1, <3>3, <3>4
    <3> QED BY <3>6, <3>7, <3>8
  <2>2. CASE ~ (given.will_topic # <<>>)
    <3>1. w = i
      BY <1>9, <1>11, <2>2 DEF Willed
    <3>2. willed = id
      BY <1>3, <2>2
    <3> QED BY <1>10, <3>1, <3>2
  <2> QED BY <2>1, <2>2
<1>13. PICK u \in Seq(Nat) : Built(user, w \o u)
  <2>1. PICK text \in Seq(Nat) : text = given.username
    BY <1>4
  <2>2. PICK condition \in BOOLEAN : condition = (given.username # <<>> \/ given.password # <<>>)
    OBVIOUS
  <2>3. user = IF condition THEN append_string(willed, text) ELSE willed
    BY <1>3, <2>1, <2>2
  <2> QED BY <1>12, <2>1, <2>2, <2>3, OptionalString
<1>14. PICK v \in Seq(Nat) : Built(password, (w \o u) \o v)
  <2>1. PICK text \in Seq(Nat) : text = given.password
    BY <1>4
  <2>2. PICK condition \in BOOLEAN : condition = (given.password # <<>>)
    OBVIOUS
  <2>3. password = IF condition THEN append_string(user, text) ELSE user
    BY <1>3, <2>1, <2>2
  <2> QED BY <1>13, <2>1, <2>2, <2>3, OptionalString
<1>15. FirstByte(CONNECT, 0, 0) \in Nat
  BY DEF FirstByte, CONNECT
<1>16. PacketMade(fini_message5(password, CONNECT, 0, 0, 0), FirstByte(CONNECT, 0, 0),
                  (w \o u) \o v)
  BY <1>14, <1>15, BuiltPacket
<1>17. PacketMade(made, FirstByte(CONNECT, 0, 0), (w \o u) \o v)
  BY <1>3, <1>16
<1> QED BY <1>1, <1>11, <1>13, <1>14, <1>17 DEF ConnectMadeAs


\* Where the parts of a CONNECT are in its bytes.
ConnectOpens(bytes, given, connection, testament, o) ==
    /\ bytes \in Seq(Nat) /\ o \in Nat /\ Start5(bytes, Len(bytes)).offset = o
    /\ At(bytes, o, Identified(given, connection))
    /\ given.will_topic # <<>> =>
           /\ At(bytes, o + Len(Identified(given, connection)), Prefixed(WillProperties(testament)))
           /\ At(bytes, o + Len(Identified(given, connection))
                          + Len(Prefixed(WillProperties(testament))), String(given.will_topic))

LEMMA WilledAt ==
    ASSUME NEW given \in InfoSet, NEW connection \in ConnectSet, NEW testament \in WillSet
    PROVE  /\ Willed(given, connection, testament) \in Seq(Nat)
           /\ \A bytes \in Seq(Nat) : \A o \in Nat :
                  At(bytes, o, Willed(given, connection, testament)) =>
                      /\ At(bytes, o, Identified(given, connection))
                      /\ given.will_topic # <<>> =>
                             /\ At(bytes, o + Len(Identified(given, connection)),
                                   Prefixed(WillProperties(testament)))
                             /\ At(bytes, o + Len(Identified(given, connection))
                                            + Len(Prefixed(WillProperties(testament))),
                                   String(given.will_topic))
<1>1. PICK i \in Seq(Nat) : i = Identified(given, connection)
  BY IdentifiedType
<1>2. PICK p \in Seq(Nat) : p = Prefixed(WillProperties(testament))
  BY WillPropertiesType, PrefixedType
<1>3. PICK t, m \in Seq(Nat) : t = String(given.will_topic) /\ m = String(given.will_message)
  <2>1. given.will_topic \in Seq(Nat) /\ given.will_message \in Seq(Nat)
    BY DEF InfoSet
  <2> QED BY <2>1, StringType
<1>4. PICK w : w = Willed(given, connection, testament)
  OBVIOUS
<1>5. CASE given.will_topic # <<>>
  <2>1. w = ((i \o p) \o t) \o m
    BY <1>1, <1>2, <1>3, <1>4, <1>5 DEF Willed
  <2>2. PICK ip \in Seq(Nat) : ip = i \o p /\ Len(ip) = Len(i) + Len(p)
    <3>1. i \o p \in Seq(Nat) /\ Len(i \o p) = Len(i) + Len(p)
      OBVIOUS
    <3> QED BY <3>1
  <2>3. PICK ipt \in Seq(Nat) : ipt = ip \o t
    <3>1. ip \o t \in Seq(Nat)
      OBVIOUS
    <3> QED BY <3>1
  <2>4. w = ipt \o m /\ ipt \o m \in Seq(Nat)
    BY <2>1, <2>2, <2>3
  <2>5. ASSUME NEW bytes \in Seq(Nat), NEW o \in Nat, At(bytes, o, w)
        PROVE  /\ At(bytes, o, i) /\ At(bytes, o + Len(i), p)
               /\ At(bytes, o + Len(i) + Len(p), t)
    <3>1. At(bytes, o, ipt)
      BY <2>4, <2>5, AtConcat
    <3>2. At(bytes, o, ip) /\ At(bytes, o + Len(ip), t)
      BY <2>3, <3>1, AtConcat
    <3>3. At(bytes, o, i) /\ At(bytes, o + Len(i), p)
      BY <2>2, <3>2, AtConcat
    <3>4. o + Len(ip) = o + Len(i) + Len(p)
      <4>1. PICK x, y \in Nat : x = Len(i) /\ y = Len(p)
        OBVIOUS
      <4>2. Len(ip) = x + y
        BY <2>2, <4>1
      <4>3. o + (x + y) = o + x + y
        OBVIOUS
      <4> QED BY <4>1, <4>2, <4>3
    <3>5. At(bytes, o + Len(i) + Len(p), t)
      BY <3>2, <3>4
    <3> QED BY <3>3, <3>5
  <2> QED BY <1>1, <1>2, <1>3, <1>4, <2>4, <2>5
<1>6. CASE ~ (given.will_topic # <<>>)
  <2>1. w = i
    BY <1>1, <1>4, <1>6 DEF Willed
  <2> QED BY <1>1, <1>4, <1>6, <2>1
<1> QED BY <1>5, <1>6

LEMMA ConnectOpened ==
    ASSUME NEW given \in InfoSet, NEW connection \in ConnectSet, NEW testament \in WillSet,
           mqtt5_msg_connect(given, connection, testament).ok
    PROVE  \E o \in Nat : ConnectOpens(mqtt5_msg_connect(given, connection, testament).bytes,
                                       given, connection, testament, o)
<1>1. PICK made : made = mqtt5_msg_connect(given, connection, testament)
  OBVIOUS
<1>2. PICK first : first = FirstByte(CONNECT, 0, 0)
  OBVIOUS
<1>3. PICK w \in Seq(Nat) : w = Willed(given, connection, testament)
  BY WilledAt
<1>4. PICK u, v \in Seq(Nat) : PacketMade(made, first, (w \o u) \o v)
  BY <1>1, <1>2, <1>3, ConnectMade DEF ConnectMadeAs
<1>5. PICK wu \in Seq(Nat) : wu = w \o u
  <2>1. w \o u \in Seq(Nat)
    OBVIOUS
  <2> QED BY <2>1
<1>6. PICK rest : rest = wu \o v
  OBVIOUS
<1>7. PICK bytes : bytes = made.bytes
  OBVIOUS
<1>8. PICK o \in Nat : Opens(bytes, first, rest, o)
  <2>1. PacketMade(made, first, rest) /\ made.ok
    BY <1>1, <1>4, <1>5, <1>6
  <2> QED BY <1>7, <2>1, PacketOpens
<1>9. bytes \in Seq(Nat) /\ At(bytes, o, wu \o v) /\ Start5(bytes, Len(bytes)).offset = o
  BY <1>6, <1>8 DEF Opens
<1>10. At(bytes, o, wu)
  BY <1>9, AtConcat
<1>11. At(bytes, o, w)
  BY <1>5, <1>9, <1>10, AtConcat
<1>12. ConnectOpens(bytes, given, connection, testament, o)
  BY <1>3, <1>9, <1>11, WilledAt DEF ConnectOpens
<1> QED BY <1>1, <1>7, <1>8, <1>12


\* A CONNECT as ReadBack reads it: the settings of the connection, those of the will, ...
ConnectSettingsRead(list, connection) ==
    /\ \A p \in {<<SESSION_EXPIRY_INTERVAL, "session_expiry_interval">>,
                  <<MAXIMUM_PACKET_SIZE, "maximum_packet_size">>,
                  <<RECEIVE_MAXIMUM, "receive_maximum">>,
                  <<TOPIC_ALIAS_MAXIMUM, "topic_alias_maximum">>} :
           NumberOf(list, p[1], 0) = connection[p[2]]
    /\ (NumberOf(list, REQUEST_RESP_INFO, 0) = 1) = connection.request_resp_info
    /\ UserPropertiesOf(list) = connection.user_property

WillSettingsRead(list, testament) ==
    /\ NumberOf(list, WILL_DELAY_INTERVAL, 0) = testament.will_delay_interval
    /\ TextOf(list, RESPONSE_TOPIC, <<>>) = testament.response_topic
    /\ UserPropertiesOf(list) = testament.user_property

\* ... and the packet.
ConnectReads(bytes, given, connection, testament) ==
    LET offset == Start5(bytes, Len(bytes)).offset + 10
        read == PropertiesIn(bytes, offset, ConnectKnown)
        id == Word(Len(given.client_id)) \o given.client_id
        willAt == read.after + Len(id)
        will5 == PropertiesIn(bytes, willAt, WillKnown)
    IN  /\ ConnectSettingsRead(read.list, connection)
        /\ SubSeq(bytes, read.after + 1, willAt) = id
        /\ given.will_topic # <<>> =>
               /\ WillSettingsRead(will5.list, testament)
               /\ SubSeq(bytes, will5.after + 3, will5.after + 2 + Len(given.will_topic))
                      = given.will_topic

LEMMA ConnectSettingsIn ==
    ASSUME NEW connection \in ConnectSet, NEW list, NEW got,
           Reads(list, got, connection.user_property),
           got[SESSION_EXPIRY_INTERVAL] = BigEndianOf(connection.session_expiry_interval, 4),
           got[MAXIMUM_PACKET_SIZE] = BigEndianOf(connection.maximum_packet_size, 4),
           got[RECEIVE_MAXIMUM] = BigEndianOf(connection.receive_maximum, 2),
           got[TOPIC_ALIAS_MAXIMUM] = BigEndianOf(connection.topic_alias_maximum, 2),
           got[REQUEST_RESP_INFO] = FlagOf(connection.request_resp_info)
    PROVE  ConnectSettingsRead(list, connection)
<1>1. /\ Id(SESSION_EXPIRY_INTERVAL) /\ Id(MAXIMUM_PACKET_SIZE) /\ Id(RECEIVE_MAXIMUM)
      /\ Id(TOPIC_ALIAS_MAXIMUM) /\ Id(REQUEST_RESP_INFO)
  BY ConnectIds
<1>2. /\ connection.session_expiry_interval \in Nat /\ connection.maximum_packet_size \in Nat
      /\ connection.receive_maximum \in Nat /\ connection.topic_alias_maximum \in Nat
      /\ connection.request_resp_info \in BOOLEAN
  BY DEF ConnectSet
<1>3. 4 \in {2, 4} /\ 2 \in {2, 4}
  OBVIOUS
<1>4. NumberOf(list, SESSION_EXPIRY_INTERVAL, 0) = connection.session_expiry_interval
  BY <1>1, <1>2, <1>3, ReadsNumber
<1>5. NumberOf(list, MAXIMUM_PACKET_SIZE, 0) = connection.maximum_packet_size
  BY <1>1, <1>2, <1>3, ReadsNumber
<1>6. NumberOf(list, RECEIVE_MAXIMUM, 0) = connection.receive_maximum
  BY <1>1, <1>2, <1>3, ReadsNumber
<1>7. NumberOf(list, TOPIC_ALIAS_MAXIMUM, 0) = connection.topic_alias_maximum
  BY <1>1, <1>2, <1>3, ReadsNumber
<1>8. (NumberOf(list, REQUEST_RESP_INFO, 0) = 1) = connection.request_resp_info
  <2>1. PICK id : id = REQUEST_RESP_INFO
    OBVIOUS
  <2>2. id \in Nat /\ id # USER_PROPERTY
    BY <1>1, <2>1 DEF Id
  <2>3. Given(list) /\ Got(list, id) = FlagOf(connection.request_resp_info)
    BY <2>1, <2>2 DEF Reads
  <2> QED BY <1>2, <2>1, <2>2, <2>3, FlagOptionRead
<1>9. UserPropertiesOf(list) = connection.user_property
  BY DEF Reads
<1>10. \A p \in {<<SESSION_EXPIRY_INTERVAL, "session_expiry_interval">>,
                  <<MAXIMUM_PACKET_SIZE, "maximum_packet_size">>,
                  <<RECEIVE_MAXIMUM, "receive_maximum">>,
                  <<TOPIC_ALIAS_MAXIMUM, "topic_alias_maximum">>} :
           NumberOf(list, p[1], 0) = connection[p[2]]
  BY <1>4, <1>5, <1>6, <1>7
<1> QED BY <1>8, <1>9, <1>10 DEF ConnectSettingsRead

LEMMA WillSettingsIn ==
    ASSUME NEW testament \in WillSet, NEW list, NEW got,
           Reads(list, got, testament.user_property),
           got[WILL_DELAY_INTERVAL] = BigEndianOf(testament.will_delay_interval, 4),
           got[RESPONSE_TOPIC] = testament.response_topic
    PROVE  WillSettingsRead(list, testament)
<1>1. Id(WILL_DELAY_INTERVAL) /\ Id(RESPONSE_TOPIC)
  BY WillIds
<1>2. testament.will_delay_interval \in Nat /\ 4 \in {2, 4}
  BY DEF WillSet
<1>3. NumberOf(list, WILL_DELAY_INTERVAL, 0) = testament.will_delay_interval
  BY <1>1, <1>2, ReadsNumber
<1>4. TextOf(list, RESPONSE_TOPIC, <<>>) = testament.response_topic
  <2>1. Got(list, RESPONSE_TOPIC) = got[RESPONSE_TOPIC]
    BY <1>1 DEF Reads, Id
  <2> QED BY <2>1 DEF Got
<1>5. UserPropertiesOf(list) = testament.user_property
  BY DEF Reads
<1> QED BY <1>3, <1>4, <1>5 DEF WillSettingsRead

LEMMA ConnectRead ==
    ASSUME NEW given \in InfoSet, NEW connection \in ConnectSet, NEW testament \in WillSet,
           mqtt5_msg_connect(given, connection, testament).ok
    PROVE  ConnectReads(mqtt5_msg_connect(given, connection, testament).bytes,
                        given, connection, testament)
<1>1. PICK bytes : bytes = mqtt5_msg_connect(given, connection, testament).bytes
  OBVIOUS
<1>2. PICK o \in Nat : ConnectOpens(bytes, given, connection, testament, o)
  BY <1>1, ConnectOpened
<1>3. PICK h \in Seq(Nat) : h = ConnectHead(given) /\ Len(h) = 10
  BY ConnectHeadType
<1>4. PICK got : /\ Says(ConnectProperties(connection), got, connection.user_property, ConnectKnown)
                 /\ got[SESSION_EXPIRY_INTERVAL] = BigEndianOf(connection.session_expiry_interval, 4)
                 /\ got[MAXIMUM_PACKET_SIZE] = BigEndianOf(connection.maximum_packet_size, 4)
                 /\ got[RECEIVE_MAXIMUM] = BigEndianOf(connection.receive_maximum, 2)
                 /\ got[TOPIC_ALIAS_MAXIMUM] = BigEndianOf(connection.topic_alias_maximum, 2)
                 /\ got[REQUEST_RESP_INFO] = FlagOf(connection.request_resp_info)
  BY ConnectSays DEF ConnectSaid
<1>5. PICK p \in Seq(Nat) : p = ConnectProperties(connection)
  BY ConnectPropertiesType
<1>6. PICK pp \in Seq(Nat) : pp = Prefixed(p)
  BY PrefixedType
<1>7. PICK id \in Seq(Nat) : id = Word(Len(given.client_id)) \o given.client_id
  BY StringType DEF InfoSet, String
<1>8. PICK i \in Seq(Nat) : i = (h \o pp) \o id
  <2>1. (h \o pp) \o id \in Seq(Nat)
    OBVIOUS
  <2> QED BY <2>1
<1>9. i = Identified(given, connection)
  BY <1>3, <1>5, <1>6, <1>7, <1>8 DEF Identified, String
<1>10. PICK hp \in Seq(Nat) : hp = h \o pp /\ Len(hp) = 10 + Len(pp)
  <2>1. h \o pp \in Seq(Nat) /\ Len(h \o pp) = Len(h) + Len(pp)
    OBVIOUS
  <2> QED BY <1>3, <2>1
<1>11. Len(i) = (10 + Len(pp)) + Len(id)
  <2>1. i = hp \o id
    BY <1>8, <1>10
  <2>2. Len(hp \o id) = Len(hp) + Len(id)
    OBVIOUS
  <2> QED BY <1>10, <2>1, <2>2
<1>12. bytes \in Seq(Nat) /\ Start5(bytes, Len(bytes)).offset = o /\ At(bytes, o, hp \o id)
  BY <1>2, <1>8, <1>9, <1>10 DEF ConnectOpens
<1>13. At(bytes, o, h \o pp) /\ At(bytes, o + Len(hp), id)
  BY <1>10, <1>12, AtConcat
<1>14. PICK at \in Nat : at = o + 10
  OBVIOUS
<1>15. At(bytes, at, pp)
  <2>1. At(bytes, o + Len(h), pp)
    BY <1>12, <1>13, AtConcat
  <2> QED BY <1>3, <1>14, <2>1
<1>16. PICK after \in Nat : after = at + Len(pp)
  <2>1. at + Len(pp) \in Nat
    OBVIOUS
  <2> QED BY <2>1
<1>17. FoundIn(bytes, at, ConnectKnown, after, got, connection.user_property)
  BY <1>4, <1>5, <1>6, <1>12, <1>15, <1>16, SectionFound
<1>18. PICK read : read = PropertiesIn(bytes, at, ConnectKnown)
  OBVIOUS
<1>19. Reads(read.list, got, connection.user_property) /\ read.after = after
  BY <1>17, <1>18 DEF FoundIn
<1>20. ConnectSettingsRead(read.list, connection)
  BY <1>4, <1>19, ConnectSettingsIn
<1>21. PICK willAt \in Nat : willAt = after + Len(id)
  <2>1. after + Len(id) \in Nat
    OBVIOUS
  <2> QED BY <2>1
<1>22. o + Len(hp) = after /\ o + Len(i) = willAt
  <2>1. PICK x, y \in Nat : x = Len(pp) /\ y = Len(id)
    OBVIOUS
  <2>2. Len(hp) = 10 + x /\ Len(i) = (10 + x) + y /\ after = (o + 10) + x /\ willAt = after + y
    BY <1>10, <1>11, <1>14, <1>16, <1>21, <2>1
  <2> QED BY <2>2
<1>23. SubSeq(bytes, after + 1, willAt) = id
  BY <1>12, <1>13, <1>21, <1>22, AtSub
<1>24. PICK will5 : will5 = PropertiesIn(bytes, willAt, WillKnown)
  OBVIOUS
<1>25. ASSUME given.will_topic # <<>>
       PROVE  /\ WillSettingsRead(will5.list, testament)
              /\ SubSeq(bytes, will5.after + 3, will5.after + 2 + Len(given.will_topic))
                     = given.will_topic
  <2>1. PICK q : q = WillProperties(testament)
    OBVIOUS
  <2>2. PICK gotten : /\ Says(q, gotten, testament.user_property, WillKnown)
                      /\ gotten[WILL_DELAY_INTERVAL] = BigEndianOf(testament.will_delay_interval, 4)
                      /\ gotten[RESPONSE_TOPIC] = testament.response_topic
    BY <2>1, WillSays DEF WillSaid
  <2>3. q \in Seq(Nat)
    BY <2>2, SaysType
  <2>4. PICK end \in Nat : end = willAt + Len(Prefixed(q))
    <3>1. Len(Prefixed(q)) \in Nat
      BY <2>3, PrefixedType
    <3>2. willAt + Len(Prefixed(q)) \in Nat
      BY <3>1
    <3> QED BY <3>2
  <2>5. At(bytes, willAt, Prefixed(q)) /\ At(bytes, end, String(given.will_topic))
    BY <1>2, <1>9, <1>22, <1>25, <2>1, <2>4 DEF ConnectOpens
  <2>6. FoundIn(bytes, willAt, WillKnown, end, gotten, testament.user_property)
    BY <1>12, <2>2, <2>4, <2>5, SectionFound
  <2>7. Reads(will5.list, gotten, testament.user_property) /\ will5.after = end
    BY <1>24, <2>6 DEF FoundIn
  <2>8. WillSettingsRead(will5.list, testament)
    BY <2>2, <2>7, WillSettingsIn
  <2>9. SubSeq(bytes, end + 3, end + 2 + Len(given.will_topic)) = given.will_topic
    <3>1. PICK text \in Seq(Nat) : text = given.will_topic
      BY DEF InfoSet
    <3>2. At(bytes, end, String(text))
      BY <2>5, <3>1
    <3>3. /\ WordAt(bytes, end) = Len(text)
          /\ SubSeq(bytes, end + 3, end + 2 + WordAt(bytes, end)) = text
      BY <1>12, <3>2, StringRead
    <3> QED BY <3>1, <3>3
  <2> QED BY <2>7, <2>8, <2>9
<1>26. Start5(bytes, Len(bytes)).offset + 10 = at
  BY <1>12, <1>14
<1>27. ConnectReads(bytes, given, connection, testament)
  BY <1>7, <1>18, <1>19, <1>20, <1>21, <1>23, <1>24, <1>25, <1>26, Zenon DEF ConnectReads
<1> QED BY <1>1, <1>27


----------------------------------------------------------------------------
(* The packets of the client, read back *)

\* A PUBLISH as ReadBack reads it.
PublishReads(read, request, property, resp_info) ==
    /\ read.ok /\ read.topic = request.topic /\ read.payload = request.data
    /\ NumberOf(read.properties, TOPIC_ALIAS, 0) = property.topic_alias
    /\ NumberOf(read.properties, MESSAGE_EXPIRY_INTERVAL, 0) = property.message_expiry_interval
    /\ TextOf(read.properties, CONTENT_TYPE, <<>>) = property.content_type
    /\ UserPropertiesOf(read.properties) = property.user_property
    /\ resp_info = <<>> =>
           TextOf(read.properties, RESPONSE_TOPIC, <<>>) = property.response_topic

\* What ReadBack says of the last packet, in parts.
LastRead(entry) ==
    /\ entry.kind = "connect" =>
           ConnectReads(entry.bytes, entry.info, entry.connect, entry.will)
    /\ entry.kind = "publish" =>
           PublishReads(mqtt5_get_publish_property_payload(entry.bytes, Len(entry.bytes)),
                        entry.request, entry.property, entry.resp_info)
    /\ entry.kind \in {"subscribe", "unsubscribe"} => RequestReads(entry.bytes, entry.property)
    /\ entry.kind = "subscribe" => SubscribeReads(entry.bytes, entry.property)
    /\ entry.kind = "disconnect" => DisconnectReads(entry.bytes, entry.property)

LEMMA PublishIds ==
    /\ Id(TOPIC_ALIAS) /\ Id(MESSAGE_EXPIRY_INTERVAL) /\ Id(CONTENT_TYPE) /\ Id(RESPONSE_TOPIC)
BY DEF Id, TOPIC_ALIAS, MESSAGE_EXPIRY_INTERVAL, CONTENT_TYPE, RESPONSE_TOPIC, USER_PROPERTY

LEMMA PublishSettingsIn ==
    ASSUME NEW property \in PublishSet, NEW resp_info \in Seq(Nat), NEW request, NEW read, NEW got,
           PublishReadAs(read, request.topic, request.data, got, property.user_property),
           got[TOPIC_ALIAS] = BigEndianOf(property.topic_alias, 2),
           got[MESSAGE_EXPIRY_INTERVAL] = BigEndianOf(property.message_expiry_interval, 4),
           got[CONTENT_TYPE] = property.content_type,
           got[RESPONSE_TOPIC] = ResponseTopic(property, resp_info)
    PROVE  PublishReads(read, request, property, resp_info)
<1>1. PICK list : list = read.properties
  OBVIOUS
<1>2. Reads(list, got, property.user_property)
  BY <1>1 DEF PublishReadAs
<1>3. /\ property.topic_alias \in Nat /\ property.message_expiry_interval \in Nat
      /\ 4 \in {2, 4} /\ 2 \in {2, 4}
  BY DEF PublishSet
<1>4. NumberOf(list, TOPIC_ALIAS, 0) = property.topic_alias
  BY <1>2, <1>3, PublishIds, ReadsNumber
<1>5. NumberOf(list, MESSAGE_EXPIRY_INTERVAL, 0) = property.message_expiry_interval
  BY <1>2, <1>3, PublishIds, ReadsNumber
<1>6. TextOf(list, CONTENT_TYPE, <<>>) = property.content_type
  <2>1. Got(list, CONTENT_TYPE) = got[CONTENT_TYPE]
    BY <1>2, PublishIds DEF Reads, Id
  <2> QED BY <2>1 DEF Got
<1>7. ASSUME resp_info = <<>> PROVE TextOf(list, RESPONSE_TOPIC, <<>>) = property.response_topic
  <2>1. Got(list, RESPONSE_TOPIC) = got[RESPONSE_TOPIC]
    BY <1>2, PublishIds DEF Reads, Id
  <2>2. ResponseTopic(property, resp_info) = property.response_topic
    BY <1>7 DEF ResponseTopic
  <2> QED BY <2>1, <2>2 DEF Got
<1>8. UserPropertiesOf(list) = property.user_property
  BY <1>2 DEF Reads
<1>9. read.ok /\ read.topic = request.topic /\ read.payload = request.data
  BY DEF PublishReadAs
<1> QED BY <1>1, <1>4, <1>5, <1>6, <1>7, <1>8, <1>9, Zenon DEF PublishReads

LEMMA MadeReads ==
    ASSUME SettingsInv, NEW request \in Publishes, Made(request).message.ok,
           NEW bytes, bytes = Item(request, "TRANSMITTED").bytes
    PROVE  PublishReads(mqtt5_get_publish_property_payload(bytes, Len(bytes)), request,
                        publish_property, server.response_info)
<1>1. /\ bytes = Frame(FirstByte(PUBLISH, request.qos, request.retain),
                       PublishRest(request.topic, request.qos, callsMade + 1,
                                   PublishBytes(publish_property, server.response_info),
                                   request.data))
      /\ bytes \in Seq(Nat)
  <2>1. "TRANSMITTED" \in {"QUEUED", "TRANSMITTED"}
    OBVIOUS
  <2> QED BY <2>1, ItemOf DEF ItemMade
<1>2. PICK topic, data \in Seq(Nat) : topic = request.topic /\ data = request.data
  BY RequestGiven
<1>3. PICK qos \in 0 .. 2 : qos = request.qos
  BY RequestGiven
<1>4. PICK retain \in 0 .. 1 : retain = request.retain
  BY RequestGiven
<1>5. PICK number \in Nat : number = callsMade + 1
  BY DEF SettingsInv
<1>6. PICK property \in PublishSet : property = publish_property
  BY DEF SettingsInv
<1>7. PICK resp_info \in Seq(Nat) : resp_info = server.response_info
  BY DEF SettingsInv, ServerSet
<1>8. PICK got \in [Nat -> Seq(Nat)] :
        /\ Says(PublishBytes(property, resp_info), got, property.user_property, PublishProperties)
        /\ got[TOPIC_ALIAS] = BigEndianOf(property.topic_alias, 2)
        /\ got[MESSAGE_EXPIRY_INTERVAL] = BigEndianOf(property.message_expiry_interval, 4)
        /\ got[CONTENT_TYPE] = property.content_type
        /\ got[RESPONSE_TOPIC] = ResponseTopic(property, resp_info)
  BY PublishSays
<1>9. PICK properties : properties = PublishBytes(property, resp_info)
  OBVIOUS
<1>10. bytes = Frame(FirstByte(PUBLISH, qos, retain),
                     PublishRest(topic, qos, number, properties, data))
  BY <1>1, <1>2, <1>3, <1>4, <1>5, <1>6, <1>7, <1>9
<1>11. PICK read : read = mqtt5_get_publish_property_payload(bytes, Len(bytes))
  OBVIOUS
<1>12. PICK users : users = property.user_property
  OBVIOUS
<1>13. PublishReadAs(read, topic, data, got, users)
  BY <1>1, <1>8, <1>9, <1>10, <1>11, <1>12, PublishRead
<1>14. PublishReads(read, request, property, resp_info)
  BY <1>2, <1>8, <1>12, <1>13, PublishSettingsIn
<1> QED BY <1>6, <1>7, <1>11, <1>14


\* ReadBack's first part is LastRead.
LEMMA ReadsConnectIs ==
    ConnectReads(last.bytes, last.info, last.connect, last.will) => ReadsConnect
<1>1. \A o, known : PropertiesAt(o, known) = PropertiesIn(last.bytes, o, known)
  BY Zenon DEF PropertiesAt, PropertiesIn
<1>2. /\ ConnectKnown = ConnackProperties \cup {REQUEST_PROBLEM_INFO, REQUEST_RESP_INFO}
      /\ WillKnown = PublishProperties \cup {WILL_DELAY_INTERVAL}
  BY DEF ConnectKnown, WillKnown
<1> QED BY <1>1, <1>2, Zenon DEF ConnectReads, ReadsConnect, ConnectSettingsRead, WillSettingsRead

LEMMA ReadsPublishIs ==
    ASSUME NEW read, PublishReads(read, last.request, last.property, last.resp_info)
    PROVE  ReadsPublish(read, last.property)
BY Zenon DEF PublishReads, ReadsPublish

LEMMA ReadsSubscribeIs ==
    RequestReads(last.bytes, last.property)
        /\ (last.kind = "subscribe" => SubscribeReads(last.bytes, last.property)) => ReadsSubscribe
<1>1. \A o, known : PropertiesAt(o, known) = PropertiesIn(last.bytes, o, known)
  BY Zenon DEF PropertiesAt, PropertiesIn
<1>2. ASSUME RequestReads(last.bytes, last.property),
             last.kind = "subscribe" => SubscribeReads(last.bytes, last.property)
      PROVE  ReadsSubscribe
  <2>1. PICK read : read = PropertiesIn(last.bytes, Start5(last.bytes, Len(last.bytes)).offset + 2,
                                        PublishProperties)
    OBVIOUS
  <2>2. PICK first : first = SubSeq(last.bytes, read.after + 3,
                                    read.after + 2 + WordAt(last.bytes, read.after))
    OBVIOUS
  <2>3. /\ UserPropertiesOf(read.list) = last.property.user_property
        /\ first = Filter(Topics[1].filter, last.property)
    BY <1>2, <2>1, <2>2, Zenon DEF RequestReads
  <2>4. PICK subscribe_id : subscribe_id = TextOf(read.list, SUBSCRIBE_IDENTIFIER, <<0>>)
    OBVIOUS
  <2>5. last.kind = "subscribe" =>
            /\ Base128(subscribe_id, 0, Len(subscribe_id)) = last.property.subscribe_id
            /\ last.bytes[read.after + Len(first) + 3] % 4 = Topics[1].qos
            /\ last.bytes[Len(last.bytes)] % 4 = Topics[2].qos
    BY <1>2, <2>1, <2>2, <2>4, Zenon DEF SubscribeReads
  <2>6. read = PropertiesAt(Start5(last.bytes, Len(last.bytes)).offset + 2, PublishProperties)
    BY <1>1, <2>1, Zenon
  <2> QED BY <2>2, <2>3, <2>4, <2>5, <2>6, Zenon DEF ReadsSubscribe
<1> QED BY <1>2

LEMMA ReadsDisconnectIs ==
    DisconnectReads(last.bytes, last.property) => ReadsDisconnect
<1>1. \A o, known : PropertiesAt(o, known) = PropertiesIn(last.bytes, o, known)
  BY Zenon DEF PropertiesAt, PropertiesIn
<1> QED BY <1>1, Zenon DEF DisconnectReads, ReadsDisconnect

\* Whose setting of publish properties is to be carried, and by how many it was.
CarriedInv ==
    /\ callsMade \in 0 .. MAX_CALLS
    /\ carried \in [1 .. MAX_CALLS -> {0, 1}]
    /\ publish_property.n \in 0 .. callsMade
    /\ \A n \in 1 .. MAX_CALLS : n = publish_property.n \/ n > callsMade => carried[n] = 0

ReadInv == SettingsInv /\ LastRead(last) /\ CarriedInv

LEMMA ReadBackIs == ReadInv => ReadBack
<1> SUFFICES ASSUME ReadInv PROVE ReadBack
  OBVIOUS
<1>1. \A n \in 1 .. MAX_CALLS : carried[n] <= 1
  BY DEF ReadInv, CarriedInv
<1>3. LastRead(last)
  BY DEF ReadInv
<1>4. CASE last.kind = "connect"
  <2>1. ReadsConnect
    BY <1>3, <1>4, ReadsConnectIs DEF LastRead
  <2> QED BY <1>1, <1>4, <2>1 DEF ReadBack
<1>5. CASE last.kind = "publish"
  <2>1. ReadsPublish(mqtt5_get_publish_property_payload(last.bytes, Len(last.bytes)),
                     last.property)
    BY <1>3, <1>5, ReadsPublishIs DEF LastRead
  <2> QED BY <1>1, <1>5, <2>1 DEF ReadBack
<1>6. CASE last.kind \in {"subscribe", "unsubscribe"}
  <2>1. ReadsSubscribe
    BY <1>3, <1>6, ReadsSubscribeIs DEF LastRead
  <2> QED BY <1>1, <1>6, <2>1 DEF ReadBack
<1>7. CASE last.kind = "disconnect"
  <2>1. ReadsDisconnect
    BY <1>3, <1>7, ReadsDisconnectIs DEF LastRead
  <2> QED BY <1>1, <1>7, <2>1 DEF ReadBack
<1>8. CASE last.kind \notin {"connect", "publish", "subscribe", "unsubscribe", "disconnect"}
  BY <1>1, <1>8 DEF ReadBack
<1> QED BY <1>4, <1>5, <1>6, <1>7, <1>8

\* Each step that makes a packet.
LEMMA LastConnect == ASSUME SettingsInv, Connect PROVE LastRead(last')
<1>1. PICK made : made = mqtt5_msg_connect(info, connect, will)
  OBVIOUS
<1>2. made.ok /\ last' = [kind |-> "connect", connect |-> connect, will |-> will, info |-> info,
                          bytes |-> made.bytes]
  BY <1>1 DEF Connect
<1>3. connect \in ConnectSet /\ will \in WillSet /\ info \in InfoSet
  BY DEF SettingsInv
<1>4. ConnectReads(made.bytes, info, connect, will)
  BY <1>1, <1>2, <1>3, ConnectRead
<1>5. /\ last'.kind = "connect" /\ last'.connect = connect /\ last'.will = will
      /\ last'.info = info /\ last'.bytes = made.bytes
  BY <1>2
<1> QED BY <1>4, <1>5 DEF LastRead

LEMMA LastDisconnect == ASSUME SettingsInv, Disconnect PROVE LastRead(last')
<1>1. PICK made : made = mqtt5_msg_disconnect(disconnect_property)
  OBVIOUS
<1>2. CASE made.ok
  <2>1. last' = [kind |-> "disconnect", property |-> disconnect_property, bytes |-> made.bytes]
    BY <1>1, <1>2 DEF Disconnect
  <2>2. disconnect_property \in DisconnectSet
    BY DEF SettingsInv
  <2>3. DisconnectReads(made.bytes, disconnect_property)
    BY <1>1, <1>2, <2>2, DisconnectRead
  <2>4. /\ last'.kind = "disconnect" /\ last'.property = disconnect_property
        /\ last'.bytes = made.bytes
    BY <2>1
  <2> QED BY <2>3, <2>4 DEF LastRead
<1>3. CASE ~ made.ok
  <2>1. last' = Nothing
    BY <1>1, <1>3 DEF Disconnect
  <2>2. last'.kind = "none"
    BY <2>1 DEF Nothing
  <2> QED BY <2>2 DEF LastRead
<1> QED BY <1>2, <1>3

LEMMA LastSubscribe == ASSUME SettingsInv, Subscribe PROVE LastRead(last')
<1>1. PICK number \in Nat : number = callsMade + 1
  BY DEF SettingsInv
<1>2. PICK made : made = mqtt5_msg_subscribe(Topics, number, subscribe_property)
  OBVIOUS
<1>3. Requested("subscribe", subscribe_property, made)
  BY <1>1, <1>2 DEF Subscribe
<1>4. made.ok /\ last' = [kind |-> "subscribe", property |-> subscribe_property,
                          bytes |-> made.bytes]
  BY <1>3 DEF Requested
<1>5. subscribe_property \in SubscribeSet
  BY DEF SettingsInv
<1>6. RequestReads(made.bytes, subscribe_property) /\ SubscribeReads(made.bytes, subscribe_property)
  BY <1>2, <1>4, <1>5, SubscribeRead
<1>7. last'.kind = "subscribe" /\ last'.property = subscribe_property /\ last'.bytes = made.bytes
  BY <1>4
<1> QED BY <1>6, <1>7 DEF LastRead

LEMMA LastUnsubscribe == ASSUME SettingsInv, Unsubscribe PROVE LastRead(last')
<1>1. PICK number \in Nat : number = callsMade + 1
  BY DEF SettingsInv
<1>2. PICK made : made = mqtt5_msg_unsubscribe(Topics[1].filter, number, unsubscribe_property)
  OBVIOUS
<1>3. Requested("unsubscribe", unsubscribe_property, made)
  BY <1>1, <1>2 DEF Unsubscribe
<1>4. made.ok /\ last' = [kind |-> "unsubscribe", property |-> unsubscribe_property,
                          bytes |-> made.bytes]
  BY <1>3 DEF Requested
<1>5. unsubscribe_property \in UnsubscribeSet
  BY DEF SettingsInv
<1>6. RequestReads(made.bytes, unsubscribe_property)
  BY <1>2, <1>4, <1>5, UnsubscribeRead
<1>7. last'.kind = "unsubscribe" /\ last'.property = unsubscribe_property /\ last'.bytes = made.bytes
  BY <1>4
<1> QED BY <1>6, <1>7 DEF LastRead

LEMMA LastPublish ==
    ASSUME SettingsInv, NEW request \in Publishes, Publish(request)
    PROVE  LastRead(last')
<1>1. CASE connected
  <2>1. PICK bytes : bytes = Item(request, "TRANSMITTED").bytes
    OBVIOUS
  <2>2. Made(request).message.ok
    BY DEF Publish, make_publish
  <2>3. last' = [kind |-> "publish", request |-> request, property |-> publish_property,
                 resp_info |-> server.response_info, setHere |-> setHere, bytes |-> bytes]
    BY <1>1, <2>1 DEF Publish
  <2>4. PublishReads(mqtt5_get_publish_property_payload(bytes, Len(bytes)), request,
                     publish_property, server.response_info)
    BY <2>1, <2>2, MadeReads
  <2>5. /\ last'.kind = "publish" /\ last'.request = request /\ last'.property = publish_property
        /\ last'.resp_info = server.response_info /\ last'.bytes = bytes
    BY <2>3
  <2> QED BY <2>4, <2>5 DEF LastRead
<1>2. CASE ~ connected
  <2>1. last'.kind = "none"
    BY <1>2 DEF Publish, Nothing
  <2> QED BY <2>1 DEF LastRead
<1> QED BY <1>1, <1>2


\* The other steps make no packet.
LEMMA LastAside ==
    ASSUME [Mqtt5Next]_mqtt5Vars, ~ Connect, ~ Disconnect, ~ Subscribe, ~ Unsubscribe,
           \A request \in Publishes : ~ Publish(request)
    PROVE  \/ last' = last
           \/ last'.kind \notin {"connect", "publish", "subscribe", "unsubscribe", "disconnect"}
<1>1. CASE \/ \E new \in ConnectSettings : SetConnectProperty(new)
           \/ \E new \in PublishSettings : SetPublishProperty(new)
           \/ \E new \in SubscribeSettings : SetSubscribeProperty(new)
           \/ \E new \in UnsubscribeSettings : SetUnsubscribeProperty(new)
           \/ \E new \in DisconnectSettings : SetDisconnectProperty(new)
  BY <1>1 DEF SetConnectProperty, SetPublishProperty, SetSubscribeProperty, SetUnsubscribeProperty,
              SetDisconnectProperty, Nothing
<1>2. CASE Break \/ BrokerDisconnects \/ SubscriptionAnswered
  BY <1>2 DEF Break, BrokerDisconnects, SubscriptionAnswered, Nothing
<1>3. CASE ResendQueued \/ ResendTransmitted \/ ResendPubrel
  BY <1>3 DEF ResendQueued, ResendTransmitted, ResendPubrel, Resends, Nothing
<1>4. CASE \E request \in Publishes : Enqueue(request)
  BY <1>4 DEF Enqueue, Nothing
<1>5. CASE \E id \in 1 .. MAX_CALLS : Answer(id)
  BY <1>5 DEF Answer, Received, Finish, Nothing
<1>6. CASE \E message \in Messages : Incoming(message)
  <2>1. PICK event, message : Receive(event, message)
    BY <1>6 DEF Incoming, ReceiveBytes
  <2> QED BY <2>1 DEF Receive
<1>7. CASE UNCHANGED mqtt5Vars
  BY <1>7 DEF mqtt5Vars
<1> QED BY <1>1, <1>2, <1>3, <1>4, <1>5, <1>6, <1>7 DEF Mqtt5Next

LEMMA LastStep ==
    ASSUME SettingsInv, LastRead(last), [Mqtt5Next]_mqtt5Vars
    PROVE  LastRead(last')
<1>1. CASE Connect \/ Disconnect \/ Subscribe \/ Unsubscribe
  BY <1>1, LastConnect, LastDisconnect, LastSubscribe, LastUnsubscribe
<1>2. ASSUME NEW request \in Publishes, Publish(request) PROVE LastRead(last')
  BY <1>2, LastPublish
<1>3. CASE /\ ~ Connect /\ ~ Disconnect /\ ~ Subscribe /\ ~ Unsubscribe
           /\ \A request \in Publishes : ~ Publish(request)
  <2>1. CASE last' = last
    BY <2>1
  <2>2. CASE last'.kind \notin {"connect", "publish", "subscribe", "unsubscribe", "disconnect"}
    BY <2>2 DEF LastRead
  <2> QED BY <1>3, <2>1, <2>2, LastAside
<1> QED BY <1>1, <1>2, <1>3

\* What was set for one message goes with one: a setting that is not yet carried is carried by
\* no message, and after a message carried it, it is not set any more.
LEMMA CarriedSame ==
    ASSUME CarriedInv, carried' = carried, callsMade' \in 0 .. MAX_CALLS, callsMade' >= callsMade,
           publish_property'.n \in {publish_property.n, 0}
    PROVE  CarriedInv'
<1>1. /\ callsMade \in Nat /\ callsMade' \in Nat /\ publish_property.n \in 0 .. callsMade
  BY DEF CarriedInv
<1>2. publish_property'.n \in 0 .. callsMade'
  BY <1>1
<1>3. ASSUME NEW n \in 1 .. MAX_CALLS, n = publish_property'.n \/ n > callsMade'
      PROVE  carried'[n] = 0
  <2>1. n = publish_property.n \/ n > callsMade
    BY <1>1, <1>3
  <2> QED BY <2>1 DEF CarriedInv
<1>4. carried' \in [1 .. MAX_CALLS -> {0, 1}]
  BY DEF CarriedInv
<1> QED BY <1>2, <1>3, <1>4 DEF CarriedInv

LEMMA CarriedCalls ==
    ASSUME CarriedInv, Called
    PROVE  callsMade' = callsMade + 1 /\ callsMade' \in 0 .. MAX_CALLS /\ callsMade' \in 1 .. MAX_CALLS
           /\ callsMade \in Nat /\ callsMade' >= callsMade
<1>1. MAX_CALLS \in Nat
  BY Mqtt5Assumption
<1> QED BY <1>1 DEF CarriedInv, Called

LEMMA CarriedSet ==
    ASSUME CarriedInv, NEW new \in PublishSettings, SetPublishProperty(new)
    PROVE  CarriedInv'
<1>1. Called /\ publish_property' = [new EXCEPT !.n = callsMade'] /\ carried' = carried
  BY DEF SetPublishProperty
<1>2. new \in PublishSet
  BY SettingsGiven
<1>3. publish_property'.n = callsMade'
  BY <1>1, <1>2 DEF PublishSet
<1>4. callsMade' = callsMade + 1 /\ callsMade' \in 0 .. MAX_CALLS /\ callsMade \in Nat
  BY <1>1, CarriedCalls
<1>5. ASSUME NEW n \in 1 .. MAX_CALLS, n = publish_property'.n \/ n > callsMade'
      PROVE  carried'[n] = 0
  <2>1. n > callsMade
    BY <1>3, <1>4, <1>5
  <2> QED BY <1>1, <2>1 DEF CarriedInv
<1>6. publish_property'.n \in 0 .. callsMade'
  BY <1>3, <1>4
<1>7. carried' \in [1 .. MAX_CALLS -> {0, 1}]
  BY <1>1 DEF CarriedInv
<1> QED BY <1>4, <1>5, <1>6, <1>7 DEF CarriedInv

LEMMA CarriedMade ==
    ASSUME CarriedInv, Called, NEW request, make_publish(request)
    PROVE  CarriedInv'
<1>1. publish_property' = NoPublish /\ carried' = Carried
  BY DEF make_publish
<1>2. publish_property'.n = 0
  BY <1>1 DEF NoPublish
<1>3. callsMade' = callsMade + 1 /\ callsMade' \in 0 .. MAX_CALLS /\ callsMade \in Nat
  BY CarriedCalls
<1>4. CASE publish_property.n = 0
  <2>1. carried' = carried
    BY <1>1, <1>4 DEF Carried
  <2> QED BY <1>2, <1>3, <2>1, CarriedSame
<1>5. CASE publish_property.n # 0
  <2>1. PICK k \in Nat : k = publish_property.n /\ k \in 1 .. callsMade /\ k \in 1 .. MAX_CALLS
    <3>1. publish_property.n \in 0 .. callsMade /\ callsMade \in 0 .. MAX_CALLS /\ MAX_CALLS \in Nat
      BY Mqtt5Assumption DEF CarriedInv
    <3> QED BY <1>5, <3>1
  <2>2. carried \in [1 .. MAX_CALLS -> {0, 1}] /\ carried[k] = 0
    BY <2>1 DEF CarriedInv
  <2>3. carried' = [carried EXCEPT ![k] = carried[k] + 1]
    BY <1>1, <1>5, <2>1 DEF Carried
  <2>4. carried' = [carried EXCEPT ![k] = 1]
    BY <2>2, <2>3
  <2>5. carried' \in [1 .. MAX_CALLS -> {0, 1}]
    BY <2>2, <2>4
  <2>6. ASSUME NEW n \in 1 .. MAX_CALLS, n = publish_property'.n \/ n > callsMade'
        PROVE  carried'[n] = 0
    <3>1. n > callsMade /\ n # k
      BY <1>2, <1>3, <2>1, <2>6
    <3>2. carried'[n] = carried[n]
      BY <2>2, <2>4, <3>1
    <3> QED BY <3>1, <3>2 DEF CarriedInv
  <2>7. publish_property'.n \in 0 .. callsMade'
    BY <1>2, <1>3
  <2> QED BY <1>3, <2>5, <2>6, <2>7 DEF CarriedInv
<1> QED BY <1>4, <1>5

LEMMA CarriedStep ==
    ASSUME CarriedInv, [Mqtt5Next]_mqtt5Vars
    PROVE  CarriedInv'
<1>0. callsMade \in 0 .. MAX_CALLS
  BY DEF CarriedInv
<1>1. CASE \/ \E new \in ConnectSettings : SetConnectProperty(new)
           \/ \E new \in SubscribeSettings : SetSubscribeProperty(new)
           \/ \E new \in UnsubscribeSettings : SetUnsubscribeProperty(new)
           \/ \E new \in DisconnectSettings : SetDisconnectProperty(new)
           \/ Disconnect \/ Subscribe \/ Unsubscribe
  <2>1. Called /\ carried' = carried /\ publish_property' = publish_property
    BY <1>1 DEF SetConnectProperty, SetSubscribeProperty, SetUnsubscribeProperty,
                SetDisconnectProperty, Disconnect, Subscribe, Unsubscribe, Requested
  <2> QED BY <2>1, CarriedCalls, CarriedSame
<1>2. ASSUME NEW new \in PublishSettings, SetPublishProperty(new) PROVE CarriedInv'
  BY <1>2, CarriedSet
<1>3. ASSUME NEW request \in Publishes, Publish(request) \/ Enqueue(request) PROVE CarriedInv'
  <2>1. Called /\ make_publish(request)
    BY <1>3 DEF Publish, Enqueue
  <2> QED BY <2>1, CarriedMade
<1>4. CASE \/ Connect \/ Break \/ ResendQueued \/ ResendTransmitted \/ ResendPubrel
           \/ SubscriptionAnswered \/ BrokerDisconnects
           \/ \E id \in 1 .. MAX_CALLS : Answer(id)
           \/ \E message \in Messages : Incoming(message)
           \/ UNCHANGED mqtt5Vars
  <2>1. callsMade' = callsMade /\ carried' = carried /\ publish_property' = publish_property
    BY <1>4 DEF Connect, Break, ResendQueued, ResendTransmitted, ResendPubrel, Resends,
                SubscriptionAnswered, BrokerDisconnects, Answer, Incoming, mqtt5Vars, settings,
                bounds
  <2> QED BY <1>0, <2>1, CarriedSame, SMTT(30)
<1> QED BY <1>1, <1>2, <1>3, <1>4 DEF Mqtt5Next

LEMMA ReadBegin == Mqtt5Init => ReadInv
<1> SUFFICES ASSUME Mqtt5Init PROVE ReadInv
  OBVIOUS
<1>1. last.kind = "none"
  BY DEF Mqtt5Init, Nothing
<1>2. LastRead(last)
  BY <1>1 DEF LastRead
<1>3. publish_property.n = 0 /\ callsMade = 0 /\ carried = [n \in 1 .. MAX_CALLS |-> 0]
  BY DEF Mqtt5Init, NoPublish
<1>4. CarriedInv
  BY <1>3, Mqtt5Assumption DEF CarriedInv
<1> QED BY <1>2, <1>4, SettingsInit DEF ReadInv

LEMMA ReadStep == ReadInv /\ [Mqtt5Next]_mqtt5Vars => ReadInv'
<1> SUFFICES ASSUME ReadInv, [Mqtt5Next]_mqtt5Vars PROVE ReadInv'
  OBVIOUS
<1>1. SettingsInv /\ LastRead(last) /\ CarriedInv
  BY DEF ReadInv
<1>2. SettingsInv'
  BY <1>1, SettingsStep
<1>3. LastRead(last')
  BY <1>1, LastStep
<1>4. CarriedInv'
  BY <1>1, CarriedStep
<1> QED BY <1>2, <1>3, <1>4 DEF ReadInv

\* Mqtt5: each packet that the client makes - CONNECT with its will, PUBLISH, SUBSCRIBE,
\* UNSUBSCRIBE, DISCONNECT - reads back as the settings, the topics and the data that went into
\* it, for properties and packets of every length that a buffer holds (lib/mqtt5_msg.c), and what
\* the application sets for one message is carried by one.
THEOREM PacketsReadBack == Mqtt5Spec => []ReadBack
BY ReadBegin, ReadStep, ReadBackIs, PTL DEF Mqtt5Spec
=============================================================================
