------------------------------ MODULE Mqtt5Msg ------------------------------
(***************************************************************************)
(* lib/mqtt5_msg.c: MQTT 5 packets to bytes and back.  What is as in       *)
(* mqtt_msg.c, the fixed header above all, is MqttMsg's; this module has   *)
(* the properties.  A property that is not given is 0 or the empty string, *)
(* which the encoders leave out; a list that is not given is empty.        *)
(***************************************************************************)
EXTENDS MqttMsg

PAYLOAD_FORMAT_INDICATOR == 1
MESSAGE_EXPIRY_INTERVAL == 2
CONTENT_TYPE == 3
RESPONSE_TOPIC == 8
CORRELATION_DATA == 9
SUBSCRIBE_IDENTIFIER == 11
SESSION_EXPIRY_INTERVAL == 17
ASSIGNED_CLIENT_IDENTIFIER == 18
SERVER_KEEP_ALIVE == 19
REQUEST_PROBLEM_INFO == 23
WILL_DELAY_INTERVAL == 24
REQUEST_RESP_INFO == 25
RESP_INFO == 26
REASON_STRING == 31
RECEIVE_MAXIMUM == 33
TOPIC_ALIAS_MAXIMUM == 34
TOPIC_ALIAS == 35
MAXIMUM_QOS == 36
RETAIN_AVAILABLE == 37
USER_PROPERTY == 38
MAXIMUM_PACKET_SIZE == 39

\* The size of each property's value; the rest are strings after a length of two bytes.
OneByte == {PAYLOAD_FORMAT_INDICATOR, REQUEST_PROBLEM_INFO, REQUEST_RESP_INFO, MAXIMUM_QOS,
            RETAIN_AVAILABLE, 40, 41, 42}
TwoBytes == {SERVER_KEEP_ALIVE, RECEIVE_MAXIMUM, TOPIC_ALIAS_MAXIMUM, TOPIC_ALIAS}
FourBytes == {MESSAGE_EXPIRY_INTERVAL, SESSION_EXPIRY_INTERVAL, WILL_DELAY_INTERVAL,
              MAXIMUM_PACKET_SIZE}

ConnackProperties ==
    {SESSION_EXPIRY_INTERVAL, RECEIVE_MAXIMUM, MAXIMUM_QOS, RETAIN_AVAILABLE, MAXIMUM_PACKET_SIZE,
     ASSIGNED_CLIENT_IDENTIFIER, TOPIC_ALIAS_MAXIMUM, REASON_STRING, USER_PROPERTY, 40, 41, 42,
     SERVER_KEEP_ALIVE, RESP_INFO, 28, 21, 22}
PublishProperties ==
    {PAYLOAD_FORMAT_INDICATOR, MESSAGE_EXPIRY_INTERVAL, TOPIC_ALIAS, RESPONSE_TOPIC,
     CORRELATION_DATA, SUBSCRIBE_IDENTIFIER, CONTENT_TYPE, USER_PROPERTY, REASON_STRING}
AckProperties == {REASON_STRING, USER_PROPERTY}

----------------------------------------------------------------------------
(* Encoding *)

BigEndian(n, width) == IF width = 2 THEN Word(n) ELSE Word(n \div 65536) \o Word(n % 65536)

\* append_property: a number, one of variable length, a string, and pairs of strings.
Number(id, n, width) == IF n = 0 THEN <<>> ELSE <<id>> \o BigEndian(n, width)
Flag(id, given) == IF given THEN <<id, 1>> ELSE <<>>
Variable(id, n) == IF n = 0 THEN <<>> ELSE <<id>> \o remaining_length[n]
Text(id, string) == IF string = <<>> THEN <<>> ELSE <<id>> \o Word(Len(string)) \o string
UserProperties(list) ==
    FlattenSeq([i \in DOMAIN list |->
        <<USER_PROPERTY>> \o Word(Len(list[i].key)) \o list[i].key
                          \o Word(Len(list[i].value)) \o list[i].value])

\* Mutant of append_properties: the length is one byte, whatever it is.
append_properties_short(msg, bytes) == append(msg, <<Len(bytes) % 128>> \o bytes)

\* The properties after their length, for which they are moved if it needs more than the one
\* byte that was left for it (update_property_len_value).
append_properties(msg, bytes) == append(msg, remaining_length[Len(bytes)] \o bytes)

fini_message5(msg, type, qos, retain, more) == fini_message(msg, type, 0, qos, retain, more)

ConnectProperties(connect) ==
    Number(SESSION_EXPIRY_INTERVAL, connect.session_expiry_interval, 4)
    \o Number(MAXIMUM_PACKET_SIZE, connect.maximum_packet_size, 4)
    \o Number(RECEIVE_MAXIMUM, connect.receive_maximum, 2)
    \o Number(TOPIC_ALIAS_MAXIMUM, connect.topic_alias_maximum, 2)
    \o Flag(REQUEST_RESP_INFO, connect.request_resp_info)
    \o Flag(REQUEST_PROBLEM_INFO, connect.request_problem_info)
    \o UserProperties(connect.user_property)

WillProperties(will) ==
    Number(WILL_DELAY_INTERVAL, will.will_delay_interval, 4)
    \o Flag(PAYLOAD_FORMAT_INDICATOR, will.payload_format_indicator)
    \o Number(MESSAGE_EXPIRY_INTERVAL, will.message_expiry_interval, 4)
    \o Text(CONTENT_TYPE, will.content_type)
    \o Text(RESPONSE_TOPIC, will.response_topic)
    \o Text(CORRELATION_DATA, will.correlation_data)
    \o UserProperties(will.user_property)

mqtt5_msg_connect(info, connect, will) ==
    LET header == append(Started, Word(4) \o <<77, 81, 84, 84, 5, connect_flags(info)>>
                                          \o Word(info.keepalive))
        id == append_string(append_properties(header, ConnectProperties(connect)), info.client_id)
        willed == When(info.will_topic # <<>>,
                       LAMBDA m : append_string(
                                      append_string(append_properties(m, WillProperties(will)),
                                                    info.will_topic), info.will_message), id)
        user == When(info.username # <<>> \/ info.password # <<>>,
                     LAMBDA m : append_string(m, info.username), willed)
        password == When(info.password # <<>>,
                         LAMBDA m : append_string(m, info.password), user)
    IN  fini_message5(password, CONNECT, 0, 0, 0)

\* A response topic is extended with the broker's response information.  The room that is
\* made for it leaves out the slash: its last byte is a zero.
ResponseTopic(property, resp_info) ==
    LET whole == property.response_topic \o <<47>> \o resp_info
    IN  IF property.response_topic = <<>> \/ resp_info = <<>> THEN property.response_topic
        ELSE [whole EXCEPT ![Len(whole)] = 0]

mqtt5_msg_publish(topic, data, qos, retain, id, property, resp_info) ==
    LET start == IF topic = <<>> /\ property.topic_alias = 0 THEN Failed
                 ELSE append_string(Started, topic)
        header == append_properties(
            When(qos > 0, LAMBDA m : append_message_id(m, id), start),
            Flag(PAYLOAD_FORMAT_INDICATOR, property.payload_format_indicator)
            \o Number(MESSAGE_EXPIRY_INTERVAL, property.message_expiry_interval, 4)
            \o Number(TOPIC_ALIAS, property.topic_alias, 2)
            \o Text(RESPONSE_TOPIC, ResponseTopic(property, resp_info))
            \o Text(CORRELATION_DATA, property.correlation_data)
            \o UserProperties(property.user_property)
            \o Text(CONTENT_TYPE, property.content_type))
        space == OUT_BUFFER - HEADER_SIZE - Len(header.bytes)
        first == IF Len(data) > space THEN space ELSE Len(data)
        msg == When(header.ok, LAMBDA m : append(m, SubSeq(data, 1, first)), header)
    IN  [message |-> fini_message5(msg, PUBLISH, qos, retain, Len(data) - first),
         remaining |-> SubSeq(data, first + 1, Len(data))]

\* Reason code 0, no properties.
Ack5(type, qos, id) == fini_message5(append(append_message_id(Started, id), <<0, 0>>), type, qos, 0, 0)
mqtt5_msg_pubrel(id) == Ack5(PUBREL, 1, id)
\* "$share/<name>/<filter>"
Filter(filter, property) ==
    IF property.is_share_subscribe
    THEN <<36, 115, 104, 97, 114, 101, 47>> \o property.share_name \o <<47>> \o filter
    ELSE filter

mqtt5_msg_subscribe(topics, id, property) ==
    LET options == Bit(property.no_local_flag, 4) + Bit(property.retain_as_published_flag, 8)
                       + property.retain_handle * 16
        fields == [i \in DOMAIN topics |->
                      LET filter == Filter(topics[i].filter, property)
                      IN  Word(Len(filter)) \o filter \o <<options + topics[i].qos>>]
        header == append_properties(append_message_id(Started, id),
                                    Variable(SUBSCRIBE_IDENTIFIER, property.subscribe_id)
                                    \o UserProperties(property.user_property))
    IN  IF \E i \in DOMAIN topics : topics[i].filter = <<>> THEN Failed
        ELSE fini_message5(append(header, FlattenSeq(fields)), SUBSCRIBE, 1, 0, 0)

mqtt5_msg_unsubscribe(topic, id, property) ==
    IF topic = <<>> THEN Failed
    ELSE fini_message5(append_string(append_properties(append_message_id(Started, id),
                                                       UserProperties(property.user_property)),
                                     Filter(topic, property)), UNSUBSCRIBE, 1, 0, 0)

mqtt5_msg_disconnect(property) ==
    fini_message5(append_properties(append(Started, <<property.disconnect_reason>>),
                                    Number(SESSION_EXPIRY_INTERVAL,
                                           property.session_expiry_interval, 4)
                                    \o UserProperties(property.user_property)),
                  DISCONNECT, 0, 0, 0)

----------------------------------------------------------------------------
(* Parsing *)

\* The number whose bytes begin at offset, and how many bytes it has.
get_variable_len(buffer, offset, length) ==
    LET ends == {i \in offset + 1 .. length : ~ HighBit(buffer[i])}
        size == (IF ends = {} THEN length ELSE Min(ends)) - offset
    IN  [len |-> Base128(buffer, offset, size), bytes |-> size]

Malformed == [id |-> 0, key |-> <<>>, value |-> <<>>]

\* The property at an offset and the number of its bytes; 0 if it is not a known one, after which
\* nothing is read.
PropertyAt(buffer, i, known) ==
    LET id == buffer[i + 1]
        string(j) == SubSeq(buffer, j + 3, j + 2 + WordAt(buffer, j))
        first == string(i + 1)
        second == string(i + 3 + Len(first))
        Sized(n) == [len |-> 1 + n,
                     field |-> [id |-> id, key |-> <<>>, value |-> SubSeq(buffer, i + 2, i + 1 + n)]]
    IN  CASE id \notin known -> [len |-> 0, field |-> Malformed]
          [] id \in known \cap OneByte -> Sized(1)
          [] id \in known \cap TwoBytes -> Sized(2)
          [] id \in known \cap FourBytes -> Sized(4)
          [] id \in known \cap {SUBSCRIBE_IDENTIFIER} ->
               Sized(get_variable_len(buffer, i + 1, Len(buffer)).bytes)
          [] id \in known \cap {USER_PROPERTY} ->
               [len |-> 5 + Len(first) + Len(second),
                field |-> [id |-> id, key |-> first, value |-> second]]
          [] OTHER -> [len |-> 3 + Len(first), field |-> [id |-> id, key |-> <<>>, value |-> first]]

\* The properties in the `size` bytes from offset on, each with the bytes of its value.
Properties(buffer, offset, size, known) ==
    LET read[n \in 0 .. size] ==        \* in the last n of them
            LET next == PropertyAt(buffer, offset + size - n, known)
                left == n - next.len
            IN  IF n = 0 THEN <<>>
                ELSE <<next.field>> \o (IF left \in 0 .. n - 1 THEN read[left] ELSE <<>>)
    IN  read[size]

WellFormed(properties) == \A i \in DOMAIN properties : properties[i] # Malformed

\* The number in one, two or four bytes.
Value(bytes) == CASE Len(bytes) = 1 -> bytes[1]
                  [] Len(bytes) = 2 -> WordAt(bytes, 0)
                  [] OTHER -> WordAt(bytes, 0) * 65536 + WordAt(bytes, 2)

\* The value of a property, the last one if there are several; default if there is none.
NumberOf(properties, id, default) ==
    LET i == SelectLastInSeq(properties, LAMBDA p : p.id = id)
    IN  IF i = 0 THEN default
        ELSE Value(properties[i].value)

TextOf(properties, id, default) ==
    LET i == SelectLastInSeq(properties, LAMBDA p : p.id = id)
    IN  IF i = 0 THEN default ELSE properties[i].value

UserPropertiesOf(properties) ==
    LET pairs == [i \in DOMAIN properties |->
                     IF properties[i].id # USER_PROPERTY THEN <<>>
                     ELSE <<[key |-> properties[i].key, value |-> properties[i].value]>>]
    IN  FlattenSeq(pairs)

\* mqtt5_msg_get_user_property: none at all if one of the properties is unknown.
mqtt5_msg_get_user_property(buffer, offset, size) ==
    LET properties == Properties(buffer, offset, size, AckProperties)
    IN  IF WellFormed(properties) THEN UserPropertiesOf(properties) ELSE <<>>

\* Offset of the variable header, and the length the fixed header gives the packet.
Start5(buffer, length) ==
    LET remaining == get_variable_len(buffer, 1, length)
    IN  [offset |-> 1 + remaining.bytes, total |-> 1 + remaining.bytes + remaining.len]

mqtt5_get_id(buffer, length) ==
    LET i == Start5(buffer, length).offset
        afterTopic == i + 2 + WordAt(buffer, i)
    IN  CASE i + 2 > length -> 0
          [] i + 2 <= length /\ mqtt_get_type(buffer) = PUBLISH ->
               IF afterTopic + 2 > length \/ mqtt_get_qos(buffer) = 0 THEN 0
               ELSE WordAt(buffer, afterTopic)
          [] OTHER -> WordAt(buffer, i)

\* ok is FALSE for NULL.
mqtt5_get_publish_property_payload(buffer, length) ==
    LET start == Start5(buffer, length)
        afterTopic == start.offset + 2 + WordAt(buffer, start.offset)
        afterId == afterTopic + (IF mqtt_get_qos(buffer) > 0 THEN 2 ELSE 0)
        size == get_variable_len(buffer, afterId, length)
        properties == Properties(buffer, afterId + size.bytes, size.len, PublishProperties)
        end == IF start.total <= length THEN start.total ELSE length
    IN  IF afterTopic >= length \/ afterId >= length \/ ~ WellFormed(properties)
        THEN [ok |-> FALSE]
        ELSE [ok |-> TRUE, topic |-> SubSeq(buffer, start.offset + 3, afterTopic),
              properties |-> properties,
              payload |-> SubSeq(buffer, afterId + size.bytes + size.len + 1, end)]

\* The reason codes of a SUBACK or UNSUBACK, and its user properties.
mqtt5_get_suback_data(buffer, length) ==
    LET start == Start5(buffer, length)
        size == get_variable_len(buffer, start.offset + 2, start.total)
        codes == start.offset + 2 + size.bytes + size.len
    IN  IF start.total > length \/ codes >= start.total THEN [data |-> <<>>, user_property |-> <<>>]
        ELSE [data |-> SubSeq(buffer, codes + 1, start.total),
              user_property |-> mqtt5_msg_get_user_property(
                                    buffer, start.offset + 2 + size.bytes, size.len)]

\* The reason code of a PUBACK or PUBCOMP, if it has one.
mqtt5_get_puback_data(buffer, length) ==
    LET start == Start5(buffer, length)
        code == start.offset + 2
        size == get_variable_len(buffer, code + 1, start.total)
    IN  [data |-> IF code < start.total THEN <<buffer[code + 1]>> ELSE <<>>,
         user_property |->
             IF code + 1 < start.total
             THEN mqtt5_msg_get_user_property(buffer, code + 1 + size.bytes, size.len) ELSE <<>>]

\* -1 if there is none.
mqtt5_msg_get_reason_code(buffer, length) ==
    LET remaining == get_variable_len(buffer, 1, length)
        i == 1 + remaining.bytes
        size == get_variable_len(buffer, i + 2, length)
        CodeAt(j) == IF j >= length THEN 0 - 1 ELSE buffer[j + 1]
    IN  CASE mqtt_get_type(buffer) \in {PUBACK, PUBREC, PUBREL, PUBCOMP} ->
               IF remaining.len = 2 THEN 0 ELSE CodeAt(i + 2)
          [] mqtt_get_type(buffer) \in {SUBACK, UNSUBACK} ->
               IF i + 2 >= length THEN 0 - 1 ELSE CodeAt(i + 2 + size.bytes + size.len)
          [] mqtt_get_type(buffer) = DISCONNECT -> CodeAt(i)
          [] OTHER -> 0 - 1

\* What a CONNACK changes: old is [server, connect, info]; what it does not name is kept.
mqtt5_msg_parse_connack_property(buffer, length, old) ==
    LET start == Start5(buffer, length)
        size == get_variable_len(buffer, start.offset + 2, length)
        list == Properties(buffer, start.offset + 2 + size.bytes, size.len, ConnackProperties)
        Named(id, default) == NumberOf(list, id, default)
    IN  [ok |-> start.total <= length /\ WellFormed(list),
         ack_flag |-> buffer[start.offset + 1], reason_code |-> buffer[start.offset + 2],
         user_property |-> UserPropertiesOf(list),
         server |->
            [receive_maximum |-> Named(RECEIVE_MAXIMUM, old.server.receive_maximum),
             max_qos |-> Named(MAXIMUM_QOS, old.server.max_qos),
             retain_available |-> Named(RETAIN_AVAILABLE, old.server.retain_available),
             maximum_packet_size |-> Named(MAXIMUM_PACKET_SIZE, old.server.maximum_packet_size),
             topic_alias_maximum |-> Named(TOPIC_ALIAS_MAXIMUM, old.server.topic_alias_maximum),
             wildcard_subscribe_available |-> Named(40, old.server.wildcard_subscribe_available),
             subscribe_identifiers_available |->
                 Named(41, old.server.subscribe_identifiers_available),
             shared_subscribe_available |-> Named(42, old.server.shared_subscribe_available),
             response_info |-> TextOf(list, RESP_INFO, old.server.response_info)],
         connect |->
            [old.connect EXCEPT !.session_expiry_interval = Named(SESSION_EXPIRY_INTERVAL, @)],
         info |->
            [old.info EXCEPT !.keepalive = Named(SERVER_KEEP_ALIVE, @),
                             !.client_id = TextOf(list, ASSIGNED_CLIENT_IDENTIFIER, @)]]
=============================================================================
