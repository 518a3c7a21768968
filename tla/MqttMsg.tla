------------------------------ MODULE MqttMsg ------------------------------
(***************************************************************************)
(* lib/mqtt_msg.c: MQTT 3.1.1 packets to bytes and back.  A byte is a      *)
(* number below 256; a string is a sequence of bytes; a NULL string is the *)
(* empty one, which the encoders treat alike.                              *)
(*                                                                         *)
(* The connection's buffer is left out: a message being built is the bytes *)
(* after the five that mqtt_msg.c reserves for the fixed header, with ok   *)
(* FALSE once fail_message was returned.                                   *)
(***************************************************************************)
EXTENDS Naturals, Sequences, SequencesExt

CONSTANTS OUT_BUFFER        \* buffer_length of the connection

\* The firmware's is JSON_BUFFER_SIZE (app_main.c), less than the length of a string can say.
ASSUME MqttMsgAssumption == OUT_BUFFER \in 0 .. 65535

Byte == 0 .. 255
Word16 == 0 .. 65535

CONNECT == 1
CONNACK == 2
PUBLISH == 3
PUBACK == 4
PUBREC == 5
PUBREL == 6
PUBCOMP == 7
SUBSCRIBE == 8
SUBACK == 9
UNSUBSCRIBE == 10
UNSUBACK == 11
PINGREQ == 12
PINGRESP == 13
DISCONNECT == 14

HEADER_SIZE == 5

HighBit(b) == b >= 128
Word(n) == <<n \div 256, n % 256>>
WordAt(buffer, i) == buffer[i + 1] * 256 + buffer[i + 2]       \* i counts from 0

----------------------------------------------------------------------------
(* Encoding *)

Failed == [ok |-> FALSE, bytes |-> <<>>]
Started == [ok |-> TRUE, bytes |-> <<>>]

append(msg, bytes) ==
    IF msg.ok /\ HEADER_SIZE + Len(msg.bytes) + Len(bytes) <= OUT_BUFFER
    THEN [msg EXCEPT !.bytes = @ \o bytes]
    ELSE Failed

append_string(msg, string) == append(msg, Word(Len(string)) \o string)

append_message_id(msg, id) == append(msg, Word(id))

\* The base-128 digits of n, lowest first, all but the last with their high bit set.
remaining_length[n \in Nat] ==
    IF n < 128 THEN <<n>> ELSE <<128 + (n % 128)>> \o remaining_length[n \div 128]

\* `more` are the bytes of the message that did not fit (fragmented_msg_total_length).
fini_message(msg, type, dup, qos, retain, more) ==
    LET length == remaining_length[Len(msg.bytes) + more]
    IN  IF msg.ok /\ Len(length) + 1 <= HEADER_SIZE
        THEN [ok |-> TRUE,
              bytes |-> <<type * 16 + dup * 8 + qos * 2 + retain>> \o length \o msg.bytes]
        ELSE Failed

When(condition, Op(_), msg) == IF condition THEN Op(msg) ELSE msg
Bit(condition, value) == IF condition THEN value ELSE 0

\* Mutant of connect_flags: a password without a user name goes unannounced.
connect_flags_password_alone(info) ==
    Bit(info.username # <<>>, 128) + Bit(info.password # <<>>, 64)
        + Bit(info.will_topic # <<>>, Bit(info.will_retain, 32) + info.will_qos * 8 + 4)
        + Bit(info.clean_session, 2)

connect_flags(info) ==
    Bit(info.username # <<>> \/ info.password # <<>>, 128) + Bit(info.password # <<>>, 64)
        + Bit(info.will_topic # <<>>, Bit(info.will_retain, 32) + info.will_qos * 8 + 4)
        + Bit(info.clean_session, 2)

mqtt_msg_connect(info) ==
    LET header == append(Started, Word(4) \o <<77, 81, 84, 84, 4, connect_flags(info)>>
                                          \o Word(info.keepalive))
        id == append_string(header, info.client_id)
        will == When(info.will_topic # <<>>,
                     LAMBDA m : append_string(append_string(m, info.will_topic),
                                              info.will_message), id)
        \* a password needs a user name, if only an empty one [MQTT-3.1.2-22]
        user == When(info.username # <<>> \/ info.password # <<>>,
                     LAMBDA m : append_string(m, info.username), will)
        password == When(info.password # <<>>,
                         LAMBDA m : append_string(m, info.password), user)
    IN  fini_message(password, CONNECT, 0, 0, 0, 0)

\* The message in the buffer, and the payload that goes in later writes.
mqtt_msg_publish(topic, data, qos, retain, id) ==
    LET start == IF topic = <<>> THEN Failed ELSE append_string(Started, topic)
        header == When(qos > 0, LAMBDA m : append_message_id(m, id), start)
        space == OUT_BUFFER - HEADER_SIZE - Len(header.bytes)
        first == IF Len(data) > space THEN space ELSE Len(data)
        msg == When(header.ok, LAMBDA m : append(m, SubSeq(data, 1, first)), header)
    IN  [message |-> fini_message(msg, PUBLISH, 0, qos, retain, Len(data) - first),
         remaining |-> SubSeq(data, first + 1, Len(data))]

mqtt_msg_puback(id) == fini_message(append_message_id(Started, id), PUBACK, 0, 0, 0, 0)
mqtt_msg_pubrec(id) == fini_message(append_message_id(Started, id), PUBREC, 0, 0, 0, 0)
mqtt_msg_pubrel(id) == fini_message(append_message_id(Started, id), PUBREL, 0, 1, 0, 0)
mqtt_msg_pubcomp(id) == fini_message(append_message_id(Started, id), PUBCOMP, 0, 0, 0, 0)

\* topics: a sequence of [filter, qos]
mqtt_msg_subscribe(topics, id) ==
    LET fields == [i \in DOMAIN topics |->
                      Word(Len(topics[i].filter)) \o topics[i].filter \o <<topics[i].qos>>]
    IN  IF \E i \in DOMAIN topics : topics[i].filter = <<>> THEN Failed
        ELSE fini_message(append(append_message_id(Started, id), FlattenSeq(fields)),
                          SUBSCRIBE, 0, 1, 0, 0)

mqtt_msg_unsubscribe(topic, id) ==
    IF topic = <<>> THEN Failed
    ELSE fini_message(append_string(append_message_id(Started, id), topic),
                      UNSUBSCRIBE, 0, 1, 0, 0)

mqtt_msg_pingreq == fini_message(Started, PINGREQ, 0, 0, 0, 0)
mqtt_msg_pingresp == fini_message(Started, PINGRESP, 0, 0, 0, 0)
mqtt_msg_disconnect == fini_message(Started, DISCONNECT, 0, 0, 0, 0)

----------------------------------------------------------------------------
(* Parsing: `length` is the number of bytes of the buffer that are valid *)

mqtt_get_type(buffer) == buffer[1] \div 16
mqtt_get_dup(buffer) == (buffer[1] \div 8) % 2
mqtt_get_qos(buffer) == (buffer[1] \div 2) % 4
mqtt_has_valid_msg_hdr(first) ==
    LET flags == first % 16
        qos == mqtt_get_qos(<<first>>)
    IN  CASE first \div 16 \in {CONNECT, CONNACK, PUBACK, PUBREC, PUBCOMP, SUBACK,
                                UNSUBACK, PINGREQ, PINGRESP, DISCONNECT} -> flags = 0
          [] first \div 16 \in {PUBREL, SUBSCRIBE, UNSUBSCRIBE} -> flags = 2
          [] first \div 16 = PUBLISH -> qos < 3 /\ (qos > 0 \/ mqtt_get_dup(<<first>>) = 0)
          [] OTHER -> FALSE

\* The number whose base-128 digits, lowest first, are the `size` bytes from an offset on.
Base128(buffer, offset, size) ==
    LET value[i \in 0 .. size] ==      \* of the last i digits
            IF i = 0 THEN 0 ELSE (buffer[offset + size - i + 1] % 128) + 128 * value[i - 1]
    IN  value[size]

\* Bytes of the fixed header: up to the first length byte without its high bit.  For a
\* PUBLISH larger than the buffer, `length` is the message's and not the buffer's.
fixed_size_len(buffer, length) ==
    LET ends == {i \in 2 .. Min({length, Len(buffer)}) : ~ HighBit(buffer[i])}
    IN  IF ends # {} THEN Min(ends) ELSE IF length > 1 THEN length ELSE 1

mqtt_get_total_length(buffer, length) ==
    LET fixed == fixed_size_len(buffer, length)
    IN  fixed + Base128(buffer, 1, fixed - 1)

NoRange == [from |-> 0, len |-> 0]

\* Where the topic is: its offset from 0 and its length; NoRange for NULL.
mqtt_get_publish_topic(buffer, length) ==
    LET i == fixed_size_len(buffer, length)
    IN  IF i + 2 >= length \/ i + 2 + WordAt(buffer, i) > length THEN NoRange
        ELSE [from |-> i + 2, len |-> WordAt(buffer, i)]

\* Where the payload is, as much of it as the buffer holds.
mqtt_get_publish_data(buffer, length) ==
    LET i == fixed_size_len(buffer, length)
        afterTopic == i + 2 + WordAt(buffer, i)
        start == afterTopic + (IF mqtt_get_qos(buffer) > 0 THEN 2 ELSE 0)
        total == mqtt_get_total_length(buffer, length)
    IN  IF \/ i + 2 >= length \/ afterTopic >= length
           \/ mqtt_get_qos(buffer) > 0 /\ start >= length
           \/ total < start
        THEN NoRange
        ELSE [from |-> start, len |-> (IF total <= length THEN total ELSE length) - start]

mqtt_get_id(buffer, length) ==
    LET i == fixed_size_len(buffer, length)
        afterTopic == i + 2 + WordAt(buffer, i)
    IN  CASE mqtt_get_type(buffer) = PUBLISH ->
               IF i + 2 >= length \/ mqtt_get_qos(buffer) = 0 \/ afterTopic + 2 > length
               THEN 0 ELSE WordAt(buffer, afterTopic)
          [] mqtt_get_type(buffer) \in {PUBACK, PUBREC, PUBREL, PUBCOMP, SUBACK, UNSUBACK,
                                        SUBSCRIBE, UNSUBSCRIBE} ->
               IF length >= 4 /\ ~ HighBit(buffer[2]) THEN WordAt(buffer, 2) ELSE 0
          [] OTHER -> 0
=============================================================================
