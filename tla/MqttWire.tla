----------------------------- MODULE MqttWire -----------------------------
(***************************************************************************)
(* mqtt_client.c: how packets leave and enter the client as bytes.  A      *)
(* request is encoded and written; then the broker's packets arrive as one *)
(* stream of bytes, of which a read returns as much as there is so far,    *)
(* nothing (a timeout) or an error.  mqtt_message_receive takes a packet   *)
(* up where its last call left it; a PUBLISH larger than the buffer is     *)
(* given to the application in several DATA events.                        *)
(*                                                                         *)
(* in_buffer is not stored: it holds the `held` bytes of the stream from   *)
(* `begin` on.  The task does all this alone and under the API lock.       *)
(***************************************************************************)
EXTENDS MqttMsg

CONSTANTS
    IN_BUFFER,          \* in_buffer_length
    Requests,           \* requests of the application that are tried
    Sessions,           \* sequence of what brokers send: each a sequence of packets
    MAX_CONNECTIONS     \* bound: connections made

\* The buffer has room for a fixed header and the length of a topic; the firmware's is far
\* larger (app_main.c).
ASSUME MqttWireAssumption == IN_BUFFER \in Nat /\ IN_BUFFER >= 9 /\ MAX_CONNECTIONS \in Nat

VARIABLES
    phase,      \* "write", "connack" (in esp_mqtt_connect), "serve" or "closed"
    request,    \* what the application asked for
    session,    \* which of Sessions the broker follows
    pos,        \* bytes taken from the transport
    begin,      \* bytes of the stream before the message in in_buffer
    held,       \* in_buffer_read_len
    previous,   \* previous_in_buffer_read_len
    pc,         \* where mqtt_message_receive or deliver_publish is
    event,      \* the last MQTT_EVENT_DATA of the message being handled
    handled,    \* history: packets handled on this connection
    cut,        \* history: a PUBLISH was given up in the middle
    connections

readVars == <<pos, begin, held, previous>>
wireVars == <<phase, request, session, readVars, pc, event, handled, cut, connections>>

----------------------------------------------------------------------------
(* What the broker sends *)

\* CONNACK and SUBACK are the broker's own; the rest is the format mqtt_msg.c writes.
Encode(packet) ==
    LET publish == mqtt_msg_publish(packet.topic, packet.data, packet.qos, 0, packet.id)
    IN  CASE packet.type = CONNACK -> <<CONNACK * 16, 2, 0, packet.id>>
          [] packet.type = SUBACK -> <<SUBACK * 16, 3>> \o Word(packet.id) \o <<0>>
          [] packet.type = PUBLISH -> publish.message.bytes \o publish.remaining
          [] packet.type = PUBACK -> mqtt_msg_puback(packet.id).bytes
          [] packet.type = PUBREC -> mqtt_msg_pubrec(packet.id).bytes
          [] packet.type = PUBREL -> mqtt_msg_pubrel(packet.id).bytes
          [] packet.type = PUBCOMP -> mqtt_msg_pubcomp(packet.id).bytes
          [] packet.type = PINGRESP -> mqtt_msg_pingresp.bytes

BrokerPackets ==
    [type : {CONNACK, PUBLISH, PUBACK, PUBREC, PUBREL, PUBCOMP, SUBACK, PINGRESP},
     id : Word16, qos : 0 .. 2, topic : Seq(Byte), data : Seq(Byte)]

\* A PUBLISH has a topic and a length that can be written; a CONNACK has a code as its id.
Sendable(packet) ==
    /\ packet.type = PUBLISH =>
           mqtt_msg_publish(packet.topic, packet.data, packet.qos, 0, packet.id).message.ok
    /\ packet.type # PUBLISH => packet.data = <<>>
    /\ packet.type = CONNACK => packet.id \in Byte
    /\ packet.type = PINGRESP => packet.id = 0

\* The broker accepts a connection once, and first.
ASSUME SessionsAssumption ==
    /\ OUT_BUFFER >= HEADER_SIZE + 2
    /\ \A s \in DOMAIN Sessions :
           /\ Sessions[s] \in Seq(BrokerPackets)
           /\ \A i \in DOMAIN Sessions[s] :
                  Sendable(Sessions[s][i]) /\ (Sessions[s][i].type = CONNACK => i = 1)

Streams == [s \in DOMAIN Sessions |->
               FlattenSeq([i \in DOMAIN Sessions[s] |-> Encode(Sessions[s][i])])]

\* The bytes before each packet.
Starts == [s \in DOMAIN Sessions |->
              [n \in 0 .. Len(Sessions[s]) |->
                  Len(FlattenSeq([i \in 1 .. n |-> Encode(Sessions[s][i])]))]]

Stream == Streams[session]
InBuffer(n) == SubSeq(Stream, begin + 1, begin + n)
Buffer == InBuffer(held)
Arriving == Len(Stream) - pos

\* Bound: a read returns the first byte, all but the last, or all there is.
AtMost(n) == LET most == Min({n, Arriving}) IN {1, most - 1, most} \cap 1 .. most

NoEvent == [offset |-> 0, len |-> 0, total |-> 0, at |-> 0]

----------------------------------------------------------------------------
(* Requests *)

Infos ==
    [client_id : Seq(Byte), username : Seq(Byte), password : Seq(Byte), will_topic : Seq(Byte),
     will_message : Seq(Byte), will_qos : 0 .. 2, will_retain : BOOLEAN,
     clean_session : BOOLEAN, keepalive : Word16]

ASSUME RequestsAssumption ==
    \A asked \in Requests :
        \/ asked \in [kind : {"connect"}, info : Infos]
        \/ asked \in [kind : {"publish"}, topic : Seq(Byte), data : Seq(Byte), qos : 0 .. 2,
                      retain : 0 .. 1, id : Word16]
        \/ asked \in [kind : {"subscribe"}, topics : Seq([filter : Seq(Byte), qos : 0 .. 2]),
                      id : Word16]
        \/ asked \in [kind : {"unsubscribe"}, topic : Seq(Byte), id : Word16]
        \/ asked \in [kind : {"ping", "disconnect"}]

Written ==
    CASE request.kind = "connect" -> mqtt_msg_connect(request.info).bytes
      [] request.kind = "subscribe" -> mqtt_msg_subscribe(request.topics, request.id).bytes
      [] request.kind = "unsubscribe" -> mqtt_msg_unsubscribe(request.topic, request.id).bytes
      [] request.kind = "publish" ->
           LET p == mqtt_msg_publish(request.topic, request.data, request.qos, request.retain,
                                     request.id)
           IN  IF p.message.ok THEN p.message.bytes \o p.remaining ELSE <<>>
      [] request.kind = "ping" -> mqtt_msg_pingreq.bytes
      [] request.kind = "disconnect" -> mqtt_msg_disconnect.bytes

None == [kind |-> "ping"]

MqttWireInit ==
    /\ phase = "write" /\ request \in Requests /\ session \in DOMAIN Sessions
    /\ pos = 0 /\ begin = 0 /\ held = 0 /\ previous = 0
    /\ pc = "call" /\ event = NoEvent /\ handled = <<>> /\ cut = FALSE /\ connections = 1

\* The request is on the wire; esp_mqtt_connect waits for the CONNACK.
Sent ==
    /\ phase = "write"
    /\ phase' = "connack" /\ request' = None
    /\ UNCHANGED <<session, readVars, pc, event, handled, cut, connections>>

----------------------------------------------------------------------------
(* mqtt_message_receive *)

Close ==
    /\ phase' = "closed" /\ pc' = "call" /\ event' = NoEvent
    /\ UNCHANGED <<request, session, readVars, handled, cut, connections>>

Return ==
    /\ pc' = "call"
    /\ UNCHANGED <<phase, request, session, event, handled, cut, connections>>

Goto(place) ==
    /\ pc' = place
    /\ UNCHANGED <<phase, request, session, event, handled, cut, connections>>

\* Another byte of the remaining length is due: asked in the loop, and on a new call.
InLength(n, last) == n = 1 \/ (n < 6 /\ HighBit(last))

\* What is read next, once the length is known; total_len corrected for a large PUBLISH.
TotalLen(buffer) ==
    LET total == mqtt_get_total_length(buffer, Len(buffer))
    IN  IF IN_BUFFER < total THEN IN_BUFFER ELSE total

AfterLength(buffer) ==
    LET n == Len(buffer)
        fixed == fixed_size_len(buffer, n)
        large == IN_BUFFER < mqtt_get_total_length(buffer, n)
        id == IF mqtt_get_qos(buffer) > 0 THEN 2 ELSE 0
    IN  CASE large /\ mqtt_get_type(buffer) # PUBLISH -> "error"
          [] large /\ mqtt_get_type(buffer) = PUBLISH /\ n < fixed + 2 -> "size"
          [] large /\ mqtt_get_type(buffer) = PUBLISH /\ n >= fixed + 2
               /\ IN_BUFFER < fixed + WordAt(buffer, fixed) + id -> "error"
          [] OTHER -> IF n < TotalLen(buffer) THEN "rest" ELSE "done"

\* Bound: what the rest of a PUBLISH that was given up is taken for is not followed.
Receiving == phase \in {"connack", "serve"} /\ ~ cut

\* mqtt_process_receive, or the loop of esp_mqtt_connect, calls mqtt_message_receive.
Call ==
    /\ Receiving /\ pc = "call"
    /\ previous' = held
    /\ Goto(IF held = 0 THEN "first"
            ELSE IF InLength(held, Stream[begin + held]) THEN "length" ELSE AfterLength(Buffer))
    /\ UNCHANGED <<pos, begin, held>>

Took(n) ==
    /\ pos' = pos + n /\ held' = held + n
    /\ UNCHANGED <<begin, previous>>

ReadFirst ==
    /\ pc = "first" /\ Arriving > 0
    /\ pos' = pos + 1 /\ begin' = pos /\ held' = 1 /\ UNCHANGED previous
    /\ Goto(IF mqtt_has_valid_msg_hdr(Stream[pos + 1]) THEN "length" ELSE "error")

ReadLength ==
    /\ pc = "length" /\ Arriving > 0
    /\ Took(1)
    /\ Goto(IF InLength(held', Stream[pos']) THEN "length" ELSE AfterLength(InBuffer(held')))

\* Length of the topic, to find where the header of a large PUBLISH ends.
ReadSize ==
    /\ pc = "size"
    /\ LET fixed == fixed_size_len(Buffer, held)
       IN  \E n \in AtMost(held - fixed + 2) :
               /\ Took(n)
               /\ Goto(IF held' < fixed + 2 THEN "call" ELSE AfterLength(InBuffer(held')))

ReadRest ==
    /\ pc = "rest"
    /\ \E n \in AtMost(TotalLen(Buffer) - held) :
           /\ Took(n)
           /\ Goto(IF held' < TotalLen(Buffer) THEN "call" ELSE "done")

\* Mutant of TimeOut: what was read so far is forgotten.
TimeOutForgets ==
    /\ pc \in {"first", "length", "size", "rest"}
    /\ held' = 0 /\ Return /\ UNCHANGED <<pos, begin, previous>>

\* esp_mqtt_handle_transport_read_error: 0 before a message, -1 in the middle of one.
TimeOut ==
    /\ pc \in {"first", "length", "size", "rest"}
    /\ \/ (pc = "first" \/ (phase = "serve" /\ previous # held)) /\ Return /\ UNCHANGED readVars
       \/ (phase = "connack" \/ (pc # "first" /\ previous = held)) /\ Close

ReadError ==
    /\ pc \in {"first", "length", "size", "rest", "chunk"}
    /\ Close

Reject ==
    /\ pc = "error"
    /\ Close

----------------------------------------------------------------------------
(* What is done with a message *)

Handled(entry) ==
    /\ handled' = Append(handled, entry)
    /\ held' = 0 /\ pc' = "call" /\ event' = NoEvent
    /\ UNCHANGED <<request, session, pos, begin, previous, connections>>

Connack ==
    /\ phase = "connack" /\ pc = "done"
    /\ IF mqtt_get_type(Buffer) = CONNACK /\ Buffer[4] = 0
       THEN /\ Handled([type |-> CONNACK, id |-> 0, size |-> 0])
            /\ phase' = "serve" /\ UNCHANGED cut
       ELSE Close

Other ==
    /\ phase = "serve" /\ pc = "done" /\ mqtt_get_type(Buffer) # PUBLISH
    /\ Handled([type |-> mqtt_get_type(Buffer), id |-> mqtt_get_id(Buffer, held), size |-> 0])
    /\ UNCHANGED <<phase, cut>>

MessageLength == mqtt_get_total_length(Buffer, held)
ReadOfMessage == pos - begin

\* The rest of the message, or the acknowledgement of a complete one.
Continue(data) ==
    /\ event' = data
    /\ pc' = IF pos' - begin < MessageLength THEN "chunk" ELSE "reply"
    /\ UNCHANGED <<phase, request, session, begin, held, previous, handled, cut, connections>>

\* deliver_publish: the first DATA event, with what in_buffer holds.
Deliver ==
    /\ phase = "serve" /\ pc = "done" /\ mqtt_get_type(Buffer) = PUBLISH
    /\ LET data == mqtt_get_publish_data(Buffer, held)
       IN  IF mqtt_get_publish_topic(Buffer, held) = NoRange THEN Close
           ELSE /\ UNCHANGED pos
                /\ Continue([offset |-> 0, len |-> data.len, at |-> begin + data.from,
                             total |-> data.len + MessageLength - ReadOfMessage])

\* Mutant of ReadChunk: the offset is not advanced.
ReadChunkInPlace ==
    /\ pc = "chunk"
    /\ LET left == MessageLength - ReadOfMessage
       IN  \E n \in AtMost(IF left > IN_BUFFER THEN IN_BUFFER ELSE left) :
               /\ pos' = pos + n
               /\ Continue([event EXCEPT !.len = n, !.at = pos])

\* Mutant of ReadChunk: the rest is read in whole buffers.
ReadChunkWhole ==
    /\ pc = "chunk" /\ Arriving >= IN_BUFFER
    /\ pos' = pos + IN_BUFFER
    /\ Continue([event EXCEPT !.offset = @ + event.len, !.len = IN_BUFFER, !.at = pos])

ReadChunk ==
    /\ pc = "chunk"
    /\ LET left == MessageLength - ReadOfMessage
       IN  \E n \in AtMost(IF left > IN_BUFFER THEN IN_BUFFER ELSE left) :
               /\ pos' = pos + n
               /\ Continue([event EXCEPT !.offset = @ + event.len, !.len = n, !.at = pos])

\* The read is not reported as mid-message: the PUBLISH counts as delivered.
ChunkTimeOut ==
    /\ pc = "chunk"
    /\ pc' = "reply" /\ cut' = TRUE
    /\ UNCHANGED <<phase, request, session, readVars, event, handled, connections>>

\* PUBACK or PUBREC, for QoS above 0; nothing is written for QoS 0.
Reply ==
    /\ pc = "reply"
    /\ \/ /\ Handled([type |-> PUBLISH, id |-> mqtt_get_id(Buffer, MessageLength),
                      size |-> event.offset + event.len])
          /\ UNCHANGED <<phase, cut>>
       \/ mqtt_get_qos(Buffer) > 0 /\ Close

\* The next connection: esp_mqtt_connect empties in_buffer.
Reconnect ==
    /\ phase = "closed" /\ connections < MAX_CONNECTIONS
    /\ connections' = connections + 1
    /\ phase' = "connack" /\ session' \in DOMAIN Sessions
    /\ pos' = 0 /\ begin' = 0 /\ held' = 0 /\ previous' = 0
    /\ handled' = <<>> /\ cut' = FALSE
    /\ UNCHANGED <<request, pc, event>>

MqttWireNext ==
    \/ Sent \/ Call \/ ReadFirst \/ ReadLength \/ ReadSize \/ ReadRest \/ TimeOut \/ ReadError
    \/ Reject \/ Connack \/ Other \/ Deliver \/ ReadChunk \/ ChunkTimeOut \/ Reply \/ Reconnect

\* The task runs, and bytes that were sent arrive: a read is not put off for ever.
MqttWireFairness ==
    /\ WF_wireVars(Sent \/ Call \/ Reject \/ Connack \/ Other \/ Deliver \/ Reply)
    /\ SF_wireVars(ReadFirst \/ ReadLength \/ ReadSize \/ ReadRest \/ ReadChunk)

MqttWireSpec == MqttWireInit /\ [][MqttWireNext]_wireVars /\ MqttWireFairness

----------------------------------------------------------------------------
(* Properties *)

Entry(packet) ==
    [type |-> packet.type, size |-> Len(packet.data),
     id |-> IF packet.type = PUBLISH /\ packet.qos = 0 THEN 0 ELSE packet.id]

\* However the bytes are cut into reads, and wherever a read times out, the client handles
\* the packets the broker sent, each once and in order, and starts the next one at its
\* first byte - unless it gave a large PUBLISH up in the middle (mqtt_message_receive).
PacketsAsSent ==
    ~ cut /\ phase # "closed" =>
        /\ Len(handled) <= Len(Sessions[session])
        /\ \A i \in DOMAIN handled : handled[i] = Entry(Sessions[session][i])
        /\ held = 0 /\ pc \in {"call", "first"} =>
               pos = Starts[session][Len(handled)]

\* The DATA events of a PUBLISH give the application the payload that was sent, each
\* piece at the offset it announces and with the length of the whole (deliver_publish).
PiecesOfPayload ==
    ~ cut /\ pc \in {"chunk", "reply"} =>
        LET packet == Sessions[session][Len(handled) + 1]
        IN  /\ event.total = Len(packet.data)
            /\ event.offset + event.len <= event.total
            /\ SubSeq(Stream, event.at + 1, event.at + event.len)
                 = SubSeq(packet.data, event.offset + 1, event.offset + event.len)

\* A packet that is reported to have been received is in in_buffer if it fits, all of it
\* and nothing that follows (the comment before mqtt_message_receive, mqtt_client.c:1244).
OneMessage ==
    ~ cut /\ pc = "done" /\ MessageLength <= IN_BUFFER => held = MessageLength

\* Strings one after the other, each after its length.
StringsOf(strings) ==
    FlattenSeq([i \in DOMAIN strings |-> Word(Len(strings[i])) \o strings[i]])

\* A field, if the CONNECT flags announce it.
Announced(flags, mask, field) == IF (flags \div mask) % 2 = 1 THEN <<field>> ELSE <<>>

\* The strings of a CONNECT, as a broker finds them by its flags.
ConnectReads(bytes, info) ==
    LET fixed == fixed_size_len(bytes, Len(bytes))
        flags == bytes[fixed + 8]
    IN  /\ SubSeq(bytes, fixed + 11, Len(bytes))
             = StringsOf(<<info.client_id>> \o Announced(flags, 4, info.will_topic)
                         \o Announced(flags, 4, info.will_message)
                         \o Announced(flags, 128, info.username)
                         \o Announced(flags, 64, info.password))
        /\ (flags \div 64) % 2 = 1 => (flags \div 128) % 2 = 1
        /\ flags % 2 = 0

\* What the client writes can be read again: the length in the header of a packet is the
\* number of bytes written after it, also when the payload goes out in several writes
\* (fini_message); and a broker that reads the fields the CONNECT flags announce, and no
\* others, finds the will, the user name and the password that were configured.
RequestReadable ==
    phase = "write" /\ Written # <<>> =>
        /\ mqtt_get_total_length(Written, Len(Written)) = Len(Written)
        /\ request.kind = "connect" => ConnectReads(Written, request.info)

\* While the connection stands, all the broker sent is handled in the end.
PacketsAnswered ==
    phase = "serve" ~> phase = "closed" \/ cut \/ Len(handled) = Len(Sessions[session])
=============================================================================
