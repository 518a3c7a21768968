------------------------------- MODULE Mqtt5 -------------------------------
(***************************************************************************)
(* mqtt5_client.c, with the calls mqtt_client.c makes to it: what an       *)
(* MQTT 5 client keeps about its broker and for its next packets.  It      *)
(* counts the PUBLISH that are not acknowledged, against the number that   *)
(* the broker takes; it keeps what the CONNACK of a broker said, over      *)
(* reconnections; properties that the application sets are carried by the  *)
(* next packet; and topic aliases of the broker stand for topics.          *)
(*                                                                         *)
(* Packets cross the connection as the bytes of Mqtt5Msg.  The broker      *)
(* (external) answers when it likes, so that the way of an answer needs no *)
(* queue; each call and handler, under the API lock, is one step.          *)
(***************************************************************************)
EXTENDS Mqtt5Msg, FiniteSets

CONSTANTS
    IN_BUFFER,          \* in_buffer_length
    Info,               \* mqtt_connect_info_t of the configuration
    ConnectSettings,    \* what the application passes to set_connect_property
    PublishSettings,    \* ... to set_publish_property
    SubscribeSettings,  \* ... to set_subscribe_property
    UnsubscribeSettings, \* ... to set_unsubscribe_property
    DisconnectSettings, \* ... to set_disconnect_property
    Publishes,          \* [topic, data, qos, retain] that it publishes
    Connacks,           \* CONNACKs of different brokers: [code, list of [id, value]]
    Messages,           \* [topic, data, qos, user_property] that a broker may send
    \* Bounds: of calls, of calls, messages and retransmissions together, ...
    MAX_CALLS, MAX_EVENTS, MAX_CONNECTIONS, MAX_RESENDS

ASSUME Mqtt5Assumption ==
    {IN_BUFFER, MAX_CALLS, MAX_EVENTS, MAX_CONNECTIONS, MAX_RESENDS} \subseteq Nat

\* What the fields of the settings, of messages and of packets hold.
Bytes == Seq(Byte)
UserPropertyList == Seq([key : Bytes, value : Bytes])
Word32 == {n \in Nat : n \div 65536 \in Word16}

ASSUME SettingsAssumption ==
    /\ Info \in [client_id : Bytes, username : Bytes, password : Bytes, will_topic : Bytes,
                 will_message : Bytes, will_qos : 0 .. 2, will_retain : BOOLEAN,
                 clean_session : BOOLEAN, keepalive : Word16]
    /\ ConnectSettings \subseteq
           [session_expiry_interval : Word32, maximum_packet_size : Word32,
            receive_maximum : Word16, topic_alias_maximum : Word16, request_resp_info : BOOLEAN,
            request_problem_info : BOOLEAN, user_property : UserPropertyList,
            will_delay_interval : Word32, message_expiry_interval : Word32,
            payload_format_indicator : BOOLEAN, content_type : Bytes, response_topic : Bytes,
            correlation_data : Bytes, will_user_property : UserPropertyList]
    /\ PublishSettings \subseteq
           [payload_format_indicator : BOOLEAN, message_expiry_interval : Word32,
            topic_alias : Word16, response_topic : Bytes, correlation_data : Bytes,
            user_property : UserPropertyList, content_type : Bytes, n : {0}]
    /\ SubscribeSettings \subseteq
           [subscribe_id : Word16, no_local_flag : BOOLEAN, retain_as_published_flag : BOOLEAN,
            retain_handle : Byte, is_share_subscribe : BOOLEAN, share_name : Bytes,
            user_property : UserPropertyList]
    /\ UnsubscribeSettings \subseteq
           [is_share_subscribe : BOOLEAN, share_name : Bytes, user_property : UserPropertyList]
    /\ DisconnectSettings \subseteq
           [session_expiry_interval : Word32, disconnect_reason : Byte,
            user_property : UserPropertyList]

\* A property of a CONNACK as it is written: a number, or a string after its length.  Its user
\* properties go to the application and are left out.
ConnackProperty ==
    {p \in [id : ConnackProperties \ {USER_PROPERTY}, value : Bytes] :
        \/ p.id \in OneByte /\ Len(p.value) = 1
        \/ p.id \in TwoBytes /\ Len(p.value) = 2
        \/ p.id \in FourBytes /\ Len(p.value) = 4
        \/ /\ p.id \notin OneByte \cup TwoBytes \cup FourBytes
           /\ Len(p.value) >= 2
           /\ p.value = Word(Len(p.value) - 2) \o SubSeq(p.value, 3, Len(p.value))}

ASSUME MessagesAssumption ==
    /\ Publishes \subseteq [topic : Bytes, data : Bytes, qos : 0 .. 2, retain : 0 .. 1]
    /\ Connacks \subseteq [code : Byte, list : Seq(ConnackProperty)]
    /\ Messages \subseteq [topic : Bytes, data : Bytes, qos : 0 .. 2,
                           user_property : UserPropertyList]

NoPublish == [payload_format_indicator |-> FALSE, message_expiry_interval |-> 0, topic_alias |-> 0,
              response_topic |-> <<>>, correlation_data |-> <<>>, user_property |-> <<>>,
              content_type |-> <<>>, n |-> 0]
NoSubscribe == [subscribe_id |-> 0, no_local_flag |-> FALSE, retain_as_published_flag |-> FALSE,
                retain_handle |-> 0, is_share_subscribe |-> FALSE, share_name |-> <<>>,
                user_property |-> <<>>]
NoUnsubscribe == [is_share_subscribe |-> FALSE, share_name |-> <<>>, user_property |-> <<>>]
NoDisconnect == [session_expiry_interval |-> 0, disconnect_reason |-> 0, user_property |-> <<>>]

VARIABLES
    connected,
    connect, will,      \* connect_property_info and will_property_info
    info,               \* connection.information
    server,             \* server_resp_property_info
    count,              \* send_publish_packet_count
    publish_property,   \* publish_property_info: NoPublish, or a setting and its number n
    subscribe_property, \* subscribe_property_info
    unsubscribe_property, \* unsubscribe_property_info
    peer_topic_alias,   \* sequence of [topic_alias, topic]
    outbox,             \* sequence of [id, qos, pending, bytes]; qos 0 for a SUBSCRIBE
    disconnect_property,\* disconnect_property_info
    announced,          \* broker: its CONNACK on this connection
    aliasMaximum,       \* broker: topic_alias_maximum of the CONNECT of this connection
    inFlight,           \* broker: ids of PUBLISH of this connection it has still to answer
    aliases,            \* broker: topic of each of its aliases on this connection
    last,               \* history: the packet or event of the last step, and what was meant
    carried,            \* history: messages that carried each setting of publish properties
    miscounted,         \* history: a packet of this connection left the count wrong
    queuedSent,         \* history: on this connection the task sent what waited in the outbox
    setHere,            \* history: publish_property was set on this connection
    callsMade, messages, connections, resends

aboutBroker == <<server, info, count, peer_topic_alias>>
subscribeVars == <<subscribe_property, unsubscribe_property>>
settings == <<connect, will, publish_property, subscribeVars, disconnect_property>>
brokerVars == <<announced, aliasMaximum, inFlight, aliases>>
bounds == <<callsMade, messages, connections, resends>>
flags == <<miscounted, queuedSent, setHere>>
mqtt5Vars == <<connected, aboutBroker, settings, outbox, brokerVars, last, carried, flags, bounds>>

\* esp_mqtt5_create_default_config
DefaultServer ==
    [receive_maximum |-> 65535, max_qos |-> 2, retain_available |-> 1, maximum_packet_size |-> 0,
     topic_alias_maximum |-> 0, wildcard_subscribe_available |-> 1,
     subscribe_identifiers_available |-> 1, shared_subscribe_available |-> 1,
     response_info |-> <<>>]

NoConnect == [session_expiry_interval |-> 0, maximum_packet_size |-> 0, receive_maximum |-> 0,
              topic_alias_maximum |-> 0, request_resp_info |-> FALSE,
              request_problem_info |-> FALSE, user_property |-> <<>>]
NoWill == [will_delay_interval |-> 0, message_expiry_interval |-> 0,
           payload_format_indicator |-> FALSE, content_type |-> <<>>, response_topic |-> <<>>,
           correlation_data |-> <<>>, user_property |-> <<>>]

Nothing == [kind |-> "none"]

Mqtt5Init ==
    /\ connected = FALSE /\ connect = NoConnect /\ will = NoWill /\ info = Info
    /\ server = DefaultServer /\ count = 0
    /\ publish_property = NoPublish
    /\ subscribe_property = NoSubscribe /\ unsubscribe_property = NoUnsubscribe
    /\ peer_topic_alias = <<>> /\ outbox = <<>>
    /\ disconnect_property = NoDisconnect
    /\ announced = <<>> /\ aliasMaximum = 0 /\ inFlight = {} /\ aliases = <<>>
    /\ last = Nothing /\ carried = [n \in 1 .. MAX_CALLS |-> 0]
    /\ miscounted = FALSE /\ queuedSent = FALSE /\ setHere = FALSE
    /\ callsMade = 0 /\ messages = 0 /\ connections = 0 /\ resends = 0

\* Bound: another call, message or retransmission.
More == callsMade + messages + resends < MAX_EVENTS

Called ==
    /\ callsMade < MAX_CALLS /\ More /\ callsMade' = callsMade + 1
    /\ UNCHANGED <<messages, connections, resends>>

----------------------------------------------------------------------------
(* Settings of the application *)

\* Lists of user properties: the items, all with a key and a value, are appended, ...
esp_mqtt5_client_set_user_property(list, items) == list \o items

\* ... counted in a byte, ...
esp_mqtt5_client_get_user_property_count(list) == Len(list) % 256

\* ... and read, as many as there are or as the caller has room for.
esp_mqtt5_client_get_user_property(list, num) == SubSeq(list, 1, Min({num, Len(list)}))

Or(new, old) == IF new = 0 THEN old ELSE new
OrText(new, old) == IF new = <<>> THEN old ELSE new

\* What is not given keeps its value.  A packet size over the buffer is refused, when the
\* session's expiry is already taken.
SetConnectProperty(new) ==
    LET expiry == Or(new.session_expiry_interval, connect.session_expiry_interval)
    IN  /\ Called
        /\ IF new.maximum_packet_size > IN_BUFFER
           THEN /\ connect' = [connect EXCEPT !.session_expiry_interval = expiry]
                /\ UNCHANGED will
           ELSE /\ connect' =
                      [session_expiry_interval |-> expiry,
                       maximum_packet_size |-> Or(new.maximum_packet_size, IN_BUFFER),
                       receive_maximum |-> Or(new.receive_maximum, connect.receive_maximum),
                       topic_alias_maximum |->
                           Or(new.topic_alias_maximum, connect.topic_alias_maximum),
                       request_resp_info |-> new.request_resp_info \/ connect.request_resp_info,
                       request_problem_info |->
                           new.request_problem_info \/ connect.request_problem_info,
                       user_property |-> OrText(new.user_property, connect.user_property)]
                /\ will' =
                      [will_delay_interval |-> Or(new.will_delay_interval, will.will_delay_interval),
                       message_expiry_interval |->
                           Or(new.message_expiry_interval, will.message_expiry_interval),
                       payload_format_indicator |->
                           new.payload_format_indicator \/ will.payload_format_indicator,
                       content_type |-> OrText(new.content_type, will.content_type),
                       response_topic |-> OrText(new.response_topic, will.response_topic),
                       correlation_data |-> OrText(new.correlation_data, will.correlation_data),
                       user_property |-> OrText(new.will_user_property, will.user_property)]
        /\ last' = Nothing
        /\ UNCHANGED <<connected, aboutBroker, publish_property, subscribeVars,
                       disconnect_property, outbox, brokerVars, carried, flags>>

\* The pointer is kept; n tells one setting from another.
SetPublishProperty(new) ==
    /\ Called
    /\ new.topic_alias <= server.topic_alias_maximum
    /\ publish_property' = [new EXCEPT !.n = callsMade']
    /\ setHere' = connected /\ last' = Nothing
    /\ UNCHANGED <<connected, aboutBroker, connect, will, subscribeVars, disconnect_property,
                   outbox, brokerVars, carried, miscounted, queuedSent>>

\* A shared subscription, or its removal, needs a name, and a broker that has them.
MayShare(new) ==
    new.is_share_subscribe => server.shared_subscribe_available = 1 /\ new.share_name # <<>>

SetSubscribeProperty(new) ==
    /\ Called
    /\ new.retain_handle <= 2 /\ MayShare(new)
    /\ new.is_share_subscribe => ~ new.no_local_flag
    /\ subscribe_property' = new
    /\ last' = Nothing
    /\ UNCHANGED <<connected, aboutBroker, connect, will, publish_property, unsubscribe_property,
                   disconnect_property, outbox, brokerVars, carried, flags>>

SetUnsubscribeProperty(new) ==
    /\ Called
    /\ MayShare(new)
    /\ unsubscribe_property' = new
    /\ last' = Nothing
    /\ UNCHANGED <<connected, aboutBroker, connect, will, publish_property, subscribe_property,
                   disconnect_property, outbox, brokerVars, carried, flags>>

SetDisconnectProperty(new) ==
    /\ Called
    /\ disconnect_property' =
           [session_expiry_interval |-> Or(new.session_expiry_interval,
                                           disconnect_property.session_expiry_interval),
            disconnect_reason |-> Or(new.disconnect_reason, disconnect_property.disconnect_reason),
            user_property |-> OrText(new.user_property, disconnect_property.user_property)]
    /\ last' = Nothing
    /\ UNCHANGED <<connected, aboutBroker, connect, will, publish_property, subscribeVars,
                   outbox, brokerVars, carried, flags>>

----------------------------------------------------------------------------
(* Connections *)

Connack(ack) ==
    LET properties == FlattenSeq([i \in DOMAIN ack.list |-> <<ack.list[i].id>> \o ack.list[i].value])
        body == <<0, ack.code>> \o remaining_length[Len(properties)] \o properties
    IN  <<CONNACK * 16>> \o remaining_length[Len(body)] \o body

Parsed(ack) ==
    mqtt5_msg_parse_connack_property(Connack(ack), Len(Connack(ack)),
                                     [server |-> server, connect |-> connect, info |-> info])

\* Mutant of esp_mqtt5_parse_connack: what is not acknowledged stays counted.
parse_connack_counting(parsed) ==
    /\ server' = parsed.server /\ connect' = parsed.connect /\ info' = parsed.info
    /\ connected' = (parsed.ok /\ parsed.reason_code = 0)
    /\ UNCHANGED count

\* What the CONNACK says is taken, even of a broker that refuses.
esp_mqtt5_parse_connack(parsed) ==
    /\ server' = parsed.server /\ connect' = parsed.connect /\ info' = parsed.info
    /\ connected' = (parsed.ok /\ parsed.reason_code = 0)
    /\ count' = IF connected' THEN 0 ELSE count

\* CONNECT, and the answer of a broker.
Connect ==
    LET made == mqtt5_msg_connect(info, connect, will)
    IN  /\ ~ connected /\ connections < MAX_CONNECTIONS /\ made.ok
        /\ connections' = connections + 1
        /\ \E ack \in Connacks : esp_mqtt5_parse_connack(Parsed(ack)) /\ announced' = ack.list
        /\ aliasMaximum' = connect.topic_alias_maximum /\ inFlight' = {} /\ aliases' = <<>>
        /\ miscounted' = FALSE /\ queuedSent' = FALSE /\ setHere' = FALSE
        /\ last' = [kind |-> "connect", connect |-> connect, will |-> will, info |-> info,
                    bytes |-> made.bytes]
        /\ UNCHANGED <<will, publish_property, subscribeVars, disconnect_property,
                       peer_topic_alias, outbox, carried, callsMade, messages, resends>>

Break ==
    /\ connected
    /\ connected' = FALSE /\ last' = Nothing
    /\ UNCHANGED <<aboutBroker, settings, outbox, brokerVars, carried, flags, bounds>>

\* A disconnection that was asked for: send_disconnect_msg, and the connection is given up.
Disconnect ==
    LET made == mqtt5_msg_disconnect(disconnect_property)
    IN  /\ connected /\ Called
        /\ connected' = FALSE
        /\ disconnect_property' = IF made.ok THEN NoDisconnect ELSE disconnect_property
        /\ last' = IF made.ok
                   THEN [kind |-> "disconnect", property |-> disconnect_property,
                         bytes |-> made.bytes]
                   ELSE Nothing
        /\ UNCHANGED <<aboutBroker, connect, will, publish_property, subscribeVars, outbox,
                       brokerVars, carried, flags>>

----------------------------------------------------------------------------
(* Publishing *)

\* Mutant of esp_mqtt5_client_publish_check: the packets that are not acknowledged do not count.
publish_check_uncounted(request) ==
    /\ request.qos <= server.max_qos
    /\ request.retain = 1 => server.retain_available = 1

esp_mqtt5_client_publish_check(request) ==
    /\ request.qos <= server.max_qos
    /\ request.retain = 1 => server.retain_available = 1
    /\ count <= server.receive_maximum

\* Bound: the number of the call is its message id.
Made(request) == mqtt5_msg_publish(request.topic, request.data, request.qos, request.retain,
                                   callsMade + 1, publish_property, server.response_info)

Item(request, pending) ==
    [id |-> callsMade + 1, qos |-> request.qos, pending |-> pending,
     bytes |-> Made(request).message.bytes \o Made(request).remaining]

Carried == IF publish_property.n = 0 THEN carried
           ELSE [carried EXCEPT ![publish_property.n] = @ + 1]

make_publish(request) ==
    Made(request).message.ok /\ publish_property' = NoPublish /\ carried' = Carried

\* `bytes` is outbound_message.data: what was written last, if not the whole packet.
esp_mqtt5_increment_packet_counter(bytes) == count' = count + 1 - mqtt_get_dup(bytes)

esp_mqtt5_decrement_packet_counter == count' = IF count > 0 THEN count - 1 ELSE 0

\* The last piece of a message that is written.
LastWritten(request) ==
    LET more == Made(request).remaining
    IN  IF more = <<>> THEN Made(request).message.bytes
        ELSE SubSeq(more, ((Len(more) - 1) \div OUT_BUFFER) * OUT_BUFFER + 1, Len(more))

\* esp_mqtt_client_publish.  A call that is refused changes nothing but the bound.
Publish(request) ==
    /\ Called /\ esp_mqtt5_client_publish_check(request) /\ make_publish(request)
    /\ IF connected
       THEN /\ last' = [kind |-> "publish", request |-> request, property |-> publish_property,
                        resp_info |-> server.response_info, setHere |-> setHere,
                        bytes |-> Item(request, "TRANSMITTED").bytes]
            /\ IF request.qos > 0
               THEN /\ outbox' = Append(outbox, Item(request, "TRANSMITTED"))
                    /\ inFlight' = inFlight \cup {callsMade'}
                    /\ esp_mqtt5_increment_packet_counter(LastWritten(request))
                    /\ miscounted' = (miscounted \/ count' = count)
               ELSE UNCHANGED <<outbox, inFlight, count, miscounted>>
       ELSE /\ outbox' = IF request.qos > 0 THEN Append(outbox, Item(request, "QUEUED")) ELSE outbox
            /\ last' = Nothing
            /\ UNCHANGED <<inFlight, count, miscounted>>
    /\ UNCHANGED <<connected, server, info, peer_topic_alias, connect, will, subscribeVars,
                   disconnect_property, announced, aliasMaximum, aliases, queuedSent, setHere>>

\* esp_mqtt_client_enqueue with store: for the task to send.
Enqueue(request) ==
    /\ Called /\ esp_mqtt5_client_publish_check(request) /\ make_publish(request)
    /\ outbox' = Append(outbox, Item(request, "QUEUED"))
    /\ last' = Nothing
    /\ UNCHANGED <<connected, aboutBroker, connect, will, subscribeVars,
                   disconnect_property, brokerVars, flags>>

First(pending) == SelectInSeq(outbox, LAMBDA item : item.pending = pending)

\* The task sends the oldest message that waits, without a check.  One of QoS 0 is deleted.
ResendQueued ==
    LET i == First("QUEUED")
    IN  /\ connected /\ i # 0
        /\ IF outbox[i].qos > 0
           THEN /\ outbox' = [outbox EXCEPT ![i].pending = "TRANSMITTED"]
                /\ inFlight' = inFlight \cup {outbox[i].id}
                /\ esp_mqtt5_increment_packet_counter(outbox[i].bytes)
           ELSE outbox' = RemoveAt(outbox, i) /\ UNCHANGED <<inFlight, count>>
        /\ queuedSent' = TRUE /\ last' = Nothing
        /\ UNCHANGED <<connected, server, info, peer_topic_alias, settings, announced,
                       aliasMaximum, aliases, carried, miscounted, setHere, bounds>>

Resends ==
    /\ resends < MAX_RESENDS /\ More /\ resends' = resends + 1
    /\ miscounted' = TRUE /\ last' = Nothing
    /\ UNCHANGED <<connected, server, info, peer_topic_alias, settings, announced, aliasMaximum,
                   aliases, carried, queuedSent, setHere, callsMade, messages, connections>>

\* A PUBLISH is marked as a duplicate and not counted; a SUBSCRIBE has no such mark, and is.
ResendTransmitted ==
    LET i == First("TRANSMITTED")
    IN  /\ connected /\ i # 0 /\ Resends
        /\ IF mqtt_get_type(outbox[i].bytes) = PUBLISH
           THEN /\ outbox' = [outbox EXCEPT ![i].bytes[1] = @ + 8 * (1 - mqtt_get_dup(<<@>>))]
                /\ inFlight' = inFlight \cup {outbox[i].id}
           ELSE UNCHANGED <<outbox, inFlight>>
        /\ esp_mqtt5_increment_packet_counter(outbox'[i].bytes)

\* A PUBREL is counted as if it were one more PUBLISH.
ResendPubrel ==
    LET i == First("ACKNOWLEDGED")
    IN  /\ connected /\ i # 0 /\ Resends
        /\ esp_mqtt5_increment_packet_counter(mqtt5_msg_pubrel(outbox[i].id).bytes)
        /\ inFlight' = inFlight \cup {outbox[i].id}
        /\ UNCHANGED outbox

----------------------------------------------------------------------------
(* Subscribing *)

Topics == <<[filter |-> <<102>>, qos |-> 1], [filter |-> <<103>>, qos |-> 2]>>

Requested(kind, property, made) ==
    /\ Called /\ connected /\ made.ok
    /\ outbox' = Append(outbox, [id |-> callsMade', qos |-> 0, pending |-> "TRANSMITTED",
                                 bytes |-> made.bytes])
    /\ last' = [kind |-> kind, property |-> property, bytes |-> made.bytes]
    /\ UNCHANGED <<connected, aboutBroker, connect, will, publish_property, disconnect_property,
                   brokerVars, carried, flags>>

\* esp_mqtt_client_subscribe_multiple: the highest QoS is checked.
Subscribe ==
    /\ Max({Topics[i].qos : i \in DOMAIN Topics}) <= server.max_qos
    /\ Requested("subscribe", subscribe_property,
                 mqtt5_msg_subscribe(Topics, callsMade + 1, subscribe_property))
    /\ subscribe_property' = NoSubscribe /\ UNCHANGED unsubscribe_property

Unsubscribe ==
    /\ Requested("unsubscribe", unsubscribe_property,
                 mqtt5_msg_unsubscribe(Topics[1].filter, callsMade + 1, unsubscribe_property))
    /\ unsubscribe_property' = NoUnsubscribe /\ UNCHANGED subscribe_property

----------------------------------------------------------------------------
(* Answers of the broker *)

\* An acknowledgement; a reason code of 0 is left out.
AckOf(type, id, code) ==
    LET body == Word(id) \o (IF code = 0 THEN <<>> ELSE <<code, 0>>)
    IN  <<type * 16, Len(body)>> \o body

Position(id) == SelectInSeq(outbox, LAMBDA item : item.id = id
                                                     /\ mqtt_get_type(item.bytes) = PUBLISH)

\* PUBACK or PUBCOMP: it counts, and its message is published, whatever it says.
Finish(bytes, code) ==
    LET i == Position(mqtt5_get_id(bytes, Len(bytes)))
    IN  /\ esp_mqtt5_decrement_packet_counter
        /\ outbox' = IF i = 0 THEN outbox ELSE RemoveAt(outbox, i)
        /\ last' = IF i = 0 THEN Nothing
                   ELSE [kind |-> "published", code |-> code,
                         data |-> mqtt5_get_puback_data(bytes, Len(bytes)).data]

\* PUBREC, whatever its reason code: the PUBREL goes out.
Received(bytes) ==
    LET i == Position(mqtt5_get_id(bytes, Len(bytes)))
    IN  /\ outbox' = IF i = 0 THEN outbox ELSE [outbox EXCEPT ![i].pending = "ACKNOWLEDGED"]
        /\ last' = Nothing
        /\ UNCHANGED count

\* A message that was sent twice may be answered twice.
Answer(id) ==
    LET i == Position(id)
    IN  /\ connected /\ id \in inFlight
        /\ \E code \in {0, 151} :
               IF i # 0 /\ outbox[i].qos = 2 /\ outbox[i].pending = "TRANSMITTED"
               THEN Received(AckOf(PUBREC, id, code)) /\ UNCHANGED inFlight
               ELSE /\ Finish(AckOf(IF i # 0 /\ outbox[i].qos = 2 THEN PUBCOMP ELSE PUBACK,
                                    id, code), code)
                    /\ \/ inFlight' = inFlight \ {id}
                       \/ i # 0 /\ resends > 0 /\ miscounted /\ UNCHANGED inFlight
        /\ UNCHANGED <<connected, server, info, peer_topic_alias, settings, announced,
                       aliasMaximum, aliases, carried, flags, bounds>>

\* SUBACK or UNSUBACK of the oldest such item.
SubscriptionAnswered ==
    LET i == SelectInSeq(outbox, LAMBDA item : mqtt_get_type(item.bytes) # PUBLISH)
    IN  /\ connected /\ i # 0
        /\ \E code \in {0, 135}, extra \in {<<>>, Text(REASON_STRING, <<120>>)} :
               LET body == Word(outbox[i].id) \o <<Len(extra)>> \o extra \o <<1, code>>
                   bytes == <<SUBACK * 16, Len(body)>> \o body
               IN  last' = [kind |-> "subscribed", code |-> code,
                            data |-> mqtt5_get_suback_data(bytes, Len(bytes)).data]
        /\ outbox' = RemoveAt(outbox, i)
        /\ UNCHANGED <<connected, aboutBroker, settings, brokerVars, carried, flags, bounds>>

\* DISCONNECT of the broker: an event; the state changes when the connection closes (Break).
BrokerDisconnects ==
    /\ connected /\ More /\ messages' = messages + 1
    /\ LET bytes == <<DISCONNECT * 16, 1, 139>>
       IN  last' = [kind |-> "disconnected", code |-> 139,
                    data |-> <<mqtt5_msg_get_reason_code(bytes, Len(bytes))>>]
    /\ UNCHANGED <<connected, aboutBroker, settings, outbox, brokerVars, carried, flags,
                   callsMade, connections, resends>>

----------------------------------------------------------------------------
(* Messages for the application *)

Alias(list, alias) == SelectInSeq(list, LAMBDA item : item.topic_alias = alias)

\* Mutant of esp_mqtt5_client_update_topic_alias: the first topic of an alias stays.
update_topic_alias_once(list, alias, topic) ==
    IF Alias(list, alias) # 0 THEN list
    ELSE Append(list, [topic_alias |-> alias, topic |-> topic])

esp_mqtt5_client_update_topic_alias(list, alias, topic) ==
    IF Alias(list, alias) # 0 THEN [list EXCEPT ![Alias(list, alias)].topic = topic]
    ELSE Append(list, [topic_alias |-> alias, topic |-> topic])

\* The event of a PUBLISH whose alias (0 for none) has been read, in a sequence; <<>> if it is
\* refused.
EventOf(read, alias) ==
    LET known == Alias(peer_topic_alias, alias)
        Event(topic, list) == <<[topic |-> topic, data |-> read.payload,
                                 properties |-> read.properties, aliases |-> list]>>
    IN  CASE alias > connect.topic_alias_maximum -> <<>>
          [] alias = 0 -> Event(read.topic, peer_topic_alias)
          [] alias \in 1 .. connect.topic_alias_maximum /\ read.topic # <<>> ->
               Event(read.topic, esp_mqtt5_client_update_topic_alias(peer_topic_alias, alias,
                                                                     read.topic))
          [] OTHER -> IF known = 0 THEN <<>>
                      ELSE Event(peer_topic_alias[known].topic, peer_topic_alias)

esp_mqtt5_get_publish_data(read) ==
    IF read.ok THEN EventOf(read, NumberOf(read.properties, TOPIC_ALIAS, 0)) ELSE <<>>

\* What the handler of the event reads.
ReadUserProperties(list) ==
    esp_mqtt5_client_get_user_property(list, esp_mqtt5_client_get_user_property_count(list))

\* A message from the broker: the event, or the end of the connection.
Receive(event, message) ==
    IF event = <<>>
    THEN connected' = FALSE /\ last' = [kind |-> "refused"] /\ UNCHANGED peer_topic_alias
    ELSE /\ last' = [kind |-> "data", message |-> message, topic |-> event[1].topic,
                     data |-> event[1].data,
                     user_property |-> ReadUserProperties(UserPropertiesOf(event[1].properties))]
         /\ peer_topic_alias' = event[1].aliases
         /\ UNCHANGED connected

ReceiveBytes(bytes, message) ==
    Receive(esp_mqtt5_get_publish_data(mqtt5_get_publish_property_payload(bytes, Len(bytes))),
            message)

\* The PUBLISH of a broker, written as the client writes its own.
Sent(message, topic, alias) ==
    mqtt5_msg_publish(topic, message.data, message.qos, 0, 9,
                      [NoPublish EXCEPT !.topic_alias = alias,
                                        !.user_property = message.user_property], <<>>)

\* The broker names the topic, an alias, or both; it uses the aliases that the CONNECT asked
\* for, and forgets them with the connection.  Bound: its message fits into a buffer.
Incoming(message) ==
    /\ connected /\ More /\ messages' = messages + 1
    /\ \E alias \in 0 .. aliasMaximum, topic \in {<<>>, message.topic} :
           /\ topic = <<>> => alias \in DOMAIN aliases /\ aliases[alias] = message.topic
           /\ Sent(message, topic, alias).message.ok /\ Sent(message, topic, alias).remaining = <<>>
           /\ ReceiveBytes(Sent(message, topic, alias).message.bytes, message)
           /\ aliases' = IF alias = 0 THEN aliases
                         ELSE [a \in DOMAIN aliases \cup {alias} |->
                                  IF a = alias THEN message.topic ELSE aliases[a]]
    /\ UNCHANGED <<server, info, count, settings, outbox, announced, aliasMaximum, inFlight,
                   carried, flags, callsMade, connections, resends>>

Mqtt5Next ==
    \/ \E new \in ConnectSettings : SetConnectProperty(new)
    \/ \E new \in PublishSettings : SetPublishProperty(new)
    \/ \E new \in SubscribeSettings : SetSubscribeProperty(new)
    \/ \E new \in UnsubscribeSettings : SetUnsubscribeProperty(new)
    \/ \E new \in DisconnectSettings : SetDisconnectProperty(new)
    \/ Connect \/ Break \/ Disconnect
    \/ \E request \in Publishes : Publish(request) \/ Enqueue(request)
    \/ ResendQueued \/ ResendTransmitted \/ ResendPubrel
    \/ Subscribe \/ Unsubscribe \/ SubscriptionAnswered \/ BrokerDisconnects
    \/ \E id \in 1 .. MAX_CALLS : Answer(id)
    \/ \E message \in Messages : Incoming(message)

Mqtt5Spec == Mqtt5Init /\ [][Mqtt5Next]_mqtt5Vars

----------------------------------------------------------------------------
(* Properties *)

\* Nothing that mqtt5_client.c counts is lost or counted twice: on a connection, the count is the
\* number of messages that the broker has still to acknowledge.  It is not so once a packet was
\* sent again, or a message in pieces had its last piece taken for a duplicate.
CountTrue == connected /\ ~ miscounted => count = Cardinality(inFlight)

Announced(id, default) == NumberOf(announced, id, default)

Names(id) == \E i \in DOMAIN announced : announced[i].id = id

\* esp_mqtt5_client_publish_check: what is published at once has a QoS and a retain flag that the
\* broker of this connection takes, whatever the brokers of earlier connections said; and if
\* the task sent nothing unchecked then at most one message more than its receive maximum is not
\* acknowledged.  Aliases are checked as they are set (esp_mqtt5_client_set_publish_property),
\* against the last broker that named a number of them: the broker of this connection takes the
\* alias if it is the first broker, or named a number and the alias was set after that.
BrokerRespected ==
    connected =>
        /\ last.kind = "publish" =>
               /\ last.request.qos <= Announced(MAXIMUM_QOS, 2)
               /\ last.request.retain <= Announced(RETAIN_AVAILABLE, 1)
               /\ connections = 1 \/ (last.setHere /\ Names(TOPIC_ALIAS_MAXIMUM)) =>
                      last.property.topic_alias <= Announced(TOPIC_ALIAS_MAXIMUM, 0)
        /\ ~ miscounted /\ ~ queuedSent =>
               Cardinality(inFlight) <= Announced(RECEIVE_MAXIMUM, 65535) + 1

\* What the application is told is what the broker meant: the topic of a message although an
\* alias that was used for other topics stands for it, and the codes of its answers.  It refuses
\* a message only if the application lowered the number of aliases since it connected.
EventsAsMeant ==
    CASE last.kind = "data" ->
           /\ last.topic = last.message.topic /\ last.data = last.message.data
           /\ last.user_property = last.message.user_property
      [] last.kind = "refused" -> connect.topic_alias_maximum < aliasMaximum
      [] last.kind = "published" ->
           last.data = <<last.code>> \/ (last.data = <<>> /\ last.code = 0)
      [] last.kind = "subscribed" -> last.data = <<1, last.code>>
      [] last.kind = "disconnected" -> last.data = <<last.code>>
      [] OTHER -> TRUE

\* The properties at an offset of the bytes of the last packet, and what follows them.
PropertiesAt(offset, known) ==
    LET size == get_variable_len(last.bytes, offset, Len(last.bytes))
    IN  [list |-> Properties(last.bytes, offset + size.bytes, size.len, known),
         after |-> offset + size.bytes + size.len]

ReadsConnect ==
    LET offset == Start5(last.bytes, Len(last.bytes)).offset + 10
        read == PropertiesAt(offset, ConnackProperties \cup {REQUEST_PROBLEM_INFO, REQUEST_RESP_INFO})
        id == Word(Len(last.info.client_id)) \o last.info.client_id
        willAt == read.after + Len(id)
        will5 == PropertiesAt(willAt, PublishProperties \cup {WILL_DELAY_INTERVAL})
    IN  /\ \A p \in {<<SESSION_EXPIRY_INTERVAL, "session_expiry_interval">>,
                      <<MAXIMUM_PACKET_SIZE, "maximum_packet_size">>,
                      <<RECEIVE_MAXIMUM, "receive_maximum">>,
                      <<TOPIC_ALIAS_MAXIMUM, "topic_alias_maximum">>} :
               NumberOf(read.list, p[1], 0) = last.connect[p[2]]
        /\ (NumberOf(read.list, REQUEST_RESP_INFO, 0) = 1) = last.connect.request_resp_info
        /\ UserPropertiesOf(read.list) = last.connect.user_property
        /\ SubSeq(last.bytes, read.after + 1, willAt) = id
        /\ last.info.will_topic # <<>> =>
               /\ NumberOf(will5.list, WILL_DELAY_INTERVAL, 0) = last.will.will_delay_interval
               /\ TextOf(will5.list, RESPONSE_TOPIC, <<>>) = last.will.response_topic
               /\ UserPropertiesOf(will5.list) = last.will.user_property
               /\ SubSeq(last.bytes, will5.after + 3, will5.after + 2 + Len(last.info.will_topic))
                      = last.info.will_topic

ReadsPublish(read, property) ==
    /\ read.ok /\ read.topic = last.request.topic /\ read.payload = last.request.data
    /\ NumberOf(read.properties, TOPIC_ALIAS, 0) = property.topic_alias
    /\ NumberOf(read.properties, MESSAGE_EXPIRY_INTERVAL, 0) = property.message_expiry_interval
    /\ TextOf(read.properties, CONTENT_TYPE, <<>>) = property.content_type
    /\ UserPropertiesOf(read.properties) = property.user_property
    /\ last.resp_info = <<>> =>
           TextOf(read.properties, RESPONSE_TOPIC, <<>>) = property.response_topic

ReadsSubscribe ==
    LET offset == Start5(last.bytes, Len(last.bytes)).offset + 2
        read == PropertiesAt(offset, PublishProperties)
        first == SubSeq(last.bytes, read.after + 3,
                        read.after + 2 + WordAt(last.bytes, read.after))
        subscribe_id == TextOf(read.list, SUBSCRIBE_IDENTIFIER, <<0>>)
    IN  /\ UserPropertiesOf(read.list) = last.property.user_property
        /\ first = Filter(Topics[1].filter, last.property)
        /\ last.kind = "subscribe" =>
               /\ Base128(subscribe_id, 0, Len(subscribe_id)) = last.property.subscribe_id
               /\ last.bytes[read.after + Len(first) + 3] % 4 = Topics[1].qos
               /\ last.bytes[Len(last.bytes)] % 4 = Topics[2].qos

ReadsDisconnect ==
    LET read == PropertiesAt(Start5(last.bytes, Len(last.bytes)).offset + 1, ConnackProperties)
    IN  /\ mqtt5_msg_get_reason_code(last.bytes, Len(last.bytes)) = last.property.disconnect_reason
        /\ NumberOf(read.list, SESSION_EXPIRY_INTERVAL, 0) = last.property.session_expiry_interval
        /\ UserPropertiesOf(read.list) = last.property.user_property

\* Each packet of mqtt5_msg.c reads back as what the application asked for, also where the
\* properties or the packet need a length of more than one byte (only a response topic that was
\* joined to the broker's response information does not), and what was set for one message
\* goes with one (mqtt5_client.h: "This API will not store the publish property, it is
\* one-time configuration").
ReadBack ==
    /\ CASE last.kind = "connect" -> ReadsConnect
         [] last.kind = "publish" ->
                ReadsPublish(mqtt5_get_publish_property_payload(last.bytes, Len(last.bytes)),
                             last.property)
         [] last.kind \in {"subscribe", "unsubscribe"} -> ReadsSubscribe
         [] last.kind = "disconnect" -> ReadsDisconnect
         [] OTHER -> TRUE
    /\ \A n \in 1 .. MAX_CALLS : carried[n] <= 1
=============================================================================
