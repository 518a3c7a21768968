------------------------------ MODULE MCMqtt5 ------------------------------
(* Small settings, brokers and messages for Mqtt5. *)
EXTENDS Mqtt5

MCInfo ==
    [client_id |-> <<105, 100>>, username |-> <<117>>, password |-> <<112>>,
     will_topic |-> <<119>>, will_message |-> <<1>>, will_qos |-> 1, will_retain |-> FALSE,
     clean_session |-> FALSE, keepalive |-> 300]

Pair == esp_mqtt5_client_set_user_property(<<>>, <<[key |-> <<107>>, value |-> <<118, 119>>]>>)
LongPair ==
    esp_mqtt5_client_set_user_property(<<>>, <<[key |-> <<107>>, value |-> [i \in 1 .. 130 |-> 65]]>>)

Connecting ==
    [session_expiry_interval |-> 3600, maximum_packet_size |-> 0, receive_maximum |-> 4,
     topic_alias_maximum |-> 1, request_resp_info |-> TRUE, request_problem_info |-> FALSE,
     user_property |-> Pair, will_delay_interval |-> 70000, message_expiry_interval |-> 0,
     payload_format_indicator |-> TRUE, content_type |-> <<>>, response_topic |-> <<114>>,
     correlation_data |-> <<99>>, will_user_property |-> LongPair]

\* The second asks for a packet that is larger than the buffer.
MCConnectSettings ==
    {Connecting, [Connecting EXCEPT !.session_expiry_interval = 60, !.maximum_packet_size = 9999]}

MCPublishSettings ==
    {[NoPublish EXCEPT !.topic_alias = 1, !.response_topic = <<114, 115>>, !.user_property = LongPair]}

MCSubscribeSettings ==
    {[NoSubscribe EXCEPT !.subscribe_id = 5, !.is_share_subscribe = TRUE, !.share_name = <<115>>,
                         !.user_property = Pair]}

MCUnsubscribeSettings ==
    {[is_share_subscribe |-> TRUE, share_name |-> <<115>>, user_property |-> Pair]}

MCDisconnectSettings ==
    {[session_expiry_interval |-> 10, disconnect_reason |-> 4, user_property |-> Pair]}

\* One without topic, for an alias; one that does not fit into the buffer; its last piece begins with a byte that has bit 3 set.
MCPublishes ==
    {[topic |-> <<116>>, data |-> <<1, 2>>, qos |-> 1, retain |-> 0],
     [topic |-> <<>>, data |-> <<3>>, qos |-> 0, retain |-> 0],
     [topic |-> <<116>>, data |-> [i \in 1 .. 270 |-> 8], qos |-> 2, retain |-> 1]}

\* One that says nothing, one that limits, one that takes no aliases, and one that refuses.
MCConnacks ==
    {[code |-> 0, list |-> <<>>],
     [code |-> 0, list |-> <<[id |-> TOPIC_ALIAS_MAXIMUM, value |-> <<0, 0>>]>>],
     [code |-> 0, list |->
         <<[id |-> RECEIVE_MAXIMUM, value |-> <<0, 1>>], [id |-> MAXIMUM_QOS, value |-> <<1>>],
           [id |-> TOPIC_ALIAS_MAXIMUM, value |-> <<0, 5>>],
           [id |-> RETAIN_AVAILABLE, value |-> <<0>>]>>],
     [code |-> 135, list |->
         <<[id |-> REASON_STRING, value |-> <<0, 1, 110>>],
           [id |-> SERVER_KEEP_ALIVE, value |-> <<0, 60>>],
           [id |-> RESP_INFO, value |-> <<0, 1, 122>>],
           [id |-> ASSIGNED_CLIENT_IDENTIFIER, value |-> <<0, 2, 120, 121>>]>>]}

MCMessages ==
    {[topic |-> <<116>>, data |-> <<1>>, qos |-> 1, user_property |-> Pair],
     [topic |-> <<117, 117>>, data |-> <<>>, qos |-> 0, user_property |-> <<>>]}
=============================================================================
