---------------------------- MODULE MCMqttWire ----------------------------
(* Small sessions and requests for MqttWire. *)
EXTENDS MqttWire

Packet(type, id) == [type |-> type, id |-> id, qos |-> 0, topic |-> <<>>, data |-> <<>>]
Message(qos, id, topic, size) ==
    [type |-> PUBLISH, id |-> id, qos |-> qos, topic |-> topic,
     data |-> [i \in 1 .. size |-> 120 + (i % 16)]]

Accepted == Packet(CONNACK, 0)

Letters(size) == [i \in 1 .. size |-> 97]

\* Acknowledgements, with an id that has one high byte; messages that fit, that do not, with a
\* two-byte length, and with a header that takes the whole buffer, or more.
MCSessions ==
    <<<<Accepted, Packet(PUBACK, 258), Packet(PINGRESP, 0), Packet(PUBREC, 32769)>>,
      <<Accepted, Message(1, 32896, <<97>>, 3), Packet(SUBACK, 33153), Packet(PUBCOMP, 200)>>,
      <<Accepted, Message(0, 0, <<195, 164>>, 20), Packet(PUBREL, 9)>>,
      <<Accepted, Message(2, 9, <<97>>, 130), Packet(PUBCOMP, 6)>>,
      <<Accepted, Message(1, 33153, Letters(6), 10), Packet(PUBACK, 4)>>,
      <<Accepted, Message(0, 0, Letters(8), 20), Packet(PINGRESP, 0)>>,
      <<Accepted, Message(1, 5, Letters(12), 1), Packet(PUBACK, 4)>>,
      <<Packet(CONNACK, 5), Packet(PUBACK, 1)>>>>

\* An acknowledgement whose id has two high bytes, and a message the end of whose id is beyond
\* the buffer.
AckSessions == <<<<Accepted, Packet(PUBACK, 32896), Packet(PINGRESP, 0)>>>>
IdSessions == <<<<Accepted, Message(1, 7, Letters(7), 20)>>>>

Info(user, password, will, retain, clean) ==
    [client_id |-> <<105, 100>>, username |-> user, password |-> password,
     will_topic |-> will, will_message |-> <<1>>, will_qos |-> 1, will_retain |-> retain,
     clean_session |-> clean, keepalive |-> 300]

MCRequests ==
    {[kind |-> "connect", info |-> Info(u, p, w, r, c)] :
        u \in {<<>>, <<117>>}, p \in {<<>>, <<112>>}, w \in {<<>>, <<119>>},
        r \in BOOLEAN, c \in BOOLEAN}
    \cup {[kind |-> "publish", topic |-> t, data |-> [i \in 1 .. n |-> i], qos |-> q,
           retain |-> 0, id |-> 513] :
             t \in {<<>>, <<116>>}, n \in {0, 1, 40, 130, 200}, q \in 0 .. 2}
    \cup {[kind |-> "subscribe", topics |-> [i \in 1 .. n |-> [filter |-> <<102>>, qos |-> 1]],
           id |-> 1] : n \in 1 .. 9}
    \cup {[kind |-> "unsubscribe", topic |-> t, id |-> 1] : t \in {<<>>, <<102>>}}
    \cup {[kind |-> "ping"], [kind |-> "disconnect"]}

OnePing == {[kind |-> "ping"]}
=============================================================================
