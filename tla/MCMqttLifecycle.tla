-------------------------- MODULE MCMqttLifecycle --------------------------
(* Configurations and schemes for MqttLifecycle. *)
EXTENDS MqttLifecycle

MCDefaultPort == [mqtt |-> 1883, mqtts |-> 8883]

User(uri, over, port, ssl, disable) ==
    [uri |-> uri, transport |-> over, port |-> port, ssl |-> ssl, good |-> TRUE,
     refresh |-> FALSE, disable_auto_reconnect |-> disable]

MCUserConfigs ==
    {[User(<<[scheme |-> "mqtts", port |-> 0]>>, "none", 0, TRUE, FALSE) EXCEPT !.refresh = TRUE],
     User(<<[scheme |-> "mqtt", port |-> 1884]>>, "none", 0, FALSE, TRUE),
     User(<<>>, "mqtt", 0, FALSE, TRUE),
     User(<<[scheme |-> "mqtt", port |-> 0]>>, "none", 1885, FALSE, FALSE),
     User(<<[scheme |-> "ws", port |-> 0]>>, "none", 0, FALSE, FALSE),
     User(<<[scheme |-> "mqtt", port |-> 0]>>, "none", 0, TRUE, FALSE),
     [User(<<[scheme |-> "mqtt", port |-> 0]>>, "none", 0, FALSE, FALSE) EXCEPT !.good = FALSE]}
=============================================================================
