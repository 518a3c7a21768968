--------------------------- MODULE MCMqttSession ---------------------------
(* The operations and sessions that are tried on MqttSession. *)
EXTENDS MqttSession

Op(op, qos, store) == [op |-> op, qos |-> qos, store |-> store]

MCOperations ==
    {Op("publish", 1, FALSE), Op("publish", 2, FALSE),
     Op("enqueue", 0, TRUE), Op("enqueue", 2, FALSE),
     Op("subscribe", 0, FALSE), Op("unsubscribe", 0, FALSE)}

MCSessions ==
    {[clean |-> TRUE, qos |-> 2], [clean |-> FALSE, qos |-> 2], [clean |-> FALSE, qos |-> 1]}
=============================================================================
