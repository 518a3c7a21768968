--------------------------- MODULE MCMqttClient ---------------------------
(***************************************************************************)
(* Instances of MqttClient for TLC.                                        *)
(***************************************************************************)
EXTENDS MqttClient

\* Message ids are only compared, so that they are interchangeable.
MsgIdSymmetry == Permutations(MsgIds)
=============================================================================
