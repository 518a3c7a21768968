------------------------------ MODULE Device ------------------------------
(***************************************************************************)
(* The double buffer of app_main.c above the MQTT client: publish_task's   *)
(* call of esp_mqtt_client_publish (app_main.c:199), which WindowPool      *)
(* takes as one step that always returns, is here the call of MqttClient,  *)
(* which waits for the API lock, may be refused, and may fail.  Window w   *)
(* of MqttClient is the payload handed[w].                                 *)
(***************************************************************************)
EXTENDS WindowPool, MqttClient

deviceVars == <<poolVars, mqttVars>>

DeviceInit == PoolInit /\ MqttInit

\* publish_task calls esp_mqtt_client_publish, and first waits for the lock.
CallPublish ==
    /\ pubPc = "publish"
    /\ PublishLock
    /\ UNCHANGED poolVars

\* A step of the call; publish_task goes on when it returns.
StepPublish ==
    /\ PublishStep
    /\ IF pubStep' = "idle" THEN Publish ELSE UNCHANGED poolVars

\* The other steps of publish_task.
PublishTaskAlone ==
    /\ ReceiveReady \/ ConvertSample \/ Converted \/ JsonTooLarge \/ Release
    /\ UNCHANGED mqttVars

SampleTaskAlone == SampleTask /\ UNCHANGED mqttVars

Client ==
    /\ TaskTakesLock \/ TaskStep \/ BrokerTakes \/ NetworkBreaks \/ PromptTick
    /\ UNCHANGED poolVars

DeviceNext == CallPublish \/ StepPublish \/ PublishTaskAlone \/ SampleTaskAlone \/ Client

(***************************************************************************)
(* The fairness of WindowPool and MqttClient, with what WindowPool takes   *)
(* for granted of the call left to MqttClient.                             *)
(***************************************************************************)
DeviceFairness ==
    /\ SF_deviceVars(CallPublish) /\ WF_deviceVars(StepPublish)
    /\ WF_deviceVars(PublishTaskAlone)
    /\ SF_deviceVars(TaskTakesLock /\ UNCHANGED poolVars)
    /\ WF_deviceVars(TaskStep /\ UNCHANGED poolVars)
    /\ WF_deviceVars(BrokerTakes /\ UNCHANGED poolVars)
    /\ WF_deviceVars(PromptTick /\ UNCHANGED poolVars)

DeviceSpec == DeviceInit /\ [][DeviceNext]_deviceVars /\ DeviceFairness

----------------------------------------------------------------------------
(***************************************************************************)
(* Every buffer in the ready queue comes back to the free queue, now that  *)
(* the call may wait for the lock: whatever the network does, publish_task *)
(* is never blocked for good, and neither lock nor buffer is left behind   *)
(* by a refused or failed call (mqtt_client.c:2191-2273).                  *)
(***************************************************************************)
BufferReturns ==
    \A b \in Buffers : b \in Elements(ready) ~> b \in Elements(free)
=============================================================================
