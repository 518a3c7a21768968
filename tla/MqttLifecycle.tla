--------------------------- MODULE MqttLifecycle ---------------------------
(***************************************************************************)
(* mqtt_client.c: the life of a client handle.  An application creates it  *)
(* from a configuration, starts, stops and destroys it, asks it to connect *)
(* or disconnect, and changes its configuration; esp_mqtt_task, one per    *)
(* start, connects and keeps the connection.  The task takes the API lock  *)
(* for each iteration, a whole connection attempt included; several of the *)
(* calls, and parts of the task, do without it.                            *)
(***************************************************************************)
EXTENDS Naturals, Sequences

CONSTANTS
    UserConfigs,        \* configurations the application has
    DefaultPort,        \* default port of each scheme create_transport knows
    MAX_STARTS,         \* bound: tasks that are created
    MAX_CALLS,          \* bound: other calls
    MAX_FAILURES        \* bound: attempts and connections that fail

Tasks == 1 .. MAX_STARTS

\* uri: <<>> or <<[scheme, port]>>, with port 0 if the URI has none; good: it can be parsed
UserConfig(user) ==
    /\ user.uri # <<>> => user.uri[1].port \in Nat
    /\ user.transport \in DOMAIN DefaultPort \cup {"none"}
    /\ user.port \in Nat
    /\ {user.good, user.ssl, user.refresh, user.disable_auto_reconnect} \subseteq BOOLEAN

ASSUME MqttLifecycleAssumption ==
    /\ {MAX_STARTS, MAX_CALLS, MAX_FAILURES} \subseteq Nat
    /\ "none" \notin DOMAIN DefaultPort
    /\ \A scheme \in DOMAIN DefaultPort : DefaultPort[scheme] \in Nat
    /\ \A user \in UserConfigs : UserConfig(user)

VARIABLES
    config,     \* client->config: its scheme, port, auto_reconnect and whether an uri is set
    asked,      \* history: the port the configurations ask for, 0 for the scheme's default
    portLeft,   \* history: an earlier port outlived a configuration that named none
    run, state, \* client->run, client->state
    transport,  \* "closed", "connecting" or "open"
    waitTimeout,        \* wait_timeout_ms: "default" or "none"
    stopped, disconnect, reconnect,     \* STOPPED_BIT, DISCONNECT_BIT, RECONNECT_BIT
    lock,       \* 0, or the task that holds the API lock
    taskPc,     \* where each task is
    app,        \* where the application is: "idle", "stopping", "reconnecting", "destroying",
                \* "freed"
    starts, callsMade, failures,
    wanted,     \* history: what the application asked for last: "up" or "down"
    invited,    \* history: a start or reconnect has not led to an attempt yet
    misused     \* history: a start while there was a task, another call before the task of a
                \* start had begun, a destroy while a task that found no transport was ending,
                \* or a configuration refused while a task ran

bits == <<stopped, disconnect, reconnect>>
history == <<wanted, invited, misused>>
counters == <<starts, callsMade, failures>>
settings == <<config, asked, portLeft>>
lifecycleVars == <<settings, run, state, transport, waitTimeout, bits, lock, taskPc, app,
                   counters, history>>

----------------------------------------------------------------------------
(* Configuration *)

NoConfig == [scheme |-> "none", port |-> 0, uri |-> FALSE, auto_reconnect |-> FALSE,
             refresh |-> FALSE, ok |-> FALSE]
NewConfig == [NoConfig EXCEPT !.ok = TRUE]

\* Mutant of esp_mqtt_client_set_uri: the port is taken from the URI even if it names none.
set_uri_port(old, uri) == [old EXCEPT !.scheme = uri.scheme, !.port = uri.port]

\* The URI overrides what else is set; a port it does not name is kept.
esp_mqtt_client_set_uri(old, uri) ==
    [old EXCEPT !.scheme = uri.scheme, !.port = IF uri.port # 0 THEN uri.port ELSE @]

esp_mqtt_check_cfg_conflict(new, user) ==
    \/ user.ssl /\ new.scheme \notin {"mqtts", "wss"}
    \/ new.uri /\ user.transport # "none"

\* Options that are not given keep their value, but auto_reconnect goes back to TRUE.
esp_mqtt_set_config(old, user) ==
    LET elements ==
            [old EXCEPT !.port = IF user.port # 0 THEN user.port ELSE @,
                        !.scheme = IF user.transport # "none" THEN user.transport ELSE @,
                        !.uri = @ \/ user.uri # <<>>,
                        !.auto_reconnect = ~ user.disable_auto_reconnect,
                        !.refresh = @ \/ user.refresh]
    IN  CASE ~ user.good -> NoConfig
          [] user.good /\ user.uri # <<>> -> esp_mqtt_client_set_uri(elements, user.uri[1])
          [] OTHER -> elements

AskedPort(user) ==
    IF user.uri # <<>> /\ user.uri[1].port # 0 THEN user.uri[1].port ELSE user.port

LifecycleInit ==
    /\ \E user \in UserConfigs :
           /\ user.good
           /\ config = esp_mqtt_set_config(NewConfig, user)
           /\ ~ esp_mqtt_check_cfg_conflict(config, user)
           /\ asked = AskedPort(user)
    /\ portLeft = FALSE
    /\ run = FALSE /\ state = "INIT" /\ transport = "closed" /\ waitTimeout = "none"
    /\ stopped = FALSE /\ disconnect = FALSE /\ reconnect = FALSE
    /\ lock = 0 /\ taskPc = [t \in Tasks |-> "none"] /\ app = "idle"
    /\ starts = 0 /\ callsMade = 0 /\ failures = 0
    /\ wanted = "down" /\ invited = FALSE /\ misused = FALSE

----------------------------------------------------------------------------
(* The application *)

Alive == {t \in Tasks : taskPc[t] \notin {"none", "ended"}}
Unborn == {t \in Tasks : taskPc[t] \in {"created", "begun"}}

Calls ==
    /\ app = "idle" /\ callsMade < MAX_CALLS
    /\ callsMade' = callsMade + 1
    /\ UNCHANGED <<starts, failures>>

\* Every call that is not safe while a task has yet to begin.
Misuse == misused' = (misused \/ Unborn # {})

\* Only the state is looked at, and the task sets it.  Without a configuration the call
\* reads through a null pointer: no program gets past it.
Start ==
    /\ app = "idle" /\ lock = 0 /\ starts < MAX_STARTS /\ config.ok
    /\ state \in {"INIT", "DISCONNECTED"}
    /\ starts' = starts + 1
    /\ taskPc' = [taskPc EXCEPT ![starts + 1] = "created"]
    /\ wanted' = "up" /\ invited' = TRUE /\ misused' = (misused \/ Alive # {})
    /\ UNCHANGED <<settings, run, state, transport, waitTimeout, bits, lock, app, callsMade,
                   failures>>

\* Mutant of Stop: it does not wait for the task.
StopAtOnce ==
    /\ Calls /\ lock = 0 /\ run
    /\ run' = FALSE /\ state' = "DISCONNECTED"
    /\ app' = "idle" /\ wanted' = "down"
    /\ Misuse
    /\ UNCHANGED <<settings, transport, waitTimeout, bits, lock, taskPc, invited>>

\* Refused if no task has set run yet; else it waits for STOPPED_BIT, which stays set.
Stop ==
    /\ Calls /\ lock = 0 /\ run
    /\ run' = FALSE /\ state' = "DISCONNECTED"
    /\ IF stopped THEN app' = "idle" /\ wanted' = "down" ELSE app' = "stopping" /\ UNCHANGED wanted
    /\ Misuse
    /\ UNCHANGED <<settings, transport, waitTimeout, bits, lock, taskPc, invited>>

\* run is read without the lock; a running client is stopped first, but the task of one that
\* does not run may still be on its way out.
Destroy ==
    /\ Calls
    /\ misused' = (misused \/ Unborn # {} \/ (~ run /\ Alive # {}))
    /\ IF run
       THEN /\ lock = 0 /\ run' = FALSE /\ state' = "DISCONNECTED"
            /\ IF stopped THEN app' = "freed" /\ wanted' = "down"
               ELSE app' = "destroying" /\ UNCHANGED wanted
       ELSE app' = "freed" /\ wanted' = "down" /\ UNCHANGED <<run, state>>
    /\ UNCHANGED <<settings, transport, waitTimeout, bits, lock, taskPc, invited>>

Disconnect ==
    /\ Calls
    /\ disconnect' = TRUE
    /\ UNCHANGED <<settings, run, state, transport, waitTimeout, stopped, reconnect, lock, taskPc,
                   app, history>>

\* The state is read and the timeout written without the lock; then the bit is set.
Reconnect ==
    /\ Calls /\ state = "WAIT_RECONNECT"
    /\ waitTimeout' = "none" /\ app' = "reconnecting"
    /\ UNCHANGED <<settings, run, state, transport, bits, lock, taskPc, history>>

ReconnectSet ==
    /\ app = "reconnecting" /\ app' = "idle"
    /\ reconnect' = TRUE /\ invited' = TRUE
    /\ UNCHANGED <<settings, run, state, transport, waitTimeout, stopped, disconnect, lock, taskPc,
                   counters, wanted, misused>>

\* One that cannot be parsed destroys the configuration; the next begins with none.
SetConfig(user) ==
    /\ Calls /\ lock = 0
    /\ config' = esp_mqtt_set_config(IF config.ok THEN config ELSE NewConfig, user)
    /\ asked' = AskedPort(user)
    /\ portLeft' = (portLeft \/ (AskedPort(user) = 0 /\ config.port # 0))
    /\ misused' = (misused \/ (~ user.good /\ Alive # {}))
    /\ UNCHANGED <<run, state, transport, waitTimeout, bits, lock, taskPc, app, wanted, invited>>

----------------------------------------------------------------------------
(* esp_mqtt_task *)

Goto(t, place) == taskPc' = [taskPc EXCEPT ![t] = place]

AbortConnection ==
    /\ transport' = "closed" /\ state' = "WAIT_RECONNECT" /\ waitTimeout' = "default"

Fails == failures < MAX_FAILURES /\ failures' = failures + 1 /\ UNCHANGED <<starts, callsMade>>

\* Three writes without the lock.
TaskRuns(t) ==
    /\ taskPc[t] = "created" /\ Goto(t, "begun")
    /\ run' = TRUE
    /\ UNCHANGED <<settings, state, transport, waitTimeout, bits, lock, app, counters, history>>

TaskBegins(t) ==
    /\ taskPc[t] = "begun" /\ Goto(t, "loop")
    /\ state' = "INIT" /\ stopped' = FALSE
    /\ UNCHANGED <<settings, run, transport, waitTimeout, disconnect, reconnect, lock, app,
                   counters, history>>

\* Mutant of TaskEnds: nobody is told.
TaskEndsSilently(t) ==
    /\ taskPc[t] = "loop" /\ ~ run /\ Goto(t, "ended")
    /\ transport' = "closed" /\ state' = "DISCONNECTED"
    /\ UNCHANGED <<settings, run, waitTimeout, bits, lock, app, counters, history>>

\* STOPPED_BIT wakes a call that waits for it.
TaskEnds(t) ==
    /\ taskPc[t] = "loop" /\ ~ run /\ Goto(t, "ended")
    /\ transport' = "closed" /\ state' = "DISCONNECTED"
    /\ stopped' = TRUE
    /\ app' = CASE app = "stopping" -> "idle" [] app = "destroying" -> "freed" [] OTHER -> app
    /\ wanted' = IF app \in {"stopping", "destroying"} THEN "down" ELSE wanted
    /\ UNCHANGED <<settings, run, waitTimeout, disconnect, reconnect, lock, counters, invited,
                   misused>>

Iterates(t) == taskPc[t] = "loop" /\ run /\ lock = 0

\* The lock is held until the attempt has ended.
ConnectBegins(t) ==
    /\ Iterates(t) /\ state = "INIT"
    /\ disconnect' = FALSE /\ reconnect' = FALSE
    /\ IF config.scheme \in DOMAIN DefaultPort
       THEN /\ lock' = t /\ Goto(t, "connecting") /\ transport' = "connecting"
            /\ config' = [config EXCEPT !.port = IF @ = 0 THEN DefaultPort[config.scheme] ELSE @]
            /\ invited' = FALSE /\ UNCHANGED run
       ELSE run' = FALSE /\ UNCHANGED <<lock, taskPc, transport, config, invited>>
    /\ UNCHANGED <<asked, portLeft, state, waitTimeout, stopped, app, counters, wanted, misused>>

ConnectEnds(t) ==
    /\ taskPc[t] = "connecting" /\ Goto(t, "check") /\ lock' = 0
    /\ \/ /\ transport' = "open" /\ state' = "CONNECTED" /\ UNCHANGED <<waitTimeout, counters>>
       \/ AbortConnection /\ Fails
    /\ UNCHANGED <<settings, run, bits, app, history>>

\* A request to disconnect first; a receive, resend or ping that fails ends it as well, and a
\* connection that is to be refreshed goes back to INIT at once.
Serve(t) ==
    /\ Iterates(t) /\ state = "CONNECTED" /\ Goto(t, "check")
    /\ disconnect' = FALSE
    /\ \/ disconnect /\ AbortConnection /\ UNCHANGED counters
       \/ ~ disconnect /\ UNCHANGED <<state, transport, waitTimeout, counters>>
       \/ ~ disconnect /\ AbortConnection /\ Fails
       \/ /\ ~ disconnect /\ config.refresh /\ transport' = "closed" /\ state' = "INIT"
          /\ waitTimeout' = "default" /\ Fails
    /\ UNCHANGED <<settings, run, stopped, reconnect, lock, app, history>>

\* Mutant of WaitReconnect: the wait ends on its own for every client.
WaitReconnectAlways(t) ==
    /\ Iterates(t) /\ state = "WAIT_RECONNECT"
    /\ state' = "INIT" /\ reconnect' = FALSE
    /\ UNCHANGED <<settings, run, transport, waitTimeout, stopped, disconnect, lock, taskPc, app,
                   counters, history>>

\* The time to wait passes, or a reconnection is asked for; else the task waits on.
WaitReconnect(t) ==
    /\ Iterates(t) /\ state = "WAIT_RECONNECT"
    /\ state' = "INIT"
    /\ \/ config.auto_reconnect /\ UNCHANGED <<reconnect, waitTimeout>>
       \/ ~ config.auto_reconnect /\ reconnect /\ reconnect' = FALSE /\ waitTimeout' = "default"
    /\ UNCHANGED <<settings, run, transport, stopped, disconnect, lock, taskPc, app, counters,
                   history>>

\* client->state is read, and the transport polled, without the lock.
Check(t) ==
    /\ taskPc[t] = "check" /\ Goto(t, IF state = "CONNECTED" THEN "poll" ELSE "loop")
    /\ UNCHANGED <<settings, run, state, transport, waitTimeout, bits, lock, app, counters, history>>

Poll(t) ==
    /\ taskPc[t] = "poll"
    /\ \/ Goto(t, "loop") /\ UNCHANGED <<state, transport, waitTimeout, counters>>
       \/ lock = 0 /\ Goto(t, "loop") /\ AbortConnection /\ Fails
    /\ UNCHANGED <<settings, run, bits, lock, app, history>>

TaskStep(t) ==
    \/ TaskRuns(t) \/ TaskBegins(t) \/ TaskEnds(t)
    \/ ConnectBegins(t) \/ ConnectEnds(t) \/ Serve(t) \/ WaitReconnect(t) \/ Check(t) \/ Poll(t)

LifecycleNext ==
    \/ Start \/ Stop \/ Destroy \/ Disconnect \/ Reconnect \/ ReconnectSet
    \/ \E user \in UserConfigs : SetConfig(user)
    \/ \E t \in Tasks : TaskStep(t)

\* Every task runs and gets the lock; a call that has begun goes on.
LifecycleFairness ==
    /\ \A t \in Tasks : SF_lifecycleVars(TaskStep(t))
    /\ WF_lifecycleVars(ReconnectSet)

LifecycleSpec == LifecycleInit /\ [][LifecycleNext]_lifecycleVars /\ LifecycleFairness

----------------------------------------------------------------------------
(* Properties *)

\* When a stop or destroy has returned, no task is left to use the handle, and the connection
\* is closed - in an application that lets a task begin before it calls again
\* (mqtt_client.c:1927-1958, 923-947).
StoppedMeansEnded ==
    wanted = "down" /\ ~ misused => Alive = {} /\ transport = "closed"

\* The port of a connection is the one that was asked for, or the scheme's own, unless a
\* configuration without a port came after one that had it (mqtt_client.c:454, 1015, 1689).
PortAsAsked ==
    transport = "connecting" /\ ~ portLeft =>
        config.port = IF asked # 0 THEN asked ELSE DefaultPort[config.scheme]

\* A client without auto_reconnect leaves its wait only for a start or a reconnection that no
\* attempt has answered yet: a RECONNECT_BIT left over from an earlier one does not count
\* (mqtt_client.c:1669-1823).
WaitsForInvitation ==
    [][state = "WAIT_RECONNECT" /\ state' = "INIT" /\ ~ config.auto_reconnect /\ ~ misused
           => invited]_lifecycleVars

\* It waits for an invitation, and after one that was accepted it tries to connect or is
\* connected, unless it is stopped or cannot (mqtt_client.c:1669-1823).
ConnectsWhenInvited ==
    /\ WaitsForInvitation
    /\ invited /\ wanted = "up" ~>
           ~ invited \/ state = "CONNECTED" \/ app # "idle" \/ misused \/ wanted = "down" \/ Alive = {}

\* A stop returns, whatever the task was doing (mqtt_client.c:1951), and a request to
\* disconnect is carried out while there is a connection (1731).
EndsWhenAsked ==
    /\ app \in {"stopping", "destroying"} ~> app \in {"idle", "freed"} \/ misused
    /\ state = "CONNECTED" /\ disconnect /\ run ~> state # "CONNECTED" \/ misused
=============================================================================
