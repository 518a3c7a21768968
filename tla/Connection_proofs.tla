-------------------------- MODULE Connection_proofs --------------------------
(***************************************************************************)
(* Proofs about what keeps the device connected, as two parts that do not  *)
(* know each other.  MqttLifecycle, the client handle: for every set of    *)
(* configurations, every table of default ports and every number of        *)
(* starts, calls and failures.  Wifi: for every back-off range and every   *)
(* number of failures.                                                     *)
(***************************************************************************)
EXTENDS MqttLifecycle, Wifi, SequenceTheorems, WellFoundedInduction, TLAPS


----------------------------------------------------------------------------
(* The inductive invariant *)

Schemes ==
    DOMAIN DefaultPort \cup {"none"}
        \cup {user.uri[1].scheme : user \in {u \in UserConfigs : u.uri # <<>>}}

Configs ==
    [scheme : Schemes, port : Nat, uri : BOOLEAN, auto_reconnect : BOOLEAN, refresh : BOOLEAN,
     ok : BOOLEAN]

Places == {"none", "created", "begun", "loop", "connecting", "check", "poll", "ended"}

LifecycleTypeOK ==
    /\ config \in Configs /\ asked \in Nat /\ portLeft \in BOOLEAN
    /\ run \in BOOLEAN /\ state \in {"INIT", "CONNECTED", "WAIT_RECONNECT", "DISCONNECTED"}
    /\ transport \in {"closed", "connecting", "open"} /\ waitTimeout \in {"default", "none"}
    /\ stopped \in BOOLEAN /\ disconnect \in BOOLEAN /\ reconnect \in BOOLEAN
    /\ lock \in Tasks \cup {0} /\ taskPc \in [Tasks -> Places]
    /\ app \in {"idle", "stopping", "reconnecting", "destroying", "freed"}
    /\ starts \in 0 .. MAX_STARTS /\ callsMade \in 0 .. MAX_CALLS
    /\ failures \in 0 .. MAX_FAILURES
    /\ wanted \in {"up", "down"} /\ invited \in BOOLEAN /\ misused \in BOOLEAN

\* An attempt to connect has the lock from its beginning to its end.
LockHeld ==
    /\ \A t \in Tasks : taskPc[t] = "connecting" <=> lock = t
    /\ transport = "connecting" => lock # 0

\* The client that is used as it may be has one task at most, the last one started, without
\* which there is no connection; STOPPED_BIT is set only if that task has ended, or is one
\* that has not cleared it yet; and nothing was stopped that is there.
OneTaskAtMost ==
    /\ \A t \in Tasks : t > starts => taskPc[t] = "none"
    /\ ~ misused => /\ Alive \subseteq {starts}
                    /\ Alive = {} => transport = "closed"
                    /\ stopped => Alive = Unborn
                    /\ wanted = "down" => Alive = {}

\* The port is what was asked for, or none yet, or the default of a scheme that no later
\* configuration changed.
PortKept ==
    /\ ~ config.ok => config = NoConfig
    /\ config.ok /\ ~ portLeft =>
           IF asked # 0 THEN config.port = asked
           ELSE \/ config.port = 0
                \/ /\ config.scheme \in DOMAIN DefaultPort
                   /\ config.port = DefaultPort[config.scheme]
    /\ transport = "connecting" => config.scheme \in DOMAIN DefaultPort /\ config.ok

\* RECONNECT_BIT does not outlive the attempt that answers it, and the start of a task that
\* has yet to begin is not answered.
BitsInvite ==
    /\ reconnect => invited
    /\ ~ misused /\ Unborn # {} => invited

LifecycleInv ==
    LifecycleTypeOK /\ LockHeld /\ OneTaskAtMost /\ PortKept /\ PortAsAsked /\ BitsInvite


----------------------------------------------------------------------------
(* Lemmas *)

LEMMA Bounds ==
    /\ MAX_STARTS \in Nat /\ MAX_CALLS \in Nat /\ MAX_FAILURES \in Nat
    /\ "none" \notin DOMAIN DefaultPort
    /\ \A scheme \in DOMAIN DefaultPort : DefaultPort[scheme] \in Nat
BY MqttLifecycleAssumption

LEMMA UserTypes ==
    ASSUME NEW user \in UserConfigs
    PROVE  /\ user.uri # <<>> => user.uri[1].port \in Nat /\ user.uri[1].scheme \in Schemes
           /\ user.transport \in Schemes /\ user.port \in Nat
           /\ user.good \in BOOLEAN /\ user.ssl \in BOOLEAN /\ user.refresh \in BOOLEAN
           /\ user.disable_auto_reconnect \in BOOLEAN
           /\ AskedPort(user) \in Nat
<1>1. UserConfig(user)
  BY MqttLifecycleAssumption
<1>2. user.good \in BOOLEAN /\ user.ssl \in BOOLEAN /\ user.refresh \in BOOLEAN
      /\ user.disable_auto_reconnect \in BOOLEAN
  BY <1>1 DEF UserConfig
<1>3. /\ user.uri # <<>> => user.uri[1].port \in Nat
      /\ user.transport \in DOMAIN DefaultPort \cup {"none"} /\ user.port \in Nat
  BY <1>1 DEF UserConfig
<1>4. user.uri # <<>> => user.uri[1].scheme \in Schemes
  BY DEF Schemes
<1>5. user.transport \in Schemes
  BY <1>3 DEF Schemes
<1>6. AskedPort(user) \in Nat
  BY <1>3 DEF AskedPort
<1>7. QED BY <1>2, <1>3, <1>4, <1>5, <1>6

LEMMA BlankConfigs ==
    /\ NoConfig \in Configs /\ NewConfig \in Configs
    /\ NoConfig.port = 0 /\ NewConfig.port = 0 /\ ~ NoConfig.ok /\ NewConfig.ok
    /\ NoConfig.scheme = "none"
BY DEF NoConfig, NewConfig, Configs, Schemes

\* What a configuration makes of an older one: one that can be parsed keeps the older port
\* exactly if it asks for none, and one that cannot leaves nothing.
LEMMA ConfigSet ==
    ASSUME NEW user \in UserConfigs, NEW old \in Configs, old.ok
    PROVE  LET new == esp_mqtt_set_config(old, user)
           IN  /\ new \in Configs
               /\ user.good => /\ new.ok
                               /\ new.port = IF AskedPort(user) # 0 THEN AskedPort(user)
                                             ELSE old.port
               /\ ~ user.good => new = NoConfig
<1> DEFINE scheme == IF user.transport # "none" THEN user.transport ELSE old.scheme
           port == IF user.port # 0 THEN user.port ELSE old.port
           elements ==
               [old EXCEPT !.port = IF user.port # 0 THEN user.port ELSE @,
                           !.scheme = IF user.transport # "none" THEN user.transport ELSE @,
                           !.uri = @ \/ user.uri # <<>>,
                           !.auto_reconnect = ~ user.disable_auto_reconnect,
                           !.refresh = @ \/ user.refresh]
           new == esp_mqtt_set_config(old, user)
<1>1. /\ user.uri # <<>> => user.uri[1].port \in Nat /\ user.uri[1].scheme \in Schemes
      /\ user.transport \in Schemes /\ user.port \in Nat /\ user.good \in BOOLEAN
      /\ user.disable_auto_reconnect \in BOOLEAN /\ user.refresh \in BOOLEAN
  BY UserTypes
<1>2. elements \in Configs /\ elements.ok /\ elements.port = port
  BY <1>1, ZenonT(60) DEF Configs
<1>3. CASE ~ user.good
  <2>1. new = NoConfig
    BY <1>3 DEF esp_mqtt_set_config
  <2>2. QED BY <1>3, <2>1, BlankConfigs
<1>4. CASE user.good /\ user.uri # <<>>
  <2>1. new = [elements EXCEPT !.scheme = user.uri[1].scheme,
                               !.port = IF user.uri[1].port # 0 THEN user.uri[1].port ELSE @]
    BY <1>4 DEF esp_mqtt_set_config, esp_mqtt_client_set_uri
  <2> HIDE DEF elements, new
  <2>2. new \in Configs /\ new.ok
        /\ new.port = IF user.uri[1].port # 0 THEN user.uri[1].port ELSE port
    BY <1>1, <1>2, <1>4, <2>1 DEF Configs
  <2>3. QED BY <1>4, <2>2 DEF AskedPort, new
<1>5. CASE user.good /\ user.uri = <<>>
  <2>1. new = elements
    BY <1>5 DEF esp_mqtt_set_config
  <2>2. AskedPort(user) = user.port
    BY <1>5 DEF AskedPort
  <2>3. QED BY <1>2, <1>5, <2>1, <2>2
<1>6. QED BY <1>1, <1>3, <1>4, <1>5

LEMMA AliveHere ==
    ASSUME NEW t \in Tasks, taskPc[t] \notin {"none", "ended"}
    PROVE  t \in Alive /\ Alive # {}
BY DEF Alive

\* A task that is past its beginning is the only one, and no stop has returned.
LEMMA TaskInForce ==
    ASSUME OneTaskAtMost, NEW t \in Tasks, ~ misused,
           taskPc[t] \notin {"none", "created", "begun", "ended"}
    PROVE  Alive = {t} /\ t = starts /\ Unborn = {} /\ ~ stopped /\ wanted # "down"
<1>1. t \in Alive
  BY DEF Alive
<1>2. Alive = {t} /\ t = starts
  BY <1>1 DEF OneTaskAtMost
<1>3. t \notin Unborn
  BY DEF Unborn
<1>4. Unborn \subseteq Alive
  BY DEF Unborn, Alive
<1>5. QED BY <1>1, <1>2, <1>3, <1>4 DEF OneTaskAtMost

----------------------------------------------------------------------------
(* Types, the lock and the port *)

LEMMA InitHolds == LifecycleInit => LifecycleInv
<1> SUFFICES ASSUME LifecycleInit PROVE LifecycleInv
  OBVIOUS
<1>1. PICK user \in UserConfigs :
          /\ user.good
          /\ config = esp_mqtt_set_config(NewConfig, user)
          /\ asked = AskedPort(user)
  BY DEF LifecycleInit
<1>2. /\ config \in Configs /\ config.ok
      /\ config.port = IF asked # 0 THEN asked ELSE 0
  BY <1>1, ConfigSet, BlankConfigs
<1>3. asked \in Nat
  BY <1>1, UserTypes
<1>4. LifecycleTypeOK
  <2>1. taskPc \in [Tasks -> Places]
    BY DEF LifecycleInit, Places
  <2>2. 0 \in 0 .. MAX_STARTS /\ 0 \in 0 .. MAX_CALLS /\ 0 \in 0 .. MAX_FAILURES
    BY Bounds
  <2>3. QED BY <1>2, <1>3, <2>1, <2>2 DEF LifecycleInit, LifecycleTypeOK
<1>5. LockHeld
  BY DEF LifecycleInit, LockHeld, Tasks
<1>6. OneTaskAtMost
  BY DEF LifecycleInit, OneTaskAtMost, Alive, Unborn
<1>7. PortKept /\ PortAsAsked
  BY <1>2 DEF LifecycleInit, PortKept, PortAsAsked
<1>8. BitsInvite
  BY DEF LifecycleInit, BitsInvite, Unborn
<1>9. QED BY <1>4, <1>5, <1>6, <1>7, <1>8 DEF LifecycleInv

\* The settings that SetConfig leaves.
LEMMA SetConfigKeeps ==
    ASSUME LifecycleTypeOK, LockHeld, PortKept, NEW user \in UserConfigs, SetConfig(user)
    PROVE  /\ config' \in Configs /\ asked' \in Nat /\ portLeft' \in BOOLEAN
           /\ PortKept' /\ PortAsAsked'
<1> DEFINE old == IF config.ok THEN config ELSE NewConfig
<1>1. old \in Configs /\ old.ok /\ (old.port = config.port \/ old.port = 0)
  BY BlankConfigs DEF LifecycleTypeOK
<1>2. /\ config' = esp_mqtt_set_config(old, user)
      /\ asked' = AskedPort(user)
      /\ portLeft' = (portLeft \/ (AskedPort(user) = 0 /\ config.port # 0))
      /\ transport' = transport /\ lock = 0
  BY DEF SetConfig
<1> HIDE DEF old
<1>3. /\ config' \in Configs
      /\ user.good => /\ config'.ok
                      /\ config'.port = IF asked' # 0 THEN asked' ELSE old.port
      /\ ~ user.good => config' = NoConfig
  BY <1>1, <1>2, ConfigSet
<1>4. asked' \in Nat /\ portLeft' \in BOOLEAN /\ user.good \in BOOLEAN
  BY <1>2, UserTypes DEF LifecycleTypeOK
<1>5. transport' # "connecting"
  BY <1>2 DEF LockHeld
<1>6. PortKept'
  BY <1>1, <1>2, <1>3, <1>4, <1>5, BlankConfigs DEF PortKept
<1>7. PortAsAsked'
  BY <1>5 DEF PortAsAsked
<1>8. QED BY <1>3, <1>4, <1>6, <1>7


LEMMA TypesKept == LifecycleTypeOK /\ LockHeld /\ PortKept /\ [LifecycleNext]_lifecycleVars
                       => LifecycleTypeOK'
<1> SUFFICES ASSUME LifecycleTypeOK, LockHeld, PortKept, [LifecycleNext]_lifecycleVars
             PROVE  LifecycleTypeOK'
  OBVIOUS
<1> USE DEF lifecycleVars, settings, bits, counters, history
<1>1. CASE UNCHANGED lifecycleVars
  BY <1>1 DEF LifecycleTypeOK
<1>2. CASE Start
  <2>1. starts + 1 \in Tasks /\ starts' \in 0 .. MAX_STARTS
    BY <1>2, Bounds DEF Start, LifecycleTypeOK, Tasks
  <2>2. taskPc' \in [Tasks -> Places]
    BY <1>2, <2>1 DEF Start, LifecycleTypeOK, Places
  <2>3. misused' \in BOOLEAN
    BY <1>2 DEF Start, LifecycleTypeOK
  <2>4. QED BY <1>2, <2>1, <2>2, <2>3 DEF Start, LifecycleTypeOK
<1>3. ASSUME Calls PROVE callsMade' \in 0 .. MAX_CALLS /\ starts' = starts /\ failures' = failures
  BY <1>3, Bounds DEF Calls, LifecycleTypeOK
<1>4. CASE Stop
  <2>1. misused' \in BOOLEAN
    BY <1>4 DEF Stop, Misuse, LifecycleTypeOK
  <2>2. QED BY <1>3, <1>4, <2>1 DEF Stop, LifecycleTypeOK
<1>5. CASE Destroy
  <2>1. misused' \in BOOLEAN
    BY <1>5 DEF Destroy, LifecycleTypeOK
  <2>2. QED BY <1>3, <1>5, <2>1, ZenonT(60) DEF Destroy, LifecycleTypeOK
<1>6. CASE Disconnect
  BY <1>3, <1>6 DEF Disconnect, LifecycleTypeOK
<1>7. CASE Reconnect
  BY <1>3, <1>7 DEF Reconnect, LifecycleTypeOK
<1>8. CASE ReconnectSet
  BY <1>8 DEF ReconnectSet, LifecycleTypeOK
<1>9. ASSUME NEW user \in UserConfigs, SetConfig(user) PROVE LifecycleTypeOK'
  <2>1. misused' \in BOOLEAN
    BY <1>9, UserTypes DEF SetConfig, LifecycleTypeOK
  <2>2. QED BY <1>3, <1>9, <2>1, SetConfigKeeps DEF SetConfig, LifecycleTypeOK
<1>10. ASSUME NEW t \in Tasks, TaskStep(t) PROVE LifecycleTypeOK'
  <2>1. ASSUME NEW place \in Places, Goto(t, place) PROVE taskPc' \in [Tasks -> Places]
    BY <2>1 DEF Goto, LifecycleTypeOK
  <2>2. Places = {"none", "created", "begun", "loop", "connecting", "check", "poll", "ended"}
    BY DEF Places
  <2>3. ASSUME Fails
        PROVE  failures' \in 0 .. MAX_FAILURES /\ starts' = starts /\ callsMade' = callsMade
    BY <2>3, Bounds DEF Fails, LifecycleTypeOK
  <2>4. CASE TaskRuns(t)
    BY <2>1, <2>2, <2>4 DEF TaskRuns, LifecycleTypeOK
  <2>5. CASE TaskBegins(t)
    <3>1. taskPc' \in [Tasks -> Places]
      BY <2>1, <2>2, <2>5 DEF TaskBegins
    <3>2. /\ state' \in {"INIT", "CONNECTED", "WAIT_RECONNECT", "DISCONNECTED"}
          /\ stopped' \in BOOLEAN
      BY <2>5 DEF TaskBegins
    <3>3. UNCHANGED <<settings, run, transport, waitTimeout, disconnect, reconnect, lock, app,
                      counters, history>>
      BY <2>5 DEF TaskBegins
    <3>4. QED BY <3>1, <3>2, <3>3 DEF LifecycleTypeOK
  <2>6. CASE TaskEnds(t)
    <3>1. app' \in {"idle", "stopping", "reconnecting", "destroying", "freed"}
      BY <2>6 DEF TaskEnds, LifecycleTypeOK
    <3>2. wanted' \in {"up", "down"}
      BY <2>6 DEF TaskEnds, LifecycleTypeOK
    <3>3. QED BY <2>1, <2>2, <2>6, <3>1, <3>2 DEF TaskEnds, LifecycleTypeOK
  <2>7. CASE ConnectBegins(t)
    <3>1. CASE config.scheme \in DOMAIN DefaultPort
      <4>1. config' \in Configs
        BY <2>7, <3>1, Bounds DEF ConnectBegins, LifecycleTypeOK, Configs
      <4>2. QED BY <2>1, <2>2, <2>7, <3>1, <4>1 DEF ConnectBegins, LifecycleTypeOK
    <3>2. CASE config.scheme \notin DOMAIN DefaultPort
      BY <2>7, <3>2, ZenonT(60) DEF ConnectBegins, LifecycleTypeOK
    <3>3. QED BY <3>1, <3>2
  <2>8. CASE ConnectEnds(t)
    BY <2>1, <2>2, <2>3, <2>8 DEF ConnectEnds, AbortConnection, LifecycleTypeOK
  <2>9. CASE Serve(t)
    <3>1. taskPc' \in [Tasks -> Places]
      BY <2>1, <2>2, <2>9 DEF Serve
    <3>2. /\ failures' \in 0 .. MAX_FAILURES /\ starts' \in 0 .. MAX_STARTS
          /\ callsMade' \in 0 .. MAX_CALLS
      BY <2>3, <2>9 DEF Serve, LifecycleTypeOK
    <3>3. /\ state' \in {"INIT", "CONNECTED", "WAIT_RECONNECT", "DISCONNECTED"}
          /\ transport' \in {"closed", "connecting", "open"}
          /\ waitTimeout' \in {"default", "none"}
      BY <2>9 DEF Serve, AbortConnection, LifecycleTypeOK
    <3>4. QED BY <2>9, <3>1, <3>2, <3>3 DEF Serve, LifecycleTypeOK
  <2>10. CASE WaitReconnect(t)
    <3>1. reconnect' \in BOOLEAN /\ waitTimeout' \in {"default", "none"}
      BY <2>10 DEF WaitReconnect, LifecycleTypeOK
    <3>2. QED BY <2>10, <3>1 DEF WaitReconnect, LifecycleTypeOK
  <2>11. CASE Check(t)
    BY <2>1, <2>2, <2>11 DEF Check, LifecycleTypeOK
  <2>12. CASE Poll(t)
    BY <2>1, <2>2, <2>3, <2>12 DEF Poll, AbortConnection, LifecycleTypeOK
  <2>13. QED BY <1>10, <2>4, <2>5, <2>6, <2>7, <2>8, <2>9, <2>10, <2>11, <2>12 DEF TaskStep
<1>11. QED
  BY <1>1, <1>2, <1>4, <1>5, <1>6, <1>7, <1>8, <1>9, <1>10 DEF LifecycleNext

LEMMA LockKept ==
    LifecycleTypeOK /\ LockHeld /\ OneTaskAtMost /\ [LifecycleNext]_lifecycleVars => LockHeld'
<1> SUFFICES ASSUME LifecycleTypeOK, LockHeld, OneTaskAtMost, [LifecycleNext]_lifecycleVars
             PROVE  LockHeld'
  OBVIOUS
<1> USE DEF lifecycleVars
<1>1. 0 \notin Tasks
  BY DEF Tasks
<1>2. CASE UNCHANGED <<lock, taskPc, transport>>
  BY <1>2 DEF LockHeld
<1>3. CASE Start
  <2>1. /\ starts + 1 \in Tasks
        /\ taskPc[starts + 1] = "none"
    BY <1>3, Bounds DEF Start, LifecycleTypeOK, OneTaskAtMost, Tasks
  <2>2. /\ taskPc' = [taskPc EXCEPT ![starts + 1] = "created"]
        /\ lock' = lock /\ transport' = transport
    BY <1>3 DEF Start
  <2>3. QED BY <2>1, <2>2 DEF LockHeld, LifecycleTypeOK
<1>4. ASSUME NEW t \in Tasks, TaskStep(t), ~ UNCHANGED <<lock, taskPc, transport>> PROVE LockHeld'
  <2>1. ASSUME NEW place \in {"begun", "loop", "check", "poll", "ended"}, Goto(t, place),
               taskPc[t] # "connecting", lock' = lock,
               transport' \in {transport, "closed"}
        PROVE  LockHeld'
    BY <2>1 DEF Goto, LockHeld, LifecycleTypeOK
  <2>2. CASE TaskRuns(t)
    BY <2>1, <2>2 DEF TaskRuns
  <2>3. CASE TaskBegins(t)
    BY <2>1, <2>3 DEF TaskBegins
  <2>4. CASE TaskEnds(t)
    BY <2>1, <2>4 DEF TaskEnds
  <2>5. CASE ConnectBegins(t)
    BY <1>1, <1>4, <2>5, ZenonT(60) DEF ConnectBegins, Iterates, Goto, LockHeld, LifecycleTypeOK
  <2>6. CASE ConnectEnds(t)
    <3>1. transport' # "connecting"
      BY <2>6 DEF ConnectEnds, AbortConnection
    <3>2. QED BY <1>1, <2>6, <3>1 DEF ConnectEnds, Goto, LockHeld, LifecycleTypeOK
  <2>7. CASE Serve(t)
    BY <2>1, <2>7 DEF Serve, AbortConnection, Iterates
  <2>8. CASE WaitReconnect(t)
    BY <1>4, <2>8 DEF WaitReconnect
  <2>9. CASE Check(t)
    BY <2>1, <2>9 DEF Check
  <2>10. CASE Poll(t)
    BY <2>1, <2>10 DEF Poll, AbortConnection
  <2>11. QED BY <1>4, <2>2, <2>3, <2>4, <2>5, <2>6, <2>7, <2>8, <2>9, <2>10 DEF TaskStep
<1>5. ASSUME Stop \/ Destroy \/ Disconnect \/ Reconnect \/ ReconnectSet
             \/ \E user \in UserConfigs : SetConfig(user)
      PROVE  UNCHANGED <<lock, taskPc, transport>>
  BY <1>5 DEF Stop, Destroy, Disconnect, Reconnect, ReconnectSet, SetConfig
<1>6. QED BY <1>2, <1>3, <1>4, <1>5 DEF LifecycleNext

LEMMA PortsKept == LifecycleTypeOK /\ LockHeld /\ PortKept /\ PortAsAsked
                       /\ [LifecycleNext]_lifecycleVars => PortKept' /\ PortAsAsked'
<1> SUFFICES ASSUME LifecycleTypeOK, LockHeld, PortKept, PortAsAsked,
                    [LifecycleNext]_lifecycleVars
             PROVE  PortKept' /\ PortAsAsked'
  OBVIOUS
<1> USE DEF lifecycleVars, settings
<1>1. ASSUME UNCHANGED <<config, asked, portLeft>>, transport' \in {transport, "closed", "open"}
      PROVE  PortKept' /\ PortAsAsked'
  BY <1>1 DEF PortKept, PortAsAsked
<1>2. ASSUME NEW user \in UserConfigs, SetConfig(user) PROVE PortKept' /\ PortAsAsked'
  BY <1>2, SetConfigKeeps
<1>3. ASSUME NEW t \in Tasks, TaskStep(t) PROVE PortKept' /\ PortAsAsked'
  <2>1. CASE ConnectBegins(t) /\ config.scheme \in DOMAIN DefaultPort
    <3>1. config.ok
      BY <2>1, BlankConfigs, Bounds DEF PortKept
    <3>2. /\ config' = [config EXCEPT !.port = IF config.port = 0
                                               THEN DefaultPort[config.scheme] ELSE config.port]
          /\ asked' = asked /\ portLeft' = portLeft
      BY <2>1 DEF ConnectBegins
    <3>3. /\ config'.scheme = config.scheme /\ config'.ok
          /\ config'.port = IF config.port = 0 THEN DefaultPort[config.scheme] ELSE config.port
      BY <3>1, <3>2 DEF LifecycleTypeOK, Configs
    <3>4. QED BY <2>1, <3>1, <3>2, <3>3 DEF PortKept, PortAsAsked
  <2>2. CASE ConnectBegins(t) /\ config.scheme \notin DOMAIN DefaultPort
    BY <1>1, <2>2 DEF ConnectBegins
  <2>3. CASE ~ ConnectBegins(t)
    BY <1>1, <1>3, <2>3 DEF TaskStep, TaskRuns, TaskBegins, TaskEnds, ConnectEnds, Serve,
       WaitReconnect, Check, Poll, AbortConnection
  <2>4. QED BY <2>1, <2>2, <2>3
<1>4. ASSUME UNCHANGED lifecycleVars \/ Start \/ Stop \/ Destroy \/ Disconnect \/ Reconnect
             \/ ReconnectSet
      PROVE  PortKept' /\ PortAsAsked'
  BY <1>1, <1>4 DEF Start, Stop, Destroy, Disconnect, Reconnect, ReconnectSet
<1>5. QED BY <1>2, <1>3, <1>4 DEF LifecycleNext


----------------------------------------------------------------------------
(* One task at most *)

LEMMA TasksKept == LifecycleTypeOK /\ OneTaskAtMost /\ [LifecycleNext]_lifecycleVars
                       => OneTaskAtMost'
<1> SUFFICES ASSUME LifecycleTypeOK, OneTaskAtMost, [LifecycleNext]_lifecycleVars
             PROVE  OneTaskAtMost'
  OBVIOUS
<1> USE DEF lifecycleVars, bits, counters, history
<1>1. ASSUME UNCHANGED <<taskPc, starts, transport, stopped, wanted>>, misused => misused'
      PROVE  OneTaskAtMost'
  BY <1>1 DEF OneTaskAtMost, Alive, Unborn
<1>2. CASE UNCHANGED lifecycleVars \/ Disconnect \/ Reconnect \/ ReconnectSet
            \/ \E user \in UserConfigs : SetConfig(user)
  <2>1. UNCHANGED <<taskPc, starts, transport, stopped, wanted>>
    BY <1>2 DEF Disconnect, Reconnect, ReconnectSet, SetConfig, Calls
  <2>2. misused => misused'
    BY <1>2 DEF Disconnect, Reconnect, ReconnectSet, SetConfig
  <2>3. QED BY <1>1, <2>1, <2>2
<1>3. CASE Start
  <2>1. starts \in Nat /\ starts + 1 \in Tasks /\ starts' = starts + 1
    BY <1>3, Bounds DEF Start, LifecycleTypeOK, Tasks
  <2>2. /\ taskPc' = [taskPc EXCEPT ![starts + 1] = "created"]
        /\ taskPc \in [Tasks -> Places]
        /\ transport' = transport /\ wanted' = "up"
        /\ misused' = (misused \/ Alive # {})
    BY <1>3 DEF Start, LifecycleTypeOK
  <2>3. \A t \in Tasks : t > starts' => taskPc'[t] = "none"
    BY <2>1, <2>2 DEF OneTaskAtMost, Tasks
  <2>4. ASSUME ~ misused' PROVE Alive' = {starts'} /\ Unborn' = {starts'}
    <3>1. \A t \in Tasks : taskPc[t] \in {"none", "ended"}
      BY <2>2, <2>4 DEF Alive
    <3>2. \A t \in Tasks \ {starts + 1} : taskPc'[t] = taskPc[t]
      BY <2>2
    <3>3. taskPc'[starts + 1] = "created"
      BY <2>1, <2>2
    <3>4. QED BY <2>1, <3>1, <3>2, <3>3 DEF Alive, Unborn
  <2>5. QED BY <2>2, <2>3, <2>4 DEF OneTaskAtMost
<1>4. ASSUME Stop \/ Destroy PROVE OneTaskAtMost'
  <2>1. /\ taskPc' = taskPc /\ starts' = starts /\ transport' = transport /\ stopped' = stopped
        /\ misused => misused'
    BY <1>4 DEF Stop, Destroy, Calls, Misuse
  <2>2. Alive' = Alive /\ Unborn' = Unborn
    BY <2>1 DEF Alive, Unborn
  <2>3. ASSUME ~ misused', wanted' # wanted PROVE Alive = {}
    <3>1. CASE Stop
      <4>1. stopped /\ Unborn = {}
        BY <2>3, <3>1 DEF Stop, Misuse
      <4>2. QED BY <2>1, <2>3, <4>1 DEF OneTaskAtMost
    <3>2. CASE Destroy /\ run
      <4>1. stopped /\ Unborn = {}
        BY <2>3, <3>2 DEF Destroy
      <4>2. QED BY <2>1, <2>3, <4>1 DEF OneTaskAtMost
    <3>3. CASE Destroy /\ ~ run
      BY <2>3, <3>3 DEF Destroy
    <3>4. QED BY <1>4, <3>1, <3>2, <3>3
  <2>4. QED BY <2>1, <2>2, <2>3 DEF OneTaskAtMost
<1>5. ASSUME NEW t \in Tasks, TaskStep(t) PROVE OneTaskAtMost'
  <2>1. CASE WaitReconnect(t)
    BY <1>1, <2>1 DEF WaitReconnect
  <2>2. CASE ConnectBegins(t) /\ config.scheme \notin DOMAIN DefaultPort
    BY <1>1, <2>2 DEF ConnectBegins
  <2>3. CASE \/ ConnectBegins(t) /\ config.scheme \in DOMAIN DefaultPort
             \/ ConnectEnds(t) \/ Serve(t) \/ Check(t) \/ Poll(t)
    <3>1. /\ UNCHANGED <<starts, stopped, wanted, misused>>
          /\ taskPc[t] \notin {"none", "created", "begun", "ended"}
      BY <2>3 DEF ConnectBegins, ConnectEnds, Serve, Check, Poll, Iterates, Fails
    <3>2. PICK place \in {"loop", "connecting", "check", "poll"} : Goto(t, place)
      BY <2>3 DEF ConnectBegins, ConnectEnds, Serve, Check, Poll
    <3>3. taskPc' = [taskPc EXCEPT ![t] = place] /\ taskPc \in [Tasks -> Places]
      BY <3>2 DEF Goto, LifecycleTypeOK
    <3>4. Alive' = Alive /\ Unborn' = Unborn /\ t \in Alive
      BY <3>1, <3>3 DEF Alive, Unborn
    <3>5. \A u \in Tasks : u > starts' => taskPc'[u] = "none"
      BY <3>1, <3>3 DEF OneTaskAtMost
    <3>6. QED BY <3>1, <3>4, <3>5 DEF OneTaskAtMost
  <2>4. CASE TaskRuns(t)
    <3>1. /\ UNCHANGED <<starts, stopped, wanted, misused, transport>>
          /\ taskPc[t] = "created" /\ taskPc' = [taskPc EXCEPT ![t] = "begun"]
          /\ taskPc \in [Tasks -> Places]
      BY <2>4 DEF TaskRuns, Goto, LifecycleTypeOK
    <3>2. Alive' = Alive /\ Unborn' = Unborn
      BY <3>1 DEF Alive, Unborn
    <3>3. QED BY <3>1, <3>2 DEF OneTaskAtMost
  <2>5. CASE TaskBegins(t)
    <3>1. /\ UNCHANGED <<starts, wanted, misused, transport>> /\ stopped' = FALSE
          /\ taskPc[t] = "begun" /\ taskPc' = [taskPc EXCEPT ![t] = "loop"]
          /\ taskPc \in [Tasks -> Places]
      BY <2>5 DEF TaskBegins, Goto, LifecycleTypeOK
    <3>2. Alive' = Alive
      BY <3>1 DEF Alive
    <3>3. QED BY <3>1, <3>2 DEF OneTaskAtMost
  <2>6. CASE TaskEnds(t)
    <3>1. /\ UNCHANGED <<starts, misused>> /\ transport' = "closed"
          /\ taskPc[t] = "loop" /\ taskPc' = [taskPc EXCEPT ![t] = "ended"]
          /\ taskPc \in [Tasks -> Places]
      BY <2>6 DEF TaskEnds, Goto, LifecycleTypeOK
    <3>2. ASSUME ~ misused PROVE Alive' = {} /\ Unborn' = {}
      <4>1. Alive = {t}
        BY <3>1, <3>2, TaskInForce
      <4>2. \A u \in Tasks \ {t} : taskPc'[u] = taskPc[u] /\ taskPc[u] \in {"none", "ended"}
        BY <3>1, <4>1 DEF Alive
      <4>3. taskPc'[t] = "ended"
        BY <3>1
      <4>4. QED BY <4>2, <4>3 DEF Alive, Unborn
    <3>3. \A u \in Tasks : u > starts' => taskPc'[u] = "none"
      BY <3>1 DEF OneTaskAtMost
    <3>4. QED BY <3>1, <3>2, <3>3 DEF OneTaskAtMost
  <2>7. QED BY <1>5, <2>1, <2>2, <2>3, <2>4, <2>5, <2>6 DEF TaskStep
<1>6. QED BY <1>2, <1>3, <1>4, <1>5 DEF LifecycleNext

LEMMA InvitationsKept ==
    LifecycleTypeOK /\ OneTaskAtMost /\ BitsInvite /\ [LifecycleNext]_lifecycleVars => BitsInvite'
<1> SUFFICES ASSUME LifecycleTypeOK, OneTaskAtMost, BitsInvite, [LifecycleNext]_lifecycleVars
             PROVE  BitsInvite'
  OBVIOUS
<1> USE DEF lifecycleVars, bits, counters, history
<1>1. ASSUME Unborn' \subseteq Unborn, misused => misused', invited' = invited,
             reconnect' => reconnect
      PROVE  BitsInvite'
  BY <1>1 DEF BitsInvite
<1>2. CASE UNCHANGED taskPc /\ ~ Start /\ ~ ReconnectSet
  <2>1. Unborn' = Unborn
    BY <1>2 DEF Unborn
  <2>2. CASE \E t \in Tasks : ConnectBegins(t)
    <3>1. /\ invited' = invited \/ invited' = FALSE
          /\ reconnect' = FALSE /\ misused' = misused
      BY <2>2 DEF ConnectBegins
    <3>2. PICK t \in Tasks : ConnectBegins(t)
      BY <2>2
    <3>3. taskPc[t] = "loop"
      BY <3>2 DEF ConnectBegins, Iterates
    <3>4. ~ misused => Unborn = {}
      BY <3>3, TaskInForce
    <3>5. QED BY <2>1, <3>1, <3>4 DEF BitsInvite
  <2>3. CASE ~ \E t \in Tasks : ConnectBegins(t)
    <3>1. invited' = invited
      BY <1>2, <2>3 DEF LifecycleNext, Stop, Destroy, Disconnect, Reconnect, SetConfig, TaskStep,
         TaskRuns, TaskBegins, TaskEnds, ConnectEnds, Serve, WaitReconnect, Check, Poll
    <3>2. reconnect' => reconnect
      BY <1>2, <2>3 DEF LifecycleNext, Stop, Destroy, Disconnect, Reconnect, SetConfig, TaskStep,
         TaskRuns, TaskBegins, TaskEnds, ConnectEnds, Serve, WaitReconnect, Check, Poll
    <3>3. misused => misused'
      BY <1>2, <2>3 DEF LifecycleNext, Stop, Destroy, Disconnect, Reconnect, SetConfig, TaskStep,
         TaskRuns, TaskBegins, TaskEnds, ConnectEnds, Serve, WaitReconnect, Check, Poll, Misuse
    <3>4. QED BY <1>1, <2>1, <3>1, <3>2, <3>3
  <2>4. QED BY <2>2, <2>3
<1>3. CASE Start \/ ReconnectSet
  BY <1>3 DEF Start, ReconnectSet, BitsInvite
<1>4. ASSUME NEW t \in Tasks, TaskStep(t), ~ UNCHANGED taskPc PROVE BitsInvite'
  <2>1. PICK place \in Places :
            taskPc' = [taskPc EXCEPT ![t] = place] /\ (place = "begun" => taskPc[t] = "created")
            /\ place # "created"
    BY <1>4 DEF TaskStep, TaskRuns, TaskBegins, TaskEnds, ConnectBegins, ConnectEnds, Serve,
       WaitReconnect, Check, Poll, Goto, Places
  <2>2. Unborn' \subseteq Unborn
    BY <2>1 DEF Unborn, LifecycleTypeOK
  <2>3. misused' = misused
    BY <1>4 DEF TaskStep, TaskRuns, TaskBegins, TaskEnds, ConnectBegins, ConnectEnds, Serve,
       WaitReconnect, Check, Poll
  <2>4. CASE ConnectBegins(t)
    <3>1. taskPc[t] = "loop" /\ reconnect' = FALSE
      BY <2>4 DEF ConnectBegins, Iterates
    <3>2. ~ misused => Unborn = {}
      BY <3>1, TaskInForce
    <3>3. QED BY <2>2, <2>3, <3>1, <3>2 DEF BitsInvite
  <2>5. CASE ~ ConnectBegins(t)
    <3>1. invited' = invited
      BY <1>4, <2>5 DEF TaskStep, TaskRuns, TaskBegins, TaskEnds, ConnectEnds, Serve,
         WaitReconnect, Check, Poll
    <3>2. reconnect' => reconnect
      BY <1>4, <2>5 DEF TaskStep, TaskRuns, TaskBegins, TaskEnds, ConnectEnds, Serve,
         WaitReconnect, Check, Poll
    <3>3. QED BY <1>1, <2>2, <2>3, <3>1, <3>2
  <2>6. QED BY <2>4, <2>5
<1>5. ASSUME LifecycleNext, ~ UNCHANGED taskPc
      PROVE  Start \/ \E t \in Tasks : TaskStep(t)
  BY <1>5 DEF LifecycleNext, Stop, Destroy, Disconnect, Reconnect, ReconnectSet, SetConfig
<1>6. QED BY <1>2, <1>3, <1>4, <1>5

----------------------------------------------------------------------------
(* Theorems *)

\* Every variable of the handle keeps its type, the lock covers the attempts to connect, and a
\* handle that is used as it may be has one task at most (mqtt_client.c:1886-1958).
THEOREM LifecycleInductiveInvariant == LifecycleSpec => []LifecycleInv
<1>1. LifecycleInit => LifecycleInv
  BY InitHolds
<1>2. LifecycleInv /\ [LifecycleNext]_lifecycleVars => LifecycleInv'
  BY TypesKept, LockKept, PortsKept, TasksKept, InvitationsKept DEF LifecycleInv
<1>3. QED BY <1>1, <1>2, PTL DEF LifecycleSpec

\* When a stop or a destroy has returned, no task uses the handle and its connection is
\* closed, for every number of starts and calls and every interleaving of them with the tasks
\* (mqtt_client.c:923-947, 1927-1958).
THEOREM StoppedHasEnded == LifecycleSpec => []StoppedMeansEnded
<1>1. LifecycleInv => StoppedMeansEnded
  BY DEF LifecycleInv, OneTaskAtMost, StoppedMeansEnded
<1>2. QED BY <1>1, LifecycleInductiveInvariant, PTL

\* A connection is made to the port that was asked for, or the scheme's own, whatever the
\* sequence of configurations, as long as none without a port follows one that had it
\* (mqtt_client.c:454-638, 999-1023, 1689-1696).
THEOREM PortIsAsAsked == LifecycleSpec => []PortAsAsked
<1>1. LifecycleInv => PortAsAsked
  BY DEF LifecycleInv
<1>2. QED BY <1>1, LifecycleInductiveInvariant, PTL


\* A client without auto_reconnect never connects again on its own: it leaves its wait only
\* for a start or a reconnection that no attempt has answered (mqtt_client.c:1669-1823).
THEOREM NoUninvitedAttempt == LifecycleSpec => WaitsForInvitation
<1> DEFINE Invited == state = "WAIT_RECONNECT" /\ state' = "INIT" /\ ~ config.auto_reconnect
                          /\ ~ misused => invited
<1>1. LifecycleInv /\ [LifecycleNext]_lifecycleVars => Invited
  <2> SUFFICES ASSUME LifecycleInv, [LifecycleNext]_lifecycleVars, state = "WAIT_RECONNECT",
                      state' = "INIT", ~ config.auto_reconnect, ~ misused
               PROVE  invited
    OBVIOUS
  <2>1. PICK t \in Tasks : TaskStep(t)
    BY DEF LifecycleNext, lifecycleVars, Start, Stop, Destroy, Disconnect, Reconnect,
       ReconnectSet, SetConfig
  <2>2. TaskBegins(t) \/ WaitReconnect(t)
    BY <2>1 DEF TaskStep, TaskRuns, TaskEnds, ConnectBegins, ConnectEnds, Serve, Check, Poll,
       AbortConnection
  <2>3. CASE TaskBegins(t)
    <3>1. t \in Unborn
      BY <2>3 DEF TaskBegins, Unborn
    <3>2. QED BY <3>1 DEF LifecycleInv, BitsInvite
  <2>4. CASE WaitReconnect(t)
    BY <2>4 DEF WaitReconnect, LifecycleInv, BitsInvite
  <2>5. QED BY <2>2, <2>3, <2>4
<1>2. LifecycleSpec => []LifecycleInv /\ [][LifecycleNext]_lifecycleVars
  BY LifecycleInductiveInvariant, PTL DEF LifecycleSpec
<1>3. QED BY <1>1, <1>2, PTL DEF WaitsForInvitation

----------------------------------------------------------------------------
(***************************************************************************)
(* Wifi.  One inductive invariant carries its theorems: whatever keeps the *)
(* station going exists once, the last event in the queue agrees with the  *)
(* link, and the delay was doubled once for each failure.                  *)
(***************************************************************************)
USE WifiAssumption

Starting == boot \in {"create", "register", "start"}

\* Before esp_wifi_start nothing moves; nothing is posted before there is a handler.
BootInv ==
    /\ Starting => sta = "off" /\ events = <<>> /\ ~armed /\ ~firing /\ ~lateLease /\ ~bit
    /\ ~Starting => sta # "off" /\ registered
    /\ boot = "start" => registered

\* A DISCONNECTED event in the queue has not been counted in offline yet.
CountInv ==
    /\ offline <= losses
    /\ \A i \in DOMAIN events : events[i] = "DISCONNECTED" => offline < losses

\* STA_START is handled before anything else can be posted.
StartInv == \A i \in DOMAIN events : events[i] = "START" => Len(events) = 1 /\ ~bit

\* The bit will follow the last event, and that one follows the link.
LinkInv ==
    LET linked == sta = "up" \/ lateLease IN
    /\ events = <<>> => (bit <=> linked)
    /\ events # <<>> => (events[Len(events)] = "GOT_IP" <=> linked)

IInv ==
    /\ WifiTypeOK /\ BootInv /\ StartInv /\ CountInv
    /\ OneRecovery /\ NeverStranded /\ LinkInv

----------------------------------------------------------------------------
(***************************************************************************)
(* The queue.                                                              *)
(***************************************************************************)

\* Posting adds at most the new last position to the wakers.
LEMMA WakersAppend ==
    ASSUME NEW q \in Seq(Event), NEW e \in Event
    PROVE  /\ Append(q, e) \in Seq(Event)
           /\ Append(q, e) # <<>>
           /\ Append(q, e)[Len(Append(q, e))] = e
           /\ DOMAIN Append(q, e) = DOMAIN q \cup {Len(q) + 1}
           /\ \A i \in DOMAIN q : Append(q, e)[i] = q[i]
           /\ Append(q, e)[Len(q) + 1] = e
           /\ WakersOf(Append(q, e)) =
                  WakersOf(q) \cup {i \in {Len(q) + 1} : e \in {"START", "DISCONNECTED"}}
<1>1. /\ Append(q, e) \in Seq(Event) /\ Append(q, e) # <<>>
      /\ Append(q, e)[Len(Append(q, e))] = e
      /\ DOMAIN Append(q, e) = DOMAIN q \cup {Len(q) + 1}
      /\ \A i \in DOMAIN q : Append(q, e)[i] = q[i]
      /\ Append(q, e)[Len(q) + 1] = e
      /\ Len(q) + 1 \notin DOMAIN q
  OBVIOUS
<1> QED BY <1>1 DEF WakersOf

\* Taking the first event shifts the positions of the others.
LEMMA WakersTail ==
    ASSUME NEW q \in Seq(Event), q # <<>>
    PROVE  /\ Tail(q) \in Seq(Event)
           /\ Head(q) = q[1] /\ Head(q) \in Event /\ 1 \in DOMAIN q
           /\ \A i \in DOMAIN Tail(q) : i + 1 \in DOMAIN q /\ Tail(q)[i] = q[i + 1] /\ i # 0
           /\ \A i \in WakersOf(Tail(q)) : i + 1 \in WakersOf(q) /\ i # 0
           /\ \A i \in WakersOf(q) : i = 1 \/ i - 1 \in WakersOf(Tail(q))
           /\ 1 \in WakersOf(q) <=> Head(q) # "GOT_IP"
           /\ Tail(q) # <<>> => Tail(q)[Len(Tail(q))] = q[Len(q)]
           /\ Tail(q) = <<>> => q[Len(q)] = Head(q)
           /\ WakersOf(q) \subseteq Nat /\ WakersOf(Tail(q)) \subseteq Nat
<1>1. /\ Tail(q) \in Seq(Event) /\ Len(Tail(q)) = Len(q) - 1
      /\ Head(q) = q[1] /\ Head(q) \in Event /\ 1 \in DOMAIN q
      /\ DOMAIN q = 1 .. Len(q) /\ DOMAIN Tail(q) = 1 .. (Len(q) - 1)
      /\ \A i \in DOMAIN Tail(q) : i + 1 \in DOMAIN q /\ Tail(q)[i] = q[i + 1]
      /\ Len(q) \in Nat \ {0}
  OBVIOUS
<1>2. \A i \in DOMAIN q : i # 1 => i - 1 \in DOMAIN Tail(q) /\ Tail(q)[i - 1] = q[i]
  BY <1>1
<1>3. Tail(q) # <<>> => Tail(q)[Len(Tail(q))] = q[Len(q)]
  <2> SUFFICES ASSUME Tail(q) # <<>> PROVE Tail(q)[Len(Tail(q))] = q[Len(q)]
    OBVIOUS
  <2>1. Len(Tail(q)) # 0
    BY <1>1, EmptySeq
  <2>2. Len(Tail(q)) \in DOMAIN Tail(q)
    BY <1>1, <2>1
  <2> QED BY <1>1, <2>2
<1>4. Tail(q) = <<>> => q[Len(q)] = Head(q)
  <2> SUFFICES ASSUME Tail(q) = <<>> PROVE q[Len(q)] = Head(q)
    OBVIOUS
  <2>1. Len(Tail(q)) = 0
    BY EmptySeq
  <2> QED BY <1>1, <2>1
<1> QED BY <1>1, <1>2, <1>3, <1>4 DEF WakersOf, Event

----------------------------------------------------------------------------
(***************************************************************************)
(* The invariant.                                                          *)
(***************************************************************************)

LEMMA InitInv == Init => IInv
<1> SUFFICES ASSUME Init PROVE IInv
  OBVIOUS
<1>1. WifiTypeOK
  <2>1. events \in Seq(Event)
    BY DEF Init
  <2>2. NumbersOK
    BY DEF Init, NumbersOK
  <2>3. ShapesOK
    BY DEF Init, ShapesOK
  <2> QED BY <2>1, <2>2, <2>3 DEF WifiTypeOK, NumbersOK, ShapesOK
<1>2. BootInv /\ StartInv /\ CountInv /\ NeverStranded /\ LinkInv
  BY DEF Init, StartInv, BootInv, Starting, CountInv, NeverStranded, LinkInv
<1>3. OneRecovery
  BY DEF Init, OneRecovery, OneWaker, Wakers, WakersOf, Engaged
<1> QED BY <1>1, <1>2, <1>3 DEF IInv

\* app_main: wifi_start posts the first event, which is the only waker.
LEMMA BootPreserves == IInv /\ Boot => IInv'
<1> SUFFICES ASSUME IInv, Boot PROVE IInv'
  OBVIOUS
<1>1. CASE CreateTimer \/ RegisterHandler \/ WaitConnected
  <2>1. WifiTypeOK'
    BY <1>1 DEF CreateTimer, RegisterHandler, WaitConnected, timerVars, airVars, IInv,
       WifiTypeOK, NumbersOK, ShapesOK
  <2>2. BootInv' /\ NeverStranded'
    BY <1>1 DEF CreateTimer, RegisterHandler, WaitConnected, timerVars, airVars, IInv,
       WifiTypeOK, NumbersOK, ShapesOK, BootInv, Starting, NeverStranded, Wakers, Engaged
  <2>3. UNCHANGED <<events, armed, firing, sta, offline, losses, bit, lateLease>>
    BY <1>1 DEF CreateTimer, RegisterHandler, WaitConnected, timerVars, airVars
  <2>4. OneRecovery' /\ StartInv' /\ CountInv' /\ LinkInv'
    BY <2>3 DEF IInv, StartInv, OneRecovery, OneWaker, Wakers, Engaged, CountInv, LinkInv
  <2> QED BY <2>1, <2>2, <2>4 DEF IInv
<1>2. CASE StartStation
  <2>1. /\ events = <<>> /\ WakersOf(<<>>) = {} /\ "START" \in Event /\ events \in Seq(Event)
    BY <1>2 DEF StartStation, IInv, BootInv, Starting, WakersOf, Event, WifiTypeOK,
       NumbersOK, ShapesOK
  <2>2. WakersOf(events') = {1}
    <3>1. DOMAIN events' = {1} /\ events'[1] = "START"
      BY <1>2, <2>1 DEF StartStation
    <3> QED BY <3>1 DEF WakersOf
  <2>3. WifiTypeOK' /\ BootInv'
    BY <1>2, <2>1, WakersAppend DEF StartStation, IInv, WifiTypeOK, NumbersOK, ShapesOK,
       BootInv, Starting, timerVars
  <2>4. CountInv' /\ StartInv'
    <3>1. DOMAIN events' = {1} /\ events'[1] = "START" /\ Len(events') = 1
      BY <1>2, <2>1 DEF StartStation
    <3>2. ~bit' /\ UNCHANGED <<offline, losses>>
      BY <1>2 DEF StartStation, IInv, BootInv, Starting
    <3> QED BY <3>1, <3>2 DEF IInv, CountInv, StartInv
  <2>5. OneRecovery' /\ NeverStranded'
    BY <1>2, <2>1, <2>2 DEF StartStation, IInv, BootInv, Starting, timerVars,
       OneRecovery, OneWaker, Wakers, Engaged, NeverStranded
  <2>6. LinkInv'
    BY <1>2, <2>1, WakersAppend DEF StartStation, IInv, LinkInv, BootInv, Starting
  <2> QED BY <2>3, <2>4, <2>5, <2>6 DEF IInv
<1> QED BY <1>1, <1>2 DEF Boot

\* The event loop takes the first event; if that was the waker, none is left.
LEMMA EventLoopPreserves == IInv /\ EventLoop => IInv'
<1> SUFFICES ASSUME IInv, EventLoop PROVE IInv'
  OBVIOUS
<1>1. /\ events \in Seq(Event) /\ events # <<>> /\ events' = Tail(events)
      /\ registered /\ ~Starting
      /\ HandleStart \/ HandleDisconnected \/ HandleGotIp
      /\ UNCHANGED <<boot, registered, firing, lateLease, losses>>
  BY DEF EventLoop, IInv, WifiTypeOK, NumbersOK, ShapesOK, BootInv
<1>2. events' \in Seq(Event)
  BY <1>1, WakersTail
<1>3. CountInv => \A i \in DOMAIN events' : events'[i] = "DISCONNECTED" => offline < losses
  BY <1>1, WakersTail DEF CountInv
<1>4. Head(events) # "GOT_IP" =>
          /\ WakersOf(events') = {} /\ 1 \in WakersOf(events)
          /\ sta = "idle" /\ ~armed /\ ~firing
  <2> SUFFICES ASSUME Head(events) # "GOT_IP"
               PROVE  /\ WakersOf(events') = {} /\ 1 \in WakersOf(events)
                      /\ sta = "idle" /\ ~armed /\ ~firing
    OBVIOUS
  <2>1. 1 \in WakersOf(events)
    BY <1>1, WakersTail
  <2>2. WakersOf(events') = {}
    BY <1>1, <2>1, WakersTail DEF IInv, OneRecovery, OneWaker, Wakers
  <2>3. sta = "idle" /\ ~armed /\ ~firing
    BY <1>1, <2>1 DEF IInv, OneRecovery, Wakers, Engaged, WifiTypeOK, NumbersOK,
       ShapesOK, BootInv
  <2> QED BY <2>1, <2>2, <2>3
<1>5. Head(events) = "GOT_IP" =>
          /\ OneWaker'
          /\ WakersOf(events') # {} <=> WakersOf(events) # {}
  BY <1>1, WakersTail DEF IInv, OneRecovery, OneWaker, Wakers
<1>6. \A i \in DOMAIN events' : events'[i] # "START"
  <2> SUFFICES ASSUME NEW i \in DOMAIN events', events'[i] = "START" PROVE FALSE
    OBVIOUS
  <2>1. i + 1 \in DOMAIN events /\ events[i + 1] = "START" /\ i \in Nat \ {0}
    BY <1>1, <1>2, WakersTail
  <2> QED BY <1>1, <2>1 DEF IInv, StartInv
<1>7. StartInv'
  BY <1>6 DEF StartInv
<1>8. CASE HandleStart
  <2>1. WifiTypeOK'
    <3>1. NumbersOK'
      BY <1>1, <1>8 DEF HandleStart, EspWifiConnect, IInv, WifiTypeOK, NumbersOK
    <3>2. ShapesOK'
      BY <1>1, <1>8 DEF HandleStart, EspWifiConnect, IInv, WifiTypeOK, ShapesOK
    <3> QED BY <1>2, <3>1, <3>2 DEF WifiTypeOK
  <2>2. BootInv' /\ CountInv'
    BY <1>1, <1>3, <1>4, <1>8 DEF HandleStart, EspWifiConnect, IInv, BootInv, Starting,
       CountInv
  <2>3. OneRecovery' /\ NeverStranded'
    BY <1>1, <1>4, <1>8 DEF HandleStart, EspWifiConnect, IInv, WifiTypeOK, NumbersOK,
       ShapesOK, OneRecovery, OneWaker, Wakers, Engaged, NeverStranded
  <2>4. LinkInv'
    <3>1. sta' # "up" /\ UNCHANGED <<bit, lateLease>> /\ sta # "up"
      BY <1>1, <1>4, <1>8 DEF HandleStart, EspWifiConnect
    <3>2. /\ Tail(events) # <<>> => Tail(events)[Len(Tail(events))] = events[Len(events)]
          /\ Tail(events) = <<>> => events[Len(events)] # "GOT_IP"
      BY <1>1, <1>8, WakersTail DEF HandleStart
    <3>3. events[Len(events)] = "GOT_IP" <=> lateLease
      BY <1>1, <3>1 DEF IInv, LinkInv
    <3>4. CASE Tail(events) = <<>>
      <4>1. ~lateLease
        BY <3>2, <3>3, <3>4
      <4>2. ~bit
        BY <1>1, <1>8, WakersTail DEF HandleStart, IInv, StartInv
      <4> QED BY <1>1, <3>1, <3>4, <4>1, <4>2 DEF LinkInv
    <3>5. CASE Tail(events) # <<>>
      BY <1>1, <3>1, <3>2, <3>3, <3>5 DEF LinkInv
    <3> QED BY <3>4, <3>5
  <2> QED BY <1>7, <2>1, <2>2, <2>3, <2>4 DEF IInv
<1>9. CASE HandleDisconnected
  <2>1. /\ offline < losses /\ UNCHANGED <<sta, refused>>
        /\ NextBackoff \in WIFI_INITIAL_BACKOFF .. WIFI_MAX_BACKOFF
    BY <1>1, <1>9, WakersTail DEF HandleDisconnected, IInv, WifiTypeOK, NumbersOK,
       ShapesOK, CountInv, NextBackoff, SmallerOf
  <2>2. WifiTypeOK'
    <3>1. NumbersOK'
      BY <1>1, <1>9, <2>1 DEF HandleDisconnected, StartTimer, IInv, NumbersOK, WifiTypeOK
    <3>2. ShapesOK'
      BY <1>1, <1>9, <2>1 DEF HandleDisconnected, StartTimer, IInv, ShapesOK, WifiTypeOK
    <3> QED BY <1>2, <3>1, <3>2 DEF WifiTypeOK, NumbersOK, ShapesOK
  <2>3. \A i \in DOMAIN events' : events'[i] # "DISCONNECTED"
    BY <1>1, <1>4, <1>9 DEF HandleDisconnected, WakersOf
  <2>4. BootInv' /\ CountInv'
    BY <1>1, <1>9, <2>1, <2>3 DEF HandleDisconnected, IInv, WifiTypeOK, NumbersOK,
       ShapesOK, BootInv, Starting, CountInv
  <2>5. OneRecovery' /\ NeverStranded'
    BY <1>1, <1>4, <1>9, <2>1 DEF HandleDisconnected, StartTimer, IInv, WifiTypeOK,
       NumbersOK, ShapesOK, OneRecovery, OneWaker, Wakers, Engaged, NeverStranded
  <2>6. LinkInv'
    BY <1>1, <1>9, <2>1, WakersTail DEF HandleDisconnected, IInv, LinkInv
  <2> QED BY <1>7, <2>2, <2>4, <2>5, <2>6 DEF IInv
<1>10. CASE HandleGotIp
  <2>1. UNCHANGED <<armed, delay, sta, refused>> /\ offline' = 0 /\ Head(events) = "GOT_IP"
        /\ bit' = TRUE /\ backoff' = WIFI_INITIAL_BACKOFF
    BY <1>10 DEF HandleGotIp
  <2>2. WifiTypeOK'
    <3>1. WIFI_INITIAL_BACKOFF \in WIFI_INITIAL_BACKOFF .. WIFI_MAX_BACKOFF
      OBVIOUS
    <3> QED BY <1>1, <1>2, <2>1, <3>1 DEF IInv, WifiTypeOK, NumbersOK, ShapesOK
  <2>3. \A i \in DOMAIN events' : events'[i] = "DISCONNECTED" => 0 < losses
    BY <1>1, <1>3, <2>1 DEF IInv, WifiTypeOK, NumbersOK, ShapesOK, CountInv
  <2>4. BootInv' /\ CountInv'
    BY <1>1, <2>1, <2>3 DEF IInv, WifiTypeOK, NumbersOK, ShapesOK, BootInv, Starting,
       CountInv
  <2>5. OneRecovery' /\ NeverStranded'
    BY <1>1, <1>5, <2>1 DEF IInv, OneRecovery, Wakers, Engaged, NeverStranded
  <2>6. LinkInv'
    BY <1>1, <2>1, WakersTail DEF IInv, LinkInv
  <2> QED BY <1>7, <2>2, <2>4, <2>5, <2>6 DEF IInv
<1> QED BY <1>1, <1>8, <1>9, <1>10

\* The timer and its callback: the one waker turns from one form into the next.
LEMMA TimerPreserves == IInv /\ (TimerExpires \/ ReconnectTimerCb) => IInv'
<1> SUFFICES ASSUME IInv, TimerExpires \/ ReconnectTimerCb PROVE IInv'
  OBVIOUS
<1>1. WifiTypeOK'
  <2>1. NumbersOK'
    BY DEF TimerExpires, ReconnectTimerCb, EspWifiConnect, airVars, IInv, NumbersOK,
       WifiTypeOK
  <2>2. ShapesOK'
    BY DEF TimerExpires, ReconnectTimerCb, EspWifiConnect, airVars, IInv, ShapesOK,
       WifiTypeOK
  <2>3. events' \in Seq(Event)
    BY DEF TimerExpires, ReconnectTimerCb, airVars, IInv, WifiTypeOK, NumbersOK, ShapesOK
  <2> QED BY <2>1, <2>2, <2>3 DEF WifiTypeOK, NumbersOK, ShapesOK
<1>2. UNCHANGED <<boot, registered, bit, events, lateLease, offline, losses>>
  BY DEF TimerExpires, ReconnectTimerCb, airVars
<1>3. armed \/ firing
  BY DEF TimerExpires, ReconnectTimerCb
<1>4. ~Starting /\ Wakers = {} /\ sta = "idle"
  BY <1>3 DEF IInv, WifiTypeOK, NumbersOK, ShapesOK, BootInv, OneRecovery, Engaged
<1>5. sta' \in {"idle", "connecting"}
  BY <1>4 DEF TimerExpires, ReconnectTimerCb, EspWifiConnect, airVars
<1>6. BootInv' /\ StartInv' /\ CountInv' /\ LinkInv'
  BY <1>2, <1>4, <1>5 DEF IInv, StartInv, BootInv, Starting, CountInv, LinkInv
<1>7. OneRecovery' /\ NeverStranded'
  <2>1. CASE TimerExpires
    BY <1>2, <1>4, <2>1 DEF TimerExpires, airVars, IInv, OneRecovery, OneWaker, Wakers,
       Engaged, NeverStranded
  <2>2. CASE ReconnectTimerCb
    BY <1>2, <1>4, <2>2 DEF ReconnectTimerCb, EspWifiConnect, IInv, WifiTypeOK,
       NumbersOK, ShapesOK, OneRecovery, OneWaker, Wakers, Engaged, NeverStranded
  <2> QED BY <2>1, <2>2
<1> QED BY <1>1, <1>6, <1>7 DEF IInv

\* The air: an attempt or a link ends in exactly one DISCONNECTED.
LEMMA NetworkPreserves == IInv /\ Network => IInv'
<1> SUFFICES ASSUME IInv, Network PROVE IInv'
  OBVIOUS
<1>1. /\ Engaged /\ ~Starting /\ Wakers = {} /\ ~armed /\ ~firing
      /\ events \in Seq(Event) /\ {"DISCONNECTED", "GOT_IP"} \subseteq Event
      /\ UNCHANGED Air
  BY DEF Network, Associates, Lease, LinkLost, IInv, WifiTypeOK, NumbersOK, ShapesOK,
     BootInv, Starting, OneRecovery, Engaged, Event
<1>2. UNCHANGED <<boot, registered, bit, backoff, armed, delay, firing, offline, refused>>
  BY <1>1 DEF Air, timerVars
<1>3. \A i \in DOMAIN events : events[i] # "START"
  BY <1>1 DEF Wakers, WakersOf
<1>4. StartInv'
  <2>1. events' \in {events, Append(events, "GOT_IP"), Append(events, "DISCONNECTED"),
                     Append(Append(events, "DISCONNECTED"), "GOT_IP")}
    BY <1>1 DEF Network, Associates, Lease, LinkLost
  <2>2. \A i \in DOMAIN events' : events'[i] # "START"
    BY <1>1, <1>3, <2>1, WakersAppend
  <2> QED BY <2>2 DEF StartInv
<1>5. CASE Associates
  <2>1. UNCHANGED <<events, lateLease, losses>> /\ sta = "connecting" /\ sta' = "associated"
    BY <1>5 DEF Associates
  <2> QED BY <1>1, <1>2, <1>4, <2>1 DEF IInv, WifiTypeOK, NumbersOK, ShapesOK, BootInv,
     Starting, CountInv, OneRecovery, OneWaker, Wakers, Engaged, NeverStranded, LinkInv
<1>6. CASE Lease
  <2>1. /\ events' = Append(events, "GOT_IP") /\ lateLease' = FALSE
        /\ sta' = "up" /\ UNCHANGED losses
    BY <1>6 DEF Lease
  <2>2. /\ WakersOf(events') = {} /\ events' \in Seq(Event) /\ events' # <<>>
        /\ events'[Len(events')] = "GOT_IP"
        /\ \A i \in DOMAIN events' : events'[i] # "DISCONNECTED"
    BY <1>1, <2>1, WakersAppend DEF Wakers, WakersOf
  <2>3. WifiTypeOK' /\ BootInv' /\ CountInv'
    BY <1>1, <1>2, <2>1, <2>2 DEF IInv, WifiTypeOK, NumbersOK, ShapesOK, BootInv,
       Starting, CountInv
  <2>4. OneRecovery' /\ NeverStranded' /\ LinkInv'
    BY <1>1, <1>2, <2>1, <2>2 DEF OneRecovery, OneWaker, Wakers, Engaged, NeverStranded,
       LinkInv
  <2> QED BY <1>4, <2>3, <2>4 DEF IInv
<1>7. CASE LinkLost
  <2> DEFINE lost == Append(events, "DISCONNECTED")
  <2>1. /\ losses' = losses + 1 /\ losses < MaxFailures /\ sta' = "idle"
        /\ \/ events' = lost /\ lateLease' = FALSE
           \/ events' = Append(lost, "GOT_IP") /\ lateLease' = TRUE
    BY <1>1, <1>7 DEF LinkLost
  <2>2. /\ lost \in Seq(Event) /\ lost # <<>> /\ lost[Len(lost)] = "DISCONNECTED"
        /\ WakersOf(lost) = {Len(events) + 1}
    BY <1>1, WakersAppend DEF Wakers
  <2> HIDE DEF lost
  <2>3. /\ events' \in Seq(Event) /\ events' # <<>> /\ WakersOf(events') = {Len(events) + 1}
        /\ events'[Len(events')] = "GOT_IP" <=> lateLease'
    <3>1. CASE events' = lost /\ lateLease' = FALSE
      BY <2>2, <3>1
    <3>2. CASE events' = Append(lost, "GOT_IP") /\ lateLease' = TRUE
      BY <1>1, <2>2, <3>2, WakersAppend
    <3> QED BY <2>1, <3>1, <3>2
  <2>4. WifiTypeOK' /\ BootInv' /\ CountInv'
    <3>1. NumbersOK' /\ offline < losses'
      BY <1>2, <2>1 DEF IInv, NumbersOK, CountInv, WifiTypeOK
    <3>2. ShapesOK'
      BY <1>2, <2>1 DEF IInv, ShapesOK, WifiTypeOK
    <3>3. WifiTypeOK'
      BY <2>3, <3>1, <3>2 DEF WifiTypeOK, NumbersOK, ShapesOK
    <3>4. BootInv'
      BY <1>1, <1>2, <2>1 DEF IInv, BootInv, Starting
    <3>5. CountInv'
      BY <1>2, <3>1, <3>3 DEF NumbersOK, CountInv, WifiTypeOK
    <3> QED BY <3>3, <3>4, <3>5
  <2>5. OneRecovery' /\ NeverStranded' /\ LinkInv'
    BY <1>1, <1>2, <2>1, <2>3 DEF OneRecovery, OneWaker, Wakers, Engaged, NeverStranded,
       LinkInv
  <2> QED BY <1>4, <2>4, <2>5 DEF IInv
<1> QED BY <1>5, <1>6, <1>7 DEF Network

\* The invariant holds in every reachable state.
THEOREM InductiveInvariant == Spec => []IInv
<1>1. Init => IInv
  BY InitInv
<1>2. IInv /\ [Next]_wifiVars => IInv'
  <2> SUFFICES ASSUME IInv, [Next]_wifiVars PROVE IInv'
    OBVIOUS
  <2>1. CASE Next
    BY <2>1, BootPreserves, EventLoopPreserves, TimerPreserves, NetworkPreserves DEF
       Next, Esp32
  <2>2. CASE UNCHANGED wifiVars
    BY <2>2 DEF wifiVars, timerVars, airVars, IInv, WifiTypeOK, NumbersOK, ShapesOK,
       BootInv, Starting, StartInv, CountInv, OneRecovery, OneWaker, Wakers, Engaged,
       NeverStranded, LinkInv
  <2> QED BY <2>1, <2>2
<1> QED BY <1>1, <1>2, PTL DEF Spec

(***************************************************************************)
(* Every variable keeps its type; in particular backoff_ms never leaves    *)
(* the range from WIFI_INITIAL_BACKOFF_MS to CONFIG_WIFI_MAX_BACKOFF_MS.   *)
(***************************************************************************)
THEOREM WifiTypeCorrect == Spec => []WifiTypeOK
<1>1. IInv => WifiTypeOK
  BY DEF IInv
<1> QED BY <1>1, InductiveInvariant, PTL

(***************************************************************************)
(* wifi_event_handler and reconnect_timer_cb never have two recoveries of  *)
(* the link under way, however events, timer and attempts interleave; and  *)
(* as long as esp_wifi_connect returns ESP_OK there is always one: the     *)
(* station never stays offline for good.                                   *)
(***************************************************************************)
THEOREM OneRecoveryAlways == Spec => []ExactlyOneRecovery
<1>1. IInv => ExactlyOneRecovery
  BY DEF IInv, ExactlyOneRecovery
<1> QED BY <1>1, InductiveInvariant, PTL

(***************************************************************************)
(* With an empty event queue WIFI_CONNECTED_BIT says whether the station   *)
(* has a link with an address, late leases apart.                          *)
(***************************************************************************)
THEOREM BitIsCurrent == Spec => []BitFollowsLink
<1>1. IInv => BitFollowsLink
  BY DEF IInv, LinkInv, BitFollowsLink
<1> QED BY <1>1, InductiveInvariant, PTL

----------------------------------------------------------------------------
(***************************************************************************)
(* The delay.                                                              *)
(***************************************************************************)

\* A set of naturals with 0 and with the successor of each of its elements has all of them.
LEMMA NatSetInduction ==
    ASSUME NEW S, 0 \in S, \A n \in Nat : n \in S => n + 1 \in S
    PROVE  Nat \subseteq S
<1> DEFINE T == Nat \ S
           R == {ss \in Nat \X Nat : ss[1] < ss[2]}
<1>1. SUFFICES ASSUME T # {} PROVE FALSE
  OBVIOUS
<1>2. IsWellFoundedOn(R, Nat)
  BY NatLessThanWellFounded, Zenon DEF OpToRel
<1>3. PICK n \in T : \A m \in T : ~ (<<m, n>> \in R)
  <2> HIDE DEF R, T
  <2>1. T \subseteq Nat
    BY DEF T
  <2> QED BY <1>1, <1>2, <2>1, WFMin
<1>4. n \in Nat /\ n # 0
  OBVIOUS
<1>5. n - 1 \in Nat /\ n - 1 < n /\ (n - 1) + 1 = n
  BY <1>4
<1>6. n - 1 \notin T
  BY <1>3, <1>4, <1>5
<1>7. QED BY <1>5, <1>6

\* The recursive function is what its definition says.
LEMMA DoubledSteps ==
    /\ Doubled[0] = WIFI_INITIAL_BACKOFF
    /\ \A n \in 1 .. MaxFailures : Doubled[n] = 2 * Doubled[n - 1]
<1> DEFINE Body(g, n) == IF n = 0 THEN WIFI_INITIAL_BACKOFF ELSE 2 * g[n - 1]
           Defines(g, n) == g = [m \in 0 .. n |-> Body(g, m)]
           Chosen == CHOOSE g : Defines(g, MaxFailures)
<1>1. \E g : Defines(g, MaxFailures)
  <2> DEFINE S == {n \in Nat : \E g : Defines(g, n)}
  <2>1. 0 \in S
    <3> DEFINE g == [m \in 0 .. 0 |-> WIFI_INITIAL_BACKOFF]
    <3>1. Defines(g, 0)
      OBVIOUS
    <3>2. QED BY <3>1
  <2>2. ASSUME NEW n \in Nat, n \in S PROVE n + 1 \in S
    <3>1. PICK g : Defines(g, n)
      BY <2>2
    <3> DEFINE h == [m \in 0 .. n + 1 |-> IF m <= n THEN g[m] ELSE Body(g, n + 1)]
    <3>2. \A m \in 0 .. n : h[m] = g[m] /\ g[m] = Body(g, m)
      <4> HIDE DEF Body
      <4>1. \A m \in 0 .. n : g[m] = Body(g, m)
        BY <3>1, Zenon
      <4>2. \A m \in 0 .. n : m \in 0 .. n + 1 /\ m <= n
        BY <2>2
      <4>3. QED BY <4>1, <4>2
    <3>3. h[n + 1] = Body(g, n + 1)
      BY <2>2
    <3> HIDE DEF h
    <3>4. \A m \in 0 .. n + 1 : h[m] = Body(h, m)
      <4> SUFFICES ASSUME NEW m \in 0 .. n + 1 PROVE h[m] = Body(h, m)
        OBVIOUS
      <4>1. CASE m = 0
        BY <2>2, <3>2, <4>1
      <4>2. CASE m # 0
        <5>1. m - 1 \in 0 .. n /\ h[m - 1] = g[m - 1]
          BY <3>2, <4>2
        <5>2. Body(h, m) = Body(g, m)
          BY <4>2, <5>1
        <5>3. QED BY <3>2, <3>3, <5>2
      <4>3. QED BY <4>1, <4>2
    <3>5. Defines(h, n + 1)
      BY <3>4 DEF h
    <3>6. QED
      <4> HIDE DEF Defines
      <4> QED BY <2>2, <3>5
  <2>3. Nat \subseteq S
    <3> HIDE DEF S
    <3> QED BY <2>1, <2>2, NatSetInduction
  <2>4. QED BY <2>3
<1>2. Defines(Chosen, MaxFailures)
  <2> HIDE DEF Defines
  <2> QED BY <1>1
<1>3. Doubled = Chosen
  BY DEF Doubled
<1> HIDE DEF Chosen
<1>4. \A m \in 0 .. MaxFailures : Doubled[m] = Body(Doubled, m)
  <2> HIDE DEF Body
  <2> QED BY <1>2, <1>3, Zenon
<1>5. 0 \in 0 .. MaxFailures /\ \A n \in 1 .. MaxFailures : n \in 0 .. MaxFailures /\ n # 0
  OBVIOUS
<1>6. QED BY <1>4, <1>5, Zenon

LEMMA DoubledType == \A n \in 0 .. MaxFailures : Doubled[n] \in Nat \ {0}
<1> DEFINE S == {n \in Nat : n <= MaxFailures => Doubled[n] \in Nat \ {0}}
<1>1. 0 \in S
  BY DoubledSteps
<1>2. ASSUME NEW n \in Nat, n \in S PROVE n + 1 \in S
  <2> SUFFICES ASSUME n + 1 <= MaxFailures PROVE Doubled[n + 1] \in Nat \ {0}
    OBVIOUS
  <2>1. n + 1 \in 1 .. MaxFailures /\ (n + 1) - 1 = n /\ n <= MaxFailures
    OBVIOUS
  <2>2. Doubled[n + 1] = 2 * Doubled[n] /\ Doubled[n] \in Nat \ {0}
    BY <1>2, <2>1, DoubledSteps
  <2> QED BY <2>2
<1>3. Nat \subseteq S
  <2> HIDE DEF S
  <2> QED BY <1>1, <1>2, NatSetInduction
<1> QED BY <1>3

\* Doubling what was cut off at the maximum, and cutting off again, is doubling first.
LEMMA DoubleOfSmaller ==
    ASSUME NEW d \in Nat, NEW max \in Nat
    PROVE  SmallerOf(SmallerOf(d, max) * 2, max) = SmallerOf(2 * d, max)
BY DEF SmallerOf

\* backoff_ms is the delay after the failures counted so far; the running timer has the one
\* before, unless an address came in between.
DelayInv ==
    /\ backoff = SmallerOf(Doubled[offline], WIFI_MAX_BACKOFF)
    /\ bit => offline = 0
    /\ armed /\ ~bit =>
           /\ offline > 0
           /\ delay = SmallerOf(Doubled[offline - 1], WIFI_MAX_BACKOFF)

LEMMA DelayInit == Init => DelayInv
BY DoubledSteps DEF Init, DelayInv, SmallerOf

LEMMA DelayKept == IInv /\ IInv' /\ DelayInv /\ [Next]_wifiVars => DelayInv'
<1> SUFFICES ASSUME IInv, IInv', DelayInv, [Next]_wifiVars PROVE DelayInv'
  OBVIOUS
<1>1. offline \in 0 .. MaxFailures /\ offline' \in 0 .. MaxFailures
  BY DEF IInv, WifiTypeOK, NumbersOK
<1>2. CASE UNCHANGED <<backoff, offline, bit, armed, delay>>
  BY <1>2 DEF DelayInv
<1>3. CASE TimerExpires
  BY <1>3 DEF TimerExpires, DelayInv
<1>4. CASE EventLoop /\ HandleDisconnected
  <2>1. /\ offline' = offline + 1 /\ bit' = FALSE /\ delay' = backoff
        /\ backoff' = SmallerOf(backoff * 2, WIFI_MAX_BACKOFF)
    BY <1>4 DEF HandleDisconnected, StartTimer, NextBackoff
  <2>2. backoff = SmallerOf(Doubled[offline], WIFI_MAX_BACKOFF) /\ Doubled[offline] \in Nat
    BY <1>1, DoubledType DEF DelayInv
  <2>3. Doubled[offline'] = 2 * Doubled[offline]
    <3>1. offline' \in 1 .. MaxFailures /\ offline' - 1 = offline
      BY <1>1, <2>1
    <3> QED BY <3>1, DoubledSteps
  <2>4. backoff' = SmallerOf(Doubled[offline'], WIFI_MAX_BACKOFF)
    BY <2>1, <2>2, <2>3, DoubleOfSmaller
  <2>5. offline' - 1 = offline /\ offline' > 0
    BY <1>1, <2>1
  <2> QED BY <2>1, <2>2, <2>4, <2>5 DEF DelayInv
<1>5. CASE EventLoop /\ HandleGotIp
  <2>1. offline' = 0 /\ bit' = TRUE /\ backoff' = WIFI_INITIAL_BACKOFF
    BY <1>5 DEF HandleGotIp
  <2> QED BY <2>1, DoubledSteps DEF DelayInv, SmallerOf
<1>6. CASE Next
  <2>1. CASE Boot \/ Network \/ ReconnectTimerCb
    <3>1. UNCHANGED <<backoff, offline, bit, armed, delay>>
      BY <2>1 DEF Boot, CreateTimer, RegisterHandler, StartStation, WaitConnected, Network,
         Associates, Lease, LinkLost, Air, ReconnectTimerCb, timerVars
    <3> QED BY <1>2, <3>1
  <2>2. CASE EventLoop /\ ~ HandleDisconnected /\ ~ HandleGotIp
    <3>1. UNCHANGED <<backoff, offline, bit, armed, delay>>
      BY <2>2 DEF EventLoop, HandleStart
    <3> QED BY <1>2, <3>1
  <2> QED BY <1>3, <1>4, <1>5, <1>6, <2>1, <2>2 DEF Next, Esp32
<1>7. CASE UNCHANGED wifiVars
  BY <1>2, <1>7 DEF wifiVars, timerVars
<1> QED BY <1>6, <1>7

(***************************************************************************)
(* "The delay starts at 1s and doubles after each failed attempt up to     *)
(* this value" (Kconfig): the n-th timer since the last address runs with  *)
(* the first delay doubled n - 1 times, or with the maximum, and a station *)
(* that is up starts over, in any order of events and callbacks.           *)
(***************************************************************************)
THEOREM DelayAsDocumented == Spec => []DelayDoubles
<1>1. Init => DelayInv
  BY DelayInit
<1>2. IInv /\ IInv' /\ DelayInv /\ [Next]_wifiVars => DelayInv'
  BY DelayKept
<1>3. IInv /\ DelayInv => DelayDoubles
  BY DoubledSteps DEF IInv, LinkInv, DelayInv, DelayDoubles, SmallerOf
<1> QED BY <1>1, <1>2, <1>3, InductiveInvariant, PTL DEF Spec
=============================================================================
