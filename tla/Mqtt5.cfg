\* Two connections to brokers that differ; calls, answers and messages in every order.
SPECIFICATION Mqtt5Spec
CONSTANTS
    OUT_BUFFER = 250
    IN_BUFFER = 1024
    MAX_CALLS = 3
    MAX_EVENTS = 4
    MAX_CONNECTIONS = 2
    MAX_RESENDS = 1
    Info <- MCInfo
    ConnectSettings <- MCConnectSettings
    PublishSettings <- MCPublishSettings
    SubscribeSettings <- MCSubscribeSettings
    UnsubscribeSettings <- MCUnsubscribeSettings
    DisconnectSettings <- MCDisconnectSettings
    Publishes <- MCPublishes
    Connacks <- MCConnacks
    Messages <- MCMessages
INVARIANTS CountTrue BrokerRespected EventsAsMeant ReadBack
CHECK_DEADLOCK FALSE
