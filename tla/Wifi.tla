-------------------------------- MODULE Wifi --------------------------------
(***************************************************************************)
(* components/wifi: the station's event handler, its one-shot reconnect    *)
(* timer and the connected bit that app_main waits for.                    *)
(*                                                                         *)
(* Three tasks take part: app_main (wifi_start, wifi_wait_connected), the  *)
(* default event loop, which runs wifi_event_handler on one queued event   *)
(* at a time, and the esp_timer task, which runs reconnect_timer_cb.  The  *)
(* Wi-Fi driver, DHCP and the air (external) move at any time and tell the *)
(* rest by posting events.  Delays are counted in seconds.                 *)
(***************************************************************************)
EXTENDS Naturals, Sequences

CONSTANTS
    WIFI_INITIAL_BACKOFF,   \* WIFI_INITIAL_BACKOFF_MS, 1 s
    WIFI_MAX_BACKOFF,       \* CONFIG_WIFI_MAX_BACKOFF_MS
    MaxFailures,            \* bound: attempts that fail and links that are lost
    MaxRefused              \* bound: calls of esp_wifi_connect that return an error

\* Kconfig: WIFI_MAX_BACKOFF_MS has the range 1000 600000.
ASSUME WifiAssumption ==
    /\ WIFI_INITIAL_BACKOFF \in Nat \ {0} /\ WIFI_MAX_BACKOFF \in Nat
    /\ WIFI_INITIAL_BACKOFF <= WIFI_MAX_BACKOFF
    /\ MaxFailures \in Nat /\ MaxRefused \in Nat

VARIABLES
    boot,           \* app_main: "create", "register", "start", "wait" or "done"
    registered,     \* wifi_event_handler is registered
    bit,            \* WIFI_CONNECTED_BIT
    backoff,        \* backoff_ms
    armed,          \* reconnect_timer is running
    delay,          \* ... and the delay it was started with
    firing,         \* the esp_timer task has taken it off and is calling back
    events,         \* the default event loop's queue, oldest first
    sta,            \* the driver: "off", "idle", "connecting", "associated" or "up"
    lateLease,      \* history: the last event is an address for a link already lost
    offline,        \* history: DISCONNECTED events handled since the last GOT_IP
    losses,         \* failed attempts and lost links so far
    refused         \* refused calls of esp_wifi_connect so far

timerVars == <<armed, delay, firing>>
airVars == <<sta, lateLease, losses>>
wifiVars == <<boot, registered, bit, backoff, timerVars, events, airVars, offline, refused>>

Event == {"START", "DISCONNECTED", "GOT_IP"}

NumbersOK ==
    /\ backoff \in WIFI_INITIAL_BACKOFF .. WIFI_MAX_BACKOFF
    /\ delay \in WIFI_INITIAL_BACKOFF .. WIFI_MAX_BACKOFF
    /\ offline \in 0 .. MaxFailures
    /\ losses \in 0 .. MaxFailures /\ refused \in 0 .. MaxRefused

ShapesOK ==
    /\ boot \in {"create", "register", "start", "wait", "done"}
    /\ registered \in BOOLEAN /\ bit \in BOOLEAN /\ armed \in BOOLEAN
    /\ firing \in BOOLEAN /\ lateLease \in BOOLEAN
    /\ sta \in {"off", "idle", "connecting", "associated", "up"}

WifiTypeOK == NumbersOK /\ ShapesOK /\ events \in Seq(Event)

Init ==
    /\ boot = "create" /\ registered = FALSE
    /\ bit = FALSE /\ backoff = WIFI_INITIAL_BACKOFF
    /\ armed = FALSE /\ delay = WIFI_INITIAL_BACKOFF /\ firing = FALSE
    /\ events = <<>> /\ sta = "off" /\ lateLease = FALSE
    /\ offline = 0 /\ losses = 0 /\ refused = 0

----------------------------------------------------------------------------
(***************************************************************************)
(* app_main.                                                               *)
(***************************************************************************)

\* wifi_start: the event group and the timer exist before the handler can run,
\* and the handler is registered before the driver posts anything.
CreateTimer ==
    /\ boot = "create"
    /\ boot' = "register"
    /\ UNCHANGED <<registered, bit, backoff, timerVars, events, airVars, offline, refused>>

RegisterHandler ==
    /\ boot = "register"
    /\ boot' = "start" /\ registered' = TRUE
    /\ UNCHANGED <<bit, backoff, timerVars, events, airVars, offline, refused>>

StartStation ==
    /\ boot = "start"
    /\ boot' = "wait"
    /\ sta' = "idle" /\ events' = Append(events, "START")
    /\ UNCHANGED <<registered, bit, backoff, timerVars, lateLease, offline, losses, refused>>

\* wifi_wait_connected returns when the bit is set, or after 15 s: app_main
\* warns and goes on.
WaitConnected ==
    /\ boot = "wait"
    /\ boot' = "done"
    /\ UNCHANGED <<registered, bit, backoff, timerVars, events, airVars, offline, refused>>

----------------------------------------------------------------------------
(***************************************************************************)
(* esp_wifi_connect (external): starts an attempt when the station is      *)
(* idle, and may fail for lack of resources; otherwise it is an error.     *)
(***************************************************************************)
EspWifiConnect ==
    \/ sta = "idle" /\ sta' = "connecting" /\ UNCHANGED refused
    \/ sta = "idle" /\ refused < MaxRefused /\ refused' = refused + 1 /\ UNCHANGED sta
    \/ sta # "idle" /\ UNCHANGED <<sta, refused>>

\* esp_timer_stop, then esp_timer_start_once; a callback already under way runs.
StartTimer == armed' = TRUE /\ delay' = backoff

SmallerOf(a, b) == IF a <= b THEN a ELSE b

NextBackoff == SmallerOf(backoff * 2, WIFI_MAX_BACKOFF)

\* wifi_event_handler, one branch per event.
HandleStart ==
    /\ Head(events) = "START"
    /\ EspWifiConnect
    /\ UNCHANGED <<bit, backoff, armed, delay, offline>>

HandleDisconnectedKeepsBit ==
    /\ Head(events) = "DISCONNECTED"
    /\ StartTimer
    /\ backoff' = NextBackoff
    /\ offline' = offline + 1
    /\ UNCHANGED <<bit, sta, refused>>

\* As example_connect did, which wifi.c replaces:
HandleDisconnectedGivesUp ==
    /\ Head(events) = "DISCONNECTED"
    /\ bit' = FALSE
    /\ IF backoff < WIFI_MAX_BACKOFF THEN StartTimer ELSE UNCHANGED <<armed, delay>>
    /\ backoff' = NextBackoff
    /\ offline' = offline + 1
    /\ UNCHANGED <<sta, refused>>

HandleDisconnected ==
    /\ Head(events) = "DISCONNECTED"
    /\ bit' = FALSE
    /\ StartTimer
    /\ backoff' = NextBackoff
    /\ offline' = offline + 1
    /\ UNCHANGED <<sta, refused>>

HandleGotIpKeepsBackoff ==
    /\ Head(events) = "GOT_IP"
    /\ bit' = TRUE
    /\ offline' = 0
    /\ UNCHANGED <<backoff, armed, delay, sta, refused>>

HandleGotIp ==
    /\ Head(events) = "GOT_IP"
    /\ backoff' = WIFI_INITIAL_BACKOFF
    /\ bit' = TRUE
    /\ offline' = 0
    /\ UNCHANGED <<armed, delay, sta, refused>>

\* The event loop gives an event to the handlers registered when it gets to it.
EventLoop ==
    /\ events # <<>>
    /\ events' = Tail(events)
    /\ IF registered
       THEN HandleStart \/ HandleDisconnected \/ HandleGotIp
       ELSE UNCHANGED <<bit, backoff, armed, delay, sta, offline, refused>>
    /\ UNCHANGED <<boot, registered, firing, lateLease, losses>>

\* With esp_timer_start_periodic:
TimerExpiresPeriodic ==
    /\ armed
    /\ firing' = TRUE
    /\ UNCHANGED <<boot, registered, bit, backoff, armed, delay, events, airVars, offline, refused>>

TimerExpires ==
    /\ armed
    /\ armed' = FALSE /\ firing' = TRUE
    /\ UNCHANGED <<boot, registered, bit, backoff, delay, events, airVars, offline, refused>>

\* reconnect_timer_cb: an error of esp_wifi_connect is logged, and that is all.
ReconnectTimerCb ==
    /\ firing
    /\ firing' = FALSE
    /\ EspWifiConnect
    /\ UNCHANGED <<boot, registered, bit, backoff, armed, delay, events, lateLease, offline,
                   losses>>

----------------------------------------------------------------------------
(***************************************************************************)
(* The driver, DHCP and the air (external).                                *)
(***************************************************************************)

Air == <<boot, registered, bit, backoff, timerVars, offline, refused>>

Associates ==
    /\ sta = "connecting"
    /\ sta' = "associated"
    /\ UNCHANGED <<Air, events, lateLease, losses>>

Lease ==
    /\ sta = "associated"
    /\ sta' = "up"
    /\ events' = Append(events, "GOT_IP") /\ lateLease' = FALSE
    /\ UNCHANGED <<Air, losses>>

\* An attempt fails or the link is lost.  The DHCP client learns of it from the
\* same queue: a lease that was on its way may still be announced.
LinkLost ==
    /\ sta \in {"connecting", "associated", "up"}
    /\ losses < MaxFailures
    /\ losses' = losses + 1
    /\ sta' = "idle"
    /\ \/ events' = Append(events, "DISCONNECTED") /\ lateLease' = FALSE
       \/ /\ sta = "associated"
          /\ events' = events \o <<"DISCONNECTED", "GOT_IP">> /\ lateLease' = TRUE
    /\ UNCHANGED Air

Boot == CreateTimer \/ RegisterHandler \/ StartStation \/ WaitConnected
Esp32 == EventLoop \/ TimerExpires \/ ReconnectTimerCb
Network == Associates \/ Lease \/ LinkLost

Next == Boot \/ Esp32 \/ Network

Spec == Init /\ [][Next]_wifiVars

\* Every task of the ESP32 runs when it has something to do, and timers run out.
FairSpec ==
    /\ Spec
    /\ WF_wifiVars(Boot) /\ WF_wifiVars(EventLoop)
    /\ WF_wifiVars(TimerExpires) /\ WF_wifiVars(ReconnectTimerCb)

\* An access point that is there lets the station in and gives it an address.
NetworkFair == WF_wifiVars(Associates) /\ WF_wifiVars(Lease)

----------------------------------------------------------------------------
(***************************************************************************)
(* What keeps the station going: an event that will make it connect, the   *)
(* running timer, its callback, an attempt or a link.                      *)
(***************************************************************************)
WakersOf(queue) == {i \in DOMAIN queue : queue[i] \in {"START", "DISCONNECTED"}}

Wakers == WakersOf(events)

OneWaker == \A i, j \in Wakers : i = j

Engaged == sta \in {"connecting", "associated", "up"}

(***************************************************************************)
(* At most one of them exists at a time: two attempts never overlap, a     *)
(* burst of events leaves one timer, and no timer fires into a link that   *)
(* is up (wifi_event_handler's esp_timer_stop never has anything to stop). *)
(***************************************************************************)
OneRecovery ==
    /\ OneWaker
    /\ Wakers # {} => ~armed /\ ~firing /\ ~Engaged
    /\ armed => ~firing /\ ~Engaged
    /\ firing => ~Engaged

(***************************************************************************)
(* And at least one exists, from esp_wifi_start on, as long as             *)
(* esp_wifi_connect has never failed: a lost link is always followed up.   *)
(***************************************************************************)
NeverStranded ==
    boot \in {"wait", "done"} /\ refused = 0 =>
        Wakers # {} \/ armed \/ firing \/ Engaged

(***************************************************************************)
(* wifi.c: exactly one thing is under way that ends in a link, or in the   *)
(* next attempt to get one.                                                *)
(***************************************************************************)
ExactlyOneRecovery == OneRecovery /\ NeverStranded

(***************************************************************************)
(* wifi.h: wifi_wait_connected "Returns true if connected".  When the      *)
(* event loop has caught up the bit says whether there is a link with an   *)
(* address, except after an address that came too late for its link.       *)
(***************************************************************************)
BitFollowsLink ==
    events = <<>> /\ ~lateLease => (bit <=> sta = "up")

\* The first delay, doubled n times.
Doubled[n \in 0 .. MaxFailures] == IF n = 0 THEN WIFI_INITIAL_BACKOFF ELSE 2 * Doubled[n - 1]

(***************************************************************************)
(* Kconfig: "The delay starts at 1s and doubles after each failed attempt  *)
(* up to this value": the timer runs with the delay of the n-th failure    *)
(* since the last address, and a link that worked starts over.             *)
(***************************************************************************)
DelayDoubles ==
    /\ armed /\ ~bit =>
           /\ offline > 0
           /\ delay = SmallerOf(Doubled[offline - 1], WIFI_MAX_BACKOFF)
    /\ sta = "up" /\ events = <<>> => backoff = WIFI_INITIAL_BACKOFF

(***************************************************************************)
(* Once the air stops failing, the station gets its link and the bit is    *)
(* set for good, in any order of failures, late addresses, events and      *)
(* callbacks, unless esp_wifi_connect has returned an error: nothing calls *)
(* it again then, although wifi.h has reconnection go on "never giving     *)
(* up".  And app_main does not wait for that: it starts the MQTT client    *)
(* and the sampling tasks even if no access point ever answers.            *)
(***************************************************************************)
ComesBack ==
    /\ <>(boot = "done")
    /\ NetworkFair => <>[](sta = "up" /\ bit) \/ <>(refused > 0)
=============================================================================
