---------------------------- MODULE WifiManager ----------------------------
(***************************************************************************)
(* The Wi-Fi connection manager of class webmanager::M: which of its two   *)
(* roles the device plays (its own access point, or a station of a stored  *)
(* network), the three deadlines that move it between them, and the        *)
(* credentials it keeps in RAM and in NVS.                                 *)
(*                                                                         *)
(* Four tasks act on it.  The event loop runs wifi_event_handler and       *)
(* ip_event_handler, the supervisor runs Supervise every four seconds, the *)
(* HTTP server runs the two websocket requests, and the Wi-Fi driver (not  *)
(* part of this code) joins and loses networks and posts events.  Every    *)
(* section under webmanager_semaphore is one action; what the HTTP server  *)
(* does before it takes the semaphore is not.                              *)
(*                                                                         *)
(* A deadline is stored as the time left until it expires, FAR for the     *)
(* code's FAR_FUTURE: the code only ever computes now_us + X and compares  *)
(* now_us > t, so only the difference matters.                             *)
(***************************************************************************)
EXTENDS Integers, Sequences

CONSTANTS
    Ssids, Passwords,     \* what a user may type
    Empty,                \* the C string ""
    Absent,               \* no such key in NVS
    Networks,             \* credentials an access point accepts
    StartupAttempts,      \* RECONNECTS_ON_STARTUP
    OperationAttempts,    \* RECONNECTS_ON_OPERATION, the largest counter value
    ReconnectTimeout, ShutdownApTimeout, CommonTimeout,
    FlashFaults,          \* may an NVS write fail?
    MaxEvents             \* bound: a post waits while so many are queued

ASSUME CredentialsAssumption ==
    /\ Empty # Absent
    /\ {Empty, Absent} \cap (Ssids \cup Passwords) = {}
    /\ Networks \subseteq [ssid : Ssids, password : Passwords]

ASSUME AttemptsAssumption ==
    /\ StartupAttempts \in Nat \ {0}
    /\ OperationAttempts \in Nat
    /\ OperationAttempts > StartupAttempts

ASSUME TimeoutsAssumption ==
    /\ ReconnectTimeout \in Nat \ {0}
    /\ ShutdownApTimeout \in Nat \ {0}
    /\ CommonTimeout \in Nat \ {0}
    /\ ReconnectTimeout < CommonTimeout

ASSUME EnvironmentAssumption ==
    /\ FlashFaults \in BOOLEAN
    /\ MaxEvents \in Nat \ {0}

FAR == -1

Fields == {"ssid", "password"}
Creds == [ssid : Ssids \cup {Empty}, password : Passwords \cup {Empty}]
RequestedCreds == [ssid : Ssids \cup {Empty}, password : Passwords]
StoredCreds == [ssid : Ssids \cup {Empty, Absent},
                password : Passwords \cup {Empty, Absent}]
BlankCreds == [ssid |-> Empty, password |-> Empty]
NoStoredCreds == [ssid |-> Absent, password |-> Absent]

VARIABLES
    power,              \* has Begin run since the last reset?
    workingState, tTimeout, tShutdownAp, tReconnect,
    staConnectionState, remainingAttempts, fallbackToStoredStaConfig,
    ram,                \* ssid and password of wifi_config_sta
    nvs,                \* the two keys in namespace "wifimananger"
    mode,               \* esp_wifi_get_mode
    link, joinCreds,    \* the driver's station and the config it was given
    netif,              \* the station's IP interface
    events,             \* the default event loop's queue
    httpd, request, toCopy, \* the HTTP server task and its current request
    misled              \* history: was a lease, and nothing since, announced to
                        \* a manager that has no link?

statusVars == <<workingState, tTimeout, tShutdownAp, tReconnect>>
managerVars == <<statusVars, staConnectionState, remainingAttempts,
                 fallbackToStoredStaConfig>>
driverVars == <<mode, link, joinCreds, netif>>
httpdVars == <<httpd, request, toCopy>>
vars == <<power, managerVars, ram, nvs, driverVars, events, httpdVars, misled>>

Events == {"STA_DISCONNECTED", "STA_CONNECTED", "GOT_IP", "LOST_IP"}
Deadline == {FAR} \cup Nat

FlagsTypeOK ==
    /\ power \in BOOLEAN
    /\ staConnectionState \in BOOLEAN
    /\ fallbackToStoredStaConfig \in BOOLEAN
    /\ misled \in BOOLEAN

StatusTypeOK ==
    /\ workingState \in {"AP_STARTED", "KEEP_CONNECTION"}
    /\ tTimeout \in Deadline /\ tShutdownAp \in Deadline /\ tReconnect \in Deadline
    /\ remainingAttempts \in 0 .. OperationAttempts

CredsTypeOK ==
    /\ ram \in Creds /\ nvs \in StoredCreds /\ joinCreds \in Creds
    /\ httpd \in {"idle", "copying", "disconnecting"}
    /\ request \in Creds /\ toCopy \in SUBSET Fields

DriverTypeOK ==
    /\ mode \in {"NULL", "STA", "APSTA"}
    /\ link \in {"idle", "joining", "joined"}
    /\ netif \in {"down", "up", "bound"}
    /\ events \in Seq(Events)

TypeOK == FlagsTypeOK /\ StatusTypeOK /\ CredsTypeOK /\ DriverTypeOK

(***************************************************************************)
(* Helpers.                                                                *)
(***************************************************************************)
Expired(t) == t = 0

\* Mutants of setStatus: one deadline is not cleared.
setStatusKeepsTimeout(state, timeout, shutdownAp, reconnect) ==
    /\ workingState' = state
    /\ tTimeout' = IF timeout = FAR THEN tTimeout ELSE timeout
    /\ tShutdownAp' = shutdownAp /\ tReconnect' = reconnect

setStatusKeepsShutdownAp(state, timeout, shutdownAp, reconnect) ==
    /\ workingState' = state /\ tTimeout' = timeout
    /\ tShutdownAp' = IF shutdownAp = FAR THEN tShutdownAp ELSE shutdownAp
    /\ tReconnect' = reconnect

setStatusKeepsReconnect(state, timeout, shutdownAp, reconnect) ==
    /\ workingState' = state /\ tTimeout' = timeout /\ tShutdownAp' = shutdownAp
    /\ tReconnect' = IF reconnect = FAR THEN tReconnect ELSE reconnect

\* Mutant of setStatus: the timeout is never armed.
setStatusArmsNoTimeout(state, timeout, shutdownAp, reconnect) ==
    /\ workingState' = state /\ tTimeout' = FAR
    /\ tShutdownAp' = shutdownAp /\ tReconnect' = reconnect

setStatus(state, timeout, shutdownAp, reconnect) ==
    /\ workingState' = state
    /\ tTimeout' = timeout
    /\ tShutdownAp' = shutdownAp
    /\ tReconnect' = reconnect

\* A failing esp_wifi call aborts, which Reboot covers; otherwise the driver
\* drops the link it has and starts to join with the configuration given.
connectAsSTA(creds, attempts, queue) ==
    /\ link = "joined" => Len(queue) < MaxEvents
    /\ remainingAttempts' = attempts
    /\ joinCreds' = creds
    /\ link' = "joining"
    /\ events' = IF link = "joined" THEN Append(queue, "STA_DISCONNECTED") ELSE queue
    /\ setStatus("KEEP_CONNECTION", CommonTimeout, FAR, FAR)
    /\ misled' = FALSE
    /\ UNCHANGED mode

\* Mutants: the fallback flag survives, and a running station stays alone.
OpenAccessPointKeepsFallback ==
    /\ UNCHANGED fallbackToStoredStaConfig
    /\ mode' = "APSTA"
    /\ setStatus("AP_STARTED", FAR, FAR, FAR)
    /\ misled' = FALSE

OpenAccessPointOnlyFromNull ==
    /\ fallbackToStoredStaConfig' = FALSE
    /\ mode' = IF mode = "NULL" THEN "APSTA" ELSE mode
    /\ setStatus("AP_STARTED", FAR, FAR, FAR)
    /\ misled' = FALSE

configureAndOpenAccessPointAndSetStatus ==
    /\ fallbackToStoredStaConfig' = FALSE
    /\ mode' = "APSTA"
    /\ setStatus("AP_STARTED", FAR, FAR, FAR)
    /\ misled' = FALSE

\* The strings have room and an SSID is not "": read_sta_config returns ESP_OK.
ReadSucceeds == nvs.ssid \notin {Absent, Empty} /\ nvs.password # Absent

\* Mutant: a missing key is not noticed.
read_sta_configUnchecked == nvs

\* wifi_config_sta after read_sta_config, which stops at the first missing key.
read_sta_config ==
    IF nvs.ssid = Absent THEN ram
    ELSE IF nvs.password = Absent THEN [ram EXCEPT !.ssid = nvs.ssid]
    ELSE nvs

\* NVS after create_or_update_sta_config: each key is compared and written
\* by itself, and a write that fails leaves its key as it was.
create_or_update_sta_config ==
    IF FlashFaults
    THEN {[ssid |-> s, password |-> p] :
              s \in {nvs.ssid, ram.ssid}, p \in {nvs.password, ram.password}}
    ELSE {ram}

\* NVS after delete_sta_config, which stops at the first key it cannot erase.
delete_sta_config ==
    LET erased == IF nvs.ssid = Absent THEN nvs ELSE NoStoredCreds
    IN IF FlashFaults THEN {nvs, [nvs EXCEPT !.ssid = Absent], erased} ELSE {erased}

(***************************************************************************)
(* Begin: forget or read the stored network, then open the access point or *)
(* join as a station.                                                      *)
(***************************************************************************)
BeginAsAccessPoint(reset) ==
    /\ reset \/ ~ReadSucceeds
    /\ nvs' \in IF reset THEN delete_sta_config ELSE {nvs}
    /\ ram' = IF reset THEN ram ELSE read_sta_config
    /\ configureAndOpenAccessPointAndSetStatus
    /\ UNCHANGED <<remainingAttempts, joinCreds, link, events>>

BeginAsStation ==
    /\ ReadSucceeds
    /\ ram' = read_sta_config
    /\ remainingAttempts' = StartupAttempts
    /\ joinCreds' = ram'
    /\ link' = "joining"
    /\ mode' = "STA"
    /\ setStatus("KEEP_CONNECTION", CommonTimeout, FAR, FAR)
    /\ misled' = FALSE
    /\ UNCHANGED <<nvs, events, fallbackToStoredStaConfig>>

Begin ==
    /\ ~power
    /\ power' = TRUE
    /\ (\E reset \in BOOLEAN : BeginAsAccessPoint(reset)) \/ BeginAsStation
    /\ UNCHANGED <<staConnectionState, netif, httpdVars>>

(***************************************************************************)
(* wifi_event_handler and ip_event_handler, run by the event loop task for *)
(* the event at the head of its queue.  The driver's own handlers, which   *)
(* start and stop DHCP, run first.                                         *)
(***************************************************************************)
Dispatch(event) ==
    /\ power
    /\ events # <<>>
    /\ Head(events) = event

StaDisconnectedRetry ==
    /\ remainingAttempts # 0
    /\ setStatus("KEEP_CONNECTION", CommonTimeout, FAR, ReconnectTimeout)
    /\ misled' = FALSE
    /\ events' = Tail(events)
    /\ UNCHANGED <<remainingAttempts, fallbackToStoredStaConfig, ram, mode, link, joinCreds>>

\* read_sta_config() is 0 when it succeeds: the station is tried again only
\* when the stored configuration could not be read.
StaDisconnectedFallback ==
    /\ remainingAttempts = 0
    /\ fallbackToStoredStaConfig /\ ~ReadSucceeds
    /\ ram' = read_sta_config
    /\ fallbackToStoredStaConfig' = FALSE
    /\ connectAsSTA(ram', 1, Tail(events))

StaDisconnectedOpenAp ==
    /\ remainingAttempts = 0
    /\ ~(fallbackToStoredStaConfig /\ ~ReadSucceeds)
    /\ ram' = IF fallbackToStoredStaConfig THEN read_sta_config ELSE ram
    /\ configureAndOpenAccessPointAndSetStatus
    /\ events' = Tail(events)
    /\ UNCHANGED <<remainingAttempts, link, joinCreds>>

HandleStaDisconnected ==
    /\ Dispatch("STA_DISCONNECTED")
    /\ staConnectionState' = FALSE
    /\ netif' = "down"
    /\ StaDisconnectedRetry \/ StaDisconnectedFallback \/ StaDisconnectedOpenAp
    /\ UNCHANGED <<power, nvs, httpdVars>>

HandleStaConnected ==
    /\ Dispatch("STA_CONNECTED")
    /\ events' = Tail(events)
    /\ staConnectionState' = TRUE
    /\ nvs' \in create_or_update_sta_config
    /\ fallbackToStoredStaConfig' = TRUE
    /\ remainingAttempts' = OperationAttempts
    /\ setStatus("KEEP_CONNECTION", CommonTimeout, FAR, FAR)
    /\ netif' = "up"
    /\ misled' = FALSE
    /\ UNCHANGED <<power, ram, mode, link, joinCreds, httpdVars>>

\* Whether the link is still up is not asked.
HandleGotIp ==
    /\ Dispatch("GOT_IP")
    /\ events' = Tail(events)
    /\ setStatus("KEEP_CONNECTION", FAR, ShutdownApTimeout, FAR)
    /\ nvs' \in create_or_update_sta_config
    /\ misled' = ~staConnectionState
    /\ UNCHANGED <<power, staConnectionState, remainingAttempts,
                   fallbackToStoredStaConfig, ram, driverVars, httpdVars>>

HandleLostIp ==
    /\ Dispatch("LOST_IP")
    /\ events' = Tail(events)
    /\ UNCHANGED <<power, managerVars, ram, nvs, driverVars, httpdVars, misled>>

HandleEvent ==
    HandleStaDisconnected \/ HandleStaConnected \/ HandleGotIp \/ HandleLostIp

(***************************************************************************)
(* Supervise: three tests in sequence on deadlines the earlier ones reset, *)
(* so at most one of them acts.  uint32_t arithmetic wraps.                *)
(***************************************************************************)
\* Mutant: an attempt is not counted.
SuperviseReconnectUncounted ==
    /\ power
    /\ Expired(tReconnect)
    /\ connectAsSTA(ram, remainingAttempts, events)
    /\ UNCHANGED <<power, staConnectionState, fallbackToStoredStaConfig, ram, nvs,
                   netif, httpdVars>>

SuperviseReconnect ==
    /\ power
    /\ Expired(tReconnect)
    /\ connectAsSTA(ram, (remainingAttempts - 1) % (OperationAttempts + 1), events)
    /\ UNCHANGED <<power, staConnectionState, fallbackToStoredStaConfig, ram, nvs,
                   netif, httpdVars>>

SuperviseShutdownAp ==
    /\ power
    /\ ~Expired(tReconnect) /\ Expired(tShutdownAp)
    /\ mode' = "STA"
    /\ setStatus("KEEP_CONNECTION", FAR, FAR, FAR)
    /\ UNCHANGED <<power, staConnectionState, remainingAttempts, fallbackToStoredStaConfig,
                   ram, nvs, link, joinCreds, netif, events, httpdVars, misled>>

SuperviseTimeout ==
    /\ power
    /\ ~Expired(tReconnect) /\ ~Expired(tShutdownAp) /\ Expired(tTimeout)
    /\ configureAndOpenAccessPointAndSetStatus
    /\ UNCHANGED <<power, staConnectionState, remainingAttempts, ram, nvs,
                   link, joinCreds, netif, events, httpdVars>>

Supervise == SuperviseReconnect \/ SuperviseShutdownAp \/ SuperviseTimeout

(***************************************************************************)
(* The HTTP server task.  handleRequestWifiConnect copies the two strings  *)
(* into wifi_config_sta before it takes the semaphore, so a handler that   *)
(* reads them meanwhile may see either string old or new.                  *)
(***************************************************************************)
ReceiveWifiConnect(creds) ==
    /\ power /\ httpd = "idle"
    /\ httpd' = "copying" /\ request' = creds /\ toCopy' = Fields
    /\ UNCHANGED <<power, managerVars, ram, nvs, driverVars, events, misled>>

CopyCredential(field) ==
    /\ power /\ httpd = "copying" /\ field \in toCopy
    /\ ram' = [ram EXCEPT ![field] = request[field]]
    /\ toCopy' = toCopy \ {field}
    /\ UNCHANGED <<power, managerVars, nvs, driverVars, events, httpd, request, misled>>

StartWifiConnect ==
    /\ power /\ httpd = "copying" /\ toCopy = {}
    /\ connectAsSTA(ram, 1, events)
    /\ httpd' = "idle" /\ request' = BlankCreds
    /\ UNCHANGED <<power, staConnectionState, fallbackToStoredStaConfig, ram, nvs,
                   netif, toCopy>>

\* The answer is queued, then the handler waits two seconds for the semaphore.
ReceiveWifiDisconnect ==
    /\ power /\ httpd = "idle"
    /\ httpd' = "disconnecting"
    /\ UNCHANGED <<power, managerVars, ram, nvs, driverVars, events, request, toCopy,
                   misled>>

FinishWifiDisconnect ==
    /\ power /\ httpd = "disconnecting"
    /\ link # "idle" => Len(events) < MaxEvents
    /\ link' = "idle"
    /\ events' = IF link = "idle" THEN events ELSE Append(events, "STA_DISCONNECTED")
    /\ nvs' \in delete_sta_config
    /\ configureAndOpenAccessPointAndSetStatus
    /\ httpd' = "idle"
    /\ UNCHANGED <<power, staConnectionState, remainingAttempts, ram, joinCreds, netif,
                   request, toCopy>>

HttpdStep ==
    (\E field \in Fields : CopyCredential(field)) \/ StartWifiConnect \/ FinishWifiDisconnect

(***************************************************************************)
(* The Wi-Fi driver and the DHCP client, as the handlers rely on them: an  *)
(* attempt ends in one event, a link is lost at any time, a lease follows  *)
(* a link.  The interface stays up until the loss of the link is handled,  *)
(* so a lease may still be announced while the loss is queued.             *)
(***************************************************************************)
DriverMayPost == power /\ Len(events) < MaxEvents

JoinSucceeds ==
    /\ DriverMayPost /\ link = "joining" /\ joinCreds \in Networks
    /\ link' = "joined"
    /\ events' = Append(events, "STA_CONNECTED")
    /\ UNCHANGED <<power, managerVars, ram, nvs, mode, joinCreds, netif, httpdVars, misled>>

JoinFails ==
    /\ DriverMayPost /\ link = "joining"
    /\ link' = "idle"
    /\ events' = Append(events, "STA_DISCONNECTED")
    /\ UNCHANGED <<power, managerVars, ram, nvs, mode, joinCreds, netif, httpdVars, misled>>

LinkLost ==
    /\ DriverMayPost /\ link = "joined"
    /\ link' = "idle"
    /\ events' = Append(events, "STA_DISCONNECTED")
    /\ UNCHANGED <<power, managerVars, ram, nvs, mode, joinCreds, netif, httpdVars, misled>>

LeaseGranted ==
    /\ DriverMayPost /\ netif = "up"
    /\ netif' = "bound"
    /\ events' = Append(events, "GOT_IP")
    /\ UNCHANGED <<power, managerVars, ram, nvs, mode, link, joinCreds, httpdVars, misled>>

LeaseLost ==
    /\ DriverMayPost /\ netif = "bound"
    /\ netif' = "up"
    /\ events' = Append(events, "LOST_IP")
    /\ UNCHANGED <<power, managerVars, ram, nvs, mode, link, joinCreds, httpdVars, misled>>

JoinEnds == JoinSucceeds \/ JoinFails

Driver == JoinEnds \/ LinkLost \/ LeaseGranted \/ LeaseLost

(***************************************************************************)
(* Time, and a reset (power loss, an abort of ESP_ERROR_CHECK, a restart)  *)
(* at any moment: RAM is lost, NVS stays, and a pending save or erase may  *)
(* have reached only its first key.                                        *)
(***************************************************************************)
Elapse(t) == IF t > 0 THEN t - 1 ELSE t

Tick ==
    /\ power
    /\ \E t \in {tTimeout, tShutdownAp, tReconnect} : t > 0
    /\ tTimeout' = Elapse(tTimeout)
    /\ tShutdownAp' = Elapse(tShutdownAp)
    /\ tReconnect' = Elapse(tReconnect)
    /\ UNCHANGED <<power, workingState, staConnectionState, remainingAttempts,
                   fallbackToStoredStaConfig, ram, nvs, driverVars, events, httpdVars,
                   misled>>

Saving == events # <<>> /\ Head(events) \in {"STA_CONNECTED", "GOT_IP"}

InterruptedWrites ==
    {nvs} \cup (IF Saving THEN {[nvs EXCEPT !.ssid = ram.ssid]} ELSE {})
          \cup (IF httpd = "disconnecting" THEN {[nvs EXCEPT !.ssid = Absent]} ELSE {})

Reboot ==
    /\ power
    /\ power' = FALSE
    /\ nvs' \in InterruptedWrites
    /\ setStatus("AP_STARTED", FAR, FAR, FAR)
    /\ staConnectionState' = FALSE
    /\ remainingAttempts' = 1
    /\ fallbackToStoredStaConfig' = FALSE
    /\ ram' = BlankCreds
    /\ mode' = "NULL" /\ link' = "idle" /\ joinCreds' = BlankCreds /\ netif' = "down"
    /\ events' = <<>>
    /\ httpd' = "idle" /\ request' = BlankCreds /\ toCopy' = {}
    /\ misled' = FALSE

Init ==
    /\ power = FALSE
    /\ workingState = "AP_STARTED"
    /\ tTimeout = FAR /\ tShutdownAp = FAR /\ tReconnect = FAR
    /\ staConnectionState = FALSE
    /\ remainingAttempts = 1
    /\ fallbackToStoredStaConfig = FALSE
    /\ ram = BlankCreds
    /\ nvs \in {NoStoredCreds} \cup Networks
    /\ mode = "NULL" /\ link = "idle" /\ joinCreds = BlankCreds /\ netif = "down"
    /\ events = <<>>
    /\ httpd = "idle" /\ request = BlankCreds /\ toCopy = {}
    /\ misled = FALSE

Next ==
    \/ Begin
    \/ HandleEvent
    \/ Supervise
    \/ \E creds \in RequestedCreds : ReceiveWifiConnect(creds)
    \/ ReceiveWifiDisconnect
    \/ HttpdStep
    \/ Driver
    \/ Tick
    \/ Reboot

\* The tasks run and time passes; an attempt to join ends, one way or the
\* other.  Nothing makes a user ask, a network answer or a device reset.
Fairness ==
    /\ WF_vars(Begin)
    /\ WF_vars(HandleEvent)
    /\ WF_vars(Supervise)
    /\ WF_vars(HttpdStep)
    /\ WF_vars(Tick)
    /\ WF_vars(JoinEnds)

Spec == Init /\ [][Next]_vars
FairSpec == Spec /\ Fairness

(***************************************************************************)
(* Safety.                                                                 *)
(***************************************************************************)
\* The three deadlines never contradict each other, although every handler
\* sets all of them and Supervise tests them one after the other: an open
\* access point waits for nothing, the access point is only closed while
\* nothing else is pending, and a scheduled reconnect is always backed by a
\* later timeout (setStatus and all its callers).
DeadlineDiscipline ==
    /\ workingState = "AP_STARTED" =>
          tTimeout = FAR /\ tShutdownAp = FAR /\ tReconnect = FAR
    /\ tShutdownAp # FAR => tTimeout = FAR /\ tReconnect = FAR
    /\ tReconnect # FAR => tTimeout >= tReconnect

\* The attempt counter is a uint32_t that Supervise decrements without a
\* test: a reconnect is never scheduled with no attempt left, so it cannot
\* wrap around to 2^32-1 attempts and keep the access point shut.
ReconnectHasAttempts == tReconnect # FAR => remainingAttempts > 0

\* A manager in its station role is watched by a timeout or has a link, and
\* the access point is about to be closed only over a link.  One thing only
\* breaks this: a lease handled after the loss of its link, which takes the
\* timeout away and lasts until the next event, request or restart (setStatus
\* and its callers; the handler of GOT_IP does not look at the link).
WatchdogOrConnected ==
    /\ power /\ workingState = "KEEP_CONNECTION"
          => tTimeout # FAR \/ staConnectionState \/ misled
    /\ tShutdownAp # FAR => staConnectionState \/ misled

\* fallbackToStoredStaConfig promises a stored configuration to go back to
\* (its comment: set when a connection succeeded and was saved), so whenever
\* it is set NVS holds both keys.
FallbackIsStored == fallbackToStoredStaConfig => nvs.ssid # Absent /\ nvs.password # Absent

\* In the access point role the access point is really open.
ApStartedIsOpen == power /\ workingState = "AP_STARTED" => mode = "APSTA"

\* Supervise closes the access point only while the station link is up, so that
\* the user who configures the device over it is not locked out; or after a
\* lease that was announced when the link was already lost, and by nothing
\* else: not by a request or a loss between the lease and the expiry.
ApClosedOnlyWhenConnected ==
    [][power /\ mode = "APSTA" /\ mode' = "STA" => staConnectionState \/ misled]_vars

\* The manager implements Connection: whatever the order of events, timers and
\* requests, there is a portal, or a station that has a link, is watched by a
\* timeout or was misled by a late lease.  Attempts come out of a budget that
\* a connection, a request or a power-up sets; a loss with nothing left opens
\* the portal, or grants one attempt more where the stored network cannot be
\* read.
Device == INSTANCE Connection WITH
    Startup <- StartupAttempts, Most <- OperationAttempts,
    role <- IF ~power THEN "off" ELSE IF workingState = "AP_STARTED" THEN "portal" ELSE "station",
    linked <- staConnectionState, budget <- remainingAttempts, ap <- mode = "APSTA",
    watched <- tTimeout # FAR

ConnectionImplemented == Device!Spec

(***************************************************************************)
(* Liveness.                                                               *)
(***************************************************************************)
\* From some point on no user asks for anything and the device is not reset.
Calm == <>[][power' = power /\ httpd' \in {httpd, "idle"}]_vars

\* A connection attempt after power-up or a request is always resolved: it
\* leads to a connection or to the open access point, whatever the network
\* does, unless a lease of the network left before is announced so late that
\* the manager takes it for the new one's.
Attempting ==
    /\ power /\ workingState = "KEEP_CONNECTION" /\ ~staConnectionState
    /\ remainingAttempts <= StartupAttempts

AttemptResolved == workingState = "AP_STARTED" \/ staConnectionState \/ misled

AttemptsEnd == Calm => (Attempting ~> AttemptResolved)

(***************************************************************************)
(* What comments in the code say, and the code does not do.                *)
(***************************************************************************)

\* The comment on fallbackToStoredStaConfig, and the warning logged where it
\* is used: when the attempts with new credentials are used up and a stored
\* configuration can be read, the manager goes back to the stored network.
FallbackHonoured ==
    [][HandleStaDisconnected /\ remainingAttempts = 0
          /\ fallbackToStoredStaConfig /\ ReadSucceeds
          => workingState' = "KEEP_CONNECTION" /\ joinCreds' = nvs]_vars

\* The same comment: it is set when a connection succeeded and its
\* configuration is saved, so what is saved is a network that accepted it.
FallbackConnectedOnce == fallbackToStoredStaConfig => nvs \in Networks

\* The comment in the handler of STA_CONNECTED: the timeout has to be set as
\* long as there is no address.  A station whose events are all handled has an
\* address, or a timeout.
TimeoutWithoutAddress ==
    power /\ workingState = "KEEP_CONNECTION" /\ events = <<>> => tTimeout # FAR \/ netif = "bound"
=============================================================================
