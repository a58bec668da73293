------------------------ MODULE WifiManagerProofs ------------------------
(***************************************************************************)
(* Proofs about the Wi-Fi connection manager, for every set of networks,   *)
(* every timeout and every environment (leases that come late and failing  *)
(* flash writes included).                                                 *)
(***************************************************************************)
EXTENDS WifiManager, TLAPS

USE DEF FAR

\* What the flash operations leave in NVS, and what reading it leaves in RAM,
\* are credentials again.
LEMMA FlashTypes ==
    ASSUME TypeOK
    PROVE  /\ read_sta_config \in Creds
           /\ create_or_update_sta_config \subseteq StoredCreds
           /\ delete_sta_config \subseteq StoredCreds
           /\ InterruptedWrites \subseteq StoredCreds
  <1> USE DEF TypeOK, CredsTypeOK, Creds, StoredCreds
  <1>1. read_sta_config \in Creds
    BY CredentialsAssumption DEF read_sta_config
  <1>2. create_or_update_sta_config \subseteq StoredCreds
    BY DEF create_or_update_sta_config
  <1>3. delete_sta_config \subseteq StoredCreds
    BY DEF delete_sta_config, NoStoredCreds
  <1>4. InterruptedWrites \subseteq StoredCreds
    BY DEF InterruptedWrites
  <1> QED BY <1>1, <1>2, <1>3, <1>4

\* Every step of every task keeps every variable in its type.
THEOREM TypeCorrect == Spec => []TypeOK
<1>1. Init => TypeOK
  <2> SUFFICES ASSUME Init PROVE TypeOK
    OBVIOUS
  <2>1. ram \in Creds /\ joinCreds \in Creds /\ request \in Creds
    BY DEF Init, Creds, BlankCreds
  <2>2. nvs \in StoredCreds
    BY CredentialsAssumption DEF Init, StoredCreds, NoStoredCreds
  <2> USE DEF Init, FlagsTypeOK, StatusTypeOK, CredsTypeOK, DriverTypeOK, Deadline
  <2>3. FlagsTypeOK OBVIOUS
  <2>6. StatusTypeOK BY AttemptsAssumption
  <2>4. CredsTypeOK BY <2>1, <2>2
  <2>5. DriverTypeOK OBVIOUS
  <2> QED BY <2>3, <2>4, <2>5, <2>6 DEF TypeOK
<1>2. TypeOK /\ [Next]_vars => TypeOK'
  <2> SUFFICES ASSUME TypeOK, [Next]_vars PROVE TypeOK'
    OBVIOUS
  <2> USE CredentialsAssumption, AttemptsAssumption, TimeoutsAssumption
  <2>0. /\ read_sta_config \in Creds
        /\ create_or_update_sta_config \subseteq StoredCreds
        /\ delete_sta_config \subseteq StoredCreds
        /\ InterruptedWrites \subseteq StoredCreds
        /\ BlankCreds \in Creds
    BY FlashTypes DEF BlankCreds, Creds
  <2> USE DEF TypeOK, FlagsTypeOK, StatusTypeOK, CredsTypeOK, DriverTypeOK, Deadline, Events
  <2>1. CASE Begin
    <3> USE <2>1, <2>0 DEF Begin, BeginAsAccessPoint, BeginAsStation, setStatus, configureAndOpenAccessPointAndSetStatus, httpdVars
    <3>0. FlagsTypeOK' OBVIOUS
    <3>1. StatusTypeOK' OBVIOUS
    <3>2. CredsTypeOK' OBVIOUS
    <3>3. DriverTypeOK' OBVIOUS
    <3> QED BY <3>0, <3>1, <3>2, <3>3
  <2>2. CASE HandleStaDisconnected
    <3> USE <2>2, <2>0 DEF HandleStaDisconnected, Dispatch, StaDisconnectedRetry, StaDisconnectedFallback, StaDisconnectedOpenAp, connectAsSTA, setStatus, configureAndOpenAccessPointAndSetStatus, httpdVars
    <3>0. FlagsTypeOK' OBVIOUS
    <3>1. StatusTypeOK' OBVIOUS
    <3>2. CredsTypeOK' OBVIOUS
    <3>3. DriverTypeOK'
      <4>1. CASE StaDisconnectedRetry BY <4>1
      <4>2. CASE StaDisconnectedFallback BY <4>2
      <4>3. CASE StaDisconnectedOpenAp BY <4>3
      <4> QED BY <4>1, <4>2, <4>3
    <3> QED BY <3>0, <3>1, <3>2, <3>3
  <2>3. CASE HandleStaConnected
    <3> USE <2>3, <2>0 DEF HandleStaConnected, Dispatch, setStatus, httpdVars
    <3>0. FlagsTypeOK' OBVIOUS
    <3>1. StatusTypeOK' OBVIOUS
    <3>2. CredsTypeOK' OBVIOUS
    <3>3. DriverTypeOK' OBVIOUS
    <3> QED BY <3>0, <3>1, <3>2, <3>3
  <2>4. CASE HandleGotIp
    <3> USE <2>4, <2>0 DEF HandleGotIp, Dispatch, setStatus, driverVars, httpdVars
    <3>0. FlagsTypeOK' OBVIOUS
    <3>1. StatusTypeOK' OBVIOUS
    <3>2. CredsTypeOK' OBVIOUS
    <3>3. DriverTypeOK' OBVIOUS
    <3> QED BY <3>0, <3>1, <3>2, <3>3
  <2>5. CASE HandleLostIp
    BY <2>5 DEF HandleLostIp, Dispatch, managerVars, statusVars, driverVars, httpdVars
  <2>6. CASE SuperviseReconnect
    <3> USE <2>6 DEF SuperviseReconnect, connectAsSTA, setStatus, httpdVars
    <3>0. FlagsTypeOK' OBVIOUS
    <3>1. StatusTypeOK' OBVIOUS
    <3>2. CredsTypeOK' OBVIOUS
    <3>3. DriverTypeOK' OBVIOUS
    <3> QED BY <3>0, <3>1, <3>2, <3>3
  <2>7. CASE SuperviseShutdownAp
    <3> USE <2>7 DEF SuperviseShutdownAp, setStatus, httpdVars
    <3>0. FlagsTypeOK' OBVIOUS
    <3>1. StatusTypeOK' OBVIOUS
    <3>2. CredsTypeOK' OBVIOUS
    <3>3. DriverTypeOK' OBVIOUS
    <3> QED BY <3>0, <3>1, <3>2, <3>3
  <2>8. CASE SuperviseTimeout
    BY <2>8 DEF SuperviseTimeout, setStatus, configureAndOpenAccessPointAndSetStatus, httpdVars
  <2>9. ASSUME NEW creds \in RequestedCreds, ReceiveWifiConnect(creds)
        PROVE  TypeOK'
    BY <2>9 DEF ReceiveWifiConnect, RequestedCreds, Creds, Fields,
       managerVars, statusVars, driverVars
  <2>10. ASSUME NEW field \in Fields, CopyCredential(field)
         PROVE  TypeOK'
    BY <2>10 DEF CopyCredential, Creds, Fields, managerVars, statusVars, driverVars
  <2>11. CASE StartWifiConnect
    <3> USE <2>11, <2>0 DEF StartWifiConnect, connectAsSTA, setStatus
    <3>0. FlagsTypeOK' OBVIOUS
    <3>1. StatusTypeOK' OBVIOUS
    <3>2. CredsTypeOK' OBVIOUS
    <3>3. DriverTypeOK' OBVIOUS
    <3> QED BY <3>0, <3>1, <3>2, <3>3
  <2>12. CASE ReceiveWifiDisconnect
    <3> USE <2>12 DEF ReceiveWifiDisconnect, managerVars, statusVars, driverVars
    <3>0. FlagsTypeOK' OBVIOUS
    <3>1. StatusTypeOK' OBVIOUS
    <3>2. CredsTypeOK' OBVIOUS
    <3>3. DriverTypeOK' OBVIOUS
    <3> QED BY <3>0, <3>1, <3>2, <3>3
  <2>13. CASE FinishWifiDisconnect
    <3> USE <2>13, <2>0 DEF FinishWifiDisconnect, setStatus, configureAndOpenAccessPointAndSetStatus
    <3>0. FlagsTypeOK' OBVIOUS
    <3>1. StatusTypeOK' OBVIOUS
    <3>2. CredsTypeOK' OBVIOUS
    <3>3. DriverTypeOK' OBVIOUS
    <3> QED BY <3>0, <3>1, <3>2, <3>3
  <2>14. CASE Driver
    <3> USE DEF managerVars, statusVars, httpdVars
    <3>1. CASE JoinSucceeds BY <3>1 DEF JoinSucceeds
    <3>2. CASE JoinFails BY <3>2 DEF JoinFails
    <3>3. CASE LinkLost BY <3>3 DEF LinkLost
    <3>4. CASE LeaseGranted BY <3>4 DEF LeaseGranted
    <3>5. CASE LeaseLost BY <3>5 DEF LeaseLost
    <3> QED BY <2>14, <3>1, <3>2, <3>3, <3>4, <3>5 DEF Driver, JoinEnds
  <2>15. CASE Tick
    BY <2>15 DEF Tick, Elapse, driverVars, httpdVars
  <2>16. CASE Reboot
    <3> USE <2>16, <2>0 DEF Reboot, setStatus
    <3>0. FlagsTypeOK' OBVIOUS
    <3>1. StatusTypeOK' OBVIOUS
    <3>2. CredsTypeOK' OBVIOUS
    <3>3. DriverTypeOK' OBVIOUS
    <3> QED BY <3>0, <3>1, <3>2, <3>3
  <2>17. CASE UNCHANGED vars
    BY <2>17 DEF vars, managerVars, statusVars, driverVars, httpdVars
  <2> QED BY <2>1, <2>2, <2>3, <2>4, <2>5, <2>6, <2>7, <2>8, <2>9, <2>10, <2>11, <2>12,
             <2>13, <2>14, <2>15, <2>16, <2>17
          DEF Next, HandleEvent, Supervise, HttpdStep
<1> QED BY <1>1, <1>2, PTL DEF Spec

(***************************************************************************)
(* The deadlines and the attempt counter, in every environment.            *)
(***************************************************************************)
DeadlineInv == TypeOK /\ DeadlineDiscipline /\ ReconnectHasAttempts /\ ApStartedIsOpen

\* DeadlineInv is inductive: no handler, no pass of the supervisor and no tick
\* breaks it.
LEMMA DeadlineStep == DeadlineInv /\ [Next]_vars /\ TypeOK' => DeadlineInv'
<1> SUFFICES ASSUME DeadlineInv, [Next]_vars, TypeOK'
             PROVE  DeadlineDiscipline' /\ ReconnectHasAttempts' /\ ApStartedIsOpen'
  BY DEF DeadlineInv
<1> USE AttemptsAssumption, TimeoutsAssumption
<1> USE DEF DeadlineInv, DeadlineDiscipline, ReconnectHasAttempts, ApStartedIsOpen, setStatus,
            TypeOK, StatusTypeOK, Deadline
<1>1. CASE Begin
  BY <1>1 DEF Begin, BeginAsAccessPoint, BeginAsStation, configureAndOpenAccessPointAndSetStatus
<1>2. CASE HandleStaDisconnected
  <2> USE <1>2 DEF HandleStaDisconnected
  <2>1. CASE StaDisconnectedRetry BY <2>1 DEF StaDisconnectedRetry
  <2>2. CASE StaDisconnectedFallback BY <2>2 DEF StaDisconnectedFallback, connectAsSTA
  <2>3. CASE StaDisconnectedOpenAp
    BY <2>3 DEF StaDisconnectedOpenAp, configureAndOpenAccessPointAndSetStatus
  <2> QED BY <2>1, <2>2, <2>3
<1>3. CASE HandleStaConnected
  BY <1>3 DEF HandleStaConnected
<1>4. CASE HandleGotIp
  BY <1>4 DEF HandleGotIp
<1>5. CASE SuperviseReconnect
  BY <1>5 DEF SuperviseReconnect, connectAsSTA
<1>6. CASE SuperviseShutdownAp
  BY <1>6 DEF SuperviseShutdownAp
<1>7. CASE SuperviseTimeout
  BY <1>7 DEF SuperviseTimeout, configureAndOpenAccessPointAndSetStatus
<1>8. CASE StartWifiConnect
  BY <1>8 DEF StartWifiConnect, connectAsSTA
<1>9. CASE FinishWifiDisconnect
  BY <1>9 DEF FinishWifiDisconnect, configureAndOpenAccessPointAndSetStatus
<1>10. CASE Tick
  <2> USE <1>10 DEF Tick, Elapse
  <2>1. DeadlineDiscipline' OBVIOUS
  <2>2. ReconnectHasAttempts' OBVIOUS
  <2>3. ApStartedIsOpen' BY DEF driverVars
  <2> QED BY <2>1, <2>2, <2>3
<1>11. CASE Reboot
  BY <1>11 DEF Reboot
<1>12. ASSUME UNCHANGED <<power, managerVars, mode>>
       PROVE  DeadlineDiscipline' /\ ReconnectHasAttempts' /\ ApStartedIsOpen'
  BY <1>12 DEF managerVars, statusVars
<1>13. HandleLostIp \/ (\E creds \in RequestedCreds : ReceiveWifiConnect(creds))
          \/ ReceiveWifiDisconnect \/ (\E field \in Fields : CopyCredential(field))
          \/ Driver \/ UNCHANGED vars
       => UNCHANGED <<power, managerVars, mode>>
  BY DEF HandleLostIp, ReceiveWifiConnect, ReceiveWifiDisconnect, CopyCredential, Driver,
     JoinEnds, JoinSucceeds, JoinFails, LinkLost, LeaseGranted, LeaseLost, vars, driverVars
<1> QED BY <1>1, <1>2, <1>3, <1>4, <1>5, <1>6, <1>7, <1>8, <1>9, <1>10, <1>11, <1>12, <1>13
        DEF Next, HandleEvent, Supervise, HttpdStep

\* DeadlineInv holds for ever: no handler of an event, pass of Supervise or
\* request of the HTTP server leaves it.
LEMMA DeadlineInvariant == Spec => []DeadlineInv
<1>1. Init => DeadlineDiscipline /\ ReconnectHasAttempts /\ ApStartedIsOpen
  BY DEF Init, DeadlineDiscipline, ReconnectHasAttempts, ApStartedIsOpen
<1> QED BY <1>1, DeadlineStep, TypeCorrect, PTL DEF Spec, DeadlineInv

\* The deadlines never contradict each other, whatever order handlers,
\* supervisor and requests run in.
THEOREM DeadlinesDisciplined == Spec => []DeadlineDiscipline
BY DeadlineInvariant, PTL DEF DeadlineInv

\* No reconnect is ever due without an attempt left, so Supervise's
\* decrement never wraps.
THEOREM ReconnectsBounded == Spec => []ReconnectHasAttempts
BY DeadlineInvariant, PTL DEF DeadlineInv

\* A manager in its access point role has its access point open.
THEOREM AccessPointOpen == Spec => []ApStartedIsOpen
BY DeadlineInvariant, PTL DEF DeadlineInv

(***************************************************************************)
(* The stored configuration, when no flash write fails.                    *)
(***************************************************************************)
\* No step of a handler, of the flash or of a reset leaves the fallback flag
\* set over an empty configuration.
LEMMA FallbackStep ==
    ~FlashFaults /\ TypeOK /\ FallbackIsStored /\ [Next]_vars => FallbackIsStored'
<1> SUFFICES ASSUME ~FlashFaults, TypeOK, FallbackIsStored, [Next]_vars
             PROVE  FallbackIsStored'
  OBVIOUS
<1> USE CredentialsAssumption DEF FallbackIsStored
<1>1. create_or_update_sta_config = {ram} /\ ram.ssid # Absent /\ ram.password # Absent
  BY DEF create_or_update_sta_config, TypeOK, CredsTypeOK, Creds
<1>2. CASE Begin
  <2>1. CASE BeginAsStation BY <1>2, <2>1 DEF BeginAsStation
  <2>2. ASSUME NEW reset \in BOOLEAN, BeginAsAccessPoint(reset) PROVE FallbackIsStored'
    BY <2>2 DEF BeginAsAccessPoint, configureAndOpenAccessPointAndSetStatus
  <2> QED BY <1>2, <2>1, <2>2 DEF Begin
<1>3. CASE HandleStaDisconnected
  BY <1>3 DEF HandleStaDisconnected, StaDisconnectedRetry, StaDisconnectedFallback,
     StaDisconnectedOpenAp, configureAndOpenAccessPointAndSetStatus
<1>4. CASE HandleStaConnected \/ HandleGotIp
  BY <1>1, <1>4 DEF HandleStaConnected, HandleGotIp
<1>5. CASE SuperviseTimeout \/ FinishWifiDisconnect \/ Reboot
  BY <1>5 DEF SuperviseTimeout, FinishWifiDisconnect, Reboot,
     configureAndOpenAccessPointAndSetStatus
<1>6. HandleLostIp \/ SuperviseReconnect \/ SuperviseShutdownAp
          \/ (\E creds \in RequestedCreds : ReceiveWifiConnect(creds))
          \/ ReceiveWifiDisconnect \/ (\E field \in Fields : CopyCredential(field))
          \/ StartWifiConnect \/ Driver \/ Tick \/ UNCHANGED vars
       => UNCHANGED <<fallbackToStoredStaConfig, nvs>>
  BY DEF HandleLostIp, SuperviseReconnect, SuperviseShutdownAp, ReceiveWifiConnect,
     ReceiveWifiDisconnect, CopyCredential, StartWifiConnect, Driver, JoinEnds, JoinSucceeds,
     JoinFails, LinkLost, LeaseGranted, LeaseLost, Tick, vars, managerVars
<1>7. ASSUME UNCHANGED <<fallbackToStoredStaConfig, nvs>> PROVE FallbackIsStored'
  BY <1>7
<1> QED BY <1>2, <1>3, <1>4, <1>5, <1>6, <1>7 DEF Next, HandleEvent, Supervise, HttpdStep

\* When flash writes succeed, fallbackToStoredStaConfig is only ever set while
\* NVS holds a configuration, through every erase, save and reset.
THEOREM FallbackStored == ASSUME ~FlashFaults PROVE Spec => []FallbackIsStored
<1>1. Init => FallbackIsStored
  BY DEF Init, FallbackIsStored
<1> QED BY <1>1, FallbackStep, TypeCorrect, PTL DEF Spec

(***************************************************************************)
(* The timeout, the link and the lease.                                    *)
(***************************************************************************)
\* No step takes the timeout from a station without a link, or keeps the access
\* point's deadline over a lost one, but the handler of a lease that is late.
LEMMA WatchdogStep == TypeOK /\ WatchdogOrConnected /\ [Next]_vars => WatchdogOrConnected'
<1> SUFFICES ASSUME TypeOK, WatchdogOrConnected, [Next]_vars PROVE WatchdogOrConnected'
  OBVIOUS
<1> USE TimeoutsAssumption DEF WatchdogOrConnected, setStatus
<1>1. ASSUME NEW creds, NEW attempts, NEW queue, connectAsSTA(creds, attempts, queue)
      PROVE  WatchdogOrConnected'
  BY <1>1 DEF connectAsSTA
<1>2. ASSUME configureAndOpenAccessPointAndSetStatus
      PROVE  WatchdogOrConnected'
  BY <1>2 DEF configureAndOpenAccessPointAndSetStatus
<1>3. CASE Begin
  BY <1>2, <1>3 DEF Begin, BeginAsAccessPoint, BeginAsStation
<1>4. CASE HandleStaDisconnected
  BY <1>1, <1>2, <1>4 DEF HandleStaDisconnected, StaDisconnectedRetry, StaDisconnectedFallback,
     StaDisconnectedOpenAp
<1>5. CASE HandleStaConnected
  BY <1>5 DEF HandleStaConnected
<1>6. CASE HandleGotIp
  BY <1>6 DEF HandleGotIp, TypeOK, FlagsTypeOK
<1>7. CASE SuperviseReconnect \/ StartWifiConnect
  BY <1>1, <1>7 DEF SuperviseReconnect, StartWifiConnect
<1>8. CASE SuperviseShutdownAp
  BY <1>8 DEF SuperviseShutdownAp, Expired
<1>9. CASE SuperviseTimeout \/ FinishWifiDisconnect
  BY <1>2, <1>9 DEF SuperviseTimeout, FinishWifiDisconnect
<1>10. CASE Tick
  BY <1>10 DEF Tick, Elapse, TypeOK, StatusTypeOK, Deadline
<1>11. CASE Reboot
  BY <1>11 DEF Reboot
<1>12. CASE HandleLostIp \/ (\E creds \in RequestedCreds : ReceiveWifiConnect(creds))
            \/ ReceiveWifiDisconnect \/ (\E field \in Fields : CopyCredential(field))
            \/ Driver \/ UNCHANGED vars
  <2>1. UNCHANGED <<power, managerVars, misled>>
    BY <1>12 DEF HandleLostIp, ReceiveWifiConnect, ReceiveWifiDisconnect, CopyCredential,
       Driver, JoinEnds, JoinSucceeds, JoinFails, LinkLost, LeaseGranted, LeaseLost, vars
  <2> QED BY <2>1 DEF managerVars, statusVars
<1> QED BY <1>3, <1>4, <1>5, <1>6, <1>7, <1>8, <1>9, <1>10, <1>11, <1>12
        DEF Next, HandleEvent, Supervise, HttpdStep

\* In every order of events, timers and requests, a station without a link is
\* watched by a timeout, unless the last thing it was told is a late lease.
THEOREM LinkSupervised == Spec => []WatchdogOrConnected
<1>1. Init => WatchdogOrConnected
  BY DEF Init, WatchdogOrConnected
<1> QED BY <1>1, WatchdogStep, TypeCorrect, PTL DEF Spec

\* The access point is closed only over a link that is up, or after a lease
\* that came when the link was already lost.
THEOREM ClosingIsSafe == Spec => ApClosedOnlyWhenConnected
<1>1. WatchdogOrConnected /\ [Next]_vars
        => [power /\ mode = "APSTA" /\ mode' = "STA" => staConnectionState \/ misled]_vars
  <2> SUFFICES ASSUME WatchdogOrConnected, Next, power, mode = "APSTA", mode' = "STA"
               PROVE  staConnectionState \/ misled
    OBVIOUS
  <2>1. CASE SuperviseShutdownAp
    BY <2>1 DEF SuperviseShutdownAp, Expired, WatchdogOrConnected
  <2>2. SuperviseShutdownAp
    BY DEF Next, Begin, HandleEvent, HandleStaDisconnected, StaDisconnectedRetry,
       StaDisconnectedFallback, StaDisconnectedOpenAp, HandleStaConnected, HandleGotIp,
       HandleLostIp, Supervise, SuperviseReconnect, SuperviseTimeout, ReceiveWifiConnect,
       ReceiveWifiDisconnect, HttpdStep, CopyCredential, StartWifiConnect,
       FinishWifiDisconnect, Driver, JoinEnds, JoinSucceeds, JoinFails, LinkLost,
       LeaseGranted, LeaseLost, Tick, Reboot, connectAsSTA,
       configureAndOpenAccessPointAndSetStatus, driverVars
  <2> QED BY <2>1, <2>2
<1> QED BY <1>1, LinkSupervised, PTL DEF Spec, ApClosedOnlyWhenConnected

(***************************************************************************)
(* The manager implements Connection.                                      *)
(***************************************************************************)
\* The access point of a device that is off is closed.
ClosedWhenOff == ~power => mode = "NULL"

LinkInv == DeadlineInv /\ WatchdogOrConnected /\ ClosedWhenOff

\* No step but Begin leaves a device off, and Reboot closes the access point.
LEMMA ClosedWhenOffStep == ClosedWhenOff /\ [Next]_vars => ClosedWhenOff'
<1> SUFFICES ASSUME ClosedWhenOff, [Next]_vars PROVE ClosedWhenOff'
  OBVIOUS
<1>1. Next => power \/ power'
  BY DEF Next, Begin, HandleEvent, HandleStaDisconnected, HandleStaConnected, HandleGotIp,
     HandleLostIp, Dispatch, Supervise, SuperviseReconnect, SuperviseShutdownAp,
     SuperviseTimeout, ReceiveWifiConnect, ReceiveWifiDisconnect, HttpdStep, CopyCredential,
     StartWifiConnect, FinishWifiDisconnect, Driver, JoinEnds, JoinSucceeds, JoinFails,
     LinkLost, LeaseGranted, LeaseLost, DriverMayPost, Tick, Reboot
<1>2. Next /\ power => power' \/ mode' = "NULL"
  BY DEF Next, Begin, HandleEvent, HandleStaDisconnected, HandleStaConnected, HandleGotIp,
     HandleLostIp, Supervise, SuperviseReconnect, SuperviseShutdownAp, SuperviseTimeout,
     ReceiveWifiConnect, ReceiveWifiDisconnect, HttpdStep, CopyCredential, StartWifiConnect,
     FinishWifiDisconnect, Driver, JoinEnds, JoinSucceeds, JoinFails, LinkLost, LeaseGranted,
     LeaseLost, Tick, Reboot
<1>3. UNCHANGED vars => ClosedWhenOff'
  BY DEF ClosedWhenOff, vars, driverVars
<1> QED BY <1>1, <1>2, <1>3 DEF ClosedWhenOff

\* Every step of the manager is one of the device, or leaves it alone.  That
\* a pass of the supervisor never spends an attempt it does not have, and that
\* the access point is closed only over a link or after a late lease, are the
\* invariants.
LEMMA ConnectionStep ==
    ASSUME LinkInv, [Next]_vars
    PROVE  [Device!Next]_(Device!connectionVars)
<1> USE AttemptsAssumption
<1> USE TimeoutsAssumption
<1> USE DEF Device!connectionVars, Device!On, Device!BeStation, Device!OpenPortal, setStatus,
            configureAndOpenAccessPointAndSetStatus, connectAsSTA
<1>1. /\ power \in BOOLEAN /\ staConnectionState \in BOOLEAN /\ misled \in BOOLEAN
      /\ workingState \in {"AP_STARTED", "KEEP_CONNECTION"}
      /\ remainingAttempts \in 0 .. OperationAttempts
      /\ power /\ workingState = "AP_STARTED" => mode = "APSTA"
      /\ ~power => mode # "APSTA"
  BY DEF LinkInv, ClosedWhenOff, DeadlineInv, TypeOK, FlagsTypeOK, StatusTypeOK, ApStartedIsOpen
<1>2. CASE Begin
  <2>1. Device!PowerUp
    BY <1>1, <1>2 DEF Begin, BeginAsAccessPoint, BeginAsStation, Device!PowerUp
  <2> QED BY <2>1 DEF Device!Next
<1>3. CASE HandleStaDisconnected
  <2>1. Device!LoseLink
    <3>1. power /\ power' /\ ~staConnectionState'
      BY <1>3 DEF HandleStaDisconnected, Dispatch
    <3>2. CASE StaDisconnectedRetry
      BY <1>1, <3>1, <3>2 DEF StaDisconnectedRetry, Device!LoseLink
    <3>3. CASE StaDisconnectedFallback
      BY <1>1, <3>1, <3>3 DEF StaDisconnectedFallback, Device!LoseLink
    <3>4. CASE StaDisconnectedOpenAp
      BY <1>1, <3>1, <3>4 DEF StaDisconnectedOpenAp, Device!LoseLink, Device!OpenPortal
    <3> QED BY <1>3, <3>2, <3>3, <3>4 DEF HandleStaDisconnected
  <2> QED BY <2>1 DEF Device!Next
<1>4. CASE HandleStaConnected
  <2>1. Device!GetLink
    BY <1>1, <1>4 DEF HandleStaConnected, Dispatch, Device!GetLink
  <2> QED BY <2>1 DEF Device!Next
<1>5. CASE HandleGotIp
  <2>1. Device!GetLease
    BY <1>1, <1>5 DEF HandleGotIp, Dispatch, driverVars, Device!GetLease
  <2> QED BY <2>1 DEF Device!Next
<1>6. CASE SuperviseReconnect
  <2>1. workingState = "KEEP_CONNECTION" /\ remainingAttempts > 0
    BY <1>1, <1>6 DEF SuperviseReconnect, Expired, LinkInv, DeadlineInv, DeadlineDiscipline,
       ReconnectHasAttempts
  <2>2. Device!TryAgain
    BY <1>1, <1>6, <2>1 DEF SuperviseReconnect, Device!TryAgain
  <2> QED BY <2>2 DEF Device!Next
<1>7. CASE SuperviseShutdownAp
  <2>1. /\ workingState = "KEEP_CONNECTION" /\ tTimeout = FAR
        /\ staConnectionState \/ misled
    BY <1>1, <1>7 DEF SuperviseShutdownAp, Expired, LinkInv, DeadlineInv, DeadlineDiscipline,
       WatchdogOrConnected
  <2>2. Device!CloseAp
    BY <1>1, <1>7, <2>1 DEF SuperviseShutdownAp, Device!CloseAp
  <2> QED BY <2>2 DEF Device!Next
<1>8. CASE SuperviseTimeout \/ FinishWifiDisconnect
  <2>1. Device!Leave
    BY <1>1, <1>8 DEF SuperviseTimeout, FinishWifiDisconnect, Device!Leave, Device!OpenPortal
  <2> QED BY <2>1 DEF Device!Next
<1>9. CASE StartWifiConnect
  <2>1. Device!Ask
    BY <1>1, <1>9 DEF StartWifiConnect, Device!Ask
  <2> QED BY <2>1 DEF Device!Next
<1>10. CASE Reboot
  <2>1. Device!PowerOff
    BY <1>1, <1>10 DEF Reboot, Device!PowerOff
  <2> QED BY <2>1 DEF Device!Next
\* The other steps touch neither the status nor the access point.
<1>11. CASE Tick
  BY <1>1, <1>11 DEF Tick, Elapse, driverVars, LinkInv, DeadlineInv, TypeOK, StatusTypeOK, Deadline
<1>12. CASE HandleLostIp \/ (\E creds \in RequestedCreds : ReceiveWifiConnect(creds))
            \/ ReceiveWifiDisconnect \/ (\E field \in Fields : CopyCredential(field))
            \/ Driver \/ UNCHANGED vars
  BY <1>12 DEF HandleLostIp, ReceiveWifiConnect, ReceiveWifiDisconnect, CopyCredential, Driver,
     JoinEnds, JoinSucceeds, JoinFails, LinkLost, LeaseGranted, LeaseLost, vars,
     managerVars, statusVars, driverVars
<1> QED BY <1>2, <1>3, <1>4, <1>5, <1>6, <1>7, <1>8, <1>9, <1>10, <1>11, <1>12
        DEF Next, HandleEvent, Supervise, HttpdStep

\* The manager is the portal or station Connection promises, for any
\* credentials, timeouts, flash faults and order of events.
THEOREM ImplementsConnection == Spec => ConnectionImplemented
<1>1. Init => Device!Init /\ ClosedWhenOff
  BY DEF Init, Device!Init, ClosedWhenOff
<1>2. ClosedWhenOff /\ [Next]_vars => ClosedWhenOff'
  BY ClosedWhenOffStep
<1>3. LinkInv /\ [Next]_vars => [Device!Next]_(Device!connectionVars)
  BY ConnectionStep
<1> QED BY <1>1, <1>2, <1>3, DeadlineInvariant, LinkSupervised, PTL
        DEF Spec, LinkInv, ConnectionImplemented, Device!Spec
=============================================================================
