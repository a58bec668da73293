# TLA+ models of the ESP-IDF web manager

These modules describe the parts of `espidf-component-webmanager` whose
correctness depends on the order of things: what several tasks do to shared
state, what a reset leaves in flash, and what happens when a write, a packet or
a timeout goes wrong. They are read next to the C++ code in `src/cpp`. Every
definition is a translation of code; `PROJECT.json` names the lines for each.

## 1. The system

The component is a class `webmanager::M` (a singleton) with plugins, running
under FreeRTOS on an ESP32. Its tasks are:

| task | runs | 
|------|------|
| default event loop | `wifi_event_handler`, `ip_event_handler`, `sntp_handler` |
| timer or main task | `Supervise`, every four seconds; the time series' `timerCallback10seconds` |
| HTTP server (`httpd`) | every request handler, one at a time; the queued asynchronous answers |
| fingerprint task | `R503Pro::task`: enrollment or detection |
| the application's main task | `Begin` of every part, then the scheduler's `Loop` |

They share the members of `M`, NVS, the flash partitions, the UART of the
sensor, and the map of timers. `webmanager_semaphore` protects the handlers and
`Supervise`; nothing else is locked, except where an enrollment is started.

### Inventory

| component (file) | state | operations | what is hard | what makes it correct |
|---|---|---|---|---|
| Wi-Fi connection manager (`webmanager.hh`) | working state, three deadlines, attempts, fallback flag, credentials in RAM and NVS | `Begin`, two event handlers, `Supervise`, connect and disconnect requests | four tasks, an event queue, credentials copied without the lock, resets, flash faults | deadlines consistent, no wrap of the attempts, never unreachable, access point closed only over a link, fallback only to what is stored |
| Firmware update (`webmanager.hh`) | two app partitions, otadata | `handle_ota_post`, mark valid | resets at any step, unconfirmed images, timeouts | always bootable, rollback always possible |
| File server (`webmanager.hh`) | files | GET, POST, DELETE | errors while receiving, storage full, resets | acknowledged means stored, no unfinished files |
| WebSocket dispatch (`webmanager.hh`, `webmanager_async_response.hh`) | last client's descriptor, work queue | `handle_webmanager_ws`, `ws_async_send`, `WrapAndSendAsync` | answers sent later from another task, descriptors used again, a full queue | an answer reaches who asked, or nobody; a request ends |
| Time series store (`timeseries.hh`) | a ring of flash sectors per granularity, positions and counters in RAM | `Init`, `timerCallback10seconds`, `Write`, `AverageN...` | position found again after a reset, `size_t` wrap at sector boundaries | write to erased flash only, erase the oldest only, averages read the last records |
| Fingerprint manager (`r503pro_manager.hh`, `r503pro.hh`) | sensor library, three NVS namespaces, enrollment flag and name | `Begin`, enroll, rename, delete, store action/schedule, task | steps spread over a command and three NVS writes, two tasks, lost packets, resets | library and namespaces agree, no inherited action, enrollment ends |
| Sensor protocol (`grow_fingerprint_serial_protocol.hh`, `r503pro.hh`) | the UART and its buffers | commands, identification, enrollment | two tasks on one line, flushes and timeouts in the middle of packages | a caller takes its own answer, gets in step again, and returns |
| Scheduler (`scheduler.hh`, `scheduler_timers.hh`) | map name to timer, NVS blobs, the day | `Begin`, `Loop`, lookup, open, list, delete, rename, save | map against NVS, three tasks without a lock, aborts, blob size | what is listed is stored and survives a reset; every boot ends |
| User settings (`usersettings_plugin.hh`) | NVS per group | get, set | several keys, abort in the middle | acknowledged means stored |
| System info (`systeminfo_plugin.hh`) | none | read, restart | - | - |
| R303S driver, flatbuffer schemas, build files | none | - | - | - |

Interactions: the browser talks to all of them through the WebSocket handler,
which offers a message to each plugin in turn; a plugin answers through
`WrapAndSendAsync`, which queues the answer to the HTTP server. The fingerprint
manager asks the scheduler whether a finger may act now. A restart for a
firmware update, and every failing `ESP_ERROR_CHECK`, is a reset for all of
them at once: that is why each model has a reset at every step.

## 2. What is modelled

### `WifiManager` (with `MCWifiManager`, `WifiManagerProofs`)

One variable per member of `M` that the control depends on, the driver's mode
and link, the network interface, the queue of the event loop, and the HTTP
task's current request. A handler under the semaphore is one action, including
the `setStatus`, NVS and `esp_wifi` calls it makes. `handleRequestWifiConnect`
is three: it writes the SSID and the password to `wifi_config_sta` *before* it
takes the semaphore, so `CopyCredential` may come between any two handlers.
`handleRequestWifiDisconnect` waits for the semaphore for up to two seconds and
is two actions.

* A deadline is the time left, and `FAR` for `FAR_FUTURE`: the code computes
  `now_us + X` and compares `now_us > t`, nothing else. `Tick` lowers all.
* `remainingAttempsToConnectAsSTA` is a number modulo
  `OperationAttempts + 1`, which stands for `UINT32_MAX` and wraps as it does.
* `FlashFaults` lets each NVS write fail by itself. It is off in the runs; the
  theorems hold with it, `FallbackStored` excepted.
* The interface stays up until the loss of the link is handled, so `GOT_IP` may
  be announced while `STA_DISCONNECTED` is queued, and is then handled by a
  manager without a link (a late lease). `misled` is a history variable: such a
  lease was the last thing the manager was told.
* A failing `ESP_ERROR_CHECK` is a `Reboot`, which may come at any moment and
  may cut a save or an erase after its first key.
* `Begin` is one action: what happens between `esp_wifi_start` and the
  `setStatus` that follows it, a few microseconds later, is not interleaved.

Passing properties: `DeadlineDiscipline`, `ReconnectHasAttempts`,
`WatchdogOrConnected`, `FallbackIsStored`, `ApStartedIsOpen`,
`ApClosedOnlyWhenConnected`, and `AttemptsEnd` under fairness. A late lease
leaves a station with neither link nor timeout, and has its access point closed
thirty seconds later: `WatchdogOrConnected`, `ApClosedOnlyWhenConnected` and
`AttemptsEnd` say that nothing else does (`misled`). `TimeoutWithoutAddress`,
which makes no exception, is violated: by a late lease, and by a `LOST_IP`, after
which a station with a link and no address waits without a timeout.

`Connection` is the abstract specification: a device in the role of a portal
or a station, told of a link or not, watched by a timeout or not, with a budget
of attempts and an access point. It has no timers, queue, credentials or
drivers. `WifiManager` implements it under the mapping `Device`
(`ConnectionImplemented`): a station has a link, or is watched, or was misled;
every attempt is paid from the budget, which a connection, a request or a
power-up sets. A loss with nothing left opens the portal, or grants one attempt
more: the code does this where the stored network cannot be read
(`webmanager.hh:271`). The budget is 0 while the last attempt is underway, and
the timeout is then armed. The access point is closed only over a link or after
a late lease. After a disconnect request the budget is kept, so `LoseLink` may
still turn the portal into a station again, as the code does.

### `Timeseries` (with `MCTimeseries`, `TimeseriesProofs`, `MinFacts`)

A sector is a header and records, addresses count records of eight bytes and
wrap as `size_t` does. The timer callback is a sequence of steps (write, test,
average, write the next ring, ...) with a reset possible between any two and
between the erase and the stamping of a sector. Averaging is modelled by the
cells it reads, not by their values. A read outside the partition fails, and
`ESP_ERROR_CHECK` resets. `Init` is a wiped partition.

* `Init` of the code does not ask whether there is a real time
  (`timeseries.hh:288`), so `SetClock` may set the clock at any moment between
  callbacks, forwards or back. `setBack` is a history variable: it went back
  once.
* A restart that finds a later ring full (its timestamps drop nowhere) sends it
  to sector 0, in the first ring (`timeseries.hh:129`). `displaced` remembers
  that this happened. From then on two rings write the same sectors, and
  nothing is promised: `WritesToErasedUnits` and `OnlyOldestErased` are about
  all the time before, and each fails in its run without its exemption.

### `FingerprintManager` (with `MCFingerprintManager`, `FingerprintManagerProofs`)

Each NVS write is durable by itself (`nvs_set_*` writes to flash; the commits
that follow add nothing) and an action of its own. The sensor is external: it
sends packets of progress, ends with one packet, and stores a template or
reports that it did not. The constant `Faults` chooses what the environment
does: `reset`, `lost` answers and packets, `refused` templates reported as the
last step, `slow` enrollments that run into the timeout, and `overlap`, any
request while an enrollment runs, another enrollment among them. When the sensor
does not answer at the start, `Begin` gives up before it creates the fingerprint
task, and the requests go on without one (`BeginFails`).

An enrollment, a deletion, a rename and a repair are several steps that no
transaction ties together, and of an index at which one was cut off little can be
promised. So history variables say which these are, index by index:

* `torn`: something was cut off at this index, by a reset, a lost or unread
  packet, a refused template, or by a request that took its name. `StoresAgree`
  is about all others. At the start, `torn` are the indices `Begin` is not told
  of.
* `unstored`: the template came by an enrollment whose entries were never
  written. `NoInheritedAction` is about all other fingers. A completed
  enrollment writes action 0 (line 79), so only a cut-off one can leave a finger
  the action that was stored for its index before.
* `overwritten`: another enrollment was asked for and its command is not sent
  yet, so the first one's name is lost (`r503pro_manager.hh:154`).
  `EnrolledUnderItsName` is about every other moment.
* `granted`, `asked` and `taskFor`: which actions are newer than their
  template, and the names of the enrollment that runs and of the one read.

Each exemption is needed: without it the property fails in its run.

### `SerialLine` (with `MCSerialLine`, `SerialLineProofs`)

The line below the fingerprint manager, which that module takes as one step per
command. Two callers, the HTTP task and the fingerprint task, flush, write and
read; a package is a sequence of units that arrive one by one, so a timeout or
a flush may cut it. A caller knows how long its answer is (12, 15 or 17 bytes)
and checks start code, length and checksum; no package says which command it
answers. `uart_read_bytes` and `uart_flush_input` are external and modelled by
the driver's receive lock: a read holds it until its bytes are there or its time
is over, a flush waits for it without a timeout. The sensor may take commands
in any pace, go on or stop when it gets another one, and end an enrollment by
itself.

* `Faults`: `overlap` (requests while the other task is busy), `lost` packages,
  `late` answers.
* `issued`, `abandoned` and `alone` are history variables. `TakesOwnAnswer`
  says whose bytes a caller accepts: its own command's, and after a timeout
  possibly those of an earlier command of its kind, from then on one behind
  (nothing in the code gets back in step until the line falls silent). A
  second enrollment may be started while one runs, and the fingerprint task
  then takes the packages of the one for those of the other: its commands count
  as abandoned from there on (`Superseded`).
  `AloneReadsItsAnswer` says when it is in step again: after a flush while
  nothing is underway and the other task is quiet. `CommandsReturn` is the
  liveness of the HTTP task.
* `SetInEnrollment` is a step of its own because `r503pro.hh:127` sets the flag
  after the command was sent; `AutoIdentify` may come in between.

### `Scheduler` (with `ScheduleStore`, `MCScheduler`, `SchedulerProofs`)

The map of timers, the blobs in NVS, and three tasks without a lock: the main
task (`Begin`, then on each new day `Loop`, which walks over the map timer by
timer), the HTTP task's requests, which change the map and NVS one call at a
time, and the fingerprint task, whose `GetCurrentValueOfSchedule`
looks at the map twice (`contains`, `at`) and then uses the timer. A rename takes
the timer from the map (line 180) and puts it back under its new name (181) in
two steps, so a walk that begins in between misses it. A walk the map is changed
under is `lost`: it may pass over timers or abort. `missed` remembers which were
passed over. A timer is its kind. `std::map::at` on a name that is gone, a virtual call on a deleted
object, deleting an object that was never allocated and a null pointer from
`Builder` are aborts; so may be the overflow of a blob of 128 bytes by a week
schedule, which `Reset` covers, as it may happen at any step. The result of
`nvs_set_blob` is ignored: under the fault `refused`, which stands for a name of
more than 15 characters as well as for an NVS without space, a timer is listed
and not stored, and `unsaved` remembers its name. `ListedIsStored` compares the
list with what `Begin` would make of NVS (`AfterBoot`), and names the three ways
in which they differ: a predefined timer that was deleted or renamed comes back,
and a timer that was not stored is gone, or predefined again.

`ScheduleStore` is what flash promises: a map that each request changes in one
step and under its own names only, and that may take nothing; a crash costs at
most one entry, of the request that was running. `Scheduler` implements it (`StoreImplemented`) with
the erase and the write of a request taken together: until the second one,
`storedNow` gives what was there before.

### `Server` (`WebSocket` with `UserSettings`, `MCServer`, `ServerProofs`)

`WebSocket` is the dispatcher: clients that connect and leave, descriptors that
are given again, `websocket_file_descriptor`, the handler that runs, and the
work queue of the HTTP server, whose work runs in the same task between two
requests. `UserSettings` is the plugin: a request to set writes its keys one by
one; a value whose type the schema does not know is passed over, and its key
acknowledged (`default`, line 113). `Server` composes them and adds the other handlers by how they end: with
an answer, none, one to come from the event loop (Wi-Fi connect), one that is
queued before a sleep (Wi-Fi disconnect), or a restart (system info). What
those handlers do to their own state is in the other modules.

* `asker`, `fate` and `disturbed` are history: who asked, what became of the
  answer, and which requests saw another client speak or their own one leave.
  An answer may be dropped when the queue is full (the caller is told
  `ESP_OK`), go to another client, or fail to be sent over an open connection;
  `AnswersReachAsker` says that only a disturbance can send it astray.
* Requests name configured keys. Some
  failures leave a client without an answer: a namespace nobody knows, an
  unknown group, a group never set. A connection attempt that `Supervise`
  gives up on by its timeout is never answered, either: the deferred request
  stays open in `fate`.

### `Uploads` (with `MCUploads`, `UploadsProofs`)

The two handlers of `webmanager.hh` that receive something long, over one HTTP
task (`httpd`, `remaining`), and the step that confirms an image.

* `handle_ota_post`, chunk by chunk, on two partitions with their otadata
  states. The bootloader and the `esp_ota_*` functions are external and
  modelled as documented by ESP-IDF, built with rollback, which the call to
  `esp_ota_mark_app_valid_cancel_rollback` presumes: a new image is booted once
  as pending, and rolled back at the next reset unless confirmed;
  `esp_ota_begin` refuses while the running image is pending, and the handler's
  `ESP_ERROR_CHECK` turns that into a reset (`BeginOtaAborts`). An image that
  is written completely is firmware or junk; `esp_ota_end` tells them apart.
* `handle_files_post` and `handle_files_delete`. A file is a version and how
  many of its chunks are missing in storage. The stream may keep the end of a
  chunk until `fclose`. When `httpd_req_recv` fails, the code passes a length
  near 2^32 to `fwrite` (`SocketError`): either storage ends first, and the
  handler's write error deletes the file, or readable memory does, which is a
  reset. `interrupted` is a history variable: the files whose upload a reset
  cut off.
* `Faults` chooses among `reset` (at any moment), `network`, `flash`, `image`,
  `full` and `close` (what the stream buffered finds no room in `fclose`).

## 3. Runs

| run | question | bounds | result |
|---|---|---|---|
| `Wifi` | all safety properties of the manager, that `Connection` is implemented, and that attempts end (liveness) | 1 network, attempts that fail at will, 3 and 4 attempts, 3 queued events | holds |
| `WifiNoAddress` | a timeout while there is no address (comment) | 1 network, 2 queued events | violated |
| `WifiFallback` | going back to the stored network (comment, log) | 2 networks | violated |
| `WifiUntested` | only successful credentials are saved (comment) | 1 network, 2 passwords | violated |
| `TsRings` | what is written, erased and averaged, with resets, displaced rings and a clock that is set | 4 rings of 2+2+1+1 sectors of 4 records, triggers 2, 3 and 1, 9 ticks, clock set once | holds |
| `TsAverage` | averages read the last records (comment) | 2 rings of 3+2 sectors of 2 records | violated |
| `FpRequests` | stores agree and no inherited action, one request at a time, with resets, losses and refused templates | 2 indices, 1 on the first page, 3 names, 2 actions, 1 packet | holds |
| `FpFaults` | stores, names and repair under all faults and with any request while an enrollment runs; enrollments end (liveness) | 1 index, 2 names, 2 actions, 2 schedules, 2 packets | holds |
| `Uploads` | bootable, rollback, confirmation; acknowledged is stored, no unfinished file | 2 partitions, 2 paths, 2 versions, 3 chunks, all faults but `close` | holds |
| `Scheduler` | the list is what the next boot brings; which timers have the times of the day; flash implements `ScheduleStore`; every boot ends (liveness) | 2 names, one predefined; 2 days, 2 resets from outside and any number of aborts, all faults | holds |
| `Server` | answers reach who asked; acknowledged settings hold; requests end (liveness) | 2 clients, 2 descriptors, 2 requests, queue of 2, 1 group of 2 keys, 2 values | holds |
| `SerialLine` | whose answer a caller takes; getting in step again; commands return (liveness) | 3 commands, 8 units underway, lengths 3, 4, 5, all faults | holds |

The bounds are the smallest at which each case still happens. Three start
attempts and a largest counter of four let the counter reach zero by counting
down and wrap if it could. A common timeout of two ticks and a reconnect of one
keep their order (30 s and 8 s). A wrong password is one way for an attempt to
fail, which any may. A queue of three events holds the loss of a
link, the failure of the next attempt and a lease that comes after both; without
the exception for `misled` every property that has it fails in its run. Four
rings are the code's; two of one sector are full after one record, so restarts
displace them within the bound, and nine ticks are more than the records of the
first ring, which wraps. The records of a sector are a multiple of the first
trigger and not of the second, as 504 is of 6 and not of 60. Two indices are enough for a finger to get the place of
another while a third name is in use, and for one to be off the first page; one
index is enough for two enrollments to meet. Two packets let one be left over
while another arrives, and with one, the sensor waits for the buffer or its
packet is lost. That the fingerprint properties hold for more indices under all
faults at once is proved and not run: the instance is too large. Three chunks
give an upload a first, a middle and a last one. Two schedules are a rename and
requests that aborts and lookups cut off. Two days let
a timer have the times of the day before; without `missed`, `SunTimesOfToday`
fails in its run. Two browsers and two descriptors are enough for one to get the other's
number, two requests and a message of another task to fill the queue of two.
The three lengths of packages keep the order of the real ones, and any two
packages are longer than each, so the rest of one with the start of another
may look like a third; three commands are a late answer, its successor and the
other task's. No run switches deadlock checking off.

**Fairness.** `Wifi` assumes weak fairness of the event loop, of
`Supervise`, of the HTTP task, of time, and of the end of a join attempt: all are tasks
FreeRTOS schedules or calls that the Wi-Fi driver ends. Nothing is assumed of
users, networks or DHCP. `Calm` limits the claim to runs in which users and
resets eventually stop interfering. `FpFaults` assumes weak fairness of `Begin`,
the HTTP task and the fingerprint task, and that the sensor ends an enrollment by
itself, as AutoEnroll does with its own time limits; the twenty-second timeout of
the task is modelled as possible once the sensor is silent. `EnrollmentEnds` is
about a device that has a fingerprint task, and up to the next enrollment that
is asked for. `Scheduler` assumes that the main task gets through `Begin`,
`Server` that the HTTP task runs (nothing of clients or other tasks), and
`SerialLine` that the two tasks run, bytes arrive, and the sensor takes its
commands and ends them. Weak fairness suffices everywhere: who gets the UART
driver's lock is left open. `MaxCommands` stands for the pauses of the
fingerprint task (100 ms after each detection), without which a flush could be
overtaken for ever.

## 4. What the code does differently from what it says

Each is a `violation` run, and a finding in `PROJECT.json`.

1. `webmanager.hh:271`: the result of `read_sta_config()` is used as a truth
   value although 0 is success. The stored network is retried only if it could
   *not* be read.
2. `webmanager.hh:501`: credentials are copied without the lock, and can be
   saved as successful before they were tried.
3. `webmanager.hh:342`: a lease handled after its link was lost takes away the
   timeout of a station that has no address (line 295 wants one then). A lost
   address, which line 360 only logs, leaves a station without one as well.
4. `timeseries.hh:167`: an average that is due when the first ring has just
   wrapped reads outside the partition and aborts the device.

Also seen while modelling, in the models unless said otherwise, and without a run
of their own. Where a passing property exempts one of them, the history variable
that does is named:

* `timeseries.hh:129`: a later ring that is full at a restart goes on in sector
  0, in the first ring, although line 127 logs the ring's own first sector
  (`displaced`).
* `timeseries.hh:164`: stepping back over the first sector of a later ring does
  not go to its last sector: the offset becomes a sector number, and cells of
  the ring before it are read.
* `timeseries.hh:265`: an average of 60 records of the hour ring is made when 24
  were counted; line 78 says 24.
* `scheduler.hh:68`: a predefined schedule that was "successfully deleted" (log,
  line 166) is listed again after the next boot (`ListedIsStored`).
* `scheduler.hh:205`: a schedule that was "successfully saved" (log, line 207)
  under a name too long for NVS is listed and not stored (`unsaved`).
* `scheduler.hh:84`: a renamed predefined schedule stops every later boot;
  `scheduler.hh:198`: saving over a predefined one deletes a static object.
* `scheduler_timers.hh:139`: `d > 5` leaves out Saturday only, Sunday is 0;
  `scheduler_timers.hh:226`: minutes are kept as a float of hours and truncated
  each time a schedule is saved. Neither is in the model.
* `webmanager.hh:826`: the result of `fclose` is ignored; a file that is not
  complete is "uploaded successfully" (line 834). The fault `close`.
* `webmanager.hh:798`: an unsigned length hides receive errors (line 802 says
  that the unfinished file is deleted; a reset may come first).
* `webmanager.hh:615`: a timeout ends an update; line 623 says it is retried.
* `webmanager.hh:531`: the answer to a disconnect request is queued to the task
  that then sleeps for two seconds, "um die Beantwortung des Requests noch zu
  ermöglichen" (line 532); it leaves after the handler has ended.
* `webmanager.hh:135`: the working state names a state before it is reached
  (`webmanager_constants.hh:28` says otherwise).
* `usersettings_plugin.hh:132`: the accessors open the default partition, the
  requests the one given to the constructor.
* `usersettings_plugin.hh:188`: asking for a group of which a number or a
  switch was never set aborts the device.
* `r503pro.hh:176`: the terminator is written one byte behind the name.
* `r503pro_manager.hh:112`: only the namespace of the actions is asked whether a
  finger is known, so one that has an action at its index and lost its name, or
  never got one, is not given a dummy name (comment, line 113).
* `r503pro_manager.hh:154`: a second request for an enrollment, made while one
  runs, replaces the name the first is stored under (`overwritten`).
* `r503pro_manager.hh:148`: a rename during an enrollment can give the name away
  that the enrollment stores; the renamed finger then has none (`torn`).
* `r503pro_manager.hh:247`: an action is stored for any index, with a finger or
  without, and waits there for the next finger (`unstored`).

The hazards in `PROJECT.json` list further places, some of which no property
covers yet; each says why.

## 5. Proofs

TLC checks the instances above; TLAPS proves the following for every value of
the constants that the named `ASSUME`s of the modules allow: any credentials,
timeouts, queue bounds, rings, fingers, names, schedules, lengths and faults.
A theorem that needs more says so in its own `ASSUME`, and the reason is given
here. Every safety property a passing run checks is the subject of a theorem.

**`WifiManagerProofs`.** `TypeCorrect` first. `DeadlineInv` (types, deadline
discipline, attempts, open access point) is inductive: the discipline alone is
not, as `Supervise` may decrement the attempts only because a pending reconnect
has one, and a timeout is never below its reconnect only because both are set
in one call. From it follow `DeadlinesDisciplined`, `ReconnectsBounded` and
`AccessPointOpen`, in every environment. `FallbackStored` assumes that flash
writes succeed. `WatchdogOrConnected` is inductive as it stands: the deadline of
the access point is its second part because `Supervise` closes it long after
the lease. `LinkSupervised` and `ClosingIsSafe` follow, with no assumption on
the order of events. `ImplementsConnection` shows that every step of the manager
maps to a step of `Connection` or to a stutter. It needs `LinkInv`: the attempts
of `DeadlineInv` (a pass of the supervisor never spends one it does not have),
`WatchdogOrConnected` (what the access point is closed over) and
`ClosedWhenOff` (a device that is off has no access point).

**`UploadsProofs`.** `UpdateInv` is inductive: `AlwaysBootable` and
`RollbackPossible` together with `RunningIsBoot`, which says that outside of
the half second before the restart the running partition is the one to boot,
and that an update runs only in a confirmed one. So the partition it erases is
never needed. `DeviceBoots`, `RollbackKept`, `UploadsTypeCorrect` and
`ConfirmationFollowsBoot` follow, for any length of upload and all faults. For
the files `ReceivedOrCutOff` says that a part of a file is being received or
was cut off by a reset; `AcknowledgementsHold` and `PartsAreRemoved` follow
from it and assume that `fclose` finds room (`"close" \notin Faults`), without
which they are false.

**`SchedulerProofs`.** `NvsInv` is `TypeOK` with three parts: `JobInv`,
requests and the task run only after `Begin`, and the job's record fits its
operation; `ProgressInv`, what map and flash hold under the request's names
before each of its NVS calls; and `OthersAgree`, that under every other name
they agree as far as `ListedIsStored` says (`Agrees`), except for the names
`Begin` has still to load. `ListedIsStored` alone is not
inductive, as it speaks of a moment without requests. `ListTellsTheNextBoot`
follows, `SunTimesCurrent` (a timer that is not of the sun has computed
nothing, but one in between its two names; nothing is computed before `Loop`;
and a walk visits only what is in the map, `SunInv`) and
`ImplementsScheduleStore`: every step of the scheduler is one of `ScheduleStore`
or a stutter. Nothing is assumed of faults, aborts or predefined schedules.

**`ServerProofs`.** `AnswersInv`: an answer is queued once, and for a
request that is still pending (`QueuedArePending`), and a pending request that
was not disturbed was asked by a client that is still listened to
(`AskersAreHeard`). `AnswersReachTheirAskers` follows. `SettingsInv`
(`SettingIsPending`: of the values given by the request that is being handled
nothing is promised yet, and those it is done with are in flash) gives
`AcknowledgedSettingsStay`, with resets and aborts between the keys. `ServerTypeCorrect` covers the composition.

**`TimeseriesProofs`.** `WithinRings` (types, and no position beyond its ring)
holds always, and with `CountersInv` gives `AveragesAreTriggered`: only the
counter the code stands at can have reached its trigger. What flash is written
and erased needs three more invariants: `ErasedInv` (a sector in use is written
up to the offset only), `ClockInv` (where a timestamp may be: the clock of a
coarser ring runs late by what its finer ones have not averaged yet) and
`OrderInv` (from the sector that is written next, the timestamps of a ring
ascend, so the first drop is where `Init` must go on). They need each ring to be
written where it lies (`RingsSeparate`), which the code loses in one step only:
the restart that displaces a ring (`SeparateStep`). So "displaced, or separate
and `ErasedInv`" is an invariant, and `WritesToErased` follows without an
assumption; `ClockInv` also needs a clock that does not go back, so "displaced,
or set back, or separate and all three" gives `OldestErased`.
`FirstAverageReadsLatest` is about the walk back through the records. `Cursor`
is a recursive function; that there is one is shown by induction
(`PathExists`, `PathsAgree`, `CursorCells`: no recursion operator of the library
is used). `LatestInv` says that the records last written lie in the cells before
the write location (`Before`), and `ReadsBefore` that an average which stays in
the partition comes to these cells: in the middle of a sector the walk is that
of `Before` (`StepBack`), at its start the unit wraps below zero and the address
wraps with it (`WrappedAddress`), except in sector 0, where the read fails. The
assumption `AverageFits` is that there is a coarser ring and that an average
reads no more records than trigger it and than a sector holds: 6, 6 and 504 in
the code (`timeseries.hh:253`).

**`FingerprintManagerProofs`.** All under all faults, for any fingers, names and
first page. `TypesInv` gives `FingerprintManagerTypeCorrect`, `CheckedInv` (what
`Begin` has been through has an action) `BeginRepairs`. `PhaseInv` says who may be
at work with whom: a packet that ends an enrollment is the last one received and
leaves the sensor idle, and beside `Begin` the task does nothing. `NamesInv`: the packets
read and the enrollment underway are of the name that will be stored, or
`overwritten`; `EnrollmentsKeepTheirNames` follows. `InheritInv`: an action
present belongs to a finger that was granted one, whose template is `unstored`, or
whose last packet the task has still to read (`Awaited`); from it
`ActionsAreNotInherited`. `AgreeInv` speaks of each index by itself, as long as it
is not `torn` (`Fits`): how many names it has and who is about to give or take
one (`NamesFit`), which entry is still missing and which step of the task or of
`Begin` writes it (`EntriesFit`), and what the step underway knows of its index
(`JobsFit`). `StoresStayEqual` is `AgreeInv` where nobody is at work. That it is
said index by index is what lets it survive a reset: this tears the index at which
something was underway and no other.

**`SerialLineProofs`.** All under all faults. `StreamInv`: what can be read is
the end of a sequence of whole packages, whatever was cut off in front.
`OnceInv`: a command is in the inbox, or carried out, or answered, never two of
them, and nothing follows its last package. `AnswersInv`: of a kind of which no
command was abandoned, by a timeout or by a second enrollment while one runs, a
command whose answer may still come is awaited by a caller, or is the newest
enrollment.
`AnswersAreOwn` follows: packages have different lengths for different kinds
(`LengthAssumption`, as in the code), so bytes that pass the checks are one
whole package, and one of the caller's kind. `AloneInv` says that a caller which
flushed while nothing was underway owns the line until it reads, from which
`AloneReadsOwn`.

**`MinFacts`** proves that the least number of a set and the greatest of a
bounded one exist, which the searches of `Timeseries` and
`FingerprintManager` need, and stands in for induction.

**Only model-checked.** Liveness (`AttemptsEnd`, `EnrollmentEnds`,
`RequestsEnd`, `CommandsReturn`, `BootsUnlessPredefined`) is out of
the prover's reach. The properties of the `violation` runs are false, and so
not proved. Where a theorem names a condition, its property holds outside of it
in the instances of its runs only.

## 6. Not modelled

* Wi-Fi: the scan, mDNS and SNTP; nothing above depends on them. The GET of
  files and the directory listing change no state. TLS and the payloads of
  messages are data no property tells apart.
* Sensor: the parameter commands of `Begin`, which one task sends before the
  other starts; the content of packages; what is done with a detected finger
  (`HandleFingerprintDetected` reads its action and its schedule one after the
  other, see the hazards).
* Scheduler: the floating point of sunrise and of SunRandom's minutes.
* `r303s.hh` is an older driver that nothing uses. Flatbuffer schemas and build
  files have no behaviour.
* NVS writes of the fingerprint manager that fail by themselves are planned.

## 7. Plan

Done: `WifiManager` with `Connection`, `Timeseries`, `FingerprintManager`,
`SerialLine`, `Scheduler` with `ScheduleStore`, `Server` and `Uploads`, each with
proofs of its safety properties. Left: for `FingerprintManager`, what is done with
a detection, NVS writes that fail one by one, and its composition with
`Scheduler`.
