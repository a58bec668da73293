------------------------- MODULE FingerprintManager -------------------------
(***************************************************************************)
(* The fingerprint manager (r503pro_manager.hh on r503pro.hh): the flash   *)
(* library of the sensor, the three NVS namespaces that say who a finger   *)
(* of the library is and what it does, and the enrollment that runs in the *)
(* fingerprint task while the HTTP server takes further requests.          *)
(*                                                                         *)
(* Every NVS write is durable by itself and an action of its own.  On the  *)
(* serial line only the packets of an enrollment are kept; any other       *)
(* command and its answer are one step, whose answer may be lost: the      *)
(* sensor commands of the two tasks are not mutually exclusive, nor are    *)
(* two enrollments.  (The mutex is only held where an enrollment is        *)
(* started, by one task.)                                                  *)
(***************************************************************************)
EXTENDS Integers, Sequences, FiniteSetsExt

CONSTANTS
    Names,                  \* of fingers
    Indices,                \* places in the sensor's library
    FirstPage,              \* those its first index table tells of
    Actions, Schedules,
    DummyName,              \* what Begin calls an unknown finger, "Finger %d"
    None,
    Faults,                 \* what the environment may do
    MaxPackets              \* bound: packets in the receive buffer

NoAction == 0

ASSUME FingersAssumption ==
    /\ Indices \subseteq Nat /\ FirstPage \subseteq Indices
    /\ NoAction \in Actions /\ "ALWAYS" \in Schedules
    /\ None \notin Indices /\ None \notin Actions /\ None \notin Schedules
    /\ DummyName \in [Indices -> Names]
    /\ \A i, j \in Indices : DummyName[i] = DummyName[j] => i = j
    /\ MaxPackets \in Nat \ {0}

\* reset:   at any moment, and not only while nothing is going on.
\* lost:    the answer to a command that was executed does not arrive.
\* overlap: requests while an enrollment is running, cancelling it and asking
\*          for another one among them.
\* refused: storing the template fails, and is reported as the last step.
\* slow:    twenty seconds pass between two steps of an enrollment.
ASSUME FaultsAssumption ==
    Faults \subseteq {"reset", "lost", "refused", "slow", "overlap"}

VARIABLES
    library,                 \* the indices the sensor has templates for
    sensor,                  \* "idle" or "enrolling"
    rx,                      \* enrollment packets received, not yet read
    name2index, index2action, index2scheduler,    \* NVS
    fingerName, isInEnrollment,
    task, taskIndex,         \* the fingerprint task
    httpd, jobName, jobIndex, \* the main task's Begin, then the HTTP server
    toCheck,                 \* the indices Begin has still to look at
    asked, taskFor,          \* history: the name the sensor enrolls for, and
                             \* the one the task's packet answers to
    granted,                 \* history: indices whose action is newer than
                             \* their template
    overwritten,             \* history: another enrollment was asked for while
                             \* one was underway, and is not begun yet
    unstored,                \* history: indices whose template came there by an
                             \* enrollment that was cut off
    torn                     \* history: indices at which anything was cut off

sensorVars == <<library, sensor, rx, asked>>
nvsVars == <<name2index, index2action, index2scheduler, granted>>
taskVars == <<isInEnrollment, task, taskIndex, taskFor>>
httpdVars == <<httpd, jobName, jobIndex, toCheck>>
cutVars == <<unstored, torn>>
historyVars == <<overwritten, cutVars>>
vars == <<sensorVars, nvsVars, fingerName, taskVars, httpdVars, historyVars>>

Packets == [last : BOOLEAN, index : Indices \cup {None}, for : Names \cup {None}]

TypeOK ==
    /\ library \in SUBSET Indices /\ sensor \in {"idle", "enrolling"} /\ rx \in Seq(Packets)
    /\ name2index \in [Names -> Indices \cup {None}]
    /\ index2action \in [Indices -> Actions \cup {None}]
    /\ index2scheduler \in [Indices -> Schedules \cup {None}]
    /\ fingerName \in Names \cup {None} /\ isInEnrollment \in BOOLEAN
    /\ task \in {"off", "loop", "name", "action", "scheduler"}
    /\ httpd \in {"off", "check", "name", "action", "scheduler",
                  "idle", "enroll", "rename", "deleteName", "deleteAction",
                  "deleteScheduler", "deleteNames", "deleteActions", "deleteSchedulers"}
    /\ {taskIndex, jobIndex} \subseteq Indices \cup {None}
    /\ {asked, taskFor, jobName} \subseteq Names \cup {None}
    /\ toCheck \in SUBSET FirstPage /\ granted \in SUBSET Indices
    /\ {unstored, torn} \subseteq SUBSET Indices /\ overwritten \in BOOLEAN

Named == {name2index[n] : n \in Names} \ {None}

SetAction(i, a) ==
    /\ index2action' = [index2action EXCEPT ![i] = a]
    /\ granted' = granted \cup {i}

\* A name is written or erased for index i, whatever index it tells of by then.
SetName(name, value, i) ==
    /\ name2index' = [name2index EXCEPT ![name] = value]
    /\ torn' = torn \cup ({name2index[name]} \ {i, None})

\* The templates of which the fingerprint task has still to hear.
Unread == {rx[k].index : k \in {l \in 1 .. Len(rx) : rx[l].last}}

CutOff(enrolled, others) ==
    /\ unstored' = unstored \cup enrolled
    /\ torn' = torn \cup enrolled \cup others

\* createAndSendDataPackage flushes the receive buffer; a command the sensor
\* gets while it enrolls may end the enrollment.
Command == rx' = <<>> /\ sensor' \in {sensor, "idle"}

(***************************************************************************)
(* Begin: every index of the sensor's first page that has no action gets a *)
(* dummy name, action 0 and a scheduler.  R503Pro::Begin starts the task.  *)
(***************************************************************************)
Begin ==
    /\ httpd = "off"
    /\ httpd' = "check" /\ toCheck' = library \cap FirstPage
    /\ task' = "loop"
    /\ sensor' = "idle" /\ rx' = <<>>
    /\ UNCHANGED <<library, asked, nvsVars, fingerName, isInEnrollment,
                   taskIndex, taskFor, jobName, jobIndex, historyVars>>

\* Mutant: the namespace of the names is asked.
CheckIndexByName ==
    /\ httpd = "check" /\ toCheck # {}
    /\ LET i == Min(toCheck) IN
       IF i \notin Named
       THEN httpd' = "name" /\ jobIndex' = i /\ jobName' = DummyName[i] /\ UNCHANGED toCheck
       ELSE toCheck' = toCheck \ {i} /\ UNCHANGED <<httpd, jobIndex, jobName>>
    /\ UNCHANGED <<sensorVars, nvsVars, fingerName, taskVars, historyVars>>

CheckIndex ==
    /\ httpd = "check" /\ toCheck # {}
    /\ LET i == Min(toCheck) IN
       IF index2action[i] = None
       THEN httpd' = "name" /\ jobIndex' = i /\ jobName' = DummyName[i] /\ UNCHANGED toCheck
       ELSE toCheck' = toCheck \ {i} /\ UNCHANGED <<httpd, jobIndex, jobName>>
    /\ UNCHANGED <<sensorVars, nvsVars, fingerName, taskVars, historyVars>>

NameIndex ==
    /\ httpd = "name" /\ httpd' = "action"
    /\ SetName(jobName, jobIndex, jobIndex)
    /\ UNCHANGED <<sensorVars, index2action, index2scheduler, granted,
                   fingerName, taskVars, jobName, jobIndex, toCheck, unstored,
                   overwritten>>

GiveIndexAction ==
    /\ httpd = "action" /\ httpd' = "scheduler"
    /\ SetAction(jobIndex, NoAction)
    /\ UNCHANGED <<sensorVars, name2index, index2scheduler, fingerName,
                   taskVars, jobName, jobIndex, toCheck, historyVars>>

GiveIndexScheduler ==
    /\ httpd = "scheduler" /\ httpd' = "check"
    /\ index2scheduler' = [index2scheduler EXCEPT ![jobIndex] = "ALWAYS"]
    /\ toCheck' = toCheck \ {jobIndex}
    /\ jobName' = None /\ jobIndex' = None
    /\ UNCHANGED <<sensorVars, name2index, index2action, granted, fingerName,
                   taskVars, historyVars>>

EndBegin ==
    /\ httpd = "check" /\ toCheck = {} /\ httpd' = "idle"
    /\ UNCHANGED <<sensorVars, nvsVars, fingerName, taskVars, jobName, jobIndex,
                   toCheck, historyVars>>

\* The sensor does not answer: no task is started, nothing is repaired.
BeginFails ==
    /\ "lost" \in Faults
    /\ httpd = "off" /\ httpd' = "idle"
    /\ Command
    /\ UNCHANGED <<library, asked, nvsVars, fingerName, taskVars, jobName,
                   jobIndex, toCheck, historyVars>>

BeginStep ==
    \/ Begin \/ BeginFails
    \/ CheckIndex \/ NameIndex \/ GiveIndexAction \/ GiveIndexScheduler \/ EndBegin

(***************************************************************************)
(* The requests.  Those that fail a test of the code change nothing and    *)
(* are left out.                                                           *)
(***************************************************************************)
Underway == isInEnrollment \/ sensor = "enrolling" \/ task \notin {"off", "loop"}

MayRequest == httpd = "idle" /\ (~Underway \/ "overlap" \in Faults)

\* Nothing keeps a second enrollment from being asked for while one is underway.
TryEnrollAndStore(name) ==
    /\ MayRequest /\ name2index[name] = None
    /\ fingerName' = name /\ overwritten' = Underway
    /\ httpd' = "enroll"
    /\ UNCHANGED <<sensorVars, nvsVars, taskVars, jobName, jobIndex, toCheck, cutVars>>

\* Mutant: what was received before is not flushed.
AutoEnrollWithoutFlush ==
    /\ httpd = "enroll" /\ httpd' = "idle"
    /\ sensor' = "enrolling" /\ asked' = fingerName
    /\ isInEnrollment' = TRUE /\ overwritten' = (overwritten /\ task = "name")
    /\ UNCHANGED <<library, rx, nvsVars, fingerName, task, taskIndex, taskFor,
                   jobName, jobIndex, toCheck, cutVars>>

\* The flag is set after the command is sent, long before the sensor has
\* taken the six images.
AutoEnroll ==
    /\ httpd = "enroll" /\ httpd' = "idle"
    /\ sensor' = "enrolling" /\ rx' = <<>> /\ asked' = fingerName
    /\ isInEnrollment' = TRUE /\ overwritten' = (overwritten /\ task = "name")
    /\ CutOff(Unread, {})
    /\ UNCHANGED <<library, nvsVars, fingerName, task, taskIndex, taskFor,
                   jobName, jobIndex, toCheck>>

CancelInstruction ==
    /\ MayRequest
    /\ sensor' = "idle" /\ rx' = <<>> /\ CutOff(Unread, {})
    /\ UNCHANGED <<library, asked, nvsVars, fingerName, taskVars, httpdVars,
                   overwritten>>

\* Mutant: the old name is not erased.
TryRenameWithoutErase(oldName, newName) ==
    /\ MayRequest
    /\ name2index[newName] = None /\ name2index[oldName] # None
    /\ httpd' = "rename" /\ jobName' = newName /\ jobIndex' = name2index[oldName]
    /\ UNCHANGED <<sensorVars, nvsVars, fingerName, taskVars, toCheck, historyVars>>

TryRename(oldName, newName) ==
    /\ MayRequest
    /\ name2index[newName] = None /\ name2index[oldName] # None
    /\ name2index' = [name2index EXCEPT ![oldName] = None]
    /\ httpd' = "rename" /\ jobName' = newName /\ jobIndex' = name2index[oldName]
    /\ UNCHANGED <<sensorVars, index2action, index2scheduler, granted,
                   fingerName, taskVars, toCheck, historyVars>>

FinishRename ==
    /\ httpd = "rename" /\ httpd' = "idle"
    /\ SetName(jobName, jobIndex, jobIndex)
    /\ jobName' = None /\ jobIndex' = None
    /\ UNCHANGED <<sensorVars, index2action, index2scheduler, granted,
                   fingerName, taskVars, toCheck, unstored, overwritten>>

TryDelete(name) ==
    /\ MayRequest /\ name2index[name] # None
    /\ Command
    /\ library' = library \ {name2index[name]}
    /\ \/ /\ httpd' = "deleteName" /\ jobName' = name /\ jobIndex' = name2index[name]
          /\ CutOff(Unread, {})
       \/ /\ "lost" \in Faults /\ UNCHANGED <<httpd, jobName, jobIndex>>
          /\ CutOff(Unread, {name2index[name]})
    /\ UNCHANGED <<asked, nvsVars, fingerName, taskVars, toCheck, overwritten>>

DeleteName ==
    /\ httpd = "deleteName" /\ httpd' = "deleteAction"
    /\ SetName(jobName, None, jobIndex)
    /\ UNCHANGED <<sensorVars, index2action, index2scheduler, granted,
                   fingerName, taskVars, jobName, jobIndex, toCheck, unstored,
                   overwritten>>

DeleteAction ==
    /\ httpd = "deleteAction" /\ httpd' = "deleteScheduler"
    /\ index2action' = [index2action EXCEPT ![jobIndex] = None]
    /\ UNCHANGED <<sensorVars, name2index, index2scheduler, granted, fingerName,
                   taskVars, jobName, jobIndex, toCheck, historyVars>>

DeleteScheduler ==
    /\ httpd = "deleteScheduler" /\ httpd' = "idle"
    /\ index2scheduler' = [index2scheduler EXCEPT ![jobIndex] = None]
    /\ jobName' = None /\ jobIndex' = None
    /\ UNCHANGED <<sensorVars, name2index, index2action, granted, fingerName,
                   taskVars, toCheck, historyVars>>

TryDeleteAll ==
    /\ MayRequest
    /\ Command
    /\ library' = {}
    /\ \/ httpd' = "deleteNames" /\ CutOff(Unread, IF task = "name" THEN {taskIndex} ELSE {})
       \/ "lost" \in Faults /\ UNCHANGED httpd /\ CutOff(Unread, Indices)
    /\ UNCHANGED <<asked, nvsVars, fingerName, taskVars, jobName, jobIndex,
                   toCheck, overwritten>>

DeleteNames ==
    /\ httpd = "deleteNames" /\ httpd' = "deleteActions"
    /\ name2index' = [n \in Names |-> None]
    /\ UNCHANGED <<sensorVars, index2action, index2scheduler, granted,
                   fingerName, taskVars, jobName, jobIndex, toCheck, historyVars>>

DeleteActions ==
    /\ httpd = "deleteActions" /\ httpd' = "deleteSchedulers"
    /\ index2action' = [i \in Indices |-> None]
    /\ UNCHANGED <<sensorVars, name2index, index2scheduler, granted, fingerName,
                   taskVars, jobName, jobIndex, toCheck, historyVars>>

DeleteSchedulers ==
    /\ httpd = "deleteSchedulers" /\ httpd' = "idle"
    /\ index2scheduler' = [i \in Indices |-> None]
    /\ UNCHANGED <<sensorVars, name2index, index2action, granted, fingerName,
                   taskVars, jobName, jobIndex, toCheck, historyVars>>

\* Nobody asks whether there is a finger.  Begin, if it had failed, takes one
\* that has an action for one that has a name.
TryStoreFingerAction(i, action) ==
    /\ MayRequest
    /\ SetAction(i, action)
    /\ CutOff({}, IF task = "off" THEN {i} \cap (library \ Named) ELSE {})
    /\ UNCHANGED <<sensorVars, name2index, index2scheduler, fingerName, taskVars, httpdVars,
                   overwritten>>

TryStoreFingerScheduler(i, schedule) ==
    /\ MayRequest
    /\ index2scheduler' = [index2scheduler EXCEPT ![i] = schedule]
    /\ UNCHANGED <<sensorVars, name2index, index2action, granted, fingerName,
                   taskVars, httpdVars, historyVars>>

Request ==
    \/ \E name \in Names : TryEnrollAndStore(name) \/ TryDelete(name)
    \/ \E oldName, newName \in Names : TryRename(oldName, newName)
    \/ \E i \in Indices, action \in Actions : TryStoreFingerAction(i, action)
    \/ \E i \in Indices, schedule \in Schedules : TryStoreFingerScheduler(i, schedule)
    \/ TryDeleteAll \/ CancelInstruction

HttpdStep ==
    \/ AutoEnroll \/ FinishRename
    \/ DeleteName \/ DeleteAction \/ DeleteScheduler
    \/ DeleteNames \/ DeleteActions \/ DeleteSchedulers

(***************************************************************************)
(* The fingerprint task.  task_enroll takes any packet of the last step    *)
(* for a success; HandleEnrollmentUpdate reads fingerName when it stores.  *)
(***************************************************************************)
TaskEnroll ==
    /\ task = "loop" /\ isInEnrollment /\ rx # <<>>
    /\ rx' = Tail(rx)
    /\ IF Head(rx).last
       THEN /\ isInEnrollment' = FALSE
            /\ task' = "name" /\ taskIndex' = Head(rx).index /\ taskFor' = Head(rx).for
       ELSE UNCHANGED taskVars
    /\ UNCHANGED <<library, sensor, asked, nvsVars, fingerName, httpdVars, historyVars>>

\* Mutant: a timeout is only reported.
TaskTimeoutIgnored ==
    /\ task = "loop" /\ isInEnrollment /\ rx = <<>>
    /\ sensor = "idle" \/ "slow" \in Faults
    /\ UNCHANGED vars

TaskTimeout ==
    /\ task = "loop" /\ isInEnrollment /\ rx = <<>>
    /\ sensor = "idle" \/ "slow" \in Faults
    /\ isInEnrollment' = FALSE
    /\ UNCHANGED <<sensorVars, nvsVars, fingerName, task, taskIndex, taskFor,
                   httpdVars, historyVars>>

\* Mutant: indices counted from one.
StoreNameFromOne ==
    /\ task = "name" /\ task' = "action"
    /\ SetName(fingerName, taskIndex + 1, taskIndex)
    /\ UNCHANGED <<sensorVars, index2action, index2scheduler, granted,
                   fingerName, isInEnrollment, taskIndex, taskFor, httpdVars,
                   unstored, overwritten>>

StoreName ==
    /\ task = "name" /\ task' = "action"
    /\ SetName(fingerName, taskIndex, taskIndex)
    /\ UNCHANGED <<sensorVars, index2action, index2scheduler, granted,
                   fingerName, isInEnrollment, taskIndex, taskFor, httpdVars,
                   unstored, overwritten>>

\* Mutant: the new finger keeps what is stored for its index.
StoreActionIfMissing ==
    /\ task = "action" /\ task' = "scheduler"
    /\ IF index2action[taskIndex] = None THEN SetAction(taskIndex, NoAction)
       ELSE UNCHANGED <<index2action, granted>>
    /\ UNCHANGED <<sensorVars, name2index, index2scheduler, fingerName,
                   isInEnrollment, taskIndex, taskFor, httpdVars, historyVars>>

StoreAction ==
    /\ task = "action" /\ task' = "scheduler"
    /\ SetAction(taskIndex, NoAction)
    /\ UNCHANGED <<sensorVars, name2index, index2scheduler, fingerName,
                   isInEnrollment, taskIndex, taskFor, httpdVars, historyVars>>

StoreScheduler ==
    /\ task = "scheduler" /\ task' = "loop"
    /\ index2scheduler' = [index2scheduler EXCEPT ![taskIndex] = "ALWAYS"]
    /\ taskIndex' = None /\ taskFor' = None
    /\ UNCHANGED <<sensorVars, name2index, index2action, granted, fingerName,
                   isInEnrollment, httpdVars, historyVars>>

\* AutoIdentify flushes the receive buffer; what HandleFingerprintDetected
\* reads is used at once and changes nothing here.
TaskDetect ==
    /\ task = "loop" /\ ~isInEnrollment
    /\ Command
    /\ UNCHANGED <<library, asked, nvsVars, fingerName, taskVars, httpdVars, historyVars>>

TaskStep == TaskEnroll \/ TaskTimeout \/ StoreName \/ StoreAction \/ StoreScheduler

(***************************************************************************)
(* The sensor, and resets.                                                 *)
(***************************************************************************)
Sends(last, i) ==
    \/ Len(rx) < MaxPackets /\ rx' = Append(rx, [last |-> last, index |-> i, for |-> asked])
    \/ "lost" \in Faults /\ UNCHANGED rx

SensorProgress ==
    /\ sensor = "enrolling" /\ Sends(FALSE, None)
    /\ UNCHANGED <<library, sensor, asked, nvsVars, fingerName, taskVars, httpdVars,
                   historyVars>>

SensorFails ==
    /\ sensor = "enrolling" /\ sensor' = "idle" /\ Sends(FALSE, None)
    /\ UNCHANGED <<library, asked, nvsVars, fingerName, taskVars, httpdVars, historyVars>>

Deleting(i) ==
    \/ httpd \in {"deleteName", "deleteAction", "deleteScheduler"} /\ jobIndex = i
    \/ httpd \in {"deleteNames", "deleteActions", "deleteSchedulers"}

\* The task hears of the template only when it gets the packet and waits for it.
SensorStores(i) ==
    /\ sensor = "enrolling" /\ sensor' = "idle" /\ i \notin library
    /\ Sends(TRUE, i)
    /\ library' = library \cup {i}
    /\ granted' = granted \ {i}
    /\ IF rx' # rx /\ isInEnrollment /\ task # "off"
       THEN unstored' = unstored \ {i} /\ torn' = IF Deleting(i) THEN torn \cup {i} ELSE torn
       ELSE CutOff({i}, {})
    /\ UNCHANGED <<asked, name2index, index2action, index2scheduler, fingerName,
                   taskVars, httpdVars, overwritten>>

SensorRefuses(i) ==
    /\ "refused" \in Faults
    /\ sensor = "enrolling" /\ sensor' = "idle" /\ i \notin library
    /\ Sends(TRUE, i) /\ CutOff({}, {i})
    /\ UNCHANGED <<library, asked, nvsVars, fingerName, taskVars, httpdVars,
                   overwritten>>

SensorEnds == SensorFails \/ \E i \in Indices : SensorStores(i) \/ SensorRefuses(i)

\* A request or a repair that has begun to write.
Interrupted(i) ==
    Deleting(i) \/ (httpd \in {"action", "scheduler", "rename"} /\ jobIndex = i)

Reset ==
    /\ httpd # "off"
    /\ (httpd = "idle" /\ (task = "off" \/ ~Underway)) \/ "reset" \in Faults
    /\ CutOff(Unread \cup (IF task \in {"off", "loop"} THEN {} ELSE {taskIndex}),
              {i \in Indices : Interrupted(i)})
    /\ sensor' \in {sensor, "idle"} /\ rx' = <<>>
    /\ fingerName' = None /\ overwritten' = FALSE /\ isInEnrollment' = FALSE
    /\ task' = "off" /\ taskIndex' = None /\ taskFor' = None
    /\ httpd' = "off" /\ jobName' = None /\ jobIndex' = None /\ toCheck' = {}
    /\ UNCHANGED <<library, asked, nvsVars>>

\* A sensor used before may have templates the flash knows nothing of.
Init ==
    /\ library \in SUBSET Indices /\ sensor = "idle" /\ rx = <<>> /\ asked = None
    /\ overwritten = FALSE /\ unstored = {} /\ torn = library \ FirstPage
    /\ name2index = [n \in Names |-> None]
    /\ index2action = [i \in Indices |-> None]
    /\ index2scheduler = [i \in Indices |-> None]
    /\ granted = {}
    /\ fingerName = None /\ isInEnrollment = FALSE
    /\ task = "off" /\ taskIndex = None /\ taskFor = None
    /\ httpd = "off" /\ jobName = None /\ jobIndex = None /\ toCheck = {}

Next ==
    \/ BeginStep \/ Request \/ HttpdStep
    \/ TaskStep \/ TaskDetect
    \/ SensorProgress \/ SensorEnds
    \/ Reset

\* The tasks run, and the sensor ends an enrollment by itself.
Fairness == WF_vars(TaskStep) /\ WF_vars(SensorEnds) /\ WF_vars(HttpdStep) /\ WF_vars(BeginStep)

Spec == Init /\ [][Next]_vars
FairSpec == Spec /\ Fairness

(***************************************************************************)
(* Properties.                                                             *)
(***************************************************************************)
\* Whenever nothing is going on, the sensor's library and the namespaces tell
\* of the same fingers, each under one name and with an action and a scheduler.
\* Only an index at which an enrollment, a request or a repair was cut off, by
\* a reset, by a lost packet or by one another, may be told of differently.
StoresAgree ==
    httpd = "idle" /\ task = "loop" /\ ~Underway =>
        \A i \in Indices \ torn :
            /\ i \in Named <=> i \in library
            /\ \A m, n \in Names : name2index[m] = i /\ name2index[n] = i => m = n
            /\ i \in library => index2action[i] # None /\ index2scheduler[i] # None

\* A finger does not inherit the action of one that had its index before, even
\* if that one was only half deleted: where the task may detect it, a stored
\* action is newer than the template.  Only the enrollment of the finger itself,
\* cut off before the task has stored its entries, may leave it another's.
NoInheritedAction ==
    task = "loop" /\ ~isInEnrollment =>
        \A i \in library \ unstored :
            index2action[i] \notin {None, NoAction} => i \in granted

\* A template is stored under the name it was asked for, although the name
\* waits in a buffer outside the enrollment and packets of an earlier
\* enrollment may still be in the receive buffer.  Only between a second request
\* for an enrollment and its command does the first one get the second's name.
EnrolledUnderItsName == task = "name" => fingerName = taskFor \/ overwritten

\* After Begin every template it was told of has an action stored for it.
RepairedByBegin ==
    [][httpd = "check" /\ httpd' = "idle"
          => \A i \in library \cap FirstPage : index2action[i] # None]_vars

\* Every enrollment ends, and with it the time no finger is detected, if there
\* is a task to detect one and nobody asks for another enrollment.
EnrollmentEnds ==
    isInEnrollment /\ task # "off" ~> ~isInEnrollment \/ httpd = "enroll"
=============================================================================
