----------------------------- MODULE SerialLine -----------------------------
(***************************************************************************)
(* The serial line to the fingerprint sensor (grow_fingerprint_serial_     *)
(* protocol.hh, and its use in r503pro.hh): the HTTP task sends commands   *)
(* and waits a second for their acknowledgement; the fingerprint task      *)
(* identifies fingers, and reads the packages of an enrollment the HTTP    *)
(* task has started.  Only the UART driver keeps the two apart: it lets    *)
(* one of them read or flush at a time.                                    *)
(*                                                                         *)
(* A package is as many units long as the command it answers asks for; a   *)
(* unit stands for some bytes.  A caller knows the length it expects; no   *)
(* package says which command it answers.                                  *)
(***************************************************************************)
EXTENDS Naturals, Sequences, FiniteSetsExt

CONSTANTS
    Length,                 \* of the packages that answer a kind of command
    Faults,                 \* what the environment may do
    MaxCommands, MaxUnits   \* bounds: commands sent, units underway

Kinds == {"ack", "enroll", "identify"}
Callers == {"httpd", "task"}

\* 12, 15 and 17 bytes.
ASSUME LengthAssumption ==
    /\ Length \in [Kinds -> Nat \ {0}]
    /\ \A k, l \in Kinds : k # l => Length[k] # Length[l]
    /\ MaxCommands \in Nat \ {0} /\ MaxUnits \in Nat

\* overlap: the HTTP task sends commands while the fingerprint task is busy.
\* lost:    a package does not arrive.
\* late:    an answer takes longer than its caller waits.
ASSUME FaultsAssumption == Faults \subseteq {"overlap", "lost", "late"}

None == 0
Commands == 1 .. MaxCommands

VARIABLES
    pc, job,                \* what each caller does next, for what command
    waiting,                \* the command each caller reads the answer to
    isInEnrollment,
    inbox, sensor,          \* commands the sensor has still to take, and the
                            \* one it is carrying out
    wire, rx,               \* units underway, and in the receive buffer
    issued,                 \* history: the kinds of the commands sent
    abandoned,              \* history: commands given up on, or superseded
    alone                   \* history: callers with the line to themselves

callerVars == <<pc, job, waiting, isInEnrollment>>
lineVars == <<inbox, sensor, wire, rx>>
vars == <<callerVars, lineVars, issued, abandoned, alone>>

Units == [of : Commands, pos : Nat \ {0}, last : BOOLEAN]

TypeOK ==
    /\ issued \in Seq(Kinds) /\ Len(issued) <= MaxCommands
    /\ pc \in [Callers -> {"idle", "flush", "write", "flag", "lock", "read"}]
    /\ job["httpd"] \in {"ack", "enroll"} /\ job["task"] \in {"identify", "enroll"}
    /\ job["httpd"] = "enroll" => pc["httpd"] \notin {"lock", "read"}
    /\ waiting \in [Callers -> 0 .. Len(issued)]
    /\ \A p \in Callers : pc[p] = "read" => issued[waiting[p]] = job[p]
    /\ isInEnrollment \in BOOLEAN
    /\ inbox \in Seq(Commands) /\ sensor \in 0 .. Len(issued)
    /\ wire \in Seq(Units) /\ rx \in Seq(Units) /\ Len(wire) + Len(rx) <= MaxUnits
    /\ abandoned \subseteq Commands /\ alone \subseteq Callers

Reading == {p \in Callers : pc[p] = "read"}

Quiet(p) == pc[p] = "idle" /\ (p = "task" => ~isInEnrollment)

Goes(p, to) == pc' = [pc EXCEPT ![p] = to]

(***************************************************************************)
(* A command: the receive buffer is flushed, the command is written, and   *)
(* its answer is read, unless it starts an enrollment.                     *)
(***************************************************************************)
Begun == {p \in Callers : pc[p] \in {"flush", "write"}}

Starts(p, kind) ==
    /\ pc[p] = "idle" /\ Len(issued) + Cardinality(Begun) < MaxCommands
    /\ Goes(p, "flush") /\ job' = [job EXCEPT ![p] = kind]
    /\ alone' = {}
    /\ UNCHANGED <<waiting, isInEnrollment, lineVars, issued, abandoned>>

MayCommand == Quiet("task") \/ "overlap" \in Faults

\* Delete, delete all, and cancel.
Command == MayCommand /\ Starts("httpd", "ack")

\* Nothing keeps a second enrollment from being started while one runs.
AutoEnroll == MayCommand /\ Starts("httpd", "enroll")

\* A finger was put on the sensor; where it is put for an enrollment, the
\* flag may not be set yet.
AutoIdentify ==
    /\ ~isInEnrollment
    /\ pc["httpd"] = "idle" \/ "overlap" \in Faults
    /\ Starts("task", "identify")

\* task_detect without an edge on the interrupt line.
task_detect == Quiet("task") /\ UNCHANGED vars

LineQuiet == inbox = <<>> /\ sensor = None /\ wire = <<>>

\* Mutant: nothing is flushed.
FlushNothing(p) ==
    /\ pc[p] = "flush" /\ Reading = {}
    /\ Goes(p, "write")
    /\ alone' = IF LineQuiet /\ \A q \in Callers \ {p} : Quiet(q) THEN {p} ELSE {}
    /\ UNCHANGED <<job, waiting, isInEnrollment, lineVars, issued, abandoned>>

\* uart_flush_input waits, as long as it takes, until nobody reads.
Flush(p) ==
    /\ pc[p] = "flush" /\ Reading = {}
    /\ rx' = <<>>
    /\ Goes(p, "write")
    /\ alone' = IF LineQuiet /\ \A q \in Callers \ {p} : Quiet(q) THEN {p} ELSE {}
    /\ UNCHANGED <<job, waiting, isInEnrollment, inbox, sensor, wire, issued, abandoned>>

\* The fingerprint task goes on reading for the enrollment it knows, and the
\* packages of both look alike to it.
Superseded(p) ==
    {c \in 1 .. Len(issued) : job[p] = "enroll" /\ isInEnrollment /\ issued[c] = "enroll"}

\* Mutant: the start of an enrollment is waited for like an acknowledgement.
WriteCommandAndRead(p) ==
    /\ pc[p] = "write"
    /\ issued' = Append(issued, job[p]) /\ inbox' = Append(inbox, Len(issued'))
    /\ waiting' = [waiting EXCEPT ![p] = Len(issued')]
    /\ abandoned' = abandoned \cup Superseded(p)
    /\ Goes(p, "lock")
    /\ UNCHANGED <<job, isInEnrollment, sensor, wire, rx, alone>>

WriteCommand(p) ==
    /\ pc[p] = "write"
    /\ issued' = Append(issued, job[p]) /\ inbox' = Append(inbox, Len(issued'))
    /\ waiting' = [waiting EXCEPT ![p] = Len(issued')]
    /\ abandoned' = abandoned \cup Superseded(p)
    /\ Goes(p, IF p = "httpd" /\ job[p] = "enroll" THEN "flag" ELSE "lock")
    /\ UNCHANGED <<job, isInEnrollment, sensor, wire, rx, alone>>

SetInEnrollment ==
    /\ pc["httpd"] = "flag" /\ Goes("httpd", "idle")
    /\ isInEnrollment' = TRUE
    /\ alone' = {}
    /\ UNCHANGED <<job, waiting, lineVars, issued, abandoned>>

task_enroll ==
    /\ pc["task"] = "idle" /\ isInEnrollment
    /\ Goes("task", "lock") /\ job' = [job EXCEPT !["task"] = "enroll"]
    /\ waiting' = [waiting EXCEPT !["task"] =
                      Max({i \in 1 .. Len(issued) : issued[i] = "enroll"})]
    /\ alone' = {}
    /\ UNCHANGED <<isInEnrollment, lineVars, issued, abandoned>>

(***************************************************************************)
(* receiveAndCheckPackage: uart_read_bytes returns when it has so many     *)
(* bytes as are expected, or after a timeout, which discards the bytes it  *)
(* has taken.                                                              *)
(***************************************************************************)
Lock(p) ==
    /\ pc[p] = "lock" /\ Reading = {}
    /\ Goes(p, "read")
    /\ UNCHANGED <<job, waiting, isInEnrollment, lineVars, issued, abandoned, alone>>

\* Any error ends a call, and an enrollment for this side.
Fails(p) ==
    /\ Goes(p, "idle")
    /\ abandoned' = abandoned \cup {waiting[p]}
    /\ isInEnrollment' = (isInEnrollment /\ ~(p = "task" /\ job[p] = "enroll"))
    /\ UNCHANGED <<job, waiting, issued, alone>>

\* Somebody else reads as long as this caller waits.
LockTimeout(p) ==
    /\ pc[p] = "lock" /\ Reading # {}
    /\ Fails(p) /\ UNCHANGED lineVars

\* Mutant: the length and the checksum are not compared.
CheckedByStartcode(units) == units[1].pos = 1

\* The start code is at the start, the length is the one expected, and the
\* checksum is that of these bytes.
Checked(units) ==
    \A i \in 1 .. Len(units) :
        /\ units[i].of = units[1].of /\ units[i].pos = i
        /\ Length[issued[units[i].of]] = Len(units)

Expected(p) == Length[job[p]]
Taken(p) == SubSeq(rx, 1, Expected(p))
Received(p) == pc[p] = "read" /\ Len(rx) >= Expected(p)
Accepts(p) == Received(p) /\ Checked(Taken(p))

\* An acknowledgement ends its call, and the last step that of an
\* identification and an enrollment; until then the next package is read.
receiveAndCheckPackage(p) ==
    /\ Received(p)
    /\ rx' = SubSeq(rx, Expected(p) + 1, Len(rx)) /\ UNCHANGED <<inbox, sensor, wire>>
    /\ IF ~Accepts(p) THEN Fails(p)
       ELSE /\ Goes(p, IF job[p] = "identify" /\ ~rx[1].last THEN "lock" ELSE "idle")
            /\ isInEnrollment' = (isInEnrollment /\ ~(job[p] = "enroll" /\ rx[1].last))
            /\ UNCHANGED <<job, waiting, issued, abandoned, alone>>

Silent == inbox = <<>> /\ wire = <<>> /\ (sensor # None => issued[sensor] = "enroll")
MayTimeOut == "late" \notin Faults => Silent

\* Mutant: reading goes on after a timeout.
ReadTimeoutRetries(p) ==
    /\ pc[p] = "read" /\ Len(rx) < Expected(p)
    /\ MayTimeOut
    /\ rx' = <<>>
    /\ UNCHANGED <<callerVars, inbox, sensor, wire, issued, abandoned, alone>>

\* Between the steps of an enrollment a finger is lifted, which takes longer
\* than the others wait.
ReadTimeout(p) ==
    /\ pc[p] = "read" /\ Len(rx) < Expected(p)
    /\ MayTimeOut
    /\ rx' = <<>>
    /\ Fails(p) /\ UNCHANGED <<inbox, sensor, wire>>

CallerStep(p) ==
    \/ Flush(p) \/ WriteCommand(p) \/ Lock(p) \/ LockTimeout(p)
    \/ receiveAndCheckPackage(p) \/ ReadTimeout(p)

(***************************************************************************)
(* The sensor and the line.  A command it gets while it carries out        *)
(* another may end that.  A package for which there is no room is lost.    *)
(***************************************************************************)
Sends(command, last) ==
    LET length == Length[issued[command]]
        package == [i \in 1 .. length |-> [of |-> command, pos |-> i, last |-> last]]
    IN \/ /\ Len(wire) + Len(rx) + length <= MaxUnits
          /\ wire' = wire \o package /\ UNCHANGED alone
       \/ /\ Len(wire) + Len(rx) + length > MaxUnits \/ "lost" \in Faults
          /\ alone' = {} /\ UNCHANGED wire

SensorTakes ==
    /\ inbox # <<>> /\ inbox' = Tail(inbox)
    /\ IF issued[Head(inbox)] = "ack"
       THEN Sends(Head(inbox), TRUE) /\ sensor' \in {sensor, None}
       ELSE sensor' = Head(inbox) /\ UNCHANGED <<wire, alone>>
    /\ UNCHANGED <<callerVars, rx, issued, abandoned>>

SensorProgress ==
    /\ sensor # None /\ Sends(sensor, FALSE)
    /\ UNCHANGED <<callerVars, inbox, sensor, rx, issued, abandoned>>

\* An enrollment that fails is not reported as its last step.
SensorEnds ==
    /\ sensor # None /\ sensor' = None
    /\ \/ Sends(sensor, TRUE)
       \/ issued[sensor] = "enroll" /\ Sends(sensor, FALSE)
    /\ UNCHANGED <<callerVars, inbox, rx, issued, abandoned>>

Arrive ==
    /\ wire # <<>>
    /\ rx' = Append(rx, Head(wire)) /\ wire' = Tail(wire)
    /\ UNCHANGED <<callerVars, inbox, sensor, issued, abandoned, alone>>

Init ==
    /\ pc = [p \in Callers |-> "idle"] /\ waiting = [p \in Callers |-> None]
    /\ job = [p \in Callers |-> IF p = "httpd" THEN "ack" ELSE "identify"]
    /\ isInEnrollment = FALSE
    /\ inbox = <<>> /\ sensor = None /\ wire = <<>> /\ rx = <<>>
    /\ issued = <<>> /\ abandoned = {} /\ alone = {}

Next ==
    \/ Command \/ AutoEnroll \/ AutoIdentify \/ task_detect
    \/ SetInEnrollment \/ task_enroll
    \/ \E p \in Callers : CallerStep(p)
    \/ SensorTakes \/ SensorProgress \/ SensorEnds \/ Arrive

Spec == Init /\ [][Next]_vars

\* The tasks run, the sensor takes commands and ends what it carries out.  Weak
\* fairness is enough: nothing is assumed of who gets the driver's lock.
FairSpec ==
    /\ Spec
    /\ \A p \in Callers : WF_vars(CallerStep(p))
    /\ WF_vars(SetInEnrollment)
    /\ WF_vars(SensorTakes) /\ WF_vars(SensorEnds) /\ WF_vars(Arrive)

(***************************************************************************)
(* Properties.                                                             *)
(***************************************************************************)
\* What a caller accepts as its answer answers its own command.  Only when a
\* command of that kind was given up on before may it be the late answer to an
\* earlier one of the kind, from then on one behind; and only when a second
\* enrollment was written while one ran may a package of the one be taken for
\* the other's.  The length alone keeps the answers of the two tasks apart,
\* however the bytes of several packages are cut by timeouts and by the flushes
\* of the other.
TakesOwnAnswer ==
    \A p \in Callers : Accepts(p) =>
        \A i \in 1 .. Expected(p) :
            LET answered == Taken(p)[i].of IN
            \/ answered = waiting[p]
            \/ issued[answered] = job[p] /\ \E c \in abandoned : issued[c] = job[p]

\* Out of step is not for ever: a caller that has the line to itself from its
\* flush on reads its own answer from the start, whatever was left behind.
AloneReadsItsAnswer ==
    \A p \in alone : pc[p] = "read" =>
        LET units == rx \o wire
        IN /\ \A i \in 1 .. Len(units) : units[i].of = waiting[p]
           /\ units # <<>> => units[1].pos = 1

\* A request that uses the sensor returns, although flushing waits without a
\* timeout for the fingerprint task, which may have to wait for a finger.
CommandsReturn == pc["httpd"] # "idle" ~> pc["httpd"] = "idle"
=============================================================================
