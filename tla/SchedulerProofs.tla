-------------------------- MODULE SchedulerProofs --------------------------
(***************************************************************************)
(* Proofs about Scheduler.  SunInv is inductive for the times the timers   *)
(* work with; NvsInv says what the map and NVS hold at each step of a      *)
(* request, and with it flash implements ScheduleStore.                    *)
(***************************************************************************)
EXTENDS Scheduler, TLAPS

-----------------------------------------------------------------------------
\* Every operation keeps the types: a request only writes kinds under names,
\* and Loop never gets ahead of the calendar.
LEMMA TypeOKStep == TypeOK /\ [Next]_vars => TypeOK'
<1> SUFFICES ASSUME TypeOK, [Next]_vars PROVE TypeOK'
  OBVIOUS
<1> USE SchedulesAssumption DEF TypeOK
<1>1. ASSUME LoseRam, UNCHANGED <<nvs, today>>, resets' \in 0 .. MaxResets
      PROVE  TypeOK'
  BY <1>1 DEF LoseRam
<1>2. CASE Begin
  BY <1>2 DEF Begin, nvsVars, httpdVars, taskVars, Kinds
<1>3. ASSUME NEW n \in Names, LoadBlob(n) PROVE TypeOK'
  BY <1>1, <1>3 DEF LoadBlob, Abort, Builds, nvsVars, mainVars, httpdVars, taskVars
<1>4. CASE EndBegin
  BY <1>4 DEF EndBegin, nvsVars, mapVars, httpdVars, taskVars
<1>5. CASE LoopStep
  <2> USE DEF nvsVars, mapVars, httpdVars, taskVars, Walking
  <2>1. CASE Loop
    BY <2>1 DEF Loop, Jobs
  <2>2. ASSUME NEW n \in Names, Visit(n) PROVE TypeOK'
    BY <2>2 DEF Visit
  <2>3. ASSUME NEW n \in Names, PassOver(n) PROVE TypeOK'
    BY <2>3 DEF PassOver
  <2>4. CASE WalkAborts
    BY <1>1, <2>4 DEF WalkAborts, Abort
  <2>5. CASE EndWalk
    BY <2>5 DEF EndWalk
  <2> QED BY <1>5, <2>1, <2>2, <2>3, <2>4, <2>5 DEF LoopStep
<1>6. CASE NextDay
  BY <1>6 DEF NextDay, nvsVars, mapVars, mainVars, httpdVars, taskVars
<1>7. ASSUME NEW n \in Names, RequestDelete(n) PROVE TypeOK'
  BY <1>7 DEF RequestDelete, Accept, HeldMoves, Unlist, Disturb, Jobs, nvsVars, Kinds
<1>8. ASSUME NEW m \in Names, NEW n \in Names, RequestRename(m, n) PROVE TypeOK'
  BY <1>8 DEF RequestRename, Accept, Unlist, Disturb, Jobs, nvsVars, taskVars, Kinds
<1>9. ASSUME NEW n \in Names, NEW kind \in Kinds, RequestSave(n, kind) PROVE TypeOK'
  BY <1>9 DEF RequestSave, Accept, Unlist, Disturb, Jobs, nvsVars, taskVars, Kinds
<1>10. CASE EraseKey
  BY <1>10 DEF EraseKey, Jobs, mapVars, mainVars, taskVars
<1>11. CASE Build
  BY <1>1, <1>11 DEF Build, Abort, Builds, HeldMoves, Enlist, Disturb, Jobs, nvsVars
<1>12. CASE SetBlob
  BY <1>12 DEF SetBlob, Jobs, mapVars, mainVars, taskVars
<1>13. ASSUME NEW n \in Names, LookupContains(n) PROVE TypeOK'
  BY <1>13 DEF LookupContains, nvsVars, mapVars, mainVars, httpdVars
<1>14. CASE LookupAt
  BY <1>1, <1>14 DEF LookupAt, Abort, nvsVars, mapVars, mainVars, httpdVars
<1>15. CASE LookupUse
  BY <1>1, <1>15 DEF LookupUse, Abort, nvsVars, mapVars, mainVars, httpdVars
<1>16. CASE Reset
  BY <1>1, <1>16 DEF Reset
<1>17. CASE UNCHANGED vars
  BY <1>17 DEF vars, nvsVars, mapVars, mainVars, httpdVars, taskVars
<1>18. CASE Insert
  BY <1>18 DEF Insert, Enlist, Disturb, HeldMoves, Jobs, nvsVars
<1> QED
  BY <1>2, <1>3, <1>4, <1>5, <1>6, <1>7, <1>8, <1>9, <1>10, <1>11, <1>12, <1>13, <1>14,
     <1>15, <1>16, <1>17, <1>18 DEF Next, BeginStep, Request, HttpdStep, Lookup

\* Every variable keeps its type, whatever requests, lookups and resets do.
THEOREM SchedulerTypeCorrect == Spec => []TypeOK
<1>1. Init => TypeOK
  BY SchedulesAssumption DEF Init, TypeOK, Kinds
<1> QED BY <1>1, TypeOKStep, PTL DEF Spec

-----------------------------------------------------------------------------
\* The list tells of a name what the next boot brings, or the code left it out.
Agrees(n) ==
    \/ timers[n] = AfterBoot(n)
    \/ timers[n] = None /\ nvs[n] = None /\ n \in Statics
    \/ timers[n] # None /\ nvs[n] = None /\ n \in unsaved

\* Requests and lookups run in the booted device.  Only a rename is about two
\* names, and only what saves has a payload to build from.
JobInv ==
    /\ httpd # "idle" \/ task # "idle" => Running
    /\ httpd # "idle" => /\ job.op = "rename" <=> job.from # job.to
                         /\ job.op = "delete" <=> job.kind = None
                         /\ job.op = "delete" => httpd = "erase"
                         /\ httpd = "build" => job.op = "save"
                         /\ httpd = "insert" => job.op = "rename"

\* What the map and NVS hold under the names of a request, at each of its steps.
ProgressInv ==
    /\ httpd \in {"insert", "erase"} => timers[job.from] = None /\ job.stored = nvs[job.from]
    /\ httpd = "insert" => timers[job.to] = None
    /\ httpd = "build" => timers[job.from] = None /\ nvs[job.from] = None
    /\ httpd = "set" => /\ nvs[job.from] = None /\ nvs[job.to] = None
                        /\ job.op = "rename" => timers[job.from] = None
    /\ httpd = "set" \/ (httpd = "erase" /\ job.op = "rename") => timers[job.to] = job.kind
    /\ httpd # "idle" /\ job.op = "rename" =>
           nvs[job.to] = None /\ job.stored \in {job.kind, None}

\* All other names agree, those that Begin has still to load excepted.
OthersAgree ==
    /\ main = "load" => \A n \in Names \ toLoad : Agrees(n)
    /\ Running => \A n \in Names :
           Agrees(n) \/ (httpd # "idle" /\ n \in {job.from, job.to})

NvsInv == TypeOK /\ JobInv /\ ProgressInv /\ OthersAgree

\* A request finds under its names what the map and NVS agree on.
LEMMA Agreed ==
    ASSUME NvsInv, MayRequest, NEW n \in Names
    PROVE  nvs[n] \in {timers[n], None}
BY SchedulesAssumption DEF NvsInv, TypeOK, MayRequest, OthersAgree, Agrees, AfterBoot, Kinds

LEMMA NvsInvStep == NvsInv /\ [Next]_vars => NvsInv'
<1> SUFFICES ASSUME NvsInv, [Next]_vars PROVE NvsInv'
  OBVIOUS
<1>0. TypeOK'
  BY TypeOKStep DEF NvsInv
<1> USE SchedulesAssumption, <1>0
    DEF NvsInv, JobInv, ProgressInv, OthersAgree, Agrees, AfterBoot, TypeOK, Running, Walking, nvsVars
<1>1. LoseRam /\ UNCHANGED nvs => NvsInv'
  BY DEF LoseRam
<1>2. CASE Begin
  BY <1>2 DEF Begin, httpdVars, taskVars, Kinds
<1>3. ASSUME NEW n \in Names, LoadBlob(n) PROVE NvsInv'
  BY <1>1, <1>3 DEF LoadBlob, Abort, httpdVars, taskVars
<1>4. CASE EndBegin
  BY <1>4 DEF EndBegin, mapVars, httpdVars, taskVars
<1>5. ASSUME NEW n \in Names, RequestDelete(n) PROVE NvsInv'
  BY <1>5, Agreed DEF RequestDelete, MayRequest, Accept, Unlist, Disturb
<1>6. ASSUME NEW m \in Names, NEW n \in Names, RequestRename(m, n) PROVE NvsInv'
  <2>1. m # n /\ nvs[n] = None /\ nvs[m] \in {timers[m], None} /\ timers[m] # None
    BY <1>6, Agreed DEF RequestRename, Kinds
  <2> QED BY <1>6, <2>1 DEF RequestRename, MayRequest, Accept, Unlist, Disturb, taskVars, Kinds
<1>7. ASSUME NEW n \in Names, NEW kind \in Kinds, RequestSave(n, kind) PROVE NvsInv'
  <2>1. timers[n] = None => nvs[n] = None
    BY <1>7, Agreed DEF RequestSave, Kinds
  <2> QED BY <1>7, <2>1 DEF RequestSave, MayRequest, Accept, Unlist, Disturb, taskVars, Kinds
<1>8. CASE EraseKey
  BY <1>8 DEF EraseKey, mapVars, mainVars, taskVars, Jobs
<1>9. CASE Build
  BY <1>1, <1>9 DEF Build, Abort, Enlist, Disturb, Jobs
<1>10. CASE SetBlob
  BY <1>10 DEF SetBlob, mapVars, mainVars, taskVars, Jobs
<1>11. CASE Insert
  BY <1>11 DEF Insert, Enlist, Disturb, Jobs
\* Neither NVS nor the map is touched, and no request goes on.
<1>12. CASE /\ UNCHANGED <<nvsVars, timers, httpd, job>>
            /\ UNCHANGED <<main, toLoad>> \/ (Running /\ Running')
            /\ (task' # "idle" => task # "idle" \/ Running)
  BY <1>12
<1>13. CASE LoopStep
  BY <1>1, <1>12, <1>13 DEF LoopStep, Loop, Visit, PassOver, WalkAborts, EndWalk, Abort, mapVars,
                            httpdVars, taskVars
<1>14. CASE NextDay \/ UNCHANGED vars
  BY <1>12, <1>14 DEF NextDay, mapVars, mainVars, httpdVars, taskVars, vars
<1>15. CASE Lookup \/ Reset
  BY <1>1, <1>12, <1>15 DEF Lookup, LookupContains, LookupAt, LookupUse, Abort, Reset, mapVars,
                            mainVars, httpdVars
<1> QED
  BY <1>2, <1>3, <1>4, <1>5, <1>6, <1>7, <1>8, <1>9, <1>10, <1>11, <1>13, <1>14, <1>15
     DEF Next, BeginStep, Request, HttpdStep

\* Whenever no request runs the list is what the next boot brings, but for the
\* three ways out of it that ListedIsStored names, although the map and NVS are
\* changed one after the other: a reset or an abort between two steps empties
\* the map, and Begin fills it from NVS again.
THEOREM ListTellsTheNextBoot == Spec => []ListedIsStored
<1>1. Init => NvsInv
  BY SchedulesAssumption
     DEF Init, NvsInv, JobInv, ProgressInv, OthersAgree, Agrees, TypeOK, Kinds, Running, Walking
<1>2. NvsInv => ListedIsStored
  BY DEF NvsInv, OthersAgree, Agrees, ListedIsStored
<1> QED BY <1>1, <1>2, NvsInvStep, PTL DEF Spec

-----------------------------------------------------------------------------
\* The day a timer works with is never touched but by the walk, or with the
\* timer itself: what is not a SunRandom timer has none, and there is none
\* before the first walk.  A timer in between the two names of a rename is not
\* in the map, and a walk visits only what is.
SunInv ==
    /\ NvsInv /\ SunTimesOfToday
    /\ \A n \in Names : timers[n] # "sun" =>
           sunDay[n] = 0 \/ (httpd = "insert" /\ n = job.to /\ job.kind = "sun")
    /\ ~Running => \A n \in Names : sunDay[n] = 0
    /\ toVisit # {} => Walking
    /\ \A n \in toVisit : timers[n] # None

LEMMA SunInvStep == SunInv /\ [Next]_vars => SunInv'
<1> SUFFICES ASSUME SunInv, [Next]_vars PROVE SunInv'
  OBVIOUS
<1>0. NvsInv' /\ TypeOK /\ TypeOK'
  BY NvsInvStep DEF SunInv, NvsInv
<1> USE SchedulesAssumption, <1>0
    DEF SunInv, SunTimesOfToday, TypeOK, Running, Walking, nvsVars
<1>1. LoseRam => SunInv'
  BY DEF LoseRam
<1>2. CASE Begin
  BY <1>2 DEF Begin, NvsInv, JobInv
<1>3. ASSUME NEW n \in Names, LoadBlob(n) PROVE SunInv'
  BY <1>1, <1>3 DEF LoadBlob, Abort, NvsInv, JobInv
<1>4. CASE Loop
  BY <1>4 DEF Loop, httpdVars, Kinds
<1>5. ASSUME NEW n \in Names, Visit(n) PROVE SunInv'
  BY <1>5 DEF Visit, NvsInv, ProgressInv, httpdVars
<1>6. ASSUME NEW n \in Names, PassOver(n) PROVE SunInv'
  BY <1>6 DEF PassOver, httpdVars
<1>7. ASSUME NEW n \in Names, RequestDelete(n) PROVE SunInv'
  BY <1>7 DEF RequestDelete, MayRequest, Unlist, Disturb, Accept
<1>8. ASSUME NEW m \in Names, NEW n \in Names, RequestRename(m, n) PROVE SunInv'
  BY <1>8 DEF RequestRename, MayRequest, Unlist, Disturb, Accept
<1>9. ASSUME NEW n \in Names, NEW kind \in Kinds, RequestSave(n, kind) PROVE SunInv'
  BY <1>9 DEF RequestSave, MayRequest, Unlist, Disturb, Accept
<1>10. CASE Build
  <2>1. CASE Abort
    BY <1>1, <2>1 DEF Abort
  <2>2. timers[job.to] = None /\ httpd = "build"
    BY <1>10 DEF Build, NvsInv, JobInv, ProgressInv
  <2>3. CASE /\ Enlist(job.to, job.kind) /\ httpd' = "set"
             /\ UNCHANGED <<sunDay, missed, julianDay, job>>
    BY <2>2, <2>3 DEF Enlist, Disturb, Jobs, Kinds, NvsInv, JobInv
  <2> QED BY <1>10, <2>1, <2>3 DEF Build
<1>11. CASE Insert
  BY <1>11 DEF Insert, Enlist, Disturb, Jobs, Kinds, NvsInv, JobInv, ProgressInv
\* Neither the map nor the walk is touched.
<1>12. CASE /\ UNCHANGED <<mapVars, julianDay, toVisit>> /\ (httpd = "insert" => UNCHANGED httpdVars)
            /\ (UNCHANGED main \/ (toVisit = {} /\ Running'))
  BY <1>12 DEF mapVars, httpdVars
<1>13. CASE EraseKey \/ SetBlob
  BY <1>12, <1>13 DEF EraseKey, SetBlob, mainVars
<1>14. CASE Lookup \/ Reset \/ WalkAborts
  BY <1>1, <1>12, <1>14 DEF Lookup, LookupContains, LookupAt, LookupUse, WalkAborts, Abort, Reset,
                            mainVars
<1>15. CASE EndBegin \/ EndWalk \/ NextDay \/ UNCHANGED vars
  BY <1>12, <1>15 DEF EndBegin, EndWalk, NextDay, mainVars, vars
<1> QED
  BY <1>2, <1>3, <1>4, <1>5, <1>6, <1>7, <1>8, <1>9, <1>10, <1>11, <1>13, <1>14, <1>15
     DEF Next, BeginStep, LoopStep, Request, HttpdStep

\* No SunRandom timer works with the sunrise of another day than the one Loop
\* acted on last, through renames, saves and boots, but one that Loop's walk has
\* still to come to or has passed over.
THEOREM SunTimesCurrent == Spec => []SunTimesOfToday
<1>1. Init => SunInv
  BY SchedulesAssumption
     DEF Init, SunInv, SunTimesOfToday, NvsInv, JobInv, ProgressInv, OthersAgree, Agrees, TypeOK,
         Kinds, Running, Walking
<1> QED BY <1>1, SunInvStep, PTL DEF Spec, SunInv

-----------------------------------------------------------------------------
\* While a request is between erasing and writing, flash lacks the schedule
\* that storedNow still counts; losing RAM there loses that one schedule.
LEMMA LosingRamCrashes ==
    ASSUME NvsInv, main # "off", LoseRam, UNCHANGED nvs
    PROVE  Store!Crash
<1> USE DEF Store!Crash, storedNow, LoseRam
<1>1. CASE httpd \in {"build", "set"}
  <2>1. job.from \in Names /\ nvs[job.from] = None
    BY <1>1 DEF NvsInv, TypeOK, Jobs, ProgressInv
  <2>2. nvs = [storedNow EXCEPT ![job.from] = None]
    BY <1>1, <2>1 DEF NvsInv, TypeOK
  <2> QED BY <1>1, <2>2
<1>2. CASE httpd \notin {"build", "set"}
  BY <1>2
<1> QED BY <1>1, <1>2

\* A request is taken up: nothing is lost yet, as what is erased or not in
\* flash is remembered.
LEMMA RequestIsRequest ==
    ASSUME NvsInv, Request
    PROVE  \E names \in SUBSET Names : Store!Request(names)
<1> USE DEF NvsInv, TypeOK
<1>1. /\ main # "off" /\ main' # "off" /\ httpd = "idle" /\ httpd' \in {"insert", "erase", "build"}
      /\ job'.from \in Names /\ job'.to \in Names /\ job'.stored = nvs[job'.from]
      /\ UNCHANGED nvs
  BY DEF Request, RequestDelete, RequestRename, RequestSave, MayRequest, Accept, Unlist, Disturb,
         Running, Walking, nvsVars
<1>2. storedNow' = storedNow
  BY <1>1 DEF storedNow
<1>3. Store!Request({job'.from, job'.to})
  BY <1>1, <1>2 DEF Store!Request
<1> QED BY <1>1, <1>3

\* A request ends with one write, which is the whole change of the request.
LEMMA SetBlobIsSaveOrRename ==
    ASSUME NvsInv, SetBlob
    PROVE  \/ Store!Save(job.to, job.kind)
           \/ Store!Rename(job.from, job.to, job.kind)
<1> USE DEF NvsInv, TypeOK, JobInv, ProgressInv, SetBlob, Jobs, storedNow
<1>1. /\ job.from \in Names /\ job.to \in Names /\ job.op \in {"save", "rename"}
      /\ storedNow = [nvs EXCEPT ![job.from] = job.stored] /\ storedNow' = nvs'
      /\ nvs[job.from] = None /\ nvs[job.to] = None
  BY SchedulesAssumption
<1>2. PICK kind \in Store!Written(job.kind) : nvs' = [nvs EXCEPT ![job.to] = kind]
  BY <1>1 DEF Store!Written
<1>3. CASE job.op = "save"
  <2>1. job.from = job.to
    BY <1>3
  <2>2. storedNow' = [storedNow EXCEPT ![job.to] = kind]
    BY <1>1, <1>2, <2>1
  <2> QED BY <1>1, <1>2, <2>1, <2>2 DEF Store!Save, mainVars
<1>4. CASE job.op = "rename"
  <2>1. job.from # job.to /\ job.stored \in {job.kind, None}
    BY <1>4
  <2>2. storedNow' = [storedNow EXCEPT ![job.from] = None, ![job.to] = kind]
    BY <1>1, <1>2, <2>1
  <2> QED BY <1>1, <1>2, <2>1, <2>2 DEF Store!Rename, mainVars
<1> QED BY <1>1, <1>3, <1>4

LEMMA StoreStep ==
    ASSUME NvsInv, [Next]_vars
    PROVE  [Store!Next]_(Store!storeVars)
<1> USE DEF Store!storeVars, storedNow
<1>1. CASE Begin
  <2>1. Store!Boot
    BY <1>1 DEF Begin, Store!Boot, NvsInv, JobInv, Running, Walking, nvsVars, httpdVars
  <2> QED BY <2>1 DEF Store!Next
<1>2. CASE (LoseRam /\ UNCHANGED nvs) /\ main # "off"
  BY <1>2, LosingRamCrashes DEF Store!Next
<1>3. CASE Request
  BY <1>3, RequestIsRequest DEF Store!Next
<1>4. CASE EraseKey
  <2> USE DEF NvsInv, TypeOK, ProgressInv, Jobs, JobInv
  <2>1. CASE job.op = "delete"
    <3>1. Store!Delete(job.from)
      BY <1>4, <2>1 DEF EraseKey, Store!Delete, mainVars
    <3> QED BY <1>4, <3>1 DEF EraseKey, Store!Next
  <2>2. CASE job.op # "delete"
    <3>1. httpd' \in {"build", "set"} /\ UNCHANGED <<job, main>>
      BY <1>4, <2>2 DEF EraseKey, mainVars
    <3>2. [nvs' EXCEPT ![job.from] = job.stored] = nvs
      BY <1>4 DEF EraseKey
    <3> QED BY <1>4, <3>1, <3>2 DEF EraseKey
  <2> QED BY <2>1, <2>2
<1>5. CASE SetBlob
  <2>1. job.from \in Names /\ job.to \in Names /\ job.kind \in Kinds
    BY <1>5 DEF SetBlob, NvsInv, TypeOK, JobInv, Jobs
  <2> QED BY <1>5, <2>1, SetBlobIsSaveOrRename DEF Store!Next
\* The other steps do not touch flash, and take no request up or to its end.
<1>6. CASE /\ UNCHANGED <<nvs, job>> /\ (main' # "off" <=> main # "off")
           /\ UNCHANGED httpd \/ (httpd = "build" /\ httpd' = "set")
                               \/ (httpd = "insert" /\ httpd' = "erase")
  BY <1>6
<1> QED
  <2> USE DEF nvsVars, mainVars, httpdVars, NvsInv, JobInv, Running, Walking
  <2>1. CASE \E n \in Names : LoadBlob(n)
    BY <2>1, <1>2, <1>6 DEF LoadBlob, Abort
  <2>2. CASE Build
    BY <2>2, <1>2, <1>6 DEF Build, Abort, Enlist, Disturb
  <2>3. CASE Insert
    BY <2>3, <1>6 DEF Insert, Enlist, Disturb
  <2>4. CASE LoopStep
    BY <2>4, <1>2, <1>6 DEF LoopStep, Loop, Visit, PassOver, WalkAborts, EndWalk, Abort
  <2>5. CASE Lookup
    BY <2>5, <1>2, <1>6 DEF Lookup, LookupContains, LookupAt, LookupUse, Abort
  <2>6. CASE Reset
    BY <2>6, <1>2 DEF Reset
  <2>7. CASE EndBegin \/ NextDay \/ UNCHANGED vars
    BY <2>7, <1>6 DEF EndBegin, NextDay, vars
  <2> QED
    BY <2>1, <2>2, <2>3, <2>4, <2>5, <2>6, <2>7, <1>1, <1>3, <1>4, <1>5
       DEF Next, BeginStep, HttpdStep

\* Flash is a map of named schedules that each request changes in one step,
\* and a reset or an abort costs at most the schedule of the request it hits.
THEOREM ImplementsScheduleStore == Spec => StoreImplemented
<1>1. Init => Store!Init
  BY DEF Init, Store!Init, storedNow
<1>2. Init => NvsInv
  BY SchedulesAssumption
     DEF Init, NvsInv, JobInv, ProgressInv, OthersAgree, Agrees, TypeOK, Kinds, Running, Walking
<1> QED BY <1>1, <1>2, NvsInvStep, StoreStep, PTL DEF Spec, StoreImplemented, Store!Spec
=============================================================================
