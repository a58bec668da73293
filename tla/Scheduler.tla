----------------------------- MODULE Scheduler -----------------------------
(***************************************************************************)
(* The scheduler (scheduler.hh, scheduler_timers.hh): the map of timers in *)
(* RAM, the blobs in NVS it is loaded from, the requests of the HTTP task  *)
(* that change both, the main task's daily walk over the map, and the      *)
(* fingerprint task that looks a timer up and uses it.  There is no lock.  *)
(*                                                                         *)
(* A timer is its kind; the sunrise and sunset a SunRandom timer works     *)
(* with are the day they were computed for.  Every NVS call is durable by  *)
(* itself and an action of its own; its result is ignored by the code.     *)
(***************************************************************************)
EXTENDS Naturals

CONSTANTS
    Names,              \* of schedules
    Statics,            \* the names of the five predefined objects
    None, Freed,
    Faults,             \* what users and the environment may do
    MaxDay, MaxResets   \* bounds: days that pass, resets from outside

Kinds == {"week", "sun", "predefined"}

\* A request; old and stored: what the map and NVS had under `from' (stored is history).
Jobs == [op : {"save", "delete", "rename"}, from : Names, to : Names,
         kind : Kinds \cup {None}, old : Kinds \cup {None}, stored : Kinds \cup {None}]

ASSUME SchedulesAssumption ==
    /\ Statics \subseteq Names
    /\ None # Freed /\ {None, Freed} \cap (Names \cup Kinds) = {} /\ None \notin Jobs
    /\ MaxDay \in Nat \ {0} /\ MaxResets \in Nat

\* reset:      at any moment.
\* overlap:    requests while a timer is looked up.
\* predefined: a request saves or renames a predefined timer.
\* refused:    NVS refuses a blob: its name is longer than a key may be, or there
\*             is no space left.
ASSUME FaultsAssumption == Faults \subseteq {"reset", "overlap", "predefined", "refused"}

VARIABLES
    nvs,                    \* name -> the kind of the blob stored under it
    timers, sunDay,         \* name2timer, and the day each timer computed
    main, toLoad, toVisit,  \* the main task, the blobs Begin still loads and
                            \* the timers Loop still walks over
    today, julianDay,       \* the calendar, and the day Loop acted on last
    httpd, job,             \* the HTTP task and its request
    task, name, held,       \* the fingerprint task: the name it looks up, and
                            \* the name that now leads to the timer it holds
    missed, unsaved,        \* history: timers that Loop's last walk passed
                            \* over, and names whose blob NVS refused
    resets

nvsVars == <<nvs, unsaved>>
mapVars == <<timers, sunDay, missed>>
mainVars == <<main, toLoad, toVisit, julianDay>>
httpdVars == <<httpd, job>>
taskVars == <<task, name, held>>
vars == <<nvsVars, mapVars, mainVars, today, httpdVars, taskVars, resets>>

TypeOK ==
    /\ nvs \in [Names -> Kinds \cup {None}]
    /\ timers \in [Names -> Kinds \cup {None}]
    /\ sunDay \in [Names -> 0 .. MaxDay]
    /\ main \in {"off", "load", "run", "walk", "lost"} /\ toLoad \in SUBSET Names
    /\ toVisit \in SUBSET Names /\ missed \in SUBSET Names /\ unsaved \in SUBSET Names
    /\ today \in 1 .. MaxDay /\ julianDay \in 0 .. today
    /\ httpd \in {"idle", "insert", "erase", "build", "set"}
    /\ job \in Jobs \cup {None} /\ (httpd = "idle" <=> job = None)
    /\ task \in {"idle", "found", "use"}
    /\ name \in Names \cup {None} /\ held \in Names \cup {None, Freed}
    /\ resets \in 0 .. MaxResets

\* A reset, an abort or a null pointer: only NVS and the calendar stay.
LoseRam ==
    /\ timers' = [n \in Names |-> None] /\ sunDay' = [n \in Names |-> 0]
    /\ main' = "off" /\ toLoad' = {} /\ toVisit' = {} /\ julianDay' = 0
    /\ missed' = {} /\ unsaved' = {}
    /\ httpd' = "idle" /\ job' = None
    /\ task' = "idle" /\ name' = None /\ held' = None

\* Begin is over.  A walk that the map is changed under is lost: its iterator
\* may stand on what is no longer there.
Walking == main \in {"walk", "lost"}
Running == main = "run" \/ Walking

Abort == LoseRam /\ UNCHANGED <<nvs, today, resets>>

(***************************************************************************)
(* Begin: the predefined timers, then one timer per blob, which replaces   *)
(* a predefined one of the same name.                                      *)
(***************************************************************************)
Begin ==
    /\ main = "off" /\ main' = "load"
    /\ timers' = [n \in Names |-> IF n \in Statics THEN "predefined" ELSE None]
    /\ toLoad' = {n \in Names : nvs[n] # None}
    /\ UNCHANGED <<nvsVars, sunDay, missed, toVisit, julianDay, today, httpdVars, taskVars, resets>>

\* Builder::BuildFromFlatbuffer knows two kinds; for any other Begin asks a
\* null pointer for its name.
Builds(kind) == kind \in {"week", "sun"}

\* Mutant: the iterator is not moved on.
LoadBlobAgain(n) ==
    /\ main = "load" /\ n \in toLoad
    /\ IF Builds(nvs[n])
       THEN /\ timers' = [timers EXCEPT ![n] = nvs[n]]
            /\ UNCHANGED <<nvsVars, sunDay, missed, mainVars, today, httpdVars, taskVars, resets>>
       ELSE Abort

LoadBlob(n) ==
    /\ main = "load" /\ n \in toLoad
    /\ IF Builds(nvs[n])
       THEN /\ timers' = [timers EXCEPT ![n] = nvs[n]]
            /\ toLoad' = toLoad \ {n}
            /\ UNCHANGED <<nvsVars, sunDay, missed, main, toVisit, julianDay, today, httpdVars,
                           taskVars, resets>>
       ELSE Abort

EndBegin ==
    /\ main = "load" /\ toLoad = {} /\ main' = "run"
    /\ UNCHANGED <<nvsVars, mapVars, toLoad, toVisit, julianDay, today, httpdVars, taskVars, resets>>

BeginStep == Begin \/ (\E n \in Names : LoadBlob(n)) \/ EndBegin

(***************************************************************************)
(* Loop: the first call on a new day walks over the map and lets every     *)
(* timer compute that day.                                                 *)
(***************************************************************************)
\* Mutant: the day is counted from its end.
LoopCountsAhead ==
    /\ main = "run" /\ julianDay # today + 1
    /\ main' = "walk" /\ julianDay' = today + 1
    /\ toVisit' = {n \in Names : timers[n] # None} /\ UNCHANGED missed
    /\ UNCHANGED <<nvsVars, timers, sunDay, toLoad, today, httpdVars, taskVars, resets>>

\* A timer that a rename has just taken from the map is not met.
Loop ==
    /\ main = "run" /\ julianDay # today
    /\ main' = "walk" /\ julianDay' = today
    /\ toVisit' = {n \in Names : timers[n] # None}
    /\ missed' = IF httpd = "insert" THEN {job.to} ELSE {}
    /\ UNCHANGED <<nvsVars, timers, sunDay, toLoad, today, httpdVars, taskVars, resets>>

\* Mutant: a timer that has computed a day is left alone.
VisitOnce(n) ==
    /\ Walking /\ n \in toVisit
    /\ toVisit' = toVisit \ {n} /\ missed' = missed \ {n}
    /\ sunDay' = [sunDay EXCEPT ![n] = IF timers[n] = "sun" /\ @ = 0 THEN julianDay ELSE @]
    /\ UNCHANGED <<nvsVars, timers, main, toLoad, julianDay, today, httpdVars, taskVars, resets>>

Visit(n) ==
    /\ Walking /\ n \in toVisit
    /\ toVisit' = toVisit \ {n} /\ missed' = missed \ {n}
    /\ sunDay' = [sunDay EXCEPT ![n] = IF timers[n] = "sun" THEN julianDay ELSE @]
    /\ UNCHANGED <<nvsVars, timers, main, toLoad, julianDay, today, httpdVars, taskVars, resets>>

\* From a node that was freed or moved the iterator goes anywhere.
PassOver(n) ==
    /\ main = "lost" /\ n \in toVisit
    /\ toVisit' = toVisit \ {n} /\ missed' = missed \cup {n}
    /\ UNCHANGED <<nvsVars, timers, sunDay, main, toLoad, julianDay, today, httpdVars, taskVars,
                   resets>>

WalkAborts == main = "lost" /\ Abort

EndWalk ==
    /\ Walking /\ toVisit = {} /\ main' = "run"
    /\ UNCHANGED <<nvsVars, mapVars, toLoad, toVisit, julianDay, today, httpdVars, taskVars, resets>>

LoopStep == Loop \/ (\E n \in Names : Visit(n) \/ PassOver(n)) \/ WalkAborts \/ EndWalk

NextDay ==
    /\ today < MaxDay /\ today' = today + 1
    /\ UNCHANGED <<nvsVars, mapVars, mainVars, httpdVars, taskVars, resets>>

(***************************************************************************)
(* Requests.  Open and List change nothing, and those the code refuses are *)
(* left out.                                                               *)
(***************************************************************************)
MayRequest == Running /\ httpd = "idle" /\ (task = "idle" \/ "overlap" \in Faults)

Touchable(n) == timers[n] = "predefined" => "predefined" \in Faults

Accept(pc, request) == httpd' = pc /\ job' = request

\* The map changes under the walk that may be under way.
Disturb == main' = IF main = "walk" THEN "lost" ELSE main

Unlist(n) ==
    /\ timers' = [timers EXCEPT ![n] = None] /\ toVisit' = toVisit \ {n}
    /\ IF timers[n] = None THEN UNCHANGED main ELSE Disturb

Enlist(n, kind) ==
    /\ timers' = [timers EXCEPT ![n] = kind] /\ Disturb
    /\ toVisit' = IF Walking THEN toVisit \cup {n} ELSE toVisit

\* The timer that a lookup holds is no longer where it was.
HeldMoves(from, to) == held' = IF held = from THEN to ELSE held

RequestDelete(n) ==
    /\ MayRequest /\ timers[n] # None
    /\ Accept("erase", [op |-> "delete", from |-> n, to |-> n, kind |-> None,
                        old |-> timers[n], stored |-> nvs[n]])
    /\ Unlist(n) /\ sunDay' = [sunDay EXCEPT ![n] = 0] /\ missed' = missed \ {n}
    /\ HeldMoves(n, None)
    /\ UNCHANGED <<nvsVars, toLoad, julianDay, today, task, name, resets>>

\* The timer bears its new name before the map has it under that name.
RequestRename(m, n) ==
    /\ MayRequest /\ timers[m] # None /\ timers[n] = None /\ Touchable(m)
    /\ Accept("insert", [op |-> "rename", from |-> m, to |-> n, kind |-> timers[m],
                         old |-> timers[m], stored |-> nvs[m]])
    /\ Unlist(m) /\ sunDay' = [sunDay EXCEPT ![m] = 0, ![n] = sunDay[m]]
    /\ missed' = IF m \in missed \cup toVisit THEN (missed \ {m}) \cup {n} ELSE missed
    /\ UNCHANGED <<nvsVars, toLoad, julianDay, today, taskVars, resets>>

RequestSave(n, kind) ==
    /\ MayRequest /\ Touchable(n)
    /\ kind = "predefined" => "predefined" \in Faults
    /\ Accept(IF timers[n] = None THEN "build" ELSE "erase",
              [op |-> "save", from |-> n, to |-> n, kind |-> kind,
               old |-> timers[n], stored |-> nvs[n]])
    /\ Unlist(n) /\ sunDay' = [sunDay EXCEPT ![n] = 0] /\ missed' = missed \ {n}
    /\ UNCHANGED <<nvsVars, toLoad, julianDay, today, taskVars, resets>>

Request ==
    \/ \E n \in Names : RequestDelete(n)
    \/ \E m, n \in Names : RequestRename(m, n)
    \/ \E n \in Names, kind \in Kinds : RequestSave(n, kind)

Insert ==
    /\ httpd = "insert" /\ httpd' = "erase"
    /\ Enlist(job.to, job.kind) /\ HeldMoves(job.from, job.to)
    /\ UNCHANGED <<nvsVars, sunDay, missed, toLoad, julianDay, today, job, task, name, resets>>

\* Mutant: a deleted schedule stays in NVS.
EraseKeyUnlessDelete ==
    /\ httpd = "erase" /\ unsaved' = unsaved \ {job.from}
    /\ nvs' = IF job.op = "delete" THEN nvs ELSE [nvs EXCEPT ![job.from] = None]
    /\ IF job.op = "delete" THEN httpd' = "idle" /\ job' = None
       ELSE httpd' = (IF job.op = "save" THEN "build" ELSE "set") /\ UNCHANGED job
    /\ UNCHANGED <<mapVars, mainVars, today, taskVars, resets>>

EraseKey ==
    /\ httpd = "erase" /\ unsaved' = unsaved \ {job.from}
    /\ nvs' = [nvs EXCEPT ![job.from] = None]
    /\ IF job.op = "delete" THEN httpd' = "idle" /\ job' = None
       ELSE httpd' = (IF job.op = "save" THEN "build" ELSE "set") /\ UNCHANGED job
    /\ UNCHANGED <<mapVars, mainVars, today, taskVars, resets>>

\* The old object is deleted and one is built from the payload.  Deleting an
\* object that was never allocated and filling a blob from a null pointer abort.
Build ==
    /\ httpd = "build"
    /\ IF job.old = "predefined" \/ ~Builds(job.kind) THEN Abort
       ELSE /\ Enlist(job.to, job.kind) /\ HeldMoves(job.from, Freed)
            /\ httpd' = "set"
            /\ UNCHANGED <<nvsVars, sunDay, missed, toLoad, julianDay, today, job, task, name, resets>>

\* Mutant: the blob is stored under the old name.
SetBlobUnderOldName ==
    /\ httpd = "set" /\ httpd' = "idle" /\ job' = None
    /\ nvs' = [nvs EXCEPT ![job.from] = job.kind]
    /\ UNCHANGED <<unsaved, mapVars, mainVars, today, taskVars, resets>>

\* The result of nvs_set_blob is not looked at.
SetBlob ==
    /\ httpd = "set" /\ httpd' = "idle" /\ job' = None
    /\ \/ nvs' = [nvs EXCEPT ![job.to] = job.kind] /\ UNCHANGED unsaved
       \/ "refused" \in Faults /\ unsaved' = unsaved \cup {job.to} /\ UNCHANGED nvs
    /\ UNCHANGED <<mapVars, mainVars, today, taskVars, resets>>

HttpdStep == Insert \/ EraseKey \/ Build \/ SetBlob

(***************************************************************************)
(* GetCurrentValueOfSchedule, called by the fingerprint task: contains,    *)
(* at and the use of the timer are three looks at a map nobody locks.      *)
(***************************************************************************)
LookupContains(n) ==
    /\ Running /\ task = "idle" /\ timers[n] # None
    /\ httpd = "idle" \/ "overlap" \in Faults
    /\ task' = "found" /\ name' = n
    /\ UNCHANGED <<nvsVars, mapVars, mainVars, today, httpdVars, held, resets>>

\* std::map::at aborts where nothing can be thrown.
LookupAt ==
    /\ task = "found"
    /\ IF timers[name] = None THEN Abort
       ELSE /\ task' = "use" /\ held' = name
            /\ UNCHANGED <<nvsVars, mapVars, mainVars, today, httpdVars, name, resets>>

\* A virtual call on a deleted object answers, or aborts.
LookupUse ==
    /\ task = "use"
    /\ \/ held = Freed /\ Abort
       \/ /\ task' = "idle" /\ name' = None /\ held' = None
          /\ UNCHANGED <<nvsVars, mapVars, mainVars, today, httpdVars, resets>>

Lookup == (\E n \in Names : LookupContains(n)) \/ LookupAt \/ LookupUse

Reset ==
    /\ "reset" \in Faults /\ main # "off" /\ resets < MaxResets
    /\ LoseRam /\ resets' = resets + 1
    /\ UNCHANGED <<nvs, today>>

Init ==
    /\ nvs = [n \in Names |-> None]
    /\ timers = [n \in Names |-> None] /\ sunDay = [n \in Names |-> 0]
    /\ main = "off" /\ toLoad = {} /\ toVisit = {} /\ today = 1 /\ julianDay = 0
    /\ missed = {} /\ unsaved = {}
    /\ httpd = "idle" /\ job = None
    /\ task = "idle" /\ name = None /\ held = None
    /\ resets = 0

Next == BeginStep \/ LoopStep \/ NextDay \/ Request \/ HttpdStep \/ Lookup \/ Reset

Spec == Init /\ [][Next]_vars

\* Begin runs to its end, or to an abort; nothing else is needed.
FairSpec == Spec /\ WF_vars(BeginStep)

(***************************************************************************)
(* Properties.                                                             *)
(***************************************************************************)
\* What Begin makes of a name at the next boot.
AfterBoot(n) ==
    IF nvs[n] # None THEN nvs[n] ELSE IF n \in Statics THEN "predefined" ELSE None

\* Whenever no request is running, the list is what the next boot brings,
\* although the map and NVS are changed one after the other and a reset or an
\* abort may come between.  The code has three ways out of it and no more: a
\* predefined timer that was deleted or renamed comes back, and a timer whose
\* blob NVS refused is gone, or is the predefined one again.
ListedIsStored ==
    Running /\ httpd = "idle" =>
        \A n \in Names :
            \/ timers[n] = AfterBoot(n)
            \/ timers[n] = None /\ nvs[n] = None /\ n \in Statics
            \/ timers[n] # None /\ nvs[n] = None /\ n \in unsaved

\* No SunRandom timer works with the sunrise of another day than Loop acted on
\* last: it has that day's times or, if it was built since, none.  The walk may
\* still have to come to it; and it may have passed over it, but only where a
\* request took the timer from the map or put it there, or changed the map
\* under the walk, and only until the walk of the next day.
SunTimesOfToday ==
    \A n \in Names : sunDay[n] \in {0, julianDay} \/ n \in toVisit \/ n \in missed

\* The flash side implements ScheduleStore: each request takes effect in one
\* step under its own names only, and a reset or an abort between erasing and
\* writing loses at most the schedule of that request.
storedNow ==
    IF httpd \in {"build", "set"} THEN [nvs EXCEPT ![job.from] = job.stored] ELSE nvs

Store == INSTANCE ScheduleStore WITH
    stored <- storedNow,
    busy <- IF httpd = "idle" THEN {} ELSE {job.from, job.to},
    up <- main # "off"

StoreImplemented == Store!Spec

\* However it is reset, the device gets through Begin again, unless a renamed
\* predefined timer was stored: no other blob a request writes stops a boot.
BootsUnlessPredefined ==
    ~Running ~> (Running \/ \E n \in Names : nvs[n] = "predefined")
=============================================================================
