--------------------------- MODULE ScheduleStore ---------------------------
(***************************************************************************)
(* What the scheduler promises about flash: a map of named schedules that  *)
(* each request changes in one step and only under the names it is about.  *)
(* A reset may cut a request off, which costs at most one schedule, and    *)
(* only one the request is about.  `Scheduler' implements it.              *)
(***************************************************************************)
CONSTANTS
    Names,
    Kinds,          \* of schedules
    None

VARIABLES
    stored,         \* what the next boot will find
    busy,           \* the names the request that is running is about
    up              \* is the device running?

storeVars == <<stored, busy, up>>

\* What flash may hold under a name after kind k was written there: it may have
\* refused it.
Written(k) == {k, None}

Init == stored = [n \in Names |-> None] /\ busy = {} /\ up = FALSE

Boot == ~up /\ up' = TRUE /\ UNCHANGED <<stored, busy>>

Request(names) ==
    /\ up /\ busy = {} /\ names # {}
    /\ busy' = names
    /\ UNCHANGED <<stored, up>>

Save(n, k) ==
    /\ busy = {n}
    /\ \E kind \in Written(k) : stored' = [stored EXCEPT ![n] = kind]
    /\ busy' = {} /\ UNCHANGED up

Delete(n) ==
    /\ busy = {n}
    /\ stored' = [stored EXCEPT ![n] = None]
    /\ busy' = {} /\ UNCHANGED up

\* The schedule keeps its kind, unless flash never had it.
Rename(m, n, k) ==
    /\ m # n /\ busy = {m, n}
    /\ stored[m] \in {k, None} /\ stored[n] = None
    /\ \E kind \in Written(k) : stored' = [stored EXCEPT ![m] = None, ![n] = kind]
    /\ busy' = {} /\ UNCHANGED up

Crash ==
    /\ up
    /\ up' = FALSE /\ busy' = {}
    /\ \/ UNCHANGED stored
       \/ \E n \in busy : stored' = [stored EXCEPT ![n] = None]

Next ==
    \/ Boot \/ Crash
    \/ \E names \in SUBSET Names : Request(names)
    \/ \E n \in Names : Delete(n)
    \/ \E n \in Names, k \in Kinds : Save(n, k)
    \/ \E m, n \in Names, k \in Kinds : Rename(m, n, k)

Spec == Init /\ [][Next]_storeVars
=============================================================================
