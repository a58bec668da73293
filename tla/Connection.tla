----------------------------- MODULE Connection -----------------------------
(***************************************************************************)
(* What the connection manager promises, without its timers, queues and    *)
(* credentials: in its `portal' role the device has its access point open  *)
(* and can be configured; as a `station' it has a connection, or tries to  *)
(* get one under a timeout, so often as its budget says.  The one station  *)
(* with neither was told of a lease when its link was already lost.        *)
(* `WifiManager' implements it.                                            *)
(***************************************************************************)
EXTENDS Naturals

CONSTANTS Startup, Most     \* attempts after power-up, and after a connection

VARIABLES
    role,       \* "off", "portal" or "station"
    linked,     \* has the manager been told of a link?
    watched,    \* does a timeout open the portal if nothing happens?
    misled,     \* was the last thing it was told a lease without a link?
    budget,     \* attempts left
    ap          \* is the access point open?

connectionVars == <<role, linked, watched, misled, budget, ap>>

On == role # "off"

Init ==
    /\ role = "off" /\ ~linked /\ ~watched /\ ~misled
    /\ budget = 1 /\ ~ap

OpenPortal == role' = "portal" /\ ap' = TRUE /\ watched' = FALSE /\ misled' = FALSE

BeStation == role' = "station" /\ watched' = TRUE /\ misled' = FALSE

PowerUp ==
    /\ ~On
    /\ \/ OpenPortal /\ UNCHANGED budget
       \/ BeStation /\ budget' = Startup /\ UNCHANGED ap
    /\ UNCHANGED linked

PowerOff ==
    /\ On
    /\ role' = "off" /\ linked' = FALSE /\ watched' = FALSE /\ misled' = FALSE
    /\ budget' = 1 /\ ap' = FALSE

\* A user asks for a network, or to leave it; or there is no answer in time.
Ask == On /\ BeStation /\ budget' = 1 /\ UNCHANGED <<linked, ap>>

Leave == On /\ OpenPortal /\ UNCHANGED <<linked, budget>>

GetLink == On /\ BeStation /\ linked' = TRUE /\ budget' = Most /\ UNCHANGED ap

\* A lease makes a station of the device, with a link or without.
GetLease ==
    /\ On
    /\ role' = "station" /\ watched' = FALSE /\ misled' = ~linked
    /\ UNCHANGED <<linked, budget, ap>>

\* Without attempts left the portal opens, or one attempt more is granted.
LoseLink ==
    /\ On /\ linked' = FALSE
    /\ \/ budget > 0 /\ BeStation /\ UNCHANGED <<budget, ap>>
       \/ budget = 0 /\ OpenPortal /\ UNCHANGED budget
       \/ budget = 0 /\ BeStation /\ budget' = 1 /\ UNCHANGED ap

\* After the last attempt the budget is 0, and the timeout is armed.
TryAgain ==
    /\ role = "station" /\ budget > 0
    /\ BeStation /\ budget' = budget - 1
    /\ UNCHANGED <<linked, ap>>

CloseAp ==
    /\ role = "station" /\ (linked \/ misled) /\ ap' = FALSE
    /\ UNCHANGED <<role, linked, watched, misled, budget>>

Next ==
    \/ PowerUp \/ PowerOff \/ Ask \/ Leave
    \/ GetLink \/ GetLease \/ LoseLink \/ TryAgain \/ CloseAp

Spec == Init /\ [][Next]_connectionVars
=============================================================================
