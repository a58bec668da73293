----------------------------- MODULE Timeseries -----------------------------
(***************************************************************************)
(* The time series store (timeseries.hh): one ring of flash sectors per    *)
(* granularity, a record appended to the first ring every ten seconds, and *)
(* records of a ring averaged into the next one.                           *)
(*                                                                         *)
(* Offsets and addresses count units of one record (8 bytes): a sector is  *)
(* a header of Header units, of which the first holds the timestamp, and   *)
(* Records units of data.  size_t arithmetic wraps at Width units.         *)
(* Granularities are numbered from 1; what a record holds is left out,     *)
(* where it is read from and written to is kept.                           *)
(***************************************************************************)
EXTENDS Integers, Sequences, FiniteSetsExt

CONSTANTS
    Start, Count,   \* SECTOR_START and SECTOR_CNT of each granularity
    Trigger,        \* Trigger[g] records of g make one of g + 1
    Fused,          \* how many records that average reads
    Header, Records, Width,
    MaxClock,       \* bound: no later time is on the clock
    MaxClockSets    \* bound: the clock is set so often

Last == Len(Start)
Granularities == 1 .. Last
SectorsOf(g) == Start[g] .. Start[g] + Count[g] - 1
Sectors == UNION {SectorsOf(g) : g \in Granularities}
SectorUnits == Header + Records
PartitionUnits == Cardinality(Sectors) * SectorUnits
Units == Header .. SectorUnits - 1

ASSUME LayoutAssumption ==
    /\ Start \in Seq(Nat) /\ Last > 0 /\ Start[1] = 0
    /\ Count \in [Granularities -> Nat \ {0}]
    /\ \A g \in 1 .. Last - 1 : Start[g + 1] = Start[g] + Count[g]
    /\ \A g, h \in Granularities : g < h => Start[g] + Count[g] <= Start[h]
    /\ Trigger \in [1 .. Last - 1 -> Nat \ {0}]
    /\ Fused \in [1 .. Last - 1 -> Nat \ {0}]
    /\ Header \in Nat /\ Header > Start[Last] + Count[Last]
    /\ Records \in Nat \ {0}
    /\ Width \in Nat /\ Width > 2 * PartitionUnits
    /\ MaxClock \in Nat /\ MaxClockSets \in Nat

Erased == -1

VARIABLES
    stamp,        \* the timestamp in each sector's header
    programmed,   \* the data units of each sector written since its erase
    sectorIndex, offset, writeCounter,
    pc, cur,      \* what the code does next, and for which granularity
    clock, secondsEpoch,
    latest,       \* history: where each ring's last records were written
    clockSets,    \* how often the clock was set
    setBack,      \* history: was it ever set to an earlier time?
    displaced     \* history: did a restart ever find a later ring full?

flashVars == <<stamp, programmed>>
runtimeVars == <<sectorIndex, offset, writeCounter, latest>>
clockVars == <<clock, clockSets, setBack>>
vars == <<flashVars, runtimeVars, pc, cur, clockVars, secondsEpoch, displaced>>

TypeOK ==
    /\ stamp \in [Sectors -> Int]
    /\ programmed \in [Sectors -> SUBSET Units]
    /\ sectorIndex \in [Granularities -> Sectors]
    /\ offset \in [Granularities -> {0} \cup Units]
    /\ writeCounter \in [Granularities -> Nat]
    /\ pc \in {"off", "init", "idle", "write", "test", "average"}
    /\ cur \in Granularities
    /\ clock \in Nat /\ secondsEpoch \in Nat
    /\ clockSets \in 0 .. MaxClockSets
    /\ setBack \in BOOLEAN /\ displaced \in BOOLEAN

(***************************************************************************)
(* GranularityRuntime::Init: look for the first sector whose timestamp is  *)
(* below that of the one before it; if there is none the first sector of   *)
(* the ring is erased, and writing goes on in sector 0, whichever ring it  *)
(* is: a later ring is then displaced into the sectors of the first.       *)
(***************************************************************************)
Erase(s) ==
    /\ stamp' = [stamp EXCEPT ![s] = Erased]
    /\ programmed' = [programmed EXCEPT ![s] = {}]

Drops(g) ==
    {s \in SectorsOf(g) : stamp[s] < (IF s = Start[g] THEN 0 ELSE stamp[s - 1])}

\* Mutant: writing goes on in the sector written last, before the drop.
InitAtNewest ==
    /\ pc = "init" /\ Drops(cur) # {}
    /\ LET s == Max({Start[cur], Min(Drops(cur)) - 1}) IN
       /\ IF stamp[s] # Erased THEN Erase(s) ELSE UNCHANGED flashVars
       /\ sectorIndex' = [sectorIndex EXCEPT ![cur] = s]
    /\ IF cur < Last THEN cur' = cur + 1 /\ pc' = pc ELSE cur' = 1 /\ pc' = "idle"
    /\ UNCHANGED <<offset, writeCounter, latest, clockVars, secondsEpoch, displaced>>

InitGranularity ==
    /\ pc = "init"
    /\ IF Drops(cur) # {}
       THEN LET s == Min(Drops(cur)) IN
            /\ IF stamp[s] # Erased THEN Erase(s) ELSE UNCHANGED flashVars
            /\ sectorIndex' = [sectorIndex EXCEPT ![cur] = s]
       ELSE /\ Erase(Start[cur])
            /\ sectorIndex' = [sectorIndex EXCEPT ![cur] = 0]
    /\ displaced' = (displaced \/ (Drops(cur) = {} /\ cur > 1))
    /\ IF cur < Last THEN cur' = cur + 1 /\ pc' = pc ELSE cur' = 1 /\ pc' = "idle"
    /\ UNCHANGED <<offset, writeCounter, latest, clockVars, secondsEpoch>>

(***************************************************************************)
(* timerCallback10seconds: write to a ring, test whether its records are   *)
(* due to be averaged, and if so write the average to the next ring.       *)
(***************************************************************************)
Callback ==
    /\ pc = "idle" /\ clock < MaxClock
    /\ clock' = clock + 1
    /\ secondsEpoch' = clock'
    /\ pc' = "write" /\ cur' = 1
    /\ UNCHANGED <<flashVars, runtimeVars, clockSets, setBack, displaced>>

\* Mutants: nothing is erased, and the header is not skipped.
PrepareNewSectorWithoutErase ==
    /\ pc = "write" /\ offset[cur] = 0
    /\ stamp' = [stamp EXCEPT ![sectorIndex[cur]] = secondsEpoch]
    /\ offset' = [offset EXCEPT ![cur] = Header]
    /\ UNCHANGED <<programmed, sectorIndex, writeCounter, latest, pc, cur, clockVars,
                   secondsEpoch, displaced>>

PrepareNewSectorWithoutHeader ==
    /\ pc = "write" /\ offset[cur] = 0
    /\ LET s == sectorIndex[cur] IN
       /\ stamp' = [stamp EXCEPT ![s] = secondsEpoch]
       /\ programmed' = [programmed EXCEPT ![s] = {}]
    /\ offset' = [offset EXCEPT ![cur] = 1]
    /\ UNCHANGED <<sectorIndex, writeCounter, latest, pc, cur, clockVars,
                   secondsEpoch, displaced>>

PrepareNewSector ==
    /\ pc = "write" /\ offset[cur] = 0
    /\ LET s == sectorIndex[cur] IN
       /\ stamp' = [stamp EXCEPT ![s] = secondsEpoch]
       /\ programmed' = IF stamp[s] # Erased
                        THEN [programmed EXCEPT ![s] = {}] ELSE programmed
    /\ offset' = [offset EXCEPT ![cur] = Header]
    /\ UNCHANGED <<sectorIndex, writeCounter, latest, pc, cur, clockVars,
                   secondsEpoch, displaced>>

NextSector(g) ==
    IF sectorIndex[g] + 1 = Start[g] + Count[g] THEN Start[g] ELSE sectorIndex[g] + 1

Remembered(g) == IF g = Last THEN 0 ELSE Fused[g]

Write ==
    /\ pc = "write" /\ offset[cur] # 0
    /\ programmed' = [programmed EXCEPT ![sectorIndex[cur]] = @ \cup {offset[cur]}]
    /\ writeCounter' = [writeCounter EXCEPT ![cur] = @ + 1]
    /\ IF offset[cur] + 1 >= SectorUnits
       THEN /\ sectorIndex' = [sectorIndex EXCEPT ![cur] = NextSector(cur)]
            /\ offset' = [offset EXCEPT ![cur] = 0]
       ELSE /\ offset' = [offset EXCEPT ![cur] = @ + 1]
            /\ UNCHANGED sectorIndex
    /\ latest' = [latest EXCEPT ![cur] =
           LET all == <<[sector |-> sectorIndex[cur], unit |-> offset[cur]]>> \o @
           IN SubSeq(all, 1, Min({Len(all), Remembered(cur)}))]
    /\ pc' = "test"
    /\ UNCHANGED <<stamp, cur, clockVars, secondsEpoch, displaced>>

Test ==
    /\ pc = "test"
    /\ IF cur = Last
       THEN pc' = "idle" /\ cur' = 1
       ELSE IF writeCounter[cur] = Trigger[cur]
       THEN pc' = "average" /\ cur' = cur
       ELSE pc' = "test" /\ cur' = cur + 1
    /\ UNCHANGED <<flashVars, runtimeVars, clockVars, secondsEpoch, displaced>>

\* Mutant: the write location itself is read first.
CursorAtWriteLocation(g) ==
    [i \in Nat |-> [sector |-> sectorIndex[g], unit |-> (offset[g] - i + 1) % Width]]

\* One step of AverageNReadingsAndResetWriteCounter back from a cell, and the
\* i-th cell it comes to from the write location of granularity g.
Back(g, cell) ==
    LET unit == (cell.unit - 1) % Width
        sector == (cell.sector - 1) % Width
    IN IF unit >= Header THEN [sector |-> cell.sector, unit |-> unit]
       ELSE IF sector < Start[g]
       THEN [sector |-> sector, unit |-> Start[g] + Count[g]]
       ELSE [sector |-> sector, unit |-> SectorUnits - 1]

WriteLocation(g) == [sector |-> sectorIndex[g], unit |-> offset[g]]

Cursor(g) ==
    LET back[i \in Nat] == IF i = 0 THEN WriteLocation(g) ELSE Back(g, back[i - 1])
    IN back

Address(cell) == (cell.sector * SectorUnits + cell.unit) % Width

CellsRead(g) == [i \in 1 .. Fused[g] |-> Address(Cursor(g)[i])]

InRange(g) == \A i \in 1 .. Fused[g] : CellsRead(g)[i] < PartitionUnits

\* Full minutes for the second ring and those after it.
RoundToMinute(t) == (t \div Trigger[1]) * Trigger[1]

\* Mutant: the counter is not reset.
AverageKeepsCounter ==
    /\ pc = "average"
    /\ InRange(cur)
    /\ pc' = "write" /\ cur' = cur + 1
    /\ UNCHANGED <<flashVars, runtimeVars, clockVars, secondsEpoch, displaced>>

Average ==
    /\ pc = "average"
    /\ InRange(cur)
    /\ writeCounter' = [writeCounter EXCEPT ![cur] = 0]
    /\ secondsEpoch' = IF cur = 1 THEN RoundToMinute(secondsEpoch) ELSE secondsEpoch
    /\ pc' = "write" /\ cur' = cur + 1
    /\ UNCHANGED <<flashVars, sectorIndex, offset, latest, clockVars, displaced>>

(***************************************************************************)
(* A reset loses RAM; between the erase and the timestamp of a new sector  *)
(* it leaves the sector erased.  A read outside the partition is an error, *)
(* and ESP_ERROR_CHECK resets.  Nobody asks whether there is a real time:  *)
(* the clock may be set at any moment, before a boot or later, forwards or *)
(* back.                                                                   *)
(***************************************************************************)
SetClock ==
    /\ pc \in {"off", "idle"} /\ clockSets < MaxClockSets
    /\ clock' \in 0 .. MaxClock
    /\ clockSets' = clockSets + 1
    /\ setBack' = (setBack \/ clock' < clock)
    /\ UNCHANGED <<flashVars, runtimeVars, pc, cur, secondsEpoch, displaced>>

PowerOff ==
    /\ pc' = "off" /\ cur' = 1
    /\ sectorIndex' = Start
    /\ offset' = [g \in Granularities |-> 0]
    /\ writeCounter' = [g \in Granularities |-> 0]
    /\ latest' = [g \in Granularities |-> <<>>]
    /\ UNCHANGED <<clockVars, secondsEpoch, displaced>>

Abort ==
    /\ pc = "average" /\ ~InRange(cur)
    /\ PowerOff
    /\ UNCHANGED flashVars

Reset ==
    /\ pc # "off"
    /\ PowerOff
    /\ \/ UNCHANGED flashVars
       \/ pc = "write" /\ offset[cur] = 0 /\ Erase(sectorIndex[cur])

Boot ==
    /\ pc = "off"
    /\ pc' = "init"
    /\ UNCHANGED <<flashVars, runtimeVars, cur, clockVars, secondsEpoch, displaced>>

Init ==
    /\ stamp = [s \in Sectors |-> Erased]
    /\ programmed = [s \in Sectors |-> {}]
    /\ sectorIndex = Start
    /\ offset = [g \in Granularities |-> 0]
    /\ writeCounter = [g \in Granularities |-> 0]
    /\ latest = [g \in Granularities |-> <<>>]
    /\ pc = "off" /\ cur = 1
    /\ clock = 0 /\ secondsEpoch = 0
    /\ clockSets = 0 /\ setBack = FALSE /\ displaced = FALSE

Next ==
    \/ Boot \/ InitGranularity \/ Callback \/ PrepareNewSector \/ Write
    \/ Test \/ Average \/ Abort \/ Reset \/ SetClock

Spec == Init /\ [][Next]_vars

(***************************************************************************)
(* Properties.                                                             *)
(***************************************************************************)
\* Flash can only be programmed where it is erased: the next record of every
\* ring goes to a unit not written since the sector's erase, however often the
\* device was reset and whatever time it was (Init and PrepareNewSector decide
\* what to erase), until a restart finds a later ring full and sends it into
\* the sectors of another.
WritesToErasedUnits ==
    ~displaced => \A g \in Granularities :
                      offset[g] # 0 => offset[g] \notin programmed[sectorIndex[g]]

\* A sector that holds data is only erased when it is the oldest of its ring
\* and the ring has no free one: resets never cost more than the partly
\* filled sector (the search in Init, which knows the timestamps only).  This
\* holds as long as time does not go back and no ring was displaced.
OnlyOldestErased ==
    [][~displaced' /\ ~setBack => \A g \in Granularities : \A s \in SectorsOf(g) :
          stamp[s] # Erased /\ stamp'[s] # stamp[s]
              => \A t \in SectorsOf(g) : stamp[t] >= stamp[s]]_vars

\* Averaging is triggered by an equality test on a counter.  Between two
\* timer callbacks no counter has reached its trigger, or it would run past
\* it and the coarser rings would stop for ever.
TriggersNotMissed ==
    pc = "idle" => \A g \in 1 .. Last - 1 : writeCounter[g] < Trigger[g]

\* Averages of the first ring either fail or read exactly the cells the last
\* records of the ring were written to: where its write location is at the
\* start of a sector the size_t subtraction wraps, and the address wraps back
\* into the sector before.
FirstAverageExact ==
    pc = "average" /\ cur = 1 /\ InRange(1)
        => CellsRead(1) = [i \in 1 .. Fused[1] |-> Address(latest[1][i])]

\* Every ring is written where it lies.  The code keeps to it up to a restart
\* that finds a later ring full, and sends it to sector 0 (Init, whose log names
\* the first sector of the ring itself).
RingsSeparate == \A g \in Granularities : sectorIndex[g] \in SectorsOf(g)

(***************************************************************************)
(* What a comment in the code says, and the code does not do.              *)
(***************************************************************************)
\* The comment in AverageNReadingsAndResetWriteCounter: the records asked for
\* exist, and are found across sector boundaries.  An average reads the
\* records last written to its ring.
AverageReadsLatest ==
    pc = "average" => CellsRead(cur) = [i \in 1 .. Len(latest[cur]) |-> Address(latest[cur][i])]
=============================================================================
