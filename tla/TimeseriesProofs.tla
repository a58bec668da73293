-------------------------- MODULE TimeseriesProofs --------------------------
(***************************************************************************)
(* Proofs about Timeseries: when averages are due, where records are       *)
(* written and sectors erased, and what an average of the first ring reads *)
(* (by induction along the walk back, with MinOfNats for its least step).  *)
(***************************************************************************)
EXTENDS Timeseries, MinFacts, FiniteSetTheorems, SequenceTheorems, TLAPS

-----------------------------------------------------------------------------
\* The rings are disjoint, none is empty, and a sector has room for a record.
LEMMA Layout ==
    /\ Last \in Nat \ {0} /\ 1 \in Granularities /\ Granularities \subseteq Nat
    /\ \A g \in Granularities :
           /\ Start[g] \in Nat /\ Count[g] \in Nat \ {0}
           /\ Start[g] \in SectorsOf(g) /\ SectorsOf(g) \subseteq Sectors
           /\ SectorsOf(g) \subseteq Nat
    /\ 0 \in SectorsOf(1) /\ 0 \in Sectors
    /\ Header \in Units /\ SectorUnits \in Nat /\ Header \in Nat \ {0}
<1>1. Last \in Nat \ {0} /\ 1 \in Granularities /\ Granularities \subseteq Nat
  BY LayoutAssumption DEF Granularities, Last
<1>2. ASSUME NEW g \in Granularities
      PROVE  /\ Start[g] \in Nat /\ Count[g] \in Nat \ {0}
             /\ Start[g] \in SectorsOf(g) /\ SectorsOf(g) \subseteq Sectors
             /\ SectorsOf(g) \subseteq Nat
  <2>1. Count[g] \in Nat \ {0}
    BY LayoutAssumption
  <2>2. Start[g] \in Nat
    BY LayoutAssumption DEF Granularities, Last
  <2> QED BY <2>1, <2>2 DEF SectorsOf, Sectors
<1>3. Header \in Units /\ SectorUnits \in Nat /\ Header \in Nat \ {0}
  <2>1. Start[Last] + Count[Last] \in Nat
    BY <1>1, <1>2 DEF Granularities
  <2> QED BY <2>1, LayoutAssumption DEF Units, SectorUnits
<1>4. 0 \in SectorsOf(1)
  BY <1>1, <1>2, LayoutAssumption
<1> QED BY <1>1, <1>2, <1>3, <1>4

LEMMA RingsDisjoint ==
    ASSUME NEW g \in Granularities, NEW h \in Granularities, g # h
    PROVE  SectorsOf(g) \cap SectorsOf(h) = {}
<1>1. g \in Nat /\ h \in Nat /\ \A k \in {g, h} : Start[k] \in Nat /\ Count[k] \in Nat
  BY Layout
<1>2. Start[g] + Count[g] <= Start[h] \/ Start[h] + Count[h] <= Start[g]
  BY <1>1, LayoutAssumption
<1> QED BY <1>1, <1>2 DEF SectorsOf

\* A ring goes round.
LEMMA NextSectorInRing ==
    ASSUME NEW g \in Granularities, sectorIndex[g] \in SectorsOf(g)
    PROVE  NextSector(g) \in SectorsOf(g)
BY Layout DEF NextSector, SectorsOf

-----------------------------------------------------------------------------
LEMMA DropsInRing ==
    ASSUME NEW g \in Granularities, Drops(g) # {}
    PROVE  Min(Drops(g)) \in Drops(g) /\ Min(Drops(g)) \in SectorsOf(g)
<1>1. Drops(g) \subseteq SectorsOf(g) /\ SectorsOf(g) \subseteq Nat
  BY Layout DEF Drops
<1> QED BY <1>1, MinOfNats

LEMMA EraseTypes ==
    ASSUME TypeOK, NEW s \in Sectors, Erase(s)
    PROVE  stamp' \in [Sectors -> Int] /\ programmed' \in [Sectors -> SUBSET Units]
BY DEF TypeOK, Erase, Erased

\* The rings follow one another: every number below the end of one is a sector.
LEMMA SectorsBelow ==
    ASSUME NEW g \in Granularities, NEW n \in Nat, n < Start[g] + Count[g]
    PROVE  n \in Sectors
<1> DEFINE Ends == {h \in Granularities : n < Start[h] + Count[h]}
           first == Min(Ends)
<1>1. first \in Ends /\ \A h \in Ends : first <= h
  BY Layout, MinOfNats
<1>2. first \in Granularities /\ n < Start[first] + Count[first] /\ first \in Nat
  BY <1>1, Layout
<1>3. Start[first] <= n
  <2>1. CASE first = 1
    BY <2>1, LayoutAssumption
  <2>2. CASE first # 1
    <3>1. first - 1 \in 1 .. Last - 1 /\ first - 1 \in Granularities /\ first - 1 \in Nat
      BY <1>2, <2>2, Layout DEF Granularities
    <3>2. first - 1 \notin Ends
      BY <1>1, <1>2, <3>1
    <3>3. Start[(first - 1) + 1] = Start[first - 1] + Count[first - 1]
      BY <3>1, LayoutAssumption
    <3>4. (first - 1) + 1 = first
      BY <1>2
    <3> QED BY <3>1, <3>2, <3>3, <3>4, Layout
  <2> QED BY <2>1, <2>2
<1>4. n \in SectorsOf(first)
  BY <1>2, <1>3, Layout DEF SectorsOf
<1> QED BY <1>2, <1>4 DEF Sectors

\* A ring may begin to be written below its first sector (InitGranularity goes
\* to sector 0 when all are written), and never above its last.
WithinRings ==
    /\ TypeOK
    /\ \A g \in Granularities : sectorIndex[g] < Start[g] + Count[g]
    /\ pc = "average" => cur < Last

LEMMA NextSectorBelow ==
    ASSUME WithinRings, NEW g \in Granularities
    PROVE  NextSector(g) \in Sectors /\ NextSector(g) < Start[g] + Count[g]
<1>1. sectorIndex[g] \in Sectors /\ sectorIndex[g] < Start[g] + Count[g]
  BY DEF WithinRings, TypeOK
<1>2. sectorIndex[g] \in Nat
  BY <1>1, Layout DEF Sectors
<1>3. CASE sectorIndex[g] + 1 = Start[g] + Count[g]
  BY <1>3, Layout DEF NextSector
<1>4. CASE sectorIndex[g] + 1 # Start[g] + Count[g]
  <2>1. sectorIndex[g] + 1 < Start[g] + Count[g] /\ sectorIndex[g] + 1 \in Nat
    BY <1>1, <1>2, <1>4, Layout
  <2> QED BY <1>4, <2>1, SectorsBelow DEF NextSector
<1> QED BY <1>3, <1>4

LEMMA WithinRingsStep == WithinRings /\ [Next]_vars => WithinRings'
<1> SUFFICES ASSUME WithinRings, [Next]_vars PROVE WithinRings'
  OBVIOUS
<1>i. /\ stamp \in [Sectors -> Int] /\ programmed \in [Sectors -> SUBSET Units]
      /\ sectorIndex \in [Granularities -> Sectors]
      /\ offset \in [Granularities -> {0} \cup Units]
      /\ writeCounter \in [Granularities -> Nat]
      /\ pc \in {"off", "init", "idle", "write", "test", "average"}
      /\ cur \in Granularities /\ clock \in Nat /\ secondsEpoch \in Nat
      /\ clockSets \in 0 .. MaxClockSets /\ setBack \in BOOLEAN /\ displaced \in BOOLEAN
      /\ MaxClock \in Nat /\ MaxClockSets \in Nat
      /\ \A g \in Granularities : sectorIndex[g] < Start[g] + Count[g]
      /\ pc = "average" => cur < Last
  BY LayoutAssumption DEF WithinRings, TypeOK
<1>t. TypeOK
  BY DEF WithinRings
<1>c. cur < Last => cur + 1 \in Granularities
  BY <1>i, Layout DEF Granularities
<1> DEFINE Flash == stamp' \in [Sectors -> Int] /\ programmed' \in [Sectors -> SUBSET Units]
           Rings == /\ sectorIndex' \in [Granularities -> Sectors]
                    /\ \A g \in Granularities : sectorIndex'[g] < Start[g] + Count[g]
           Rest == /\ offset' \in [Granularities -> {0} \cup Units]
                   /\ writeCounter' \in [Granularities -> Nat]
                   /\ pc' \in {"off", "init", "idle", "write", "test", "average"}
                   /\ cur' \in Granularities /\ clock' \in Nat /\ secondsEpoch' \in Nat
                   /\ clockSets' \in 0 .. MaxClockSets
                   /\ setBack' \in BOOLEAN /\ displaced' \in BOOLEAN
                   /\ pc' = "average" => cur' < Last
<1>e. ASSUME NEW s \in Sectors, Erase(s) PROVE Flash
  BY <1>t, <1>e, EraseTypes
<1>f. UNCHANGED flashVars => Flash
  BY <1>i DEF flashVars
<1>u. UNCHANGED sectorIndex => Rings
  BY <1>i
<1>q. Flash /\ Rings /\ Rest => WithinRings'
  BY DEF WithinRings, TypeOK
<1> HIDE DEF Flash
<1>1. CASE Boot
  BY <1>1, <1>i, <1>f, <1>q DEF Boot, runtimeVars, clockVars
<1>p. PowerOff => Rings /\ Rest
  <2>1. Start \in [Granularities -> Sectors]
    BY Layout, LayoutAssumption DEF Granularities, Last
  <2>2. PowerOff => Rings
    BY <2>1, Layout DEF PowerOff
  <2>3. PowerOff => Rest
    BY <1>i, Layout DEF PowerOff, clockVars
  <2> QED BY <2>2, <2>3
<1>2. CASE InitGranularity
  <2>1. Flash /\ Rings
    <3>1. CASE Drops(cur) # {}
      <4> DEFINE s == Min(Drops(cur))
      <4>1. s \in Sectors /\ s < Start[cur] + Count[cur]
        <5>1. s \in SectorsOf(cur)
          BY <1>i, <3>1, DropsInRing
        <5> QED BY <5>1, <1>i, Layout DEF SectorsOf
      <4> HIDE DEF s
      <4>2. /\ IF stamp[s] # Erased THEN Erase(s) ELSE UNCHANGED flashVars
            /\ sectorIndex' = [sectorIndex EXCEPT ![cur] = s]
        BY <1>2, <3>1 DEF InitGranularity, s
      <4> QED BY <1>i, <1>e, <1>f, <4>1, <4>2
    <3>2. CASE Drops(cur) = {}
      <4>1. Erase(Start[cur]) /\ sectorIndex' = [sectorIndex EXCEPT ![cur] = 0]
        BY <1>2, <3>2 DEF InitGranularity
      <4>2. Start[cur] \in Sectors /\ 0 \in Sectors /\ 0 < Start[cur] + Count[cur]
        BY <1>i, Layout
      <4> QED BY <1>i, <1>e, <4>1, <4>2
    <3> QED BY <3>1, <3>2
  <2>2. Rest
    BY <1>2, <1>i, <1>c, Layout DEF InitGranularity, clockVars
  <2> QED BY <2>1, <2>2, <1>q
<1>3. CASE Callback
  BY <1>3, <1>i, <1>f, <1>q, Layout DEF Callback, runtimeVars
<1>4. CASE PrepareNewSector
  <2>1. secondsEpoch \in Int /\ sectorIndex[cur] \in Sectors
    BY <1>i
  <2>2. Flash
    BY <1>4, <2>1, <1>i DEF PrepareNewSector, Flash
  <2> QED BY <1>4, <2>2, <1>i, <1>u, <1>q, Layout DEF PrepareNewSector, clockVars
<1>5. CASE Write
  <2>1. /\ sectorIndex[cur] \in Sectors /\ offset[cur] \in Units /\ writeCounter[cur] \in Nat
        /\ NextSector(cur) \in Sectors /\ NextSector(cur) < Start[cur] + Count[cur]
    BY <1>5, <1>i, NextSectorBelow DEF Write
  <2>2. Flash
    BY <1>5, <1>i, <2>1 DEF Write, Flash
  <2>3. Rings
    BY <1>5, <1>i, <2>1 DEF Write
  <2>4. offset[cur] + 1 < SectorUnits => offset[cur] + 1 \in Units
    BY <2>1, Layout DEF Units
  <2>5. offset' \in [Granularities -> {0} \cup Units]
    <3>1. offset[cur] + 1 \in Int /\ SectorUnits \in Int
      BY <2>1, Layout DEF Units
    <3>2. CASE offset[cur] + 1 >= SectorUnits
      BY <1>5, <1>i, <3>2 DEF Write
    <3>3. CASE offset[cur] + 1 < SectorUnits
      BY <1>5, <1>i, <3>1, <3>3, <2>4 DEF Write
    <3> QED BY <3>1, <3>2, <3>3
  <2>6. writeCounter' = [writeCounter EXCEPT ![cur] = @ + 1] /\ pc' = "test"
    BY <1>5 DEF Write
  <2>7. UNCHANGED <<cur, clock, clockSets, setBack, secondsEpoch, displaced>>
    BY <1>5 DEF Write, clockVars
  <2>8. Rest
    BY <1>i, <2>1, <2>5, <2>6, <2>7
  <2> QED BY <2>2, <2>3, <2>8, <1>q
<1>6. CASE Test
  BY <1>6, <1>c, <1>i, <1>f, <1>u, <1>q, Layout DEF Test, runtimeVars, clockVars, Granularities
<1>7. CASE Average
  <2>1. Flash /\ Rings
    BY <1>7, <1>f, <1>u DEF Average
  <2>2. secondsEpoch' \in Nat
    <3>1. CASE cur = 1
      <4>1. 1 \in 1 .. Last - 1
        BY <1>7, <1>i, <3>1, Layout DEF Average
      <4>2. Trigger[1] \in Nat \ {0}
        BY <4>1, LayoutAssumption
      <4>3. secondsEpoch \div Trigger[1] \in Nat
        BY <4>2, <1>i
      <4>4. (secondsEpoch \div Trigger[1]) * Trigger[1] \in Nat
        BY <4>2, <4>3
      <4> QED BY <1>7, <3>1, <4>4 DEF Average, RoundToMinute
    <3>2. CASE cur # 1
      BY <1>7, <1>i, <3>2 DEF Average
    <3> QED BY <3>1, <3>2
  <2> QED BY <1>7, <1>i, <1>c, <2>1, <2>2, <1>q DEF Average, clockVars
<1>8. CASE Abort
  BY <1>8, <1>p, <1>f, <1>q DEF Abort
<1>9. CASE Reset
  BY <1>9, <1>p, <1>i, <1>e, <1>f, <1>q DEF Reset
<1>10. CASE UNCHANGED vars
  BY <1>10, <1>i, <1>f, <1>q DEF vars, runtimeVars, clockVars
<1>11. CASE SetClock
  <2>1. Flash /\ Rings
    BY <1>11, <1>f, <1>u DEF SetClock, runtimeVars
  <2>2. Rest
    BY <1>11, <1>i DEF SetClock, runtimeVars
  <2> QED BY <2>1, <2>2, <1>q
<1> QED BY <1>1, <1>2, <1>3, <1>4, <1>5, <1>6, <1>7, <1>8, <1>9, <1>10, <1>11 DEF Next

LEMMA WithinRingsInitially == Init => WithinRings
<1> SUFFICES ASSUME Init PROVE WithinRings
  OBVIOUS
<1>1. Start \in [Granularities -> Sectors]
  BY Layout, LayoutAssumption DEF Granularities, Last
<1>2. TypeOK
  <2>1. clockSets \in 0 .. MaxClockSets
    BY LayoutAssumption DEF Init
  <2>2. setBack \in BOOLEAN /\ displaced \in BOOLEAN
    BY DEF Init
  <2> QED BY <1>1, <2>1, <2>2, Layout DEF Init, TypeOK, Erased
<1>3. \A g \in Granularities : sectorIndex[g] < Start[g] + Count[g]
  BY Layout DEF Init
<1> QED BY <1>2, <1>3 DEF Init, WithinRings

\* The state has the types TypeOK gives it.
THEOREM TimeseriesTypeCorrect == Spec => []TypeOK
<1>1. WithinRings => TypeOK
  BY DEF WithinRings
<1> QED BY <1>1, WithinRingsInitially, WithinRingsStep, PTL DEF Spec

-----------------------------------------------------------------------------
\* The counters.  One that reaches its trigger is that of the ring the code is
\* at, and is averaged before the code goes on.
CountersInv ==
    /\ \A g \in 1 .. Last - 1 :
           \/ writeCounter[g] < Trigger[g]
           \/ writeCounter[g] = Trigger[g] /\ g = cur /\ pc \in {"test", "average"}
    /\ pc = "average" => writeCounter[cur] = Trigger[cur]

LEMMA CountersStep == WithinRings /\ CountersInv /\ [Next]_vars => CountersInv'
<1> SUFFICES ASSUME WithinRings, CountersInv, [Next]_vars PROVE CountersInv'
  OBVIOUS
<1>i. /\ writeCounter \in [Granularities -> Nat] /\ cur \in Granularities
      /\ Granularities = 1 .. Last /\ Last \in Nat
      /\ \A g \in 1 .. Last - 1 : Trigger[g] \in Nat \ {0}
      /\ pc = "average" => cur < Last
  BY Layout, LayoutAssumption DEF WithinRings, TypeOK, Granularities
<1>p. PowerOff => CountersInv'
  BY <1>i DEF PowerOff, CountersInv
<1>1. CASE Write
  BY <1>1, <1>i DEF Write, CountersInv
<1>2. CASE Test
  BY <1>2, <1>i DEF Test, runtimeVars, CountersInv
<1>3. CASE Average
  BY <1>3, <1>i DEF Average, CountersInv
<1>4. CASE Boot \/ InitGranularity \/ Callback \/ PrepareNewSector \/ SetClock \/ UNCHANGED vars
  BY <1>4, <1>i DEF Boot, InitGranularity, Callback, PrepareNewSector, SetClock, vars, runtimeVars,
                    CountersInv
<1> QED BY <1>1, <1>2, <1>3, <1>4, <1>p DEF Next, Abort, Reset

LEMMA CountersInitially == Init => CountersInv
BY Layout, LayoutAssumption DEF Init, CountersInv, Granularities

\* An average is triggered by an equality test on a counter, and between two
\* callbacks no counter has reached the value the test waits for: whatever
\* the triggers are, and however often the device was reset, the coarser
\* rings do not stop for ever (timerCallback10seconds).
THEOREM AveragesAreTriggered == Spec => []TriggersNotMissed
<1>1. CountersInv => TriggersNotMissed
  BY DEF CountersInv, TriggersNotMissed
<1> QED BY <1>1, WithinRingsInitially, WithinRingsStep, CountersInitially, CountersStep, PTL
       DEF Spec

-----------------------------------------------------------------------------
\* A restart displaces a ring when it finds it full, and remembers it did
\* (InitGranularity); the first ring begins in sector 0 and stays at home.
LEMMA SeparateStep ==
    ASSUME WithinRings, RingsSeparate, [Next]_vars, ~displaced'
    PROVE  RingsSeparate' /\ ~displaced
<1>i. /\ sectorIndex \in [Granularities -> Sectors] /\ cur \in Granularities
      /\ displaced \in BOOLEAN
      /\ \A g \in Granularities : sectorIndex[g] \in SectorsOf(g)
  BY DEF WithinRings, TypeOK, RingsSeparate
<1>1. CASE InitGranularity
  <2>1. ~displaced /\ (Drops(cur) = {} => cur = 1)
    <3>1. ~displaced /\ ~(Drops(cur) = {} /\ cur > 1)
      BY <1>1, Zenon DEF InitGranularity
    <3>2. cur \in Nat /\ cur >= 1
      BY <1>i, Layout DEF Granularities
    <3> QED BY <3>1, <3>2
  <2>2. \E s \in SectorsOf(cur) : sectorIndex' = [sectorIndex EXCEPT ![cur] = s]
    <3>1. CASE Drops(cur) # {}
      <4>1. sectorIndex' = [sectorIndex EXCEPT ![cur] = Min(Drops(cur))]
        BY <1>1, <3>1 DEF InitGranularity
      <4> QED BY <1>i, <3>1, <4>1, DropsInRing
    <3>2. CASE Drops(cur) = {}
      BY <1>1, <2>1, <3>2, Layout DEF InitGranularity
    <3> QED BY <3>1, <3>2
  <2> QED BY <1>i, <2>1, <2>2 DEF RingsSeparate
<1>2. CASE Write
  <2>1. ~displaced /\ NextSector(cur) \in SectorsOf(cur)
    BY <1>2, <1>i, NextSectorInRing DEF Write
  <2>2. sectorIndex' = sectorIndex \/ sectorIndex' = [sectorIndex EXCEPT ![cur] = NextSector(cur)]
    BY <1>2 DEF Write
  <2> QED BY <1>i, <2>1, <2>2 DEF RingsSeparate
<1>3. CASE Abort \/ Reset
  BY <1>3, Layout DEF Abort, Reset, PowerOff, RingsSeparate
<1>4. CASE Boot \/ Callback \/ PrepareNewSector \/ Test \/ Average \/ SetClock \/ UNCHANGED vars
  <2>1. sectorIndex' = sectorIndex /\ displaced' = displaced
    BY <1>4 DEF Boot, Callback, PrepareNewSector, Test, Average, SetClock, vars, runtimeVars
  <2> QED BY <2>1 DEF RingsSeparate
<1> QED BY <1>1, <1>2, <1>3, <1>4 DEF Next

LEMMA DisplacedStays == WithinRings /\ [Next]_vars /\ ~displaced' => ~displaced
BY DEF Next, Boot, InitGranularity, Callback, PrepareNewSector, Write, Test, Average, Abort,
       Reset, PowerOff, SetClock, vars, WithinRings, TypeOK

LEMMA SeparateInitially == Init => RingsSeparate /\ ~displaced
BY Layout DEF Init, RingsSeparate

\* A step changes a timestamp by erasing the sector, and sets it in
\* PrepareNewSector.
LEMMA StampStep ==
    ASSUME WithinRings, [Next]_vars, NEW s \in Sectors
    PROVE  \/ stamp'[s] = stamp[s]
           \/ stamp'[s] = Erased
           \/ PrepareNewSector /\ s = sectorIndex[cur] /\ stamp'[s] = secondsEpoch
<1>i. stamp \in [Sectors -> Int] /\ cur \in Granularities
  BY DEF WithinRings, TypeOK
<1>e. ASSUME NEW r, Erase(r) PROVE stamp'[s] = stamp[s] \/ stamp'[s] = Erased
  BY <1>i, <1>e DEF Erase
<1>1. CASE PrepareNewSector
  BY <1>1, <1>i DEF PrepareNewSector
<1>2. CASE InitGranularity
  BY <1>2, <1>e DEF InitGranularity, flashVars
<1>3. CASE Reset
  BY <1>3, <1>e DEF Reset, flashVars
<1>4. CASE Boot \/ Callback \/ Write \/ Test \/ Average \/ Abort \/ SetClock \/ UNCHANGED vars
  BY <1>4 DEF Boot, Callback, Write, Test, Average, Abort, SetClock, vars, flashVars
<1> QED BY <1>1, <1>2, <1>3, <1>4 DEF Next

-----------------------------------------------------------------------------
\* What a ring writes to was erased, and is written up to its offset.
ErasedInv ==
    /\ pc \in {"off", "init"} => \A g \in Granularities : offset[g] = 0
    /\ \A s \in Sectors : stamp[s] = Erased => programmed[s] = {}
    /\ \A g \in Granularities : offset[g] # 0 =>
           /\ stamp[sectorIndex[g]] # Erased
           /\ \A unit \in programmed[sectorIndex[g]] : unit < offset[g]

LEMMA ErasedStep == WithinRings /\ RingsSeparate /\ ErasedInv /\ [Next]_vars => ErasedInv'
<1> SUFFICES ASSUME WithinRings, RingsSeparate, ErasedInv, [Next]_vars PROVE ErasedInv'
  OBVIOUS
<1>i. /\ stamp \in [Sectors -> Int] /\ programmed \in [Sectors -> SUBSET Units]
      /\ sectorIndex \in [Granularities -> Sectors]
      /\ offset \in [Granularities -> {0} \cup Units]
      /\ cur \in Granularities /\ secondsEpoch \in Nat
      /\ Units \subseteq Nat /\ Header \in Nat \ {0}
  BY Layout DEF WithinRings, TypeOK, Units
<1>d. \A g \in Granularities : sectorIndex[g] = sectorIndex[cur] => g = cur
  BY <1>i, RingsDisjoint DEF RingsSeparate
<1> DEFINE Clean == \A s \in Sectors : stamp[s] = Erased => programmed[s] = {}
           Closed == \A g \in Granularities : offset[g] = 0
<1>q. Clean' /\ Closed' => ErasedInv'
  BY DEF ErasedInv
<1>e. ASSUME NEW r, Erase(r) PROVE Clean'
  BY <1>i, <1>e DEF Erase, ErasedInv
<1>f. UNCHANGED flashVars => Clean'
  BY DEF flashVars, ErasedInv
<1>1. CASE InitGranularity
  <2>1. Clean'
    BY <1>1, <1>e, <1>f DEF InitGranularity
  <2>2. Closed'
    BY <1>1 DEF InitGranularity, ErasedInv
  <2> QED BY <2>1, <2>2, <1>q
<1>2. CASE PrepareNewSector
  <2>1. stamp'[sectorIndex[cur]] # Erased /\ programmed'[sectorIndex[cur]] = {}
    BY <1>2, <1>i DEF PrepareNewSector, ErasedInv, Erased
  <2>2. \A s \in Sectors \ {sectorIndex[cur]} :
            stamp'[s] = stamp[s] /\ programmed'[s] = programmed[s]
    BY <1>2, <1>i DEF PrepareNewSector
  <2>3. Clean'
    BY <2>1, <2>2 DEF ErasedInv
  <2>4. \A g \in Granularities \ {cur} : offset'[g] = offset[g] /\ sectorIndex'[g] = sectorIndex[g]
    BY <1>2, <1>i DEF PrepareNewSector
  <2>5. sectorIndex'[cur] = sectorIndex[cur] /\ pc' = "write"
    BY <1>2 DEF PrepareNewSector
  <2>6. ASSUME NEW g \in Granularities, offset'[g] # 0
        PROVE  /\ stamp'[sectorIndex'[g]] # Erased
               /\ \A unit \in programmed'[sectorIndex'[g]] : unit < offset'[g]
    <3>1. CASE g = cur
      BY <2>1, <2>5, <3>1
    <3>2. CASE g # cur
      <4>1. offset[g] # 0 /\ sectorIndex'[g] = sectorIndex[g] /\ offset'[g] = offset[g]
        BY <2>4, <2>6, <3>2
      <4>2. sectorIndex[g] \in Sectors \ {sectorIndex[cur]}
        BY <1>d, <1>i, <3>2
      <4>3. /\ stamp[sectorIndex[g]] # Erased
            /\ \A unit \in programmed[sectorIndex[g]] : unit < offset[g]
        BY <4>1 DEF ErasedInv
      <4>4. /\ stamp'[sectorIndex[g]] = stamp[sectorIndex[g]]
            /\ programmed'[sectorIndex[g]] = programmed[sectorIndex[g]]
        BY <2>2, <4>2
      <4> QED BY <4>1, <4>3, <4>4
    <3> QED BY <3>1, <3>2
  <2> QED BY <2>3, <2>5, <2>6 DEF ErasedInv
<1>3. CASE Write
  <2>1. /\ \A s \in Sectors \ {sectorIndex[cur]} : programmed'[s] = programmed[s]
        /\ programmed'[sectorIndex[cur]] = programmed[sectorIndex[cur]] \cup {offset[cur]}
        /\ stamp' = stamp /\ pc' = "test"
    BY <1>3, <1>i DEF Write
  <2>2. \A g \in Granularities \ {cur} : offset'[g] = offset[g] /\ sectorIndex'[g] = sectorIndex[g]
    BY <1>3, <1>i DEF Write
  <2>3. \/ offset'[cur] = 0
        \/ offset'[cur] = offset[cur] + 1 /\ sectorIndex'[cur] = sectorIndex[cur]
    BY <1>3, <1>i DEF Write
  <2>4. offset[cur] # 0 /\ stamp[sectorIndex[cur]] # Erased
    BY <1>3, <1>i DEF Write, ErasedInv
  <2>5. Clean'
    BY <2>1, <2>4 DEF ErasedInv
  <2>6. ASSUME NEW g \in Granularities, offset'[g] # 0
        PROVE  /\ stamp'[sectorIndex'[g]] # Erased
               /\ \A unit \in programmed'[sectorIndex'[g]] : unit < offset'[g]
    <3>1. CASE g = cur
      <4>1. \A unit \in programmed[sectorIndex[cur]] : unit < offset[cur] /\ unit \in Nat
        BY <2>4, <1>i DEF ErasedInv
      <4>2. offset'[cur] = offset[cur] + 1 /\ sectorIndex'[cur] = sectorIndex[cur]
        BY <3>1, <2>3, <2>6
      <4>3. offset[cur] \in Nat
        <5>1. offset[cur] = 0 \/ offset[cur] \in Units
          BY <1>i
        <5>2. \A unit \in Units : unit \in Nat
          BY <1>i
        <5> QED BY <5>1, <5>2
      <4>4. \A unit \in programmed'[sectorIndex[cur]] : unit < offset[cur] + 1
        BY <4>1, <4>3, <2>1
      <4> QED BY <4>2, <4>4, <3>1, <2>1, <2>4
    <3>2. CASE g # cur
      <4>1. /\ offset'[g] = offset[g] /\ sectorIndex'[g] = sectorIndex[g]
            /\ sectorIndex[g] \in Sectors \ {sectorIndex[cur]} /\ offset[g] # 0
        BY <3>2, <2>2, <2>6, <1>d, <1>i
      <4>2. programmed'[sectorIndex[g]] = programmed[sectorIndex[g]] /\ stamp' = stamp
        BY <4>1, <2>1
      <4>3. /\ stamp[sectorIndex[g]] # Erased
            /\ \A unit \in programmed[sectorIndex[g]] : unit < offset[g]
        BY <4>1 DEF ErasedInv
      <4> QED BY <4>1, <4>2, <4>3
    <3> QED BY <3>1, <3>2
  <2> QED BY <2>1, <2>5, <2>6 DEF ErasedInv
<1>4. CASE Abort \/ Reset
  <2>1. Clean'
    BY <1>4, <1>e, <1>f DEF Abort, Reset
  <2>2. Closed'
    BY <1>4 DEF Abort, Reset, PowerOff
  <2> QED BY <2>1, <2>2, <1>q
<1>5. CASE Boot \/ Callback \/ Test \/ Average \/ SetClock \/ UNCHANGED vars
  BY <1>5 DEF Boot, Callback, Test, Average, SetClock, vars, flashVars, runtimeVars, ErasedInv
<1> QED BY <1>1, <1>2, <1>3, <1>4, <1>5 DEF Next

LEMMA ErasedInitially == Init => ErasedInv
BY Layout DEF Init, ErasedInv

LEMMA ErasedIsNotWritten == WithinRings /\ ErasedInv => WritesToErasedUnits
BY Layout DEF WithinRings, TypeOK, ErasedInv, WritesToErasedUnits, Units

\* Flash is programmed only where it is erased: however many rings there are
\* and wherever they wrap, across resets and whatever the clock says, up to
\* the restart that finds a later ring full (Init and PrepareNewSector).
THEOREM WritesToErased == Spec => []WritesToErasedUnits
<1> DEFINE I == WithinRings /\ (displaced \/ (RingsSeparate /\ ErasedInv))
<1>1. Init => I
  BY WithinRingsInitially, SeparateInitially, ErasedInitially
<1>2. I /\ [Next]_vars => I'
  BY WithinRingsStep, DisplacedStays, SeparateStep, ErasedStep
<1>3. I => WritesToErasedUnits
  BY ErasedIsNotWritten DEF WritesToErasedUnits
<1> QED BY <1>1, <1>2, <1>3, PTL DEF Spec

-----------------------------------------------------------------------------
\* A timestamp is later than those it joins: the first ring has one callback
\* at least between two sectors, the others have as many as the first ring
\* has counted records since (Due: and the one that is being written).
Due == IF pc = "write" /\ cur = 1 THEN 1 ELSE 0

ClockInv ==
    /\ \A s \in Sectors : stamp[s] >= Erased
    /\ \A s \in SectorsOf(1) : stamp[s] <= clock
    /\ \A g \in Granularities \ {1} : \A s \in SectorsOf(g) :
           stamp[s] + writeCounter[1] + Due <= clock
    /\ secondsEpoch <= clock
    /\ pc \in {"write", "test", "average"} /\ cur = 1 => secondsEpoch = clock
    /\ pc \in {"write", "test", "average"} /\ cur > 1 =>
           \A g \in Granularities : g > cur => \A s \in SectorsOf(g) : stamp[s] < secondsEpoch
    /\ pc = "write" /\ offset[cur] = 0 => \A s \in SectorsOf(cur) : stamp[s] < secondsEpoch
    /\ pc \in {"test", "average"} /\ cur = 1 => writeCounter[1] > 0
    /\ pc \in {"write", "average"} /\ cur > 1 => writeCounter[1] = 0
    /\ pc = "test" /\ cur > 1 /\ cur < Last =>
           writeCounter[1] = 0 \/ writeCounter[cur] < Trigger[cur]
    /\ pc \in {"off", "init"} => writeCounter[1] = 0

\* A timestamp of the coarser rings is less than a minute old.
LEMMA RoundedDown ==
    ASSUME NEW t \in Nat, NEW n \in Nat \ {0}
    PROVE  /\ (t \div n) * n \in Nat
           /\ (t \div n) * n <= t /\ t < (t \div n) * n + n
<1>1. t \div n \in Nat /\ (t \div n) * n <= t /\ t < (t \div n) * n + n
  OBVIOUS
<1>2. \A q \in Nat : q * n \in Nat
  OBVIOUS
<1> QED BY <1>1, <1>2

LEMMA ClockStep ==
    WithinRings /\ RingsSeparate /\ CountersInv /\ ClockInv /\ ~setBack' /\ [Next]_vars => ClockInv'
<1> SUFFICES ASSUME WithinRings, RingsSeparate, CountersInv, ClockInv, ~setBack', [Next]_vars
             PROVE  ClockInv'
  OBVIOUS
<1>i. /\ stamp \in [Sectors -> Int]
      /\ offset \in [Granularities -> {0} \cup Units]
      /\ writeCounter \in [Granularities -> Nat]
      /\ pc \in {"off", "init", "idle", "write", "test", "average"}
      /\ cur \in Granularities /\ clock \in Nat /\ secondsEpoch \in Nat
      /\ Granularities = 1 .. Last /\ Last \in Nat \ {0}
      /\ \A g \in Granularities : SectorsOf(g) \subseteq Sectors
      /\ \A g \in 1 .. Last - 1 : Trigger[g] \in Nat \ {0}
      /\ pc = "average" => cur < Last
  BY Layout, LayoutAssumption DEF WithinRings, TypeOK, Granularities
<1>s. \A s \in Sectors : /\ stamp[s] \in Int /\ stamp'[s] \in Int /\ stamp'[s] >= Erased
                         /\ ~PrepareNewSector => stamp'[s] <= stamp[s]
  <2> SUFFICES ASSUME NEW s \in Sectors
               PROVE  /\ stamp[s] \in Int /\ stamp'[s] \in Int /\ stamp'[s] >= Erased
                      /\ ~PrepareNewSector => stamp'[s] <= stamp[s]
    OBVIOUS
  <2>1. stamp[s] \in Int /\ stamp[s] >= Erased
    BY <1>i DEF ClockInv
  <2>2. \/ stamp'[s] = stamp[s] \/ stamp'[s] = Erased
        \/ PrepareNewSector /\ stamp'[s] = secondsEpoch
    BY StampStep
  <2> QED BY <1>i, <2>1, <2>2 DEF Erased
<1>d. \A g \in Granularities : g # cur => sectorIndex[cur] \notin SectorsOf(g)
  BY <1>i, RingsDisjoint DEF RingsSeparate
<1>o. ASSUME ~PrepareNewSector, clock' = clock,
             writeCounter'[1] + Due' <= writeCounter[1] + Due,
             writeCounter'[1] \in Nat, Due' \in Nat
      PROVE  /\ \A s \in Sectors : stamp'[s] >= Erased
             /\ \A s \in SectorsOf(1) : stamp'[s] <= clock'
             /\ \A g \in Granularities \ {1} : \A s \in SectorsOf(g) :
                    stamp'[s] + writeCounter'[1] + Due' <= clock'
  <2>1. /\ 1 \in Granularities /\ \A s \in SectorsOf(1) : s \in Sectors
        /\ writeCounter[1] \in Nat /\ Due \in Nat
    BY <1>i DEF Due
  <2>2. \A s \in SectorsOf(1) : stamp'[s] <= clock'
    BY <1>i, <1>s, <1>o, <2>1 DEF ClockInv
  <2>3. ASSUME NEW g \in Granularities \ {1}, NEW s \in SectorsOf(g)
        PROVE  stamp'[s] + writeCounter'[1] + Due' <= clock'
    <3>1. s \in Sectors /\ stamp[s] + writeCounter[1] + Due <= clock
      BY <1>i DEF ClockInv
    <3>2. stamp[s] \in Int /\ stamp'[s] \in Int /\ stamp'[s] <= stamp[s]
      BY <1>s, <1>o, <3>1
    <3>3. /\ clock' = clock /\ clock \in Nat
          /\ writeCounter'[1] + Due' <= writeCounter[1] + Due
          /\ writeCounter'[1] \in Nat /\ Due' \in Nat
          /\ writeCounter[1] \in Nat /\ Due \in Nat
      BY <1>o, <1>i, <2>1
    <3> QED BY <3>1, <3>2, <3>3
  <2> QED BY <1>s, <2>2, <2>3
<1>p. ASSUME PowerOff, ~PrepareNewSector PROVE ClockInv'
  <2>1. /\ writeCounter'[1] = 0 /\ clock' = clock /\ secondsEpoch' = secondsEpoch
        /\ pc' = "off" /\ cur' = 1 /\ Due' = 0
    BY <1>p, <1>i DEF PowerOff, Due, clockVars
  <2>2. writeCounter[1] + Due \in Nat
    BY <1>i DEF Due
  <2> QED BY <1>o, <1>p, <2>1, <2>2 DEF ClockInv
<1>1. CASE PrepareNewSector
  <2> DEFINE s0 == sectorIndex[cur]
  <2>1. /\ pc = "write" /\ pc' = "write" /\ offset[cur] = 0
        /\ UNCHANGED <<cur, clock, secondsEpoch, writeCounter>>
        /\ offset'[cur'] # 0
        /\ s0 \in SectorsOf(cur) /\ s0 \in Sectors
    BY <1>1, <1>i, Layout DEF PrepareNewSector, RingsSeparate, clockVars
  <2>2. stamp'[s0] = secondsEpoch /\ \A s \in Sectors \ {s0} : stamp'[s] = stamp[s]
    BY <1>1, <1>i, <2>1 DEF PrepareNewSector
  <2>3. \A s \in SectorsOf(1) : stamp'[s] <= clock'
    <3>1. \A s \in SectorsOf(1) : s \in Sectors
      BY <1>i
    <3> QED BY <2>1, <2>2, <3>1 DEF ClockInv
  <2>4. ASSUME NEW g \in Granularities \ {1}, NEW s \in SectorsOf(g)
        PROVE  stamp'[s] + writeCounter'[1] + Due' <= clock'
    <3>1. s \in Sectors /\ stamp[s] + writeCounter[1] + Due <= clock /\ Due' = Due
      BY <1>i, <2>1 DEF ClockInv, Due
    <3>2. CASE s # s0
      BY <2>1, <2>2, <3>1, <3>2
    <3>3. CASE s = s0
      <4>1. g = cur
        BY <1>d, <3>3
      <4>2. writeCounter[1] = 0 /\ Due = 0
        BY <1>i, <2>1, <4>1 DEF ClockInv, Due
      <4> QED BY <1>i, <2>1, <2>2, <3>1, <3>3, <4>2 DEF ClockInv
    <3> QED BY <3>2, <3>3
  <2>5. ASSUME cur > 1, NEW g \in Granularities, g > cur, NEW s \in SectorsOf(g)
        PROVE  stamp'[s] < secondsEpoch
    <3>1. s \in Sectors /\ s # s0 /\ stamp[s] < secondsEpoch
      BY <1>i, <1>d, <2>1, <2>5 DEF ClockInv
    <3> QED BY <2>2, <3>1
  <2> QED BY <1>i, <1>s, <2>1, <2>3, <2>4, <2>5 DEF ClockInv
<1>2. CASE InitGranularity
  <2>1. /\ pc = "init" /\ pc' \in {"init", "idle"} /\ ~PrepareNewSector
        /\ UNCHANGED <<offset, writeCounter, clock, secondsEpoch>>
        /\ Due = 0 /\ Due' = 0 /\ writeCounter[1] \in Nat
    BY <1>2, <1>i DEF InitGranularity, PrepareNewSector, Due, clockVars
  <2> QED BY <1>i, <1>o, <2>1 DEF ClockInv
<1>3. CASE Callback
  <2>1. /\ pc = "idle" /\ pc' = "write" /\ cur' = 1 /\ clock' = clock + 1
        /\ secondsEpoch' = clock' /\ Due = 0 /\ Due' = 1
        /\ UNCHANGED <<stamp, writeCounter, offset>>
    BY <1>3, <1>i DEF Callback, Due, flashVars, runtimeVars
  <2>2. \A s \in SectorsOf(1) : stamp'[s] < clock'
    <3>1. \A s \in SectorsOf(1) : s \in Sectors /\ stamp[s] <= clock
      BY <1>i DEF ClockInv
    <3> QED BY <1>i, <2>1, <3>1
  <2>3. ASSUME NEW g \in Granularities \ {1}, NEW s \in SectorsOf(g)
        PROVE  stamp'[s] + writeCounter'[1] + Due' <= clock'
    <3>1. s \in Sectors /\ stamp[s] + writeCounter[1] + Due <= clock /\ writeCounter[1] \in Nat
      BY <1>i DEF ClockInv
    <3> QED BY <1>i, <2>1, <3>1
  <2> QED BY <1>i, <1>s, <2>1, <2>2, <2>3 DEF ClockInv
<1>4. CASE Write
  <2>1. /\ pc = "write" /\ pc' = "test" /\ ~PrepareNewSector
        /\ UNCHANGED <<stamp, cur, clock, secondsEpoch>>
        /\ writeCounter[1] \in Nat /\ Due' = 0
        /\ writeCounter'[1] = writeCounter[1] + (IF cur = 1 THEN 1 ELSE 0)
        /\ Due = (IF cur = 1 THEN 1 ELSE 0)
    BY <1>4, <1>i DEF Write, PrepareNewSector, Due, clockVars
  <2>2. /\ \A s \in Sectors : stamp'[s] >= Erased
        /\ \A s \in SectorsOf(1) : stamp'[s] <= clock'
        /\ \A g \in Granularities \ {1} : \A s \in SectorsOf(g) :
               stamp'[s] + writeCounter'[1] + Due' <= clock'
    BY <1>o, <2>1
  <2> QED BY <1>i, <2>1, <2>2 DEF ClockInv
<1>5. CASE Test
  <2>1. /\ pc = "test" /\ pc' \in {"idle", "test", "average"} /\ ~PrepareNewSector
        /\ UNCHANGED <<stamp, offset, writeCounter, clock, secondsEpoch>>
        /\ writeCounter[1] \in Nat /\ Due = 0 /\ Due' = 0
    BY <1>5, <1>i DEF Test, PrepareNewSector, Due, flashVars, runtimeVars, clockVars
  <2>2. /\ \A s \in Sectors : stamp'[s] >= Erased
        /\ \A s \in SectorsOf(1) : stamp'[s] <= clock'
        /\ \A g \in Granularities \ {1} : \A s \in SectorsOf(g) :
               stamp'[s] + writeCounter'[1] + Due' <= clock'
    BY <1>o, <2>1
  <2>3. CASE pc' = "idle"
    BY <1>i, <2>1, <2>2, <2>3 DEF ClockInv
  <2>4. CASE pc' = "average"
    <3>1. cur' = cur /\ cur < Last /\ writeCounter[cur] = Trigger[cur] /\ Trigger[cur] \in Nat
      BY <1>5, <1>i, <2>4 DEF Test
    <3> QED BY <1>i, <2>1, <2>2, <2>4, <3>1 DEF ClockInv
  <2>5. CASE pc' = "test"
    <3>1. /\ cur' = cur + 1 /\ cur < Last
          /\ cur' < Last => writeCounter[cur'] < Trigger[cur']
      BY <1>5, <1>i, <2>5 DEF Test, CountersInv
    <3>2. ASSUME NEW g \in Granularities, g > cur + 1, NEW s \in SectorsOf(g)
          PROVE  stamp'[s] < secondsEpoch
      <4>1. CASE cur = 1
        <5>1. secondsEpoch = clock /\ writeCounter[1] > 0 /\ s \in Sectors
          BY <1>i, <2>1, <4>1 DEF ClockInv
        <5>2. stamp'[s] + writeCounter'[1] + Due' <= clock'
          BY <2>2, <3>2, <4>1
        <5> QED BY <5>1, <5>2, <1>s, <1>i, <2>1
      <4>2. CASE cur > 1
        BY <1>i, <2>1, <3>2, <4>2 DEF ClockInv
      <4> QED BY <1>i, <4>1, <4>2
    <3>3. cur + 1 > 1 /\ cur + 1 # 1
      BY <1>i
    <3> QED BY <1>i, <2>1, <2>2, <2>5, <3>1, <3>2, <3>3 DEF ClockInv
  <2> QED BY <2>1, <2>3, <2>4, <2>5
<1>6. CASE Average
  <2>1. /\ pc = "average" /\ pc' = "write" /\ cur < Last /\ cur' = cur + 1 /\ ~PrepareNewSector
        /\ UNCHANGED <<stamp, offset, clock>>
        /\ writeCounter'[1] = 0 /\ writeCounter[1] \in Nat /\ Due = 0 /\ Due' = 0
        /\ cur + 1 > 1 /\ cur + 1 # 1
    <3>1. writeCounter'[1] = 0
      BY <1>6, <1>i DEF Average, ClockInv
    <3> QED BY <1>6, <1>i, <3>1 DEF Average, PrepareNewSector, Due, flashVars, clockVars
  <2>2. /\ \A s \in Sectors : stamp'[s] >= Erased
        /\ \A s \in SectorsOf(1) : stamp'[s] <= clock'
        /\ \A g \in Granularities \ {1} : \A s \in SectorsOf(g) :
               stamp'[s] + writeCounter'[1] + Due' <= clock'
    BY <1>o, <2>1
  <2>3. /\ secondsEpoch' \in Nat /\ secondsEpoch' <= clock
        /\ \A g \in Granularities : g > cur => \A s \in SectorsOf(g) : stamp[s] < secondsEpoch'
    <3>1. CASE cur = 1
      <4>1. /\ Trigger[1] \in Nat \ {0} /\ secondsEpoch = clock /\ writeCounter[1] = Trigger[1]
        BY <1>i, <2>1, <3>1 DEF ClockInv, CountersInv
      <4>2. secondsEpoch' \in Nat /\ secondsEpoch' <= clock /\ clock < secondsEpoch' + Trigger[1]
        BY <1>6, <1>i, <3>1, <4>1, RoundedDown DEF Average, RoundToMinute
      <4>3. ASSUME NEW g \in Granularities, g > cur, NEW s \in SectorsOf(g)
            PROVE  stamp[s] < secondsEpoch'
        <5>1. s \in Sectors /\ g \in Granularities \ {1}
          BY <1>i, <3>1, <4>3
        <5>2. stamp[s] + writeCounter[1] + Due <= clock
          BY <5>1 DEF ClockInv
        <5> QED BY <5>1, <5>2, <4>1, <4>2, <1>s, <1>i, <2>1
      <4> QED BY <4>2, <4>3
    <3>2. CASE cur > 1
      BY <1>6, <1>i, <2>1, <3>2 DEF Average, ClockInv
    <3> QED BY <1>i, <3>1, <3>2
  <2> QED BY <1>i, <2>1, <2>2, <2>3 DEF ClockInv
<1>7. CASE Abort \/ Reset
  BY <1>7, <1>p DEF Abort, Reset, PrepareNewSector, PowerOff
<1>8. CASE Boot
  <2>1. /\ pc = "off" /\ pc' = "init" /\ UNCHANGED <<stamp, offset, writeCounter, cur, clock, secondsEpoch>>
        /\ Due' = Due
    BY <1>8 DEF Boot, flashVars, runtimeVars, Due, clockVars
  <2> QED BY <2>1 DEF ClockInv
<1>9. CASE UNCHANGED vars
  <2>1. UNCHANGED <<stamp, offset, writeCounter, pc, cur, clock, secondsEpoch>> /\ Due' = Due
    BY <1>9 DEF vars, flashVars, runtimeVars, Due, clockVars
  <2> QED BY <2>1 DEF ClockInv
<1>10. CASE SetClock
  <2>1. /\ pc \in {"off", "idle"} /\ pc' = pc
        /\ UNCHANGED <<stamp, offset, writeCounter, cur, secondsEpoch>>
        /\ Due = 0 /\ Due' = 0 /\ writeCounter[1] \in Nat
    BY <1>10, <1>i DEF SetClock, flashVars, runtimeVars, Due
  <2>2. clock' >= clock /\ clock' \in Nat
    <3>1. ~(clock' < clock)
      BY <1>10, Zenon DEF SetClock
    <3>2. clock' \in 0 .. MaxClock
      BY <1>10 DEF SetClock
    <3> QED BY <1>i, <3>1, <3>2, LayoutAssumption
  <2>3. \A s \in SectorsOf(1) : stamp'[s] <= clock'
    <3>1. \A s \in SectorsOf(1) : stamp[s] \in Int /\ stamp[s] <= clock
      BY <1>i DEF ClockInv
    <3> QED BY <1>i, <2>1, <2>2, <3>1
  <2>4. ASSUME NEW g \in Granularities \ {1}, NEW s \in SectorsOf(g)
        PROVE  stamp'[s] + writeCounter'[1] + Due' <= clock'
    <3>1. stamp[s] \in Int /\ stamp[s] + writeCounter[1] + Due <= clock
      BY <1>i DEF ClockInv
    <3> QED BY <1>i, <2>1, <2>2, <3>1
  <2>5. secondsEpoch' <= clock' /\ (writeCounter'[1] = 0 \/ pc = "idle")
    BY <1>i, <2>1, <2>2 DEF ClockInv
  <2> QED BY <1>i, <1>s, <2>1, <2>2, <2>3, <2>4, <2>5 DEF ClockInv
<1> QED BY <1>10, <1>9, <1>1, <1>2, <1>3, <1>4, <1>5, <1>6, <1>7, <1>8 DEF Next

LEMMA ClockInitially == Init => ClockInv
<1> SUFFICES ASSUME Init PROVE ClockInv
  OBVIOUS
<1>1. /\ \A g \in Granularities : \A s \in SectorsOf(g) : stamp[s] = Erased
      /\ writeCounter[1] = 0 /\ Due = 0
  BY Layout DEF Init, Due
<1> QED BY <1>1, Layout DEF Init, ClockInv, Erased

-----------------------------------------------------------------------------
\* A walk around ring g that begins at h: where it meets sector s, and that it
\* meets erased sectors and then timestamps (f) that grow.  The sectors before
\* h hold data.
Place(g, h, s) == IF s < h THEN s + Count[g] ELSE s

OrderedFrom(f, g, h) ==
    /\ \A s \in SectorsOf(g) : s < h => f[s] # Erased
    /\ \A s, t \in SectorsOf(g) :
           Place(g, h, s) < Place(g, h, t) => f[s] = Erased \/ f[s] < f[t]

Stamps == {f \in [Sectors -> Int] : \A s \in Sectors : f[s] >= Erased}

LEMMA RingOfNats ==
    ASSUME NEW g \in Granularities
    PROVE  /\ Start[g] \in Nat /\ Count[g] \in Nat \ {0}
           /\ \A s \in SectorsOf(g) : /\ s \in Nat /\ s \in Sectors
                                      /\ Start[g] <= s /\ s < Start[g] + Count[g]
           /\ \A s \in Nat : Start[g] <= s /\ s < Start[g] + Count[g] => s \in SectorsOf(g)
BY Layout DEF SectorsOf

LEMMA FirstIsOldest ==
    ASSUME NEW f \in Stamps, NEW g \in Granularities, NEW h \in SectorsOf(g),
           OrderedFrom(f, g, h)
    PROVE  f[h] # Erased => \A t \in SectorsOf(g) : f[t] >= f[h]
<1> SUFFICES ASSUME f[h] # Erased, NEW t \in SectorsOf(g), t # h PROVE f[t] >= f[h]
  BY RingOfNats DEF Stamps
<1>1. Place(g, h, h) < Place(g, h, t)
  BY RingOfNats DEF Place
<1>2. f[h] < f[t]
  BY <1>1 DEF OrderedFrom
<1> QED BY <1>2, RingOfNats DEF Stamps

LEMMA EraseKeepsOrder ==
    ASSUME NEW f \in Stamps, NEW r \in Stamps, NEW g \in Granularities, NEW h \in SectorsOf(g),
           OrderedFrom(f, g, h),
           r[h] = Erased, \A s \in SectorsOf(g) : s # h => r[s] = f[s]
    PROVE  OrderedFrom(r, g, h)
<1>1. \A s \in SectorsOf(g) : s < h => r[s] # Erased
  BY RingOfNats DEF OrderedFrom
<1>2. \A s \in SectorsOf(g) : ~(Place(g, h, s) < Place(g, h, h))
  BY RingOfNats DEF Place
<1> QED BY <1>1, <1>2 DEF OrderedFrom

\* Stamping the first sector makes it the last of the walk.
LEMMA StampKeepsOrder ==
    ASSUME NEW f \in Stamps, NEW r \in Stamps, NEW g \in Granularities, NEW h \in SectorsOf(g),
           NEW n, n = IF h + 1 = Start[g] + Count[g] THEN Start[g] ELSE h + 1,
           OrderedFrom(f, g, h),
           r[h] # Erased, \A s \in SectorsOf(g) : s # h => r[s] = f[s] /\ f[s] < r[h]
    PROVE  OrderedFrom(r, g, n)
<1>1. \A s \in SectorsOf(g) : s < n => r[s] # Erased
  BY RingOfNats DEF OrderedFrom
<1>2. \A t \in SectorsOf(g) : ~(Place(g, n, h) < Place(g, n, t))
  BY RingOfNats DEF Place
<1>3. ASSUME NEW s \in SectorsOf(g), NEW t \in SectorsOf(g), s # h, t # h,
             Place(g, n, s) < Place(g, n, t)
      PROVE  Place(g, h, s) < Place(g, h, t)
  BY <1>3, RingOfNats DEF Place
<1>4. ASSUME NEW s \in SectorsOf(g), NEW t \in SectorsOf(g), Place(g, n, s) < Place(g, n, t)
      PROVE  r[s] = Erased \/ r[s] < r[t]
  BY <1>2, <1>3, <1>4 DEF OrderedFrom
<1> QED BY <1>1, <1>4 DEF OrderedFrom

\* The search in Init finds the first sector of the walk: where the timestamps
\* drop, or, when they drop nowhere, the first sector of the ring.
LEMMA InitFindsFirst ==
    ASSUME stamp \in Stamps, NEW g \in Granularities, NEW h \in SectorsOf(g),
           OrderedFrom(stamp, g, h)
    PROVE  /\ Drops(g) # {} => Min(Drops(g)) = h
           /\ Drops(g) = {} => h = Start[g]
<1>s. \A s \in SectorsOf(g) : stamp[s] \in Int /\ stamp[s] >= -1
  BY RingOfNats DEF Stamps, Erased
<1>1. ASSUME NEW s \in SectorsOf(g), s > Start[g]
      PROVE  /\ s - 1 \in SectorsOf(g)
             /\ s # h => Place(g, h, s - 1) < Place(g, h, s)
             /\ s = h => Place(g, h, s) < Place(g, h, s - 1)
  BY <1>1, RingOfNats DEF Place
<1>2. ASSUME NEW s \in SectorsOf(g), s < h PROVE s \notin Drops(g)
  <2>1. stamp[s] >= 0
    BY <1>s, <1>2 DEF OrderedFrom, Erased
  <2>2. CASE s = Start[g]
    BY <2>1, <2>2, <1>s DEF Drops
  <2>3. CASE s > Start[g]
    <3>1. s - 1 \in SectorsOf(g) /\ s - 1 < h /\ Place(g, h, s - 1) < Place(g, h, s)
      BY <1>1, <1>2, <2>3, RingOfNats
    <3>2. stamp[s - 1] < stamp[s]
      BY <3>1 DEF OrderedFrom
    <3> QED BY <2>3, <3>1, <3>2, <1>s, RingOfNats DEF Drops
  <2> QED BY <2>2, <2>3, RingOfNats
<1>3. CASE h > Start[g] \/ stamp[h] = Erased
  <2>1. h \in Drops(g)
    <3>1. CASE h = Start[g]
      BY <1>3, <3>1, RingOfNats DEF Drops, Erased
    <3>2. CASE h > Start[g]
      <4>1. h - 1 \in SectorsOf(g) /\ h - 1 < h /\ Place(g, h, h) < Place(g, h, h - 1)
        BY <1>1, <3>2, RingOfNats
      <4>2. stamp[h - 1] # Erased /\ (stamp[h] = Erased \/ stamp[h] < stamp[h - 1])
        BY <4>1 DEF OrderedFrom
      <4>3. stamp[h] < stamp[h - 1]
        BY <4>1, <4>2, <1>s DEF Erased
      <4> QED BY <3>2, <4>3, RingOfNats DEF Drops
    <3> QED BY <3>1, <3>2, RingOfNats
  <2>2. Min(Drops(g)) \in SectorsOf(g) /\ Min(Drops(g)) <= h /\ Min(Drops(g)) \in Drops(g)
    <3>1. Drops(g) \subseteq Nat
      BY RingOfNats DEF Drops
    <3> QED BY <2>1, <3>1, MinOfNats, DropsInRing
  <2> QED BY <1>2, <2>1, <2>2, RingOfNats
<1>4. CASE h = Start[g] /\ stamp[h] # Erased
  <2>1. \A s \in SectorsOf(g) : s # h => Place(g, h, h) < Place(g, h, s)
    BY <1>4, RingOfNats DEF Place
  <2>2. \A s \in SectorsOf(g) : stamp[s] >= 0
    BY <1>4, <2>1, <1>s DEF OrderedFrom, Erased
  <2>3. ASSUME NEW s \in SectorsOf(g) PROVE s \notin Drops(g)
    <3>1. CASE s = Start[g]
      BY <2>2, <3>1, <1>s DEF Drops
    <3>2. CASE s > Start[g]
      <4>1. s - 1 \in SectorsOf(g) /\ Place(g, h, s - 1) < Place(g, h, s)
        BY <1>1, <1>4, <3>2, RingOfNats
      <4>2. stamp[s - 1] < stamp[s]
        BY <4>1, <2>2, <1>s DEF OrderedFrom, Erased
      <4> QED BY <3>2, <4>1, <4>2, <1>s, RingOfNats DEF Drops
    <3> QED BY <3>1, <3>2, RingOfNats
  <2> QED BY <1>4, <2>3 DEF Drops
<1> QED BY <1>3, <1>4, RingOfNats

\* The sector ring g starts next.
NewSector(g) == IF offset[g] = 0 THEN sectorIndex[g] ELSE NextSector(g)

Initialised(g) == pc \notin {"off", "init"} \/ (pc = "init" /\ g < cur)

\* Every ring is ordered from the sector it starts next, which a boot can
\* find again.
OrderInv ==
    /\ pc = "off" => cur = 1
    /\ \A g \in Granularities :
           /\ Initialised(g) => OrderedFrom(stamp, g, NewSector(g))
           /\ \E h \in SectorsOf(g) : OrderedFrom(stamp, g, h)

LEMMA StampsOrdered ==
    ASSUME WithinRings, ClockInv PROVE stamp \in Stamps
BY DEF WithinRings, TypeOK, ClockInv, Stamps

LEMMA NewSectorInRing ==
    ASSUME RingsSeparate, NEW g \in Granularities
    PROVE  NewSector(g) \in SectorsOf(g)
BY NextSectorInRing DEF RingsSeparate, NewSector

\* A step that changes timestamps changes one, where the walk begins.
LEMMA StampsChangeAtFirst ==
    ASSUME WithinRings, RingsSeparate, ErasedInv, ClockInv, OrderInv, [Next]_vars,
           NEW g \in Granularities, NEW s \in SectorsOf(g), stamp'[s] # stamp[s]
    PROVE  /\ g = cur
           /\ OrderedFrom(stamp, g, s)
           /\ \A t \in SectorsOf(g) : t # s => stamp'[t] = stamp[t]
<1>i. /\ stamp \in [Sectors -> Int] /\ stamp \in Stamps /\ cur \in Granularities
      /\ \A h \in Granularities : SectorsOf(h) \subseteq Sectors
      /\ \A h \in Granularities : \A r \in SectorsOf(h) : r \in SectorsOf(g) => h = g
  BY Layout, RingsDisjoint, StampsOrdered DEF WithinRings, TypeOK
<1>q. ASSUME NEW r \in SectorsOf(cur), NEW c, stamp' = [stamp EXCEPT ![r] = c],
             OrderedFrom(stamp, cur, r)
      PROVE  /\ g = cur
             /\ OrderedFrom(stamp, g, s)
             /\ \A t \in SectorsOf(g) : t # s => stamp'[t] = stamp[t]
  <2>1. s = r
    BY <1>i, <1>q
  <2> QED BY <1>i, <1>q, <2>1
<1>1. CASE InitGranularity
  <2>1. PICK h \in SectorsOf(cur) : OrderedFrom(stamp, cur, h)
    BY <1>i DEF OrderInv
  <2>2. /\ Drops(cur) # {} => Min(Drops(cur)) = h
        /\ Drops(cur) = {} => h = Start[cur]
    BY <1>i, <2>1, InitFindsFirst
  <2>3. Erase(h)
    BY <1>1, <2>2 DEF InitGranularity, flashVars
  <2> QED BY <1>q, <2>1, <2>3 DEF Erase
<1>2. CASE PrepareNewSector
  <2>1. OrderedFrom(stamp, cur, sectorIndex[cur]) /\ sectorIndex[cur] \in SectorsOf(cur)
    BY <1>2, <1>i DEF PrepareNewSector, OrderInv, Initialised, NewSector, RingsSeparate
  <2> QED BY <1>q, <1>2, <2>1 DEF PrepareNewSector
<1>3. CASE Reset
  <2>1. /\ pc = "write" /\ offset[cur] = 0 /\ Erase(sectorIndex[cur])
    BY <1>3 DEF Reset, flashVars
  <2>2. OrderedFrom(stamp, cur, sectorIndex[cur]) /\ sectorIndex[cur] \in SectorsOf(cur)
    BY <2>1, <1>i DEF OrderInv, Initialised, NewSector, RingsSeparate
  <2> QED BY <1>q, <2>1, <2>2 DEF Erase
<1>4. CASE Boot \/ Callback \/ Write \/ Test \/ Average \/ Abort \/ SetClock \/ UNCHANGED vars
  BY <1>4 DEF Boot, Callback, Write, Test, Average, Abort, SetClock, vars, flashVars
<1> QED BY <1>1, <1>2, <1>3, <1>4 DEF Next

LEMMA OrderedByStamps ==
    ASSUME NEW f \in Stamps, NEW r \in Stamps, NEW g \in Granularities, NEW h,
           \A s \in SectorsOf(g) : r[s] = f[s], OrderedFrom(f, g, h)
    PROVE  OrderedFrom(r, g, h)
BY DEF OrderedFrom

LEMMA OrderStep ==
    WithinRings /\ WithinRings' /\ RingsSeparate /\ RingsSeparate' /\ ErasedInv
    /\ ClockInv /\ ClockInv' /\ OrderInv /\ [Next]_vars => OrderInv'
<1> SUFFICES ASSUME WithinRings, WithinRings', RingsSeparate, RingsSeparate',
                    ErasedInv, ClockInv, ClockInv', OrderInv, [Next]_vars
             PROVE  OrderInv'
  OBVIOUS
<1>i. /\ stamp \in Stamps /\ stamp' \in Stamps /\ cur \in Granularities
      /\ stamp \in [Sectors -> Int] /\ secondsEpoch \in Nat
      /\ sectorIndex \in [Granularities -> Sectors]
      /\ offset \in [Granularities -> {0} \cup Units]
      /\ \A g \in Granularities : sectorIndex[g] \in SectorsOf(g)
      /\ \A g \in Granularities : SectorsOf(g) \subseteq Sectors
      /\ Granularities = 1 .. Last /\ Last \in Nat \ {0}
  BY StampsOrdered, Layout DEF WithinRings, TypeOK, RingsSeparate, Granularities, Stamps, ClockInv
<1>n. \A g \in Granularities : NewSector(g) \in SectorsOf(g)
  BY NewSectorInRing
<1>1. pc' = "off" => cur' = 1
  BY DEF Next, Boot, InitGranularity, Callback, PrepareNewSector, Write, Test, Average,
         Abort, Reset, PowerOff, SetClock, vars, OrderInv
<1>s. ASSUME NEW g \in Granularities, \A s \in SectorsOf(g) : stamp'[s] = stamp[s]
      PROVE  \A h : OrderedFrom(stamp, g, h) => OrderedFrom(stamp', g, h)
  BY <1>i, <1>s, OrderedByStamps
<1>c. ASSUME NEW g \in Granularities, g # cur
      PROVE  \A s \in SectorsOf(g) : stamp'[s] = stamp[s]
  BY <1>c, StampsChangeAtFirst
\* What becomes of a sector that is erased or stamped where the walk begins.
<1>e. ASSUME NEW h \in SectorsOf(cur), OrderedFrom(stamp, cur, h),
             Erase(h) \/ (stamp[h] = Erased /\ UNCHANGED stamp)
      PROVE  OrderedFrom(stamp', cur, h)
  <2>1. stamp'[h] = Erased /\ \A s \in SectorsOf(cur) : s # h => stamp'[s] = stamp[s]
    BY <1>i, <1>e DEF Erase
  <2> QED BY <1>i, <1>e, <2>1, EraseKeepsOrder
<1>p. ASSUME PrepareNewSector, NEW g \in Granularities, g = cur
      PROVE  /\ NewSector(g)' = NextSector(g)
             /\ NextSector(g) \in SectorsOf(g)
             /\ OrderedFrom(stamp', g, NextSector(g))
  <2> DEFINE s0 == sectorIndex[g]
  <2>1. /\ offset[g] = 0 /\ pc = "write" /\ offset'[g] = Header
        /\ stamp' = [stamp EXCEPT ![s0] = secondsEpoch]
        /\ UNCHANGED <<sectorIndex, cur>>
    BY <1>p, <1>i DEF PrepareNewSector
  <2>2. OrderedFrom(stamp, g, s0)
    BY <2>1, <1>i DEF NewSector, OrderInv, Initialised
  <2>3. NewSector(g)' = NextSector(g)
    BY <2>1, <1>i, Layout DEF NewSector, NextSector
  <2>4. NextSector(g) \in SectorsOf(g) /\ s0 \in SectorsOf(g)
    BY <1>i, NextSectorInRing
  <2>5. /\ stamp'[s0] = secondsEpoch /\ secondsEpoch # Erased
        /\ \A s \in SectorsOf(g) : s # s0 => stamp'[s] = stamp[s] /\ stamp[s] < secondsEpoch
    BY <1>p, <2>1, <2>4, <1>i DEF ClockInv, Erased
  <2>6. OrderedFrom(stamp', g, NextSector(g))
    BY <2>2, <2>4, <2>5, <1>i, StampKeepsOrder DEF NextSector
  <2> QED BY <2>3, <2>4, <2>6
<1>b. ASSUME InitGranularity
      PROVE  \E h \in SectorsOf(cur) : /\ OrderedFrom(stamp', cur, h)
                                       /\ sectorIndex'[cur] = h
  <2>1. PICK h \in SectorsOf(cur) : OrderedFrom(stamp, cur, h)
    BY <1>i DEF OrderInv
  <2>2. /\ Drops(cur) # {} => Min(Drops(cur)) = h
        /\ Drops(cur) = {} => h = Start[cur]
    BY <1>i, <2>1, InitFindsFirst
  <2>3. Erase(h) \/ (stamp[h] = Erased /\ UNCHANGED stamp)
    BY <1>b, <2>2 DEF InitGranularity, flashVars
  <2>4. sectorIndex'[cur] = h
    <3>1. CASE Drops(cur) # {}
      BY <1>b, <1>i, <2>2, <3>1 DEF InitGranularity
    <3>2. CASE Drops(cur) = {}
      <4>1. sectorIndex'[cur] = 0
        BY <1>b, <1>i, <3>2 DEF InitGranularity
      <4>2. sectorIndex'[cur] \in SectorsOf(cur)
        BY <1>i DEF RingsSeparate
      <4>3. Start[cur] = 0
        BY <4>1, <4>2, <1>i, RingOfNats
      <4> QED BY <4>1, <4>3, <2>2, <3>2
    <3> QED BY <3>1, <3>2
  <2> QED BY <1>e, <2>1, <2>3, <2>4
<1>k. ASSUME NEW g \in Granularities, Initialised(g),
             offset'[g] = offset[g], sectorIndex'[g] = sectorIndex[g],
             \A s \in SectorsOf(g) : stamp'[s] = stamp[s]
      PROVE  OrderedFrom(stamp', g, NewSector(g)')
  <2>1. NewSector(g)' = NewSector(g)
    BY <1>k DEF NewSector, NextSector
  <2> QED BY <1>k, <1>s, <2>1 DEF OrderInv
<1>2. ASSUME NEW g \in Granularities, Initialised(g)'
      PROVE  OrderedFrom(stamp', g, NewSector(g)')
  <2>1. CASE Boot
    BY <1>2, <2>1, <1>i DEF Boot, Initialised, OrderInv
  <2>2. CASE InitGranularity
    <3>1. CASE g = cur
      <4>1. PICK h \in SectorsOf(cur) : OrderedFrom(stamp', cur, h) /\ sectorIndex'[cur] = h
        BY <1>b, <2>2
      <4>2. offset'[cur] = 0
        BY <2>2, <1>i DEF InitGranularity, ErasedInv
      <4> QED BY <3>1, <4>1, <4>2 DEF NewSector
    <3>2. CASE g # cur
      <4>1. Initialised(g)
        BY <1>2, <1>i, <2>2, <3>2 DEF InitGranularity, Initialised
      <4>2. offset'[g] = offset[g] /\ sectorIndex'[g] = sectorIndex[g]
        BY <1>i, <2>2, <3>2 DEF InitGranularity
      <4> QED BY <1>k, <1>c, <3>2, <4>1, <4>2
    <3> QED BY <3>1, <3>2
  <2>3. CASE PrepareNewSector
    <3>1. CASE g = cur
      BY <1>p, <2>3, <3>1
    <3>2. CASE g # cur
      <4>1. Initialised(g) /\ offset'[g] = offset[g] /\ sectorIndex'[g] = sectorIndex[g]
        BY <1>i, <2>3, <3>2 DEF PrepareNewSector, Initialised
      <4> QED BY <1>k, <1>c, <3>2, <4>1
    <3> QED BY <3>1, <3>2
  <2>4. CASE Write
    <3>1. stamp' = stamp /\ Initialised(g)
      BY <2>4 DEF Write, Initialised
    <3>2. CASE g = cur
      <4>1. NewSector(g) = NextSector(g)
        BY <2>4, <3>2 DEF Write, NewSector
      <4>2. NewSector(g)' = NextSector(g)
        <5>1. CASE offset[g] + 1 >= SectorUnits
          BY <2>4, <3>2, <5>1, <1>i DEF Write, NewSector
        <5>2. CASE ~(offset[g] + 1 >= SectorUnits)
          <6>1. offset'[g] = offset[g] + 1 /\ sectorIndex'[g] = sectorIndex[g]
            BY <2>4, <3>2, <5>2, <1>i DEF Write
          <6>2. offset[g] \in Units
            BY <2>4, <3>2, <1>i DEF Write
          <6>3. offset[g] + 1 # 0
            BY <6>2, Layout DEF Units
          <6> QED BY <6>1, <6>3 DEF NewSector, NextSector
        <5> QED BY <5>1, <5>2
      <4> QED BY <1>i, <1>s, <3>1, <3>2, <4>1, <4>2 DEF OrderInv
    <3>3. CASE g # cur
      <4>1. offset'[g] = offset[g] /\ sectorIndex'[g] = sectorIndex[g]
        BY <1>i, <2>4, <3>3 DEF Write
      <4> QED BY <1>k, <3>1, <4>1
    <3> QED BY <3>2, <3>3
  <2>5. CASE Callback \/ Test \/ Average \/ SetClock \/ UNCHANGED vars
    <3>1. UNCHANGED <<stamp, offset, sectorIndex>> /\ Initialised(g)
      BY <1>2, <2>5 DEF Callback, Test, Average, SetClock, vars, flashVars, runtimeVars, Initialised
    <3> QED BY <1>k, <3>1
  <2>6. CASE Abort \/ Reset
    BY <1>2, <2>6 DEF Abort, Reset, PowerOff, Initialised
  <2> QED BY <2>1, <2>2, <2>3, <2>4, <2>5, <2>6 DEF Next
<1>3. ASSUME NEW g \in Granularities
      PROVE  \E h \in SectorsOf(g) : OrderedFrom(stamp', g, h)
  <2>1. CASE \A s \in SectorsOf(g) : stamp'[s] = stamp[s]
    BY <1>s, <2>1 DEF OrderInv
  <2>2. CASE \E s \in SectorsOf(g) : stamp'[s] # stamp[s]
    <3>1. g = cur
      BY <2>2, StampsChangeAtFirst
    <3>2. CASE InitGranularity
      BY <1>b, <3>1, <3>2
    <3>3. CASE PrepareNewSector
      BY <1>p, <3>1, <3>3
    <3>4. CASE Reset
      <4>1. pc = "write" /\ offset[cur] = 0 /\ Erase(sectorIndex[cur])
        BY <2>2, <3>4 DEF Reset, flashVars
      <4>2. OrderedFrom(stamp, cur, sectorIndex[cur])
        BY <4>1, <1>i DEF OrderInv, Initialised, NewSector
      <4> QED BY <1>e, <1>i, <3>1, <4>1, <4>2
    <3>5. CASE Boot \/ Callback \/ Write \/ Test \/ Average \/ Abort \/ SetClock \/ UNCHANGED vars
      BY <2>2, <3>5 DEF Boot, Callback, Write, Test, Average, Abort, SetClock, vars, flashVars
    <3> QED BY <3>2, <3>3, <3>4, <3>5 DEF Next
  <2> QED BY <2>1, <2>2
<1> QED BY <1>1, <1>2, <1>3 DEF OrderInv

LEMMA OrderInitially == Init => OrderInv
<1> SUFFICES ASSUME Init PROVE OrderInv
  OBVIOUS
<1>1. ASSUME NEW g \in Granularities
      PROVE  OrderedFrom(stamp, g, Start[g]) /\ Start[g] \in SectorsOf(g) /\ ~Initialised(g)
  BY RingOfNats, Layout DEF Init, OrderedFrom, Initialised, Place
<1> QED BY <1>1 DEF OrderInv, Init

\* What the properties of the flash rest on.
FlashInv == WithinRings /\ CountersInv /\ ErasedInv /\ ClockInv /\ OrderInv

LEMMA FlashStep ==
    FlashInv /\ RingsSeparate /\ RingsSeparate' /\ ~setBack' /\ [Next]_vars => FlashInv'
BY WithinRingsStep, CountersStep, ErasedStep, ClockStep, OrderStep DEF FlashInv

LEMMA FlashInitially == Init => FlashInv
BY WithinRingsInitially, CountersInitially, ErasedInitially, ClockInitially, OrderInitially
   DEF FlashInv

ErasesOldest ==
    \A g \in Granularities : \A s \in SectorsOf(g) :
        stamp[s] # Erased /\ stamp'[s] # stamp[s]
            => \A t \in SectorsOf(g) : stamp[t] >= stamp[s]

LEMMA ErasesOldestStep == FlashInv /\ RingsSeparate /\ [Next]_vars => ErasesOldest
<1> SUFFICES ASSUME FlashInv, RingsSeparate, [Next]_vars,
                    NEW g \in Granularities, NEW s \in SectorsOf(g),
                    stamp[s] # Erased, stamp'[s] # stamp[s]
             PROVE  \A t \in SectorsOf(g) : stamp[t] >= stamp[s]
  BY DEF ErasesOldest
<1>1. OrderedFrom(stamp, g, s)
  BY StampsChangeAtFirst DEF FlashInv
<1> QED BY <1>1, FirstIsOldest, StampsOrdered DEF FlashInv

LEMMA SetBackStays == TypeOK /\ [Next]_vars /\ ~setBack' => ~setBack
BY DEF Next, Boot, InitGranularity, Callback, PrepareNewSector, Write, Test, Average, Abort,
       Reset, PowerOff, SetClock, vars, clockVars, TypeOK

\* A reset costs a ring its oldest sector at most: what is erased while it
\* holds data is older than all the rest, whatever was cut off and whenever,
\* because Init finds the sector the ring was about to start (the timestamps
\* drop there).  Nothing is assumed of the rings; what is assumed of the clock
\* and of the restarts is in the property.
THEOREM OldestErased == Spec => OnlyOldestErased
<1> DEFINE I == WithinRings /\ (displaced \/ setBack \/ (RingsSeparate /\ FlashInv))
           Erases == ~displaced' /\ ~setBack => ErasesOldest
<1>1. Init => I
  BY WithinRingsInitially, SeparateInitially, FlashInitially
<1>2. I /\ [Next]_vars => I'
  <2> SUFFICES ASSUME I, [Next]_vars, ~displaced', ~setBack' PROVE (RingsSeparate /\ FlashInv)'
    BY WithinRingsStep
  <2>1. ~displaced
    BY DisplacedStays
  <2>2. ~setBack
    BY SetBackStays DEF WithinRings
  <2> QED BY <2>1, <2>2, SeparateStep, FlashStep
<1>3. I /\ [Next]_vars => Erases
  BY DisplacedStays, ErasesOldestStep
<1>4. Spec => [][Erases]_vars
  BY <1>1, <1>2, <1>3, PTL DEF Spec
<1> QED BY <1>4, PTL DEF OnlyOldestErased, ErasesOldest

-----------------------------------------------------------------------------
\* What the walk back from the write location has found after n records.
Path(g, n, f) ==
    f = [i \in 0 .. n |-> IF i = 0 THEN WriteLocation(g) ELSE Back(g, f[i - 1])]

LEMMA PathCells ==
    ASSUME NEW g, NEW n \in Nat, NEW f, Path(g, n, f)
    PROVE  /\ f[0] = WriteLocation(g)
           /\ \A i \in 0 .. n - 1 : f[i + 1] = Back(g, f[i])
<1>1. \A i \in 0 .. n : f[i] = IF i = 0 THEN WriteLocation(g) ELSE Back(g, f[i - 1])
  BY DEF Path
<1>2. ASSUME NEW i \in 0 .. n - 1 PROVE f[i + 1] = Back(g, f[i])
  <2>1. i + 1 \in 0 .. n /\ i + 1 # 0 /\ (i + 1) - 1 = i
    OBVIOUS
  <2> QED BY <1>1, <2>1
<1> QED BY <1>1, <1>2

\* Induction over data is written out: a least number for which there is no
\* path, or two paths differ, would have a path before it.
LEMMA PathExists ==
    ASSUME NEW g, NEW n \in Nat
    PROVE  \E f : Path(g, n, f)
<1> DEFINE Bad == {m \in Nat : ~ \E f : Path(g, m, f)}
<1> SUFFICES ASSUME Bad # {} PROVE FALSE
  OBVIOUS
<1>1. PICK m \in Bad : \A y \in Bad : m <= y
  BY MinOfNats
<1>2. m \in Nat /\ ~ \E f : Path(g, m, f)
  BY <1>1
<1>3. m # 0
  <2>1. Path(g, 0, [i \in 0 .. 0 |-> WriteLocation(g)])
    BY DEF Path
  <2> QED BY <1>2, <2>1
<1>4. m - 1 \in Nat /\ m - 1 \notin Bad
  <2>1. m - 1 \in Nat /\ ~(m <= m - 1)
    BY <1>2, <1>3
  <2> QED BY <1>1, <2>1
<1>5. PICK f : Path(g, m - 1, f)
  BY <1>4
<1> DEFINE h == [i \in 0 .. m |-> IF i = m THEN Back(g, f[m - 1]) ELSE f[i]]
<1>6. ASSUME NEW i \in 0 .. m
      PROVE  h[i] = IF i = 0 THEN WriteLocation(g) ELSE Back(g, h[i - 1])
  <2>1. CASE i = 0
    <3>1. h[i] = f[0]
      BY <1>2, <1>3, <2>1
    <3> QED BY <1>4, <1>5, <2>1, <3>1, PathCells
  <2>2. CASE i # 0
    <3>1. i - 1 \in 0 .. m /\ i - 1 # m
      BY <1>2, <2>2
    <3>2. h[i - 1] = f[i - 1]
      BY <3>1
    <3>3. CASE i = m
      BY <2>2, <3>2, <3>3
    <3>4. CASE i # m
      <4>1. i - 1 \in 0 .. (m - 1) - 1 /\ (i - 1) + 1 = i
        BY <1>2, <2>2, <3>4
      <4>2. f[i] = Back(g, f[i - 1])
        BY <1>4, <1>5, <4>1, PathCells
      <4>3. h[i] = f[i]
        BY <3>4
      <4> QED BY <2>2, <3>2, <4>2, <4>3
    <3> QED BY <3>3, <3>4
  <2> QED BY <2>1, <2>2
<1>7. h = [i \in 0 .. m |-> IF i = 0 THEN WriteLocation(g) ELSE Back(g, h[i - 1])]
  <2>1. h = [i \in 0 .. m |-> h[i]]
    OBVIOUS
  <2> HIDE DEF h
  <2> QED BY <1>6, <2>1
<1>8. Path(g, m, h)
  <2> HIDE DEF h
  <2> QED BY <1>7 DEF Path
<1> QED BY <1>2, <1>8

LEMMA PathsAgree ==
    ASSUME NEW g, NEW m \in Nat, NEW n \in Nat, m <= n, NEW f, NEW h,
           Path(g, m, f), Path(g, n, h)
    PROVE  f[m] = h[m]
<1> DEFINE Bad == {i \in Nat : i <= m /\ f[i] # h[i]}
<1> SUFFICES ASSUME Bad # {} PROVE FALSE
  OBVIOUS
<1>1. PICK i \in Bad : \A y \in Bad : i <= y
  BY MinOfNats
<1>2. i \in Nat /\ i <= m /\ f[i] # h[i]
  BY <1>1
<1>3. i # 0
  BY <1>2, PathCells
<1>4. i - 1 \in Nat /\ i - 1 \notin Bad /\ i - 1 <= m
  <2>1. i - 1 \in Nat /\ ~(i <= i - 1) /\ i - 1 <= m
    BY <1>2, <1>3
  <2> QED BY <1>1, <2>1
<1>5. f[i - 1] = h[i - 1]
  BY <1>4
<1>6. i - 1 \in 0 .. m - 1 /\ i - 1 \in 0 .. n - 1 /\ (i - 1) + 1 = i
  BY <1>2, <1>3
<1>7. f[i] = Back(g, f[i - 1]) /\ h[i] = Back(g, h[i - 1])
  BY <1>6, PathCells
<1> QED BY <1>2, <1>5, <1>7

\* The cursor goes back record by record.
LEMMA CursorCells ==
    ASSUME NEW g
    PROVE  /\ Cursor(g)[0] = WriteLocation(g)
           /\ \A i \in Nat : Cursor(g)[i + 1] = Back(g, Cursor(g)[i])
<1> DEFINE path(n) == CHOOSE f : Path(g, n, f)
           walk == [n \in Nat |-> path(n)[n]]
<1>1. ASSUME NEW n \in Nat PROVE Path(g, n, path(n))
  BY PathExists
<1>2. ASSUME NEW n \in Nat PROVE walk[n] = path(n)[n]
  OBVIOUS
<1>3. walk[0] = WriteLocation(g)
  <2>1. Path(g, 0, path(0))
    BY <1>1
  <2>2. path(0)[0] = WriteLocation(g)
    <3> HIDE DEF path
    <3> QED BY <2>1, PathCells
  <2> QED BY <1>2, <2>2
<1>4. ASSUME NEW n \in Nat PROVE walk[n + 1] = Back(g, walk[n])
  <2>1. n + 1 \in Nat /\ n <= n + 1 /\ n \in 0 .. (n + 1) - 1
    OBVIOUS
  <2>2. Path(g, n, path(n)) /\ Path(g, n + 1, path(n + 1))
    BY <1>1, <2>1
  <2>3. walk[n] = path(n)[n] /\ walk[n + 1] = path(n + 1)[n + 1]
    BY <1>2, <2>1
  <2> HIDE DEF path, walk
  <2>4. path(n)[n] = path(n + 1)[n]
    BY <2>1, <2>2, PathsAgree
  <2>5. path(n + 1)[n + 1] = Back(g, path(n + 1)[n])
    BY <2>1, <2>2, PathCells
  <2> QED BY <2>3, <2>4, <2>5
<1>5. walk = [i \in Nat |-> IF i = 0 THEN WriteLocation(g) ELSE Back(g, walk[i - 1])]
  <2>1. walk = [i \in Nat |-> walk[i]]
    OBVIOUS
  <2> HIDE DEF walk
  <2>2. ASSUME NEW i \in Nat
        PROVE  walk[i] = IF i = 0 THEN WriteLocation(g) ELSE Back(g, walk[i - 1])
    <3>1. CASE i = 0
      BY <1>3, <3>1
    <3>2. CASE i # 0
      <4>1. i - 1 \in Nat /\ (i - 1) + 1 = i
        BY <3>2
      <4> QED BY <1>4, <3>2, <4>1
    <3> QED BY <3>1, <3>2
  <2> QED BY <2>1, <2>2
<1> HIDE DEF walk
<1>6. Cursor(g) = CHOOSE f : f = [i \in Nat |-> IF i = 0 THEN WriteLocation(g)
                                                  ELSE Back(g, f[i - 1])]
  BY DEF Cursor
<1>7. PICK c : /\ c = Cursor(g)
               /\ c = [i \in Nat |-> IF i = 0 THEN WriteLocation(g) ELSE Back(g, c[i - 1])]
  BY <1>5, <1>6
<1>8. \A i \in Nat : c[i] = IF i = 0 THEN WriteLocation(g) ELSE Back(g, c[i - 1])
  BY <1>7
<1>9. ASSUME NEW i \in Nat PROVE c[i + 1] = Back(g, c[i])
  <2>1. i + 1 \in Nat /\ i + 1 # 0 /\ (i + 1) - 1 = i
    OBVIOUS
  <2> QED BY <1>8, <2>1
<1> QED BY <1>7, <1>8, <1>9

-----------------------------------------------------------------------------
\* The j-th cell before unit o of sector s of the first ring, in ring order.
Before(s, o, j) ==
    LET here == IF o = 0 THEN 0 ELSE o - Header
    IN IF j <= here THEN [sector |-> s, unit |-> o - j]
       ELSE [sector |-> IF s = 0 THEN Count[1] - 1 ELSE s - 1,
             unit |-> SectorUnits - (j - here)]

Cells == [sector : Nat, unit : Nat]

LatestInv ==
    /\ latest \in [Granularities -> Seq(Cells)]
    /\ pc \in {"off", "init"} => latest[1] = <<>>
    /\ Len(latest[1]) <= Fused[1]
    /\ Len(latest[1]) >= writeCounter[1] \/ Len(latest[1]) = Fused[1]
    /\ \A j \in 1 .. Len(latest[1]) : latest[1][j] = Before(sectorIndex[1], offset[1], j)

\* An average reads no more records than a sector holds.
AverageFits == Last > 1 /\ Fused[1] <= Records /\ Fused[1] <= Trigger[1]

Pushed(c, q, n) == SubSeq(<<c>> \o q, 1, Min({Len(<<c>> \o q), n}))

InFront(new, c, q, n) ==
    /\ new \in Seq(Cells)
    /\ Len(q) < n => Len(new) = Len(q) + 1
    /\ Len(q) >= n => Len(new) = n
    /\ \A j \in 1 .. Len(new) : /\ j = 1 => new[j] = c
                                /\ j # 1 => new[j] = q[j - 1]

LEMMA PushFront ==
    ASSUME NEW c \in Cells, NEW q \in Seq(Cells), NEW n \in Nat
    PROVE  InFront(Pushed(c, q, n), c, q, n)
<1> DEFINE new == Pushed(c, q, n)
<1> DEFINE all == <<c>> \o q
           m == Min({Len(all), n})
<1>0. new = SubSeq(all, 1, m)
  BY DEF Pushed
<1>1. all \in Seq(Cells) /\ Len(all) = Len(q) + 1 /\ Len(q) \in Nat
  OBVIOUS
<1>2. \A j \in 1 .. Len(all) : all[j] = IF j = 1 THEN c ELSE q[j - 1]
  OBVIOUS
<1>3. m = IF Len(q) < n THEN Len(q) + 1 ELSE n
  <2>1. m \in {Len(all), n} /\ m <= Len(all) /\ m <= n
    <3> DEFINE T == {Len(all), n}
    <3>1. T \subseteq Nat /\ T # {}
      BY <1>1
    <3>2. Min(T) \in T /\ \A y \in T : Min(T) <= y
      <4> HIDE DEF T
      <4> QED BY <3>1, MinOfNats
    <3> QED BY <3>2
  <2> HIDE DEF m, all
  <2> QED BY <1>1, <2>1
<1> HIDE DEF m, all, new
<1>4. m \in Nat /\ m <= Len(all)
  BY <1>1, <1>3
<1>5. new \in Seq(Cells) /\ Len(new) = m /\ \A j \in 1 .. m : new[j] = all[j]
  <2>1. \A i \in 1 .. m : all[i] \in Cells
    BY <1>1, <1>4
  <2>2. m - 1 + 1 = m /\ (1 <= m \/ m = 0) /\ \A i \in 1 .. m : 1 + i - 1 = i
    BY <1>4
  <2>3. /\ SubSeq(all, 1, m) \in Seq(Cells)
        /\ Len(SubSeq(all, 1, m)) = IF 1 <= m THEN m - 1 + 1 ELSE 0
        /\ \A i \in 1 .. m - 1 + 1 : SubSeq(all, 1, m)[i] = all[1 + i - 1]
    BY <1>1, <1>4, <2>1, SubSeqProperties
  <2> QED BY <1>0, <2>2, <2>3
<1>6. \A j \in 1 .. Len(new) : /\ j = 1 => new[j] = c
                               /\ j # 1 => new[j] = q[j - 1]
  BY <1>1, <1>2, <1>4, <1>5
<1>7. (Len(q) < n => Len(new) = Len(q) + 1) /\ (Len(q) >= n => Len(new) = n)
  BY <1>3, <1>5
<1>8. InFront(new, c, q, n)
  BY <1>5, <1>6, <1>7 DEF InFront
<1> QED BY <1>8 DEF new

LEMMA FirstRing ==
    ASSUME AverageFits
    PROVE  /\ 1 \in 1 .. Last - 1 /\ Start[1] = 0 /\ Count[1] \in Nat \ {0}
           /\ Fused[1] \in Nat \ {0} /\ Trigger[1] \in Nat \ {0} /\ Records \in Nat \ {0}
           /\ Header \in Nat \ {0} /\ SectorUnits \in Nat /\ SectorUnits = Header + Records
           /\ Fused[1] <= Records /\ Fused[1] <= Trigger[1] /\ Width \in Nat
           /\ Width > 2 * PartitionUnits
<1>1. 1 \in 1 .. Last - 1
  BY Layout DEF AverageFits
<1> QED BY <1>1, Layout, LayoutAssumption DEF AverageFits, SectorUnits

\* Writing pushes the cells one place back, also when a sector is full.
LEMMA CellsPushed ==
    ASSUME AverageFits, NEW s \in Nat, s < Count[1], NEW o \in Units,
           NEW s2, NEW o2,
           IF o + 1 >= SectorUnits
           THEN s2 = (IF s + 1 = Count[1] THEN 0 ELSE s + 1) /\ o2 = 0
           ELSE s2 = s /\ o2 = o + 1
    PROVE  /\ Before(s2, o2, 1) = [sector |-> s, unit |-> o]
           /\ \A j \in Nat : j > 0 /\ j < Fused[1] =>
                  Before(s2, o2, j + 1) = Before(s, o, j)
<1>i. /\ Header \in Nat \ {0} /\ Records \in Nat \ {0} /\ SectorUnits = Header + Records
      /\ Fused[1] \in Nat \ {0} /\ Fused[1] <= Records /\ Count[1] \in Nat \ {0}
      /\ o \in Int /\ o >= Header /\ o <= Header + Records - 1
  BY FirstRing DEF Units
<1>1. CASE o + 1 >= SectorUnits
  <2>1. o = Header + Records - 1 /\ o2 = 0 /\ o # 0
    BY <1>1, <1>i
  <2>2. (IF s2 = 0 THEN Count[1] - 1 ELSE s2 - 1) = s
    BY <1>1, <1>i
  <2>3. ASSUME NEW j \in Nat, j > 0
        PROVE  Before(s2, o2, j) = [sector |-> s, unit |-> SectorUnits - j]
    BY <2>1, <2>2, <2>3, <1>i DEF Before
  <2>4. SectorUnits - 1 = o
    BY <2>1, <1>i
  <2>5. ASSUME NEW j \in Nat, j > 0, j < Fused[1]
        PROVE  Before(s2, o2, j + 1) = Before(s, o, j)
    <3>1. Before(s2, o2, j + 1) = [sector |-> s, unit |-> SectorUnits - (j + 1)]
      BY <2>3, <2>5
    <3>2. j <= o - Header /\ SectorUnits - (j + 1) = o - j
      BY <1>i, <2>1, <2>5
    <3> QED BY <2>1, <3>1, <3>2 DEF Before
  <2> QED BY <2>3, <2>4, <2>5
<1>2. CASE ~(o + 1 >= SectorUnits)
  <2>1. s2 = s /\ o2 = o + 1 /\ o2 # 0 /\ o # 0 /\ o2 - Header = (o - Header) + 1
    BY <1>2, <1>i
  <2>2. 1 <= o2 - Header /\ o2 - 1 = o
    BY <1>i, <2>1
  <2>3. Before(s2, o2, 1) = [sector |-> s, unit |-> o]
    BY <2>1, <2>2 DEF Before
  <2>4. ASSUME NEW j \in Nat, j > 0, j < Fused[1]
        PROVE  Before(s2, o2, j + 1) = Before(s, o, j)
    <3>1. /\ (j + 1 <= o2 - Header) <=> (j <= o - Header)
          /\ o2 - (j + 1) = o - j
          /\ (j + 1) - (o2 - Header) = j - (o - Header)
      BY <1>i, <2>1
    <3> QED BY <2>1, <3>1 DEF Before
  <2> QED BY <2>3, <2>4
<1> QED BY <1>1, <1>2

LEMMA LatestStep ==
    ASSUME AverageFits
    PROVE  WithinRings /\ LatestInv /\ [Next]_vars => LatestInv'
<1> SUFFICES ASSUME WithinRings, LatestInv, [Next]_vars PROVE LatestInv'
  OBVIOUS
<1>i. /\ latest \in [Granularities -> Seq(Cells)] /\ 1 \in Granularities
      /\ writeCounter \in [Granularities -> Nat] /\ cur \in Granularities
      /\ sectorIndex \in [Granularities -> Nat] /\ sectorIndex[1] < Count[1]
      /\ offset \in [Granularities -> {0} \cup Units]
      /\ Len(latest[1]) <= Fused[1] /\ Len(latest[1]) \in Nat
      /\ Len(latest[1]) >= writeCounter[1] \/ Len(latest[1]) = Fused[1]
      /\ Fused[1] \in Nat \ {0} /\ Header \in Nat \ {0} /\ Start[1] = 0
      /\ \A j \in 1 .. Len(latest[1]) : latest[1][j] = Before(sectorIndex[1], offset[1], j)
  <2>1. sectorIndex \in [Granularities -> Nat] /\ sectorIndex[1] < Count[1]
    <3>1. Sectors \subseteq Nat
      BY Layout DEF Sectors
    <3>2. sectorIndex[1] < Start[1] + Count[1] /\ sectorIndex[1] \in Nat
      BY <3>1, Layout DEF WithinRings, TypeOK
    <3>3. Start[1] = 0 /\ Count[1] \in Nat
      BY FirstRing
    <3>4. sectorIndex \in [Granularities -> Sectors]
      BY DEF WithinRings, TypeOK
    <3>5. \A g \in Granularities : sectorIndex[g] \in Nat
      BY <3>1, <3>4
    <3>6. sectorIndex \in [Granularities -> Nat]
      BY <3>4, <3>5
    <3> QED BY <3>2, <3>3, <3>6
  <2>2. /\ writeCounter \in [Granularities -> Nat] /\ cur \in Granularities
        /\ offset \in [Granularities -> {0} \cup Units]
    BY DEF WithinRings, TypeOK
  <2>3. latest \in [Granularities -> Seq(Cells)] /\ 1 \in Granularities
    BY Layout DEF LatestInv
  <2>4. Len(latest[1]) \in Nat
    BY <2>3
  <2>5. /\ Len(latest[1]) <= Fused[1]
        /\ Len(latest[1]) >= writeCounter[1] \/ Len(latest[1]) = Fused[1]
        /\ \A j \in 1 .. Len(latest[1]) :
               latest[1][j] = Before(sectorIndex[1], offset[1], j)
    BY DEF LatestInv
  <2>6. Fused[1] \in Nat \ {0} /\ Header \in Nat \ {0} /\ Start[1] = 0
    BY FirstRing
  <2> QED BY <2>1, <2>2, <2>3, <2>4, <2>5, <2>6
<1>k. UNCHANGED <<latest, writeCounter>> /\ UNCHANGED <<offset[1], sectorIndex[1]>> /\ pc' \notin {"off", "init"}
        => LatestInv'
  BY <1>i DEF LatestInv
<1>p. PowerOff => LatestInv'
  <2> SUFFICES ASSUME PowerOff PROVE LatestInv'
    OBVIOUS
  <2>1. latest'[1] = <<>> /\ writeCounter'[1] = 0
    BY <1>i DEF PowerOff
  <2>2. latest' \in [Granularities -> Seq(Cells)]
    BY DEF PowerOff
  <2> QED BY <1>i, <2>1, <2>2 DEF LatestInv
<1>1. CASE Boot \/ InitGranularity
  <2>1. latest[1] = <<>> /\ UNCHANGED <<latest, writeCounter>>
    BY <1>1 DEF Boot, InitGranularity, LatestInv, runtimeVars
  <2>2. \A j \in 1 .. Len(latest'[1]) : FALSE
    BY <2>1
  <2> QED BY <1>i, <2>1, <2>2 DEF LatestInv
<1>2. CASE PrepareNewSector
  <2>1. /\ UNCHANGED <<latest, writeCounter, sectorIndex>> /\ pc' = "write"
        /\ offset[cur] = 0 /\ offset' = [offset EXCEPT ![cur] = Header]
    BY <1>2 DEF PrepareNewSector
  <2>2. CASE cur # 1
    BY <1>k, <1>i, <2>1, <2>2
  <2>3. CASE cur = 1
    <3>1. offset[1] = 0 /\ offset'[1] = Header
      BY <1>i, <2>1, <2>3
    <3>2. ASSUME NEW s, NEW j \in Nat, j > 0 PROVE Before(s, Header, j) = Before(s, 0, j)
      BY <3>2, <1>i DEF Before
    <3>3. \A j \in 1 .. Len(latest'[1]) : latest'[1][j] = Before(sectorIndex'[1], offset'[1], j)
      BY <1>i, <2>1, <3>1, <3>2
    <3> QED BY <1>i, <2>1, <3>3 DEF LatestInv
  <2> QED BY <2>2, <2>3
<1>3. CASE Write
  <2>1. /\ writeCounter' = [writeCounter EXCEPT ![cur] = @ + 1] /\ pc' = "test"
        /\ offset[cur] # 0
        /\ latest' = [latest EXCEPT ![cur] =
              Pushed([sector |-> sectorIndex[cur], unit |-> offset[cur]], @, Remembered(cur))]
    BY <1>3 DEF Write, Pushed
  <2>2. latest' \in [Granularities -> Seq(Cells)]
    <3> DEFINE c == [sector |-> sectorIndex[cur], unit |-> offset[cur]]
               new == Pushed(c, latest[cur], Remembered(cur))
    <3>1. c \in Cells
      <4>1. Units \subseteq Nat
        BY Layout DEF Units
      <4> QED BY <1>i, <2>1, <4>1 DEF Cells
    <3>2. Remembered(cur) \in Nat
      <4>1. cur # Last => cur \in 1 .. Last - 1
        BY <1>i, Layout DEF Granularities
      <4> QED BY <4>1, LayoutAssumption DEF Remembered
    <3>3. new \in Seq(Cells)
      <4> HIDE DEF c
      <4>1. InFront(new, c, latest[cur], Remembered(cur))
        BY <1>i, <3>1, <3>2, PushFront
      <4> QED BY <4>1 DEF InFront
    <3>4. latest' = [latest EXCEPT ![cur] = new]
      BY <2>1
    <3> HIDE DEF new
    <3> QED BY <1>i, <3>3, <3>4
  <2>3. CASE cur # 1
    <3>1. latest'[1] = latest[1] /\ writeCounter'[1] = writeCounter[1]
      BY <1>i, <2>1, <2>3
    <3>2. offset'[1] = offset[1] /\ sectorIndex'[1] = sectorIndex[1]
      BY <1>3, <1>i, <2>3 DEF Write
    <3> QED BY <1>i, <2>1, <2>2, <3>1, <3>2 DEF LatestInv
  <2>4. CASE cur = 1
    <3> DEFINE c == [sector |-> sectorIndex[1], unit |-> offset[1]]
               new == Pushed(c, latest[1], Fused[1])
    <3>1. c \in Cells /\ offset[1] \in Units
      <4>1. Units \subseteq Nat
        BY Layout DEF Units
      <4> QED BY <1>i, <2>1, <2>4, <4>1 DEF Cells
    <3>2. Remembered(1) = Fused[1]
      BY Layout DEF Remembered, AverageFits
    <3>3. latest'[1] = new /\ writeCounter'[1] = writeCounter[1] + 1
      BY <1>i, <2>1, <2>4, <3>2
    <3>4. /\ Len(latest[1]) < Fused[1] => Len(new) = Len(latest[1]) + 1
          /\ Len(latest[1]) >= Fused[1] => Len(new) = Fused[1]
          /\ \A j \in 1 .. Len(new) : /\ j = 1 => new[j] = c
                                      /\ j # 1 => new[j] = latest[1][j - 1]
      <4>1. c \in Cells /\ latest[1] \in Seq(Cells) /\ Fused[1] \in Nat
        BY <1>i, <3>1
      <4> HIDE DEF c
      <4>2. InFront(new, c, latest[1], Fused[1])
        BY <4>1, PushFront
      <4> HIDE DEF new
      <4> QED BY ONLY <4>2 DEF InFront
    <3>5. /\ Before(sectorIndex'[1], offset'[1], 1) = c
          /\ \A j \in Nat : j > 0 /\ j < Fused[1] =>
                Before(sectorIndex'[1], offset'[1], j + 1) = Before(sectorIndex[1], offset[1], j)
      <4>1. IF offset[1] + 1 >= SectorUnits
            THEN sectorIndex'[1] = (IF sectorIndex[1] + 1 = Count[1] THEN 0 ELSE sectorIndex[1] + 1)
                 /\ offset'[1] = 0
            ELSE sectorIndex'[1] = sectorIndex[1] /\ offset'[1] = offset[1] + 1
        <5>1. NextSector(1) = IF sectorIndex[1] + 1 = Count[1] THEN 0 ELSE sectorIndex[1] + 1
          <6>1. Start[1] = 0 /\ Count[1] \in Nat
            BY FirstRing
          <6>2. Start[1] + Count[1] = Count[1]
            BY <6>1
          <6> QED BY <6>1, <6>2 DEF NextSector
        <5>2. CASE offset[1] + 1 >= SectorUnits
          <6>1. /\ sectorIndex' = [sectorIndex EXCEPT ![1] = NextSector(1)]
                /\ offset' = [offset EXCEPT ![1] = 0]
            BY <1>3, <2>4, <5>2 DEF Write
          <6> QED BY <1>i, <5>1, <5>2, <6>1
        <5>3. CASE ~(offset[1] + 1 >= SectorUnits)
          <6>1. sectorIndex' = sectorIndex /\ offset' = [offset EXCEPT ![1] = @ + 1]
            BY <1>3, <2>4, <5>3 DEF Write
          <6> QED BY <1>i, <5>3, <6>1
        <5> QED BY <5>2, <5>3
      <4>2. PICK s2, o2 : s2 = sectorIndex'[1] /\ o2 = offset'[1]
        OBVIOUS
      <4>3. sectorIndex[1] \in Nat /\ sectorIndex[1] < Count[1]
        BY <1>i
      <4>4. IF offset[1] + 1 >= SectorUnits
            THEN s2 = (IF sectorIndex[1] + 1 = Count[1] THEN 0 ELSE sectorIndex[1] + 1) /\ o2 = 0
            ELSE s2 = sectorIndex[1] /\ o2 = offset[1] + 1
        BY <4>1, <4>2
      <4>5. /\ Before(s2, o2, 1) = c
            /\ \A j \in Nat : j > 0 /\ j < Fused[1] =>
                  Before(s2, o2, j + 1) = Before(sectorIndex[1], offset[1], j)
        BY ONLY <3>1, <4>3, <4>4, CellsPushed, AverageFits
      <4> QED BY <4>2, <4>5
    <3> HIDE DEF c, new
    <3>6. Len(new) <= Fused[1] /\ (Len(new) >= writeCounter[1] + 1 \/ Len(new) = Fused[1])
      BY <1>i, <3>4
    <3>7. ASSUME NEW j \in 1 .. Len(new)
          PROVE  new[j] = Before(sectorIndex'[1], offset'[1], j)
      <4>1. CASE j = 1
        BY <3>4, <3>5, <4>1
      <4>2. CASE j # 1
        <5>0. /\ Len(new) <= Len(latest[1]) + 1 /\ Len(new) <= Fused[1] /\ Len(new) \in Nat
              /\ Len(latest[1]) \in Nat /\ Fused[1] \in Nat
          BY <1>i, <3>4
        <5>1. /\ j - 1 \in 1 .. Len(latest[1]) /\ j - 1 \in Nat /\ j - 1 > 0
              /\ j - 1 < Fused[1] /\ (j - 1) + 1 = j
          BY <5>0, <4>2
        <5>2. new[j] = latest[1][j - 1]
          BY <3>4, <4>2
        <5>3. latest[1][j - 1] = Before(sectorIndex[1], offset[1], j - 1)
          BY <1>i, <5>1
        <5> QED BY <3>5, <5>1, <5>2, <5>3
      <4> QED BY <4>1, <4>2
    <3> QED BY <2>1, <2>2, <3>3, <3>6, <3>7 DEF LatestInv
  <2> QED BY <2>3, <2>4
<1>4. CASE Average
  <2>1. UNCHANGED <<latest, offset, sectorIndex>> /\ pc' = "write"
        /\ writeCounter' = [writeCounter EXCEPT ![cur] = 0]
    BY <1>4 DEF Average
  <2>2. writeCounter'[1] = 0 \/ writeCounter'[1] = writeCounter[1]
    BY <1>i, <2>1
  <2>3. Len(latest[1]) >= writeCounter'[1] \/ Len(latest[1]) = Fused[1]
    BY <1>i, <2>2
  <2> QED BY <1>i, <2>1, <2>3 DEF LatestInv
<1>5. CASE Callback \/ Test
  BY <1>5, <1>k DEF Callback, Test, runtimeVars
<1>7. CASE SetClock
  BY <1>7, <1>i DEF SetClock, runtimeVars, LatestInv
<1>6. CASE UNCHANGED vars
  BY <1>6, <1>i DEF vars, runtimeVars, LatestInv
<1> QED BY <1>1, <1>2, <1>3, <1>4, <1>5, <1>6, <1>7, <1>p DEF Next, Abort, Reset

LEMMA LatestInitially == AverageFits /\ Init => LatestInv
<1> SUFFICES ASSUME AverageFits, Init PROVE LatestInv
  OBVIOUS
<1>1. latest[1] = <<>> /\ writeCounter[1] = 0 /\ latest \in [Granularities -> Seq(Cells)]
  BY Layout DEF Init
<1> QED BY <1>1, FirstRing DEF LatestInv

-----------------------------------------------------------------------------
\* What the average reads.
LEMMA Enough ==
    ASSUME AverageFits, WithinRings
    PROVE  /\ sectorIndex[1] \in Nat
           /\ PartitionUnits \in Nat
           /\ (sectorIndex[1] + 1) * SectorUnits <= PartitionUnits
<1>1. Sectors \subseteq 0 .. Header
  <2>1. ASSUME NEW g \in Granularities PROVE SectorsOf(g) \subseteq 0 .. Header
    <3>1. Start[g] + Count[g] <= Start[Last] + Count[Last]
      <4>1. CASE g = Last
        BY <4>1, Layout
      <4>2. CASE g # Last
        <5>1. g < Last /\ Last \in Granularities
          BY <4>2, Layout DEF Granularities
        <5>2. Start[g] + Count[g] <= Start[Last]
          BY <5>1, LayoutAssumption
        <5>3. /\ Start[g] \in Nat /\ Count[g] \in Nat
              /\ Start[Last] \in Nat /\ Count[Last] \in Nat
          BY <5>1, Layout
        <5> QED BY <5>2, <5>3
      <4> QED BY <4>1, <4>2
    <3>2. Last \in Granularities
      BY Layout DEF Granularities
    <3>3. /\ Start[g] \in Nat /\ Count[g] \in Nat
          /\ Start[Last] \in Nat /\ Count[Last] \in Nat /\ Header \in Nat
          /\ Header > Start[Last] + Count[Last]
      BY <3>2, Layout, LayoutAssumption
    <3> QED BY <3>1, <3>3 DEF SectorsOf
  <2> QED BY <2>1 DEF Sectors
<1>2. IsFiniteSet(Sectors)
  <2>1. IsFiniteSet(0 .. Header)
    BY Layout, FS_Interval
  <2> QED BY <1>1, <2>1, FS_Subset
<1>3. sectorIndex[1] \in Nat /\ sectorIndex[1] < Start[1] + Count[1]
  <2>1. sectorIndex[1] \in Sectors
    BY Layout DEF WithinRings, TypeOK
  <2>2. sectorIndex[1] \in 0 .. Header
    BY <1>1, <2>1
  <2>3. sectorIndex[1] \in Nat
    BY <2>2
  <2> QED BY <2>3, Layout DEF WithinRings
<1> DEFINE s == sectorIndex[1]
<1>4. 0 .. s \subseteq Sectors
  <2> SUFFICES ASSUME NEW n \in 0 .. s PROVE n \in Sectors
    OBVIOUS
  <2>1. n \in Nat /\ n < Start[1] + Count[1] /\ 1 \in Granularities
    BY <1>3, Layout
  <2> QED BY <2>1, SectorsBelow
<1> HIDE DEF s
<1>5. s \in Nat
  BY <1>3 DEF s
<1>6. Cardinality(0 .. s) = s + 1
  BY <1>5, FS_Interval
<1>7. Cardinality(Sectors) \in Nat
  BY <1>2, FS_CardinalityType
<1>8. s + 1 <= Cardinality(Sectors)
  BY <1>2, <1>4, <1>6, FS_Subset
<1> DEFINE n == Cardinality(Sectors)
<1>9. n \in Nat /\ s + 1 <= n /\ PartitionUnits = n * SectorUnits
  BY <1>7, <1>8 DEF PartitionUnits
<1> HIDE DEF n
<1>10. SectorUnits \in Nat
  BY FirstRing
<1> DEFINE u == SectorUnits
<1>11. u \in Nat
  BY <1>10
<1> HIDE DEF u
<1>12. (s + 1) * u <= n * u /\ n * u \in Nat
  <2>1. PICK d \in Nat : n = (s + 1) + d
    <3>1. n - (s + 1) \in Nat /\ n = (s + 1) + (n - (s + 1))
      BY <1>5, <1>9
    <3> QED BY <3>1
  <2>2. n * u = (s + 1) * u + d * u /\ d * u \in Nat /\ (s + 1) * u \in Nat
    BY <1>5, <1>11, <2>1
  <2> QED BY <2>2
<1> QED BY <1>5, <1>9, <1>12 DEF s, u

LEMMA Unwrapped ==
    ASSUME NEW w \in Nat \ {0}, NEW r \in Nat, r < w
    PROVE  r % w = r /\ (w + r) % w = r
OBVIOUS

LEMMA MultipleAdded ==
    ASSUME NEW w \in Nat \ {0}, NEW r \in Nat, r < w, NEW q \in Int
    PROVE  (q * w + r) % w = r
OBVIOUS

LEMMA Product ==
    ASSUME NEW a \in Nat, NEW b \in Nat \ {0}
    PROVE  a * b \in Nat /\ a <= a * b
<1>1. PICK d \in Nat : b = 1 + d
  <2>1. b - 1 \in Nat /\ b = 1 + (b - 1)
    OBVIOUS
  <2> QED BY <2>1
<1>2. a * b = a + a * d /\ a * d \in Nat
  BY <1>1
<1> QED BY <1>2

\* The sizes an average meets.
Sizes(s) ==
    /\ Header \in Nat \ {0} /\ Records \in Nat \ {0} /\ SectorUnits \in Nat \ {0}
    /\ SectorUnits = Header + Records
    /\ Fused[1] \in Nat \ {0} /\ Fused[1] <= Records /\ Count[1] \in Nat \ {0}
    /\ Start[1] = 0 /\ Width \in Nat \ {0} /\ PartitionUnits \in Nat
    /\ Width > 2 * PartitionUnits /\ s \in Nat
    /\ s * SectorUnits \in Nat /\ s <= s * SectorUnits
    /\ s * SectorUnits + SectorUnits <= PartitionUnits

LEMMA SizesHold ==
    ASSUME AverageFits, WithinRings
    PROVE  Sizes(sectorIndex[1])
<1> DEFINE s == sectorIndex[1]
           u == SectorUnits
<1>1. s \in Nat /\ PartitionUnits \in Nat /\ (s + 1) * u <= PartitionUnits
  BY Enough
<1>2. u \in Nat \ {0}
  BY FirstRing
<1> HIDE DEF s, u
<1>3. s * u \in Nat /\ s <= s * u
  BY <1>1, <1>2, Product
<1>4. (s + 1) * u = s * u + u
  BY <1>1, <1>2
<1>5. s * u + u <= PartitionUnits
  BY <1>1, <1>4
<1>6. Width \in Nat \ {0}
  BY FirstRing, <1>1
<1> QED BY <1>1, <1>2, <1>3, <1>5, <1>6, FirstRing DEF Sizes, s, u

\* Reading back from the middle of a sector: cell by cell those before it, or
\* an address outside the partition.
LEMMA StepBack ==
    ASSUME NEW s, Sizes(s), NEW o \in Nat, o >= Header, o < SectorUnits,
           NEW j \in Nat, j < Fused[1],
           Address(Back(1, Before(s, o, j))) < PartitionUnits
    PROVE  Back(1, Before(s, o, j)) = Before(s, o, j + 1)
<1> DEFINE u == SectorUnits
           w == Width
           h == o - Header
<1>i. /\ Header \in Nat \ {0} /\ Records \in Nat \ {0} /\ u = Header + Records /\ u \in Nat \ {0}
      /\ Fused[1] \in Nat \ {0} /\ Fused[1] <= Records /\ Count[1] \in Nat \ {0}
      /\ Start[1] = 0 /\ w \in Nat \ {0} /\ PartitionUnits \in Nat /\ s \in Nat
      /\ o # 0 /\ h \in Nat /\ o = Header + h /\ h < Records /\ o < u
  BY DEF Sizes
<1>w. u < w /\ s + 1 < w /\ PartitionUnits < w - 1
  BY DEF Sizes
<1>m. \A r \in Nat : r < w => r % w = r
  BY <1>i, Unwrapped
<1> DEFINE prev == IF s = 0 THEN Count[1] - 1 ELSE s - 1
<1>h. ASSUME NEW k \in Nat, k <= h
      PROVE  Before(s, o, k) = [sector |-> s, unit |-> o - k]
  BY <1>i, <1>h DEF Before
<1>l. ASSUME NEW k \in Nat, k > h
      PROVE  Before(s, o, k) = [sector |-> prev, unit |-> u - (k - h)]
  <2>1. ~(k <= h)
    BY <1>i, <1>l
  <2> QED BY <1>i, <2>1 DEF Before
<1> HIDE DEF h, u, w, prev
<1>1. CASE j + 1 <= h
  <2>1. Before(s, o, j) = [sector |-> s, unit |-> o - j]
    <3>1. j <= h
      BY <1>i, <1>1
    <3> QED BY <1>h, <3>1
  <2>2. Before(s, o, j + 1) = [sector |-> s, unit |-> o - (j + 1)]
    <3>1. j + 1 \in Nat
      BY <1>i
    <3> QED BY <1>1, <1>h, <3>1
  <2>3. (o - j) - 1 = o - (j + 1) /\ o - (j + 1) \in Nat /\ o - (j + 1) < w /\ o - (j + 1) >= Header
    BY <1>i, <1>w, <1>1
  <2>4. ((o - j) - 1) % w = o - (j + 1)
    BY <1>m, <2>3
  <2> QED BY <2>1, <2>2, <2>3, <2>4 DEF Back, w
<1>2. CASE j = h
  <2>1. Before(s, o, j) = [sector |-> s, unit |-> Header]
    <3>1. o - j = Header /\ j <= h
      BY <1>i, <1>2
    <3> QED BY <1>h, <3>1
  <2>2. (Header - 1) % w = Header - 1 /\ ~(Header - 1 >= Header)
    <3>1. Header - 1 \in Nat /\ Header - 1 < w
      BY <1>i, <1>w
    <3> QED BY <1>i, <1>m, <3>1
  <2>3. CASE s # 0
    <3>1. s - 1 \in Nat /\ s - 1 < w
      BY <1>i, <1>w, <2>3
    <3>2. (s - 1) % w = s - 1 /\ ~(s - 1 < Start[1])
      BY <1>i, <1>m, <3>1
    <3>3. Back(1, Before(s, o, j)) = [sector |-> s - 1, unit |-> u - 1]
      BY <2>1, <2>2, <3>2 DEF Back, w, u
    <3>4. j + 1 \in Nat /\ j + 1 > h /\ (j + 1) - h = 1
      BY <1>i, <1>2
    <3>5. Before(s, o, j + 1) = [sector |-> prev, unit |-> u - 1]
      BY <1>l, <3>4
    <3>6. prev = s - 1
      BY <2>3 DEF prev
    <3> QED BY <3>3, <3>5, <3>6
  <2>4. CASE s = 0
    <3>1. (s - 1) % w = w - 1 /\ ~(w - 1 < Start[1])
      <4>1. (0 - 1) % w = w - 1
        BY <1>i
      <4>2. s - 1 = 0 - 1
        BY <2>4
      <4> QED BY <1>i, <4>1, <4>2
    <3>2. Back(1, Before(s, o, j)) = [sector |-> w - 1, unit |-> u - 1]
      BY <2>1, <2>2, <3>1 DEF Back, w, u
    <3>3. (w - 1) * u + (u - 1) = (u - 1) * w + (w - 1)
      BY <1>i
    <3>4. ((u - 1) * w + (w - 1)) % w = w - 1
      <4>1. u - 1 \in Int /\ w - 1 \in Nat /\ w - 1 < w
        BY <1>i
      <4> QED BY <1>i, <4>1, MultipleAdded
    <3>5. Address(Back(1, Before(s, o, j))) = w - 1
      BY <3>2, <3>3, <3>4 DEF Address, w, u
    <3> QED BY <1>i, <1>w, <3>5
  <2> QED BY <2>3, <2>4
<1>3. CASE j > h
  <2>1. Before(s, o, j) = [sector |-> prev, unit |-> u - (j - h)]
    BY <1>3, <1>l
  <2>2. Before(s, o, j + 1) = [sector |-> prev, unit |-> u - ((j + 1) - h)]
    <3>1. j + 1 \in Nat /\ j + 1 > h
      BY <1>i, <1>3
    <3> QED BY <1>l, <3>1
  <2>3. /\ (u - (j - h)) - 1 = u - ((j + 1) - h) /\ u - ((j + 1) - h) \in Nat
        /\ u - ((j + 1) - h) < w /\ u - ((j + 1) - h) >= Header
    BY <1>i, <1>w, <1>3
  <2>4. ((u - (j - h)) - 1) % w = u - ((j + 1) - h)
    BY <1>m, <2>3
  <2> QED BY <2>1, <2>2, <2>3, <2>4 DEF Back, w
<1>4. j + 1 <= h \/ j = h \/ j > h
  BY <1>i
<1> QED BY <1>1, <1>2, <1>3, <1>4

\* Reading back from the start of a sector, the unit wraps, and the address
\* with it; in sector 0 it stays outside the partition.
Wrapped(s, i) == [sector |-> s, unit |-> IF i = 0 THEN 0 ELSE Width - i]

LEMMA StepBackFromStart ==
    ASSUME NEW s, Sizes(s), NEW j \in Nat, j < Fused[1]
    PROVE  Back(1, Wrapped(s, j)) = Wrapped(s, j + 1)
<1> DEFINE w == Width
<1>1. /\ w \in Nat \ {0} /\ j + 1 < w /\ j + 1 # 0 /\ j + 1 \in Nat
      /\ w - (j + 1) \in Nat /\ w - (j + 1) >= Header /\ w - (j + 1) < w
  BY DEF Sizes
<1>2. (Wrapped(s, j).unit - 1) % w = w - (j + 1)
  <2>1. CASE j = 0
    <3>1. Wrapped(s, j).unit = 0
      BY <2>1 DEF Wrapped
    <3>2. (0 - 1) % w = w - 1
      BY <1>1
    <3> QED BY <2>1, <3>1, <3>2
  <2>2. CASE j # 0
    <3>1. (w - j) - 1 = w - (j + 1)
      BY <1>1
    <3>2. (w - (j + 1)) % w = w - (j + 1)
      BY <1>1, Unwrapped
    <3>3. Wrapped(s, j).unit = w - j
      BY <2>2 DEF Wrapped
    <3> QED BY <3>1, <3>2, <3>3
  <2> QED BY <2>1, <2>2
<1>3. Wrapped(s, j).sector = s /\ Wrapped(s, j + 1) = [sector |-> s, unit |-> w - (j + 1)]
  BY <1>1 DEF Wrapped
<1> HIDE DEF w
<1> QED BY <1>1, <1>2, <1>3 DEF Back, w

LEMMA WrappedAddress ==
    ASSUME NEW s, Sizes(s), NEW i \in Nat \ {0}, i <= Fused[1],
           Address(Wrapped(s, i)) < PartitionUnits
    PROVE  Address(Wrapped(s, i)) = Address(Before(s, 0, i))
<1> DEFINE u == SectorUnits
           w == Width
           a == s * u
<1>i. /\ a \in Nat /\ s <= a /\ a + u <= PartitionUnits /\ w \in Nat \ {0} /\ u \in Nat \ {0}
      /\ i < u /\ w > 2 * PartitionUnits /\ PartitionUnits \in Nat /\ s \in Nat
      /\ s * u \in Nat
  BY DEF Sizes
<1>1. Address(Wrapped(s, i)) = (a + (w - i)) % w
  BY DEF Address, Wrapped
<1>2. CASE s = 0
  <2>1. a + (w - i) = w - i /\ w - i \in Nat /\ w - i < w /\ w - i > PartitionUnits
    <3>1. a = 0
      BY <1>i, <1>2
    <3> HIDE DEF a, w, u
    <3> QED BY <1>i, <3>1
  <2>2. (w - i) % w = w - i
    BY <1>i, <2>1, Unwrapped
  <2> HIDE DEF a, w, u
  <2> QED BY <1>i, <1>1, <2>1, <2>2
<1>3. CASE s # 0
  <2>1. Before(s, 0, i) = [sector |-> s - 1, unit |-> u - i]
    BY <1>3, <1>i DEF Before
  <2>2. (s - 1) * u + (u - i) = a - i
    BY <1>i
  <2>3. a >= u
    <3>1. s - 1 \in Nat /\ (s - 1) * u \in Nat /\ a = (s - 1) * u + u
      <4>1. s - 1 \in Nat
        BY <1>i, <1>3
      <4>2. (s - 1) * u \in Nat
        BY <1>i, <4>1, Product
      <4>3. a = (s - 1) * u + u
        BY <1>i
      <4> QED BY <4>1, <4>2, <4>3
    <3> HIDE DEF a, u
    <3> QED BY <1>i, <3>1
  <2>4. Address(Before(s, 0, i)) = (a - i) % w
    BY <2>1, <2>2 DEF Address
  <2>5. a - i \in Nat /\ a - i < w /\ a + (w - i) = w + (a - i)
    <3> HIDE DEF a, u, w
    <3> QED BY <1>i, <2>3
  <2>6. (w + (a - i)) % w = a - i /\ (a - i) % w = a - i
    <3> HIDE DEF a, u, w
    <3> QED BY <1>i, <2>5, Unwrapped
  <2> HIDE DEF a, u, w
  <2> QED BY <1>1, <2>4, <2>5, <2>6
<1> QED BY <1>2, <1>3

LEMMA CursorFollows ==
    ASSUME NEW n \in Nat, NEW f, f[0] = WriteLocation(1),
           \A i \in 0 .. n - 1 : Cursor(1)[i] = f[i] => Cursor(1)[i + 1] = f[i + 1]
    PROVE  \A i \in 0 .. n : Cursor(1)[i] = f[i]
<1> DEFINE Bad == {i \in Nat : i <= n /\ Cursor(1)[i] # f[i]}
<1> SUFFICES ASSUME Bad # {} PROVE FALSE
  OBVIOUS
<1>1. PICK i \in Bad : \A y \in Bad : i <= y
  BY MinOfNats
<1>2. i \in Nat /\ i <= n /\ Cursor(1)[i] # f[i]
  BY <1>1
<1>3. i # 0
  BY <1>2, CursorCells
<1>4. i - 1 \in Nat /\ ~(i <= i - 1) /\ i - 1 <= n /\ i - 1 \in 0 .. n - 1 /\ (i - 1) + 1 = i
  BY <1>2, <1>3
<1>5. i - 1 \notin Bad
  BY <1>1, <1>4
<1>6. Cursor(1)[i - 1] = f[i - 1]
  BY <1>4, <1>5
<1> QED BY <1>2, <1>4, <1>6

\* An average that reads inside the partition reads the cells before the
\* write location.
LEMMA ReadsBefore ==
    ASSUME AverageFits, WithinRings, InRange(1), NEW i \in 1 .. Fused[1]
    PROVE  Address(Cursor(1)[i]) = Address(Before(sectorIndex[1], offset[1], i))
<1> DEFINE s == sectorIndex[1]
           o == offset[1]
           n == Fused[1]
<1>1. Sizes(s) /\ n \in Nat \ {0} /\ o \in {0} \cup Units
  BY SizesHold, FirstRing, Layout DEF WithinRings, TypeOK
<1>2. \A k \in 1 .. n : Address(Cursor(1)[k]) < PartitionUnits
  BY DEF InRange, CellsRead
<1>3. WriteLocation(1) = [sector |-> s, unit |-> o]
  BY DEF WriteLocation
<1>4. \A k \in 0 .. n - 1 : k \in Nat /\ k < n /\ k + 1 \in 1 .. n /\ k \in 0 .. n /\ k + 1 \in 0 .. n
  BY <1>1
<1>5. i \in 0 .. n /\ i \in Nat \ {0} /\ i <= n /\ 0 \in 0 .. n
  BY <1>1
<1> HIDE DEF s, o, n
<1>6. CASE o = 0
  <2> DEFINE f == [k \in 0 .. n |-> Wrapped(s, k)]
  <2>1. f[0] = WriteLocation(1)
    BY <1>3, <1>5, <1>6 DEF Wrapped
  <2>2. ASSUME NEW k \in 0 .. n - 1, Cursor(1)[k] = f[k] PROVE Cursor(1)[k + 1] = f[k + 1]
    <3>1. f[k] = Wrapped(s, k) /\ f[k + 1] = Wrapped(s, k + 1)
      BY <1>4
    <3>2. Back(1, Wrapped(s, k)) = Wrapped(s, k + 1)
      BY <1>1, <1>4, StepBackFromStart DEF n
    <3> QED BY <1>4, <2>2, <3>1, <3>2, CursorCells
  <2>3. f[i] = Wrapped(s, i)
    BY <1>5
  <2> HIDE DEF f
  <2>4. Cursor(1)[i] = Wrapped(s, i)
    BY <1>1, <1>5, <2>1, <2>2, <2>3, CursorFollows
  <2>5. Address(Wrapped(s, i)) < PartitionUnits
    BY <1>2, <2>4 DEF n
  <2>6. Address(Wrapped(s, i)) = Address(Before(s, 0, i))
    BY <1>1, <1>5, <2>5, WrappedAddress DEF n
  <2> QED BY <1>6, <2>4, <2>6 DEF s, o
<1>7. CASE o # 0
  <2> DEFINE f == [k \in 0 .. n |-> Before(s, o, k)]
  <2>o. o \in Nat /\ o >= Header /\ o < SectorUnits /\ Header \in Nat
    <3>1. Header \in Nat /\ SectorUnits \in Nat
      BY Layout
    <3> QED BY <1>1, <1>7, <3>1 DEF Units
  <2>1. f[0] = WriteLocation(1)
    <3>1. Before(s, o, 0) = [sector |-> s, unit |-> o]
      <4>1. 0 <= o - Header /\ o - 0 = o
        BY <2>o
      <4> QED BY <1>7, <4>1 DEF Before
    <3> QED BY <1>3, <1>5, <3>1
  <2>2. ASSUME NEW k \in 0 .. n - 1, Cursor(1)[k] = f[k] PROVE Cursor(1)[k + 1] = f[k + 1]
    <3>1. f[k] = Before(s, o, k) /\ f[k + 1] = Before(s, o, k + 1)
      BY <1>4
    <3>2. Cursor(1)[k + 1] = Back(1, Before(s, o, k))
      BY <1>4, <2>2, <3>1, CursorCells
    <3>3. Address(Back(1, Before(s, o, k))) < PartitionUnits
      BY <1>2, <1>4, <3>2
    <3>4. Back(1, Before(s, o, k)) = Before(s, o, k + 1)
      BY <1>1, <1>4, <2>o, <3>3, StepBack DEF n
    <3> QED BY <3>1, <3>2, <3>4
  <2>3. f[i] = Before(s, o, i)
    BY <1>5
  <2> HIDE DEF f
  <2>4. Cursor(1)[i] = Before(s, o, i)
    BY <1>1, <1>5, <2>1, <2>2, <2>3, CursorFollows
  <2> QED BY <2>4 DEF s, o
<1> QED BY <1>6, <1>7

\* Averages of the first ring either fail or read the records last written to
\* it, wherever the ring wraps and wherever a sector ends, provided that they
\* read no more records than trigger them or a sector holds (the code reads
\* the six that trigger it, of a sector's 504): the size_t that wraps below
\* offset 0 wraps back in the address, except in sector 0, where the read is
\* out of the partition (AverageNReadingsAndResetWriteCounter).
THEOREM FirstAverageReadsLatest ==
    ASSUME AverageFits
    PROVE  Spec => []FirstAverageExact
<1>1. WithinRings /\ CountersInv /\ LatestInv => FirstAverageExact
  <2> SUFFICES ASSUME WithinRings, CountersInv, LatestInv, pc = "average", cur = 1, InRange(1)
               PROVE  CellsRead(1) = [i \in 1 .. Fused[1] |-> Address(latest[1][i])]
    BY DEF FirstAverageExact
  <2>1. Len(latest[1]) = Fused[1]
    <3>1. writeCounter[1] = Trigger[1]
      BY DEF CountersInv
    <3>2. Len(latest[1]) \in Nat
      BY Layout DEF LatestInv
    <3> QED BY <3>1, <3>2, FirstRing DEF LatestInv
  <2>2. ASSUME NEW i \in 1 .. Fused[1]
        PROVE  Address(Cursor(1)[i]) = Address(latest[1][i])
    <3>1. latest[1][i] = Before(sectorIndex[1], offset[1], i)
      BY <2>1 DEF LatestInv
    <3> QED BY <3>1, ReadsBefore
  <2> QED BY <2>2 DEF CellsRead
<1>2. WithinRings /\ LatestInv /\ [Next]_vars => LatestInv'
  BY LatestStep
<1>3. Init => LatestInv
  BY LatestInitially
<1> QED BY <1>1, <1>2, <1>3, WithinRingsInitially, WithinRingsStep, CountersInitially, CountersStep,
           PTL DEF Spec
=============================================================================
