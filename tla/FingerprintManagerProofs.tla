---------------------- MODULE FingerprintManagerProofs ----------------------
(***************************************************************************)
(* Proofs about FingerprintManager, under all the faults the environment   *)
(* may show: resets, lost answers, refused templates, slow enrollments and *)
(* requests that overlap one.                                              *)
(***************************************************************************)
EXTENDS FingerprintManager, MinFacts, SequenceTheorems, TLAPS

BeginPhases == {"check", "name", "action", "scheduler"}
StorePhases == {"name", "action", "scheduler"}
DeletePhases == {"deleteName", "deleteAction", "deleteScheduler"}
DeleteAllPhases == {"deleteNames", "deleteActions", "deleteSchedulers"}
JobPhases == StorePhases \cup DeletePhases \cup {"rename"}

-----------------------------------------------------------------------------
\* What is stored in a namespace is stored for a finger: the steps that store
\* have an index, and a name where they need one.
TypesInv ==
    /\ TypeOK
    /\ \A k \in 1 .. Len(rx) : rx[k].last => rx[k].index \in Indices
    /\ task \in StorePhases => taskIndex \in Indices
    /\ httpd \in JobPhases => jobIndex \in Indices /\ jobName \in Names
    /\ httpd = "enroll" \/ isInEnrollment \/ task = "name" => fingerName \in Names

LEMMA Lowest ==
    ASSUME TypesInv, toCheck # {}
    PROVE  Min(toCheck) \in toCheck /\ Min(toCheck) \in Indices
<1>1. toCheck \subseteq Indices /\ Indices \subseteq Nat
  BY FingersAssumption DEF TypesInv, TypeOK
<1> QED BY <1>1, MinOfNats

LEMMA UnreadTypes == TypesInv => Unread \subseteq Indices
BY DEF TypesInv, Unread

LEMMA SendsTypes ==
    ASSUME TypesInv, NEW last \in BOOLEAN, NEW i \in Indices \cup {None},
           last => i \in Indices, Sends(last, i)
    PROVE  rx' \in Seq(Packets) /\ \A k \in 1 .. Len(rx') : rx'[k].last => rx'[k].index \in Indices
<1>1. rx \in Seq(Packets) /\ \A k \in 1 .. Len(rx) : rx[k].last => rx[k].index \in Indices
  BY DEF TypesInv, TypeOK
<1> DEFINE p == [last |-> last, index |-> i, for |-> asked]
<1>2. p \in Packets
  BY DEF TypesInv, TypeOK, Packets
<1>3. CASE rx' = Append(rx, p)
  <2>1. p.last => p.index \in Indices
    OBVIOUS
  <2> HIDE DEF p
  <2> QED BY <1>1, <1>2, <1>3, <2>1, AppendProperties
<1>4. CASE UNCHANGED rx
  BY <1>1, <1>4
<1> QED BY <1>3, <1>4 DEF Sends

LEMMA TypesStep == TypesInv /\ [Next]_vars => TypesInv'
<1> SUFFICES ASSUME TypesInv, [Next]_vars PROVE TypesInv'
  OBVIOUS
<1> DEFINE Received == /\ rx \in Seq(Packets)
                       /\ \A k \in 1 .. Len(rx) : rx[k].last => rx[k].index \in Indices
           Sensor == library \in SUBSET Indices /\ sensor \in {"idle", "enrolling"}
                     /\ asked \in Names \cup {None}
           Stored == name2index \in [Names -> Indices \cup {None}]
                     /\ index2action \in [Indices -> Actions \cup {None}]
                     /\ index2scheduler \in [Indices -> Schedules \cup {None}]
                     /\ granted \in SUBSET Indices
           Task == /\ isInEnrollment \in BOOLEAN
                   /\ task \in {"off", "loop"} \cup StorePhases
                   /\ taskIndex \in Indices \cup {None} /\ taskFor \in Names \cup {None}
                   /\ task \in StorePhases => taskIndex \in Indices
           Httpd == /\ httpd \in {"off", "idle", "enroll"} \cup BeginPhases \cup JobPhases
                                     \cup DeleteAllPhases
                    /\ jobIndex \in Indices \cup {None} /\ jobName \in Names \cup {None}
                    /\ toCheck \in SUBSET FirstPage
                    /\ httpd \in JobPhases => jobIndex \in Indices /\ jobName \in Names
           Buffer == /\ fingerName \in Names \cup {None}
                     /\ httpd = "enroll" \/ isInEnrollment \/ task = "name" => fingerName \in Names
           Cut == unstored \in SUBSET Indices /\ torn \in SUBSET Indices /\ overwritten \in BOOLEAN
<1>i. Received /\ Sensor /\ Stored /\ Task /\ Httpd /\ Buffer /\ Cut /\ Unread \subseteq Indices
  BY UnreadTypes DEF TypesInv, TypeOK, StorePhases, BeginPhases, JobPhases, DeletePhases,
     DeleteAllPhases
<1>q. Received' /\ Sensor' /\ Stored' /\ Task' /\ Httpd' /\ Buffer' /\ Cut' => TypesInv'
  BY DEF TypesInv, TypeOK, StorePhases, BeginPhases, JobPhases, DeletePhases, DeleteAllPhases
<1>r. rx' = <<>> => Received'
  BY EmptySeq
<1>n. ASSUME NEW last \in BOOLEAN, NEW j \in Indices \cup {None}, last => j \in Indices,
             Sends(last, j)
      PROVE  Received'
  BY <1>n, SendsTypes
<1>f. /\ "ALWAYS" \in Schedules /\ NoAction \in Actions /\ FirstPage \subseteq Indices
      /\ DummyName \in [Indices -> Names] /\ None \notin Indices
  BY FingersAssumption
<1> USE DEF sensorVars, nvsVars, taskVars, httpdVars, historyVars, cutVars,
            BeginPhases, StorePhases, DeletePhases, DeleteAllPhases, JobPhases
<1>k. /\ UNCHANGED nvsVars => Stored'
      /\ UNCHANGED taskVars => Task'
      /\ UNCHANGED sensorVars => Received' /\ Sensor'
      /\ UNCHANGED httpdVars => Httpd'
      /\ UNCHANGED historyVars => Cut'
      /\ UNCHANGED <<taskVars, fingerName>> /\ httpd' # "enroll" => Buffer'
  BY <1>i
\* What SetName and CutOff leave.
<1>s. ASSUME NEW n \in Names, NEW j \in Indices, NEW v \in {j, None}, SetName(n, v, j),
             UNCHANGED <<index2action, index2scheduler, granted, unstored, overwritten>>
      PROVE  Stored' /\ Cut'
  BY <1>s, <1>i DEF SetName
<1>c. ASSUME NEW enrolled \in SUBSET Indices, NEW others \in SUBSET Indices,
             CutOff(enrolled, others), overwritten' \in BOOLEAN
      PROVE  Cut'
  BY <1>c, <1>i DEF CutOff
<1>u. ASSUME UNCHANGED vars PROVE TypesInv'
  BY <1>u, <1>i, <1>q DEF vars
<1>1. CASE Begin
  BY <1>1, <1>i, <1>q, <1>r, <1>f DEF Begin
<1>2. CASE CheckIndex
  <2>1. Min(toCheck) \in Indices
    BY <1>2, Lowest DEF CheckIndex
  <2> DEFINE j == Min(toCheck)
  <2> HIDE DEF j
  <2>2. DummyName[j] \in Names
    BY <2>1, <1>f DEF j
  <2>3. /\ httpd' \in {"check", "name"} /\ toCheck' \subseteq toCheck
        /\ \/ jobIndex' = j /\ jobName' = DummyName[j]
           \/ httpd' = "check" /\ UNCHANGED <<jobIndex, jobName>>
        /\ UNCHANGED <<sensorVars, nvsVars, fingerName, taskVars, historyVars>>
    BY <1>2 DEF CheckIndex, j
  <2> QED BY <2>1, <2>2, <2>3, <1>i, <1>q DEF j
<1>3. CASE NameIndex
  <2>1. Stored' /\ Cut'
    BY <1>3, <1>i, <1>s DEF NameIndex
  <2> QED BY <2>1, <1>3, <1>i, <1>q DEF NameIndex
<1>4. CASE GiveIndexAction
  BY <1>4, <1>i, <1>q, <1>f DEF GiveIndexAction, SetAction
<1>5. CASE GiveIndexScheduler
  BY <1>5, <1>i, <1>q, <1>f DEF GiveIndexScheduler
<1>6. CASE EndBegin
  BY <1>6, <1>i, <1>q DEF EndBegin
<1>14. CASE BeginFails
  BY <1>14, <1>i, <1>q, <1>r DEF BeginFails, Command
<1>7. CASE Request
  <2>1. ASSUME NEW name \in Names, TryEnrollAndStore(name) PROVE TypesInv'
    <3>1. overwritten' \in BOOLEAN
      <4>1. overwritten' = Underway
        BY <2>1 DEF TryEnrollAndStore
      <4> QED BY <4>1, Zenon DEF Underway
    <3>2. /\ fingerName' = name /\ httpd' = "enroll" /\ UNCHANGED cutVars
          /\ UNCHANGED <<sensorVars, nvsVars, taskVars, jobName, jobIndex, toCheck>>
      BY <2>1 DEF TryEnrollAndStore
    <3> QED BY <3>1, <3>2, <1>i, <1>q
  <2>2. ASSUME NEW name \in Names, TryDelete(name) PROVE TypesInv'
    <3>1. name2index[name] \in Indices
      BY <2>2, <1>i DEF TryDelete
    <3>2. CutOff(Unread, {}) \/ CutOff(Unread, {name2index[name]})
      BY <2>2 DEF TryDelete
    <3>3. Cut'
      BY <2>2, <3>1, <3>2, <1>i, <1>c DEF TryDelete
    <3> QED BY <2>2, <3>1, <3>3, <1>i, <1>q, <1>r DEF TryDelete, MayRequest, Command
  <2>3. ASSUME NEW oldName \in Names, NEW newName \in Names, TryRename(oldName, newName)
        PROVE  TypesInv'
    BY <2>3, <1>i, <1>q DEF TryRename, MayRequest
  <2>4. ASSUME NEW j \in Indices, NEW action \in Actions, TryStoreFingerAction(j, action)
        PROVE  TypesInv'
    <3>1. Cut'
      BY <2>4, <1>i, <1>c DEF TryStoreFingerAction
    <3> QED BY <2>4, <3>1, <1>i, <1>q DEF TryStoreFingerAction, MayRequest, SetAction
  <2>5. ASSUME NEW j \in Indices, NEW schedule \in Schedules, TryStoreFingerScheduler(j, schedule)
        PROVE  TypesInv'
    BY <2>5, <1>i, <1>q DEF TryStoreFingerScheduler, MayRequest
  <2>6. CASE TryDeleteAll
    <3>1. \E others \in SUBSET Indices : CutOff(Unread, others)
      BY <2>6, <1>i DEF TryDeleteAll
    <3>2. Cut'
      BY <2>6, <3>1, <1>i, <1>c DEF TryDeleteAll
    <3> QED BY <2>6, <3>2, <1>i, <1>q, <1>r DEF TryDeleteAll, MayRequest, Command
  <2>7. CASE CancelInstruction
    <3>1. Cut'
      BY <2>7, <1>i, <1>c DEF CancelInstruction
    <3> QED BY <2>7, <3>1, <1>i, <1>q, <1>r DEF CancelInstruction, MayRequest
  <2> QED BY <1>7, <2>1, <2>2, <2>3, <2>4, <2>5, <2>6, <2>7 DEF Request
<1>8. CASE HttpdStep
  <2>1. CASE AutoEnroll
    <3>1. overwritten' \in BOOLEAN
      BY <2>1, Zenon DEF AutoEnroll
    <3>2. Cut'
      BY <2>1, <3>1, <1>i, <1>c DEF AutoEnroll
    <3> QED BY <2>1, <3>2, <1>i, <1>q, <1>r DEF AutoEnroll
  <2>2. CASE FinishRename
    <3>1. Stored' /\ Cut'
      BY <2>2, <1>i, <1>s DEF FinishRename
    <3> QED BY <2>2, <3>1, <1>i, <1>q DEF FinishRename
  <2>3. CASE DeleteName
    <3>1. Stored' /\ Cut'
      BY <2>3, <1>i, <1>s DEF DeleteName
    <3> QED BY <2>3, <3>1, <1>i, <1>q DEF DeleteName
  <2>4. CASE DeleteAction \/ DeleteScheduler
    BY <2>4, <1>i, <1>q DEF DeleteAction, DeleteScheduler
  <2>5. CASE DeleteNames \/ DeleteActions \/ DeleteSchedulers
    BY <2>5, <1>i, <1>q DEF DeleteNames, DeleteActions, DeleteSchedulers
  <2> QED BY <1>8, <2>1, <2>2, <2>3, <2>4, <2>5 DEF HttpdStep
<1>9. CASE TaskStep
  <2>1. CASE TaskEnroll
    <3>1. /\ rx # <<>> /\ rx' = Tail(rx)
          /\ UNCHANGED <<library, sensor, asked, nvsVars, fingerName, httpdVars, historyVars>>
      BY <2>1 DEF TaskEnroll
    <3>2. /\ Tail(rx) \in Seq(Packets) /\ Len(Tail(rx)) = Len(rx) - 1 /\ Len(rx) \in Nat \ {0}
          /\ \A k \in 1 .. Len(Tail(rx)) : Tail(rx)[k] = rx[k + 1]
          /\ Head(rx) = rx[1] /\ Head(rx) \in Packets
      BY <1>i, <3>1, HeadTailProperties
    <3>3. Received'
      BY <1>i, <3>1, <3>2
    <3>4. Head(rx).last => Head(rx).index \in Indices
      BY <1>i, <3>2
    <3>5. Head(rx).for \in Names \cup {None}
      BY <3>2 DEF Packets
    <3>6. Task'
      BY <2>1, <1>i, <3>4, <3>5 DEF TaskEnroll
    <3>7. Buffer'
      BY <2>1, <1>i DEF TaskEnroll
    <3>8. Sensor' /\ Stored' /\ Httpd' /\ Cut'
      BY <3>1, <1>i
    <3> QED BY <3>3, <3>6, <3>7, <3>8, <1>q
  <2>2. CASE TaskTimeout
    <3>1. Task' /\ Buffer'
      BY <2>2, <1>i DEF TaskTimeout
    <3>2. UNCHANGED <<sensorVars, nvsVars, httpdVars, historyVars>>
      BY <2>2 DEF TaskTimeout
    <3> QED BY <3>1, <3>2, <1>k, <1>q
  <2>3. CASE StoreName
    <3>1. Task' /\ Buffer'
      BY <2>3, <1>i DEF StoreName
    <3>2. Stored' /\ Cut'
      BY <2>3, <1>i, <1>s DEF StoreName
    <3>3. UNCHANGED <<sensorVars, httpdVars>>
      BY <2>3 DEF StoreName
    <3> QED BY <3>1, <3>2, <3>3, <1>k, <1>q
  <2>4. CASE StoreAction
    BY <2>4, <1>i, <1>q, <1>f DEF StoreAction, SetAction
  <2>5. CASE StoreScheduler
    BY <2>5, <1>i, <1>q, <1>f DEF StoreScheduler
  <2> QED BY <1>9, <2>1, <2>2, <2>3, <2>4, <2>5 DEF TaskStep
<1>10. CASE TaskDetect
  BY <1>10, <1>i, <1>q, <1>r DEF TaskDetect, Command
<1>11. CASE SensorProgress \/ SensorFails
  <2>1. Received'
    BY <1>11, <1>n DEF SensorProgress, SensorFails
  <2>2. /\ UNCHANGED <<library, asked, nvsVars, fingerName, taskVars, httpdVars, historyVars>>
        /\ sensor' \in {sensor, "idle"}
    BY <1>11 DEF SensorProgress, SensorFails
  <2>3. Sensor' /\ Buffer'
    BY <2>2, <1>i
  <2> QED BY <2>1, <2>2, <2>3, <1>k, <1>q
<1>12. ASSUME NEW j \in Indices, SensorStores(j) \/ SensorRefuses(j) PROVE TypesInv'
  <2>1. Received'
    BY <1>12, <1>n DEF SensorStores, SensorRefuses
  <2>2. /\ library' \in {library, library \cup {j}} /\ sensor' = "idle" /\ UNCHANGED asked
        /\ granted' \in {granted, granted \ {j}}
        /\ UNCHANGED <<name2index, index2action, index2scheduler, fingerName, taskVars,
                       httpdVars, overwritten>>
        /\ unstored' \subseteq unstored \cup {j} /\ torn' \subseteq torn \cup {j}
    BY <1>12 DEF SensorStores, SensorRefuses, CutOff
  <2>3. Sensor'
    BY <2>2, <1>i
  <2>4. Stored' /\ Cut' /\ Buffer'
    BY <2>2, <1>i
  <2> QED BY <2>1, <2>2, <2>3, <2>4, <1>k, <1>q
<1>13. CASE Reset
  <2>1. Unread \cup (IF task \in {"off", "loop"} THEN {} ELSE {taskIndex}) \subseteq Indices
    BY <1>i
  <2>2. {i \in Indices : Interrupted(i)} \subseteq Indices /\ overwritten' \in BOOLEAN
    BY <1>13 DEF Reset
  <2>3. Cut'
    BY <1>13, <2>1, <2>2, <1>c DEF Reset
  <2> QED BY <1>13, <2>3, <1>i, <1>q, <1>r DEF Reset
<1> QED
  BY <1>u, <1>1, <1>2, <1>3, <1>4, <1>5, <1>6, <1>7, <1>8, <1>9, <1>10, <1>11, <1>12, <1>13, <1>14
  DEF Next, BeginStep, SensorEnds

LEMMA TypesInitially == Init => TypesInv
<1> SUFFICES ASSUME Init PROVE TypesInv
  OBVIOUS
<1>1. TypeOK
  BY EmptySeq DEF Init, TypeOK
<1> QED BY <1>1 DEF Init, TypesInv, StorePhases, DeletePhases, JobPhases

\* The state has the types TypeOK gives it, whatever the environment does.
THEOREM FingerprintManagerTypeCorrect == Spec => []TypeOK
<1>1. TypesInv => TypeOK
  BY DEF TypesInv
<1> QED BY <1>1, TypesInitially, TypesStep, PTL DEF Spec

-----------------------------------------------------------------------------
\* A packet of the last step is the last that was received, and nothing more is
\* on its way: a command for another enrollment flushes it.
LastInv == \A k \in 1 .. Len(rx) : rx[k].last => k = Len(rx) /\ sensor = "idle"

\* A template is on its way to the fingerprint task.
Arrives(i) == \E k \in 1 .. Len(rx) : rx[k].last /\ rx[k].index = i

LEMMA NothingArrives == ASSUME rx = <<>> PROVE \A i : ~Arrives(i)
BY EmptySeq DEF Arrives

LEMMA NothingArrivesNext == ASSUME rx' = <<>> PROVE (\A i : ~Arrives(i)') /\ LastInv'
BY EmptySeq DEF Arrives, LastInv

LEMMA UnreadArrives == \A i : i \in Unread <=> Arrives(i)
BY DEF Unread, Arrives

LEMMA Sending ==
    ASSUME TypesInv, LastInv, sensor = "enrolling", NEW last \in BOOLEAN, NEW i, Sends(last, i)
    PROVE  /\ \A j : ~Arrives(j)
           /\ \A j : Arrives(j)' <=> last /\ j = i /\ rx' # rx
           /\ last /\ sensor' = "idle" => LastInv'
           /\ ~last => LastInv'
<1>0. rx \in Seq(Packets)
  BY DEF TypesInv, TypeOK
<1>1. \A k \in 1 .. Len(rx) : ~rx[k].last
  BY DEF LastInv
<1>2. \A j : ~Arrives(j)
  BY <1>1 DEF Arrives
<1>3. CASE UNCHANGED rx
  BY <1>1, <1>2, <1>3 DEF Arrives, LastInv
<1>4. CASE rx' = Append(rx, [last |-> last, index |-> i, for |-> asked])
  <2> DEFINE p == [last |-> last, index |-> i, for |-> asked]
  <2>1. rx' = Append(rx, p) /\ p.last = last /\ p.index = i
    BY <1>4
  <2> HIDE DEF p
  <2>2. /\ Len(rx') = Len(rx) + 1 /\ Len(rx) \in Nat /\ rx'[Len(rx')] = p
        /\ \A k \in 1 .. Len(rx) : rx'[k] = rx[k]
    BY <2>1, <1>0, AppendProperties
  <2>3. Len(rx') \in 1 .. Len(rx') /\ \A k \in 1 .. Len(rx') : k = Len(rx') \/ k \in 1 .. Len(rx)
    BY <2>2
  <2>4. \A k \in 1 .. Len(rx') : rx'[k].last <=> last /\ k = Len(rx')
    BY <2>1, <2>2, <2>3, <1>1
  <2>5. \A j : Arrives(j)' <=> last /\ j = i
    BY <2>1, <2>2, <2>3, <2>4 DEF Arrives
  <2>6. rx' # rx
    BY <2>2
  <2> QED BY <2>4, <2>5, <2>6, <1>2 DEF LastInv
<1> QED BY <1>3, <1>4 DEF Sends

LEMMA Reading ==
    ASSUME TypesInv, LastInv, rx # <<>>, rx' = Tail(rx), UNCHANGED sensor
    PROVE  /\ Head(rx).last \in BOOLEAN /\ LastInv'
           /\ Head(rx).last => \A i : (Arrives(i) <=> i = Head(rx).index) /\ ~Arrives(i)'
           /\ ~Head(rx).last => \A i : Arrives(i)' <=> Arrives(i)
<1>0. rx \in Seq(Packets)
  BY DEF TypesInv, TypeOK
<1>1. /\ Len(rx) \in Nat \ {0} /\ Head(rx) = rx[1] /\ Len(rx') = Len(rx) - 1
      /\ \A k \in 1 .. Len(rx') : rx'[k] = rx[k + 1]
      /\ Head(rx) \in Packets
  BY <1>0, HeadTailProperties
<1>2. /\ \A k \in 1 .. Len(rx') : k + 1 \in 1 .. Len(rx)
      /\ 1 \in 1 .. Len(rx)
  BY <1>1
<1>3. LastInv'
  <2>1. ASSUME NEW k \in 1 .. Len(rx'), rx'[k].last PROVE k = Len(rx') /\ sensor' = "idle"
    <3>1. rx[k + 1].last /\ k + 1 \in 1 .. Len(rx)
      BY <2>1, <1>1, <1>2
    <3>2. k + 1 = Len(rx) /\ sensor = "idle"
      BY <3>1 DEF LastInv
    <3> QED BY <3>2, <1>1
  <2> QED BY <2>1 DEF LastInv
<1>4. CASE Head(rx).last
  <2>1. Len(rx) = 1
    BY <1>1, <1>2, <1>4 DEF LastInv
  <2>2. (\A k \in 1 .. Len(rx) : k = 1) /\ (\A k \in 1 .. Len(rx') : FALSE)
    BY <2>1, <1>1
  <2>3. \A i : Arrives(i) <=> i = Head(rx).index
    BY <2>2, <1>1, <1>2, <1>4 DEF Arrives
  <2>4. \A i : ~Arrives(i)'
    BY <2>2 DEF Arrives
  <2>5. Head(rx).last \in BOOLEAN
    BY <1>1 DEF Packets
  <2> QED BY <2>3, <2>4, <2>5, <1>3, <1>4
<1>5. CASE ~Head(rx).last
  <2>1. ASSUME NEW k \in 1 .. Len(rx), rx[k].last
        PROVE  k - 1 \in 1 .. Len(rx') /\ rx'[k - 1] = rx[k]
    <3>1. k # 1
      BY <2>1, <1>1, <1>5
    <3>2. k - 1 \in 1 .. Len(rx') /\ rx'[k - 1] = rx[(k - 1) + 1]
      BY <3>1, <1>1
    <3>3. (k - 1) + 1 = k
      OBVIOUS
    <3> QED BY <3>2, <3>3
  <2>2. \A i : Arrives(i)' <=> Arrives(i)
    BY <2>1, <1>1, <1>2 DEF Arrives
  <2>3. Head(rx).last \in BOOLEAN
    BY <1>1 DEF Packets
  <2> QED BY <2>2, <2>3, <1>3, <1>5
<1> QED BY <1>1, <1>4, <1>5 DEF Packets

\* Nothing runs before Begin, and nothing but the task's loop beside it.
PhaseInv ==
    /\ LastInv
    /\ httpd = "off" => task = "off" /\ ~isInEnrollment
    /\ httpd \in BeginPhases =>
           /\ task = "loop" /\ ~isInEnrollment /\ rx = <<>> /\ sensor = "idle"
           /\ toCheck \subseteq library

LEMMA RequestPhases ==
    ASSUME Request
    PROVE  /\ httpd = "idle" /\ httpd' \notin {"off"} \cup BeginPhases
           /\ UNCHANGED <<asked, taskVars>> /\ sensor' \in {sensor, "idle"} /\ rx' \in {rx, <<>>}
           /\ rx' = rx => sensor' = sensor \/ rx' = <<>>
BY DEF Request, TryEnrollAndStore, TryDelete, TryRename, TryStoreFingerAction, BeginPhases,
       TryStoreFingerScheduler, TryDeleteAll, CancelInstruction, MayRequest, Command,
       sensorVars, taskVars, httpdVars

LEMMA HttpdPhases ==
    ASSUME HttpdStep
    PROVE  /\ httpd \notin {"off"} \cup BeginPhases /\ httpd' \notin {"off"} \cup BeginPhases
           /\ AutoEnroll \/ UNCHANGED <<sensorVars, taskVars, fingerName, overwritten, unstored>>
BY DEF HttpdStep, AutoEnroll, FinishRename, DeleteName, DeleteAction, DeleteScheduler, BeginPhases,
       DeleteNames, DeleteActions, DeleteSchedulers, historyVars, cutVars

LEMMA SensorPhases ==
    ASSUME SensorProgress \/ SensorEnds
    PROVE  /\ sensor = "enrolling"
           /\ UNCHANGED <<asked, name2index, index2action, index2scheduler, fingerName, taskVars,
                          httpdVars, overwritten>>
           /\ \/ Sends(FALSE, None)
              \/ \E i \in Indices : Sends(TRUE, i) /\ sensor' = "idle"
BY DEF SensorProgress, SensorEnds, SensorFails, SensorStores, SensorRefuses, nvsVars, historyVars

LEMMA PhaseStep == TypesInv /\ PhaseInv /\ [Next]_vars => PhaseInv'
<1> SUFFICES ASSUME TypesInv, PhaseInv, [Next]_vars PROVE PhaseInv'
  OBVIOUS
<1> USE DEF BeginPhases, sensorVars, nvsVars, taskVars, httpdVars, historyVars, cutVars
<1>l. UNCHANGED <<rx, sensor>> => LastInv'
  BY DEF PhaseInv, LastInv
<1>1. CASE Begin
  BY <1>1, NothingArrivesNext DEF Begin, PhaseInv
<1>2. CASE CheckIndex
  BY <1>2, <1>l, Zenon DEF CheckIndex, PhaseInv
<1>3. CASE NameIndex \/ GiveIndexAction \/ GiveIndexScheduler \/ EndBegin
  BY <1>3, <1>l DEF NameIndex, GiveIndexAction, GiveIndexScheduler, EndBegin, PhaseInv
<1>4. CASE BeginFails
  BY <1>4, NothingArrivesNext DEF BeginFails, Command, PhaseInv
<1>5. CASE Request
  <2>1. LastInv'
    BY <1>5, <1>l, RequestPhases, NothingArrivesNext
  <2> QED BY <1>5, <2>1, RequestPhases DEF PhaseInv
<1>6. CASE HttpdStep
  <2>1. LastInv'
    BY <1>6, <1>l, HttpdPhases, NothingArrivesNext DEF AutoEnroll
  <2> QED BY <1>6, <2>1, HttpdPhases DEF PhaseInv
<1>7. CASE TaskEnroll
  <2>1. LastInv'
    BY <1>7, Reading DEF TaskEnroll, PhaseInv
  <2>2. /\ task # "off" /\ isInEnrollment /\ UNCHANGED httpd
    BY <1>7 DEF TaskEnroll
  <2> QED BY <2>1, <2>2 DEF PhaseInv
<1>8. CASE TaskTimeout \/ StoreName \/ StoreAction \/ StoreScheduler
  <2>1. /\ UNCHANGED <<rx, sensor, httpd>> /\ (isInEnrollment \/ task \in StorePhases) /\ task # "off"
    BY <1>8 DEF TaskTimeout, StoreName, StoreAction, StoreScheduler, StorePhases
  <2> QED BY <2>1, <1>l DEF PhaseInv, StorePhases
<1>9. CASE TaskDetect
  <2>1. /\ rx' = <<>> /\ sensor' \in {sensor, "idle"} /\ task = "loop"
        /\ UNCHANGED <<httpdVars, taskVars, library>>
    BY <1>9 DEF TaskDetect, Command
  <2> QED BY <2>1, NothingArrivesNext DEF PhaseInv
<1>10. CASE SensorProgress \/ SensorEnds
  <2>1. LastInv'
    BY <1>10, SensorPhases, Sending DEF PhaseInv
  <2>2. httpd \notin BeginPhases /\ UNCHANGED <<httpd, task, isInEnrollment>>
    BY <1>10, SensorPhases DEF PhaseInv
  <2> QED BY <2>1, <2>2 DEF PhaseInv
<1>11. CASE Reset
  BY <1>11, NothingArrivesNext DEF Reset, PhaseInv
<1>12. CASE UNCHANGED vars
  BY <1>12, <1>l DEF vars, PhaseInv
<1> QED BY <1>1, <1>2, <1>3, <1>4, <1>5, <1>6, <1>7, <1>8, <1>9, <1>10, <1>11, <1>12
        DEF Next, BeginStep, TaskStep

LEMMA PhaseInitially == Init => PhaseInv
BY EmptySeq DEF Init, PhaseInv, LastInv, BeginPhases

-----------------------------------------------------------------------------
\* What Begin has looked at has an action; no enrollment runs meanwhile.
CheckedInv ==
    httpd \in BeginPhases =>
        /\ \A i \in (library \cap FirstPage) \ toCheck : index2action[i] # None
        /\ httpd = "scheduler" => index2action[jobIndex] # None

LEMMA CheckedStep == TypesInv /\ PhaseInv /\ CheckedInv /\ [Next]_vars => CheckedInv'
<1> SUFFICES ASSUME TypesInv, PhaseInv, CheckedInv, [Next]_vars PROVE CheckedInv'
  OBVIOUS
<1>i. /\ index2action \in [Indices -> Actions \cup {None}]
      /\ FirstPage \subseteq Indices /\ NoAction # None
      /\ httpd \in StorePhases => jobIndex \in Indices
  BY FingersAssumption DEF TypesInv, TypeOK, JobPhases
<1> USE DEF BeginPhases, sensorVars, nvsVars, taskVars, httpdVars
<1>k. UNCHANGED <<library, index2action, httpdVars>> => CheckedInv'
  BY DEF CheckedInv
<1>o. httpd' \notin BeginPhases => CheckedInv'
  BY DEF CheckedInv
<1>1. CASE Begin
  BY <1>1 DEF Begin, CheckedInv
<1>2. CASE CheckIndex
  <2>1. Min(toCheck) \in toCheck
    BY <1>2, Lowest DEF CheckIndex
  <2> QED BY <1>2, <2>1 DEF CheckIndex, CheckedInv
<1>3. CASE NameIndex \/ EndBegin \/ BeginFails
  BY <1>3 DEF NameIndex, EndBegin, BeginFails, CheckedInv
<1>4. CASE GiveIndexAction
  BY <1>4, <1>i DEF GiveIndexAction, SetAction, CheckedInv, StorePhases
<1>5. CASE GiveIndexScheduler
  BY <1>5, <1>i DEF GiveIndexScheduler, CheckedInv
<1>6. CASE Request
  BY <1>6, <1>o, RequestPhases
<1>7. CASE HttpdStep
  BY <1>7, <1>o, HttpdPhases
<1>8. CASE TaskStep \/ TaskDetect
  <2>1. CASE StoreAction
    BY <2>1, <1>i DEF StoreAction, SetAction, CheckedInv, StorePhases
  <2>2. CASE TaskEnroll \/ TaskTimeout \/ StoreName \/ StoreScheduler \/ TaskDetect
    BY <2>2, <1>k DEF TaskEnroll, TaskTimeout, StoreName, StoreScheduler, TaskDetect
  <2> QED BY <1>8, <2>1, <2>2 DEF TaskStep
<1>9. CASE SensorProgress \/ SensorEnds
  <2>1. httpd' \notin BeginPhases
    BY <1>9, SensorPhases DEF PhaseInv
  <2> QED BY <2>1, <1>o
<1>10. CASE Reset
  BY <1>10, <1>o DEF Reset
<1>11. CASE UNCHANGED vars
  BY <1>11, <1>k DEF vars
<1> QED BY <1>1, <1>2, <1>3, <1>4, <1>5, <1>6, <1>7, <1>8, <1>9, <1>10, <1>11
        DEF Next, BeginStep

CheckedAtEnd ==
    httpd = "check" /\ httpd' = "idle" => \A i \in library \cap FirstPage : index2action[i] # None

LEMMA EndOfBegin == CheckedInv /\ [Next]_vars => CheckedAtEnd
<1> SUFFICES ASSUME CheckedInv, [Next]_vars, httpd = "check", httpd' = "idle"
             PROVE  \A i \in library \cap FirstPage : index2action[i] # None
  BY DEF CheckedAtEnd
<1>1. ~Request /\ ~HttpdStep
  BY RequestPhases, HttpdPhases DEF BeginPhases
<1>2. ~SensorProgress /\ ~SensorEnds
  BY SensorPhases DEF httpdVars
<1>3. toCheck = {}
  BY <1>1, <1>2 DEF Next, BeginStep, Begin, CheckIndex, NameIndex, GiveIndexAction,
         GiveIndexScheduler, EndBegin, BeginFails,
         TaskStep, TaskEnroll, TaskTimeout, StoreName, StoreAction, StoreScheduler, TaskDetect,
         Reset, vars, httpdVars
<1> QED BY <1>3 DEF CheckedInv, BeginPhases

\* Begin leaves no template of the sensor's first page without an action,
\* whatever was cut off by a reset or lost before, and whatever the
\* fingerprint task does while it runs.
THEOREM BeginRepairs == Spec => RepairedByBegin
<1>1. Init => CheckedInv
  BY DEF Init, CheckedInv, BeginPhases
<1>2. Spec => [][CheckedAtEnd]_vars
  BY <1>1, TypesInitially, TypesStep, PhaseInitially, PhaseStep, CheckedStep, EndOfBegin, PTL DEF Spec
<1> QED BY <1>2, PTL DEF RepairedByBegin, CheckedAtEnd

-----------------------------------------------------------------------------
\* All the fingerprint task can receive is about the name in the buffer, but
\* for the time between a request for another enrollment and its command, which
\* flushes the packets of the one before.
NamesInv ==
    /\ httpd = "enroll" =>
           overwritten \/ (~isInEnrollment /\ sensor = "idle" /\ task \in {"off", "loop"})
    /\ httpd # "enroll" /\ task # "off" =>
           /\ \A k \in 1 .. Len(rx) : rx[k].for = fingerName
           /\ sensor = "enrolling" => asked = fingerName
    /\ task = "name" => fingerName = taskFor \/ overwritten

LEMMA NamesStep == TypesInv /\ PhaseInv /\ NamesInv /\ [Next]_vars => NamesInv'
<1> SUFFICES ASSUME TypesInv, PhaseInv, NamesInv, [Next]_vars PROVE NamesInv'
  OBVIOUS
<1>i. rx \in Seq(Packets) /\ task \in {"off", "loop", "name", "action", "scheduler"}
      /\ sensor \in {"idle", "enrolling"}
  BY DEF TypesInv, TypeOK
<1> USE DEF sensorVars, nvsVars, taskVars, httpdVars, historyVars, cutVars
<1>k. /\ UNCHANGED <<asked, fingerName, taskVars, overwritten>>
      /\ httpd # "enroll" /\ httpd' # "enroll" /\ sensor' \in {sensor, "idle"}
      /\ rx' = rx \/ rx' = <<>>
      => NamesInv'
  BY EmptySeq DEF NamesInv
<1>r. rx' = <<>> => \A k \in 1 .. Len(rx') : rx'[k].for = fingerName'
  BY EmptySeq
<1>1. CASE Begin
  BY <1>1, <1>r DEF Begin, NamesInv
<1>2. CASE CheckIndex \/ NameIndex \/ GiveIndexAction \/ GiveIndexScheduler \/ EndBegin \/ BeginFails
  <2>1. /\ UNCHANGED <<asked, fingerName, taskVars, overwritten>> /\ sensor' \in {sensor, "idle"}
        /\ rx' \in {rx, <<>>} /\ httpd # "enroll" /\ httpd' # "enroll"
    BY <1>2 DEF CheckIndex, NameIndex, GiveIndexAction, GiveIndexScheduler, EndBegin, BeginFails,
                Command
  <2> QED BY <2>1, <1>k
<1>3. CASE Request
  <2>1. ASSUME NEW name \in Names, TryEnrollAndStore(name) PROVE NamesInv'
    <3>1. /\ httpd' = "enroll" /\ overwritten' = Underway
          /\ UNCHANGED <<sensor, isInEnrollment, task>>
      BY <2>1 DEF TryEnrollAndStore
    <3>2. overwritten' \/ (~isInEnrollment' /\ sensor' = "idle" /\ task' \in {"off", "loop"})
      BY <3>1, <1>i DEF Underway
    <3>3. task' = "name" => overwritten'
      BY <3>1, Zenon DEF Underway
    <3> QED BY <3>1, <3>2, <3>3 DEF NamesInv
  <2>2. CASE \A name \in Names : ~TryEnrollAndStore(name)
    <3>1. httpd' # "enroll" /\ UNCHANGED <<fingerName, overwritten>>
      BY <1>3, <2>2 DEF Request, TryDelete, TryRename, TryStoreFingerAction, Command,
         TryStoreFingerScheduler, TryDeleteAll, CancelInstruction, MayRequest
    <3> QED BY <1>3, <3>1, <1>k, RequestPhases
  <2> QED BY <2>1, <2>2
<1>4. CASE AutoEnroll
  <2>1. task = "name" => overwritten /\ overwritten'
    BY <1>4, Zenon DEF AutoEnroll, NamesInv
  <2> QED BY <1>4, <2>1, <1>r DEF AutoEnroll, NamesInv
<1>5. CASE HttpdStep /\ ~AutoEnroll
  <2>1. httpd # "enroll" /\ httpd' # "enroll"
    BY <1>5 DEF HttpdStep, FinishRename, DeleteName, DeleteAction, DeleteScheduler,
                DeleteNames, DeleteActions, DeleteSchedulers
  <2> QED BY <1>5, <2>1, <1>k, HttpdPhases
<1>6. CASE TaskEnroll
  <2>1. /\ task = "loop" /\ isInEnrollment /\ rx # <<>> /\ rx' = Tail(rx)
        /\ UNCHANGED <<sensor, asked, fingerName, httpd, overwritten>>
        /\ task' \in {"name", "loop"} /\ (task' = "name" => taskFor' = Head(rx).for)
    BY <1>6 DEF TaskEnroll
  <2>2. httpd = "enroll" => overwritten
    BY <2>1 DEF NamesInv
  <2>3. /\ Len(Tail(rx)) = Len(rx) - 1 /\ Len(rx) \in Nat \ {0}
        /\ \A k \in 1 .. Len(Tail(rx)) : Tail(rx)[k] = rx[k + 1]
        /\ Head(rx) = rx[1]
    BY <1>i, <2>1, HeadTailProperties
  <2>4. ASSUME httpd # "enroll"
        PROVE  Head(rx).for = fingerName /\ \A k \in 1 .. Len(rx') : rx'[k].for = fingerName'
    <3>1. \A k \in 1 .. Len(rx) : rx[k].for = fingerName
      BY <2>1, <2>4 DEF NamesInv
    <3> QED BY <2>1, <2>3, <3>1
  <2>5. task' = "name" => fingerName' = taskFor' \/ overwritten'
    BY <2>1, <2>2, <2>4
  <2> QED BY <2>1, <2>2, <2>4, <2>5 DEF NamesInv
<1>7. CASE TaskTimeout
  BY <1>7 DEF TaskTimeout, NamesInv
<1>8. CASE StoreName \/ StoreAction \/ StoreScheduler
  <2>1. /\ UNCHANGED <<sensor, rx, asked, fingerName, httpd, overwritten>>
        /\ task \in {"name", "action", "scheduler"} /\ task' \in {"loop", "action", "scheduler"}
        /\ UNCHANGED isInEnrollment
    BY <1>8 DEF StoreName, StoreAction, StoreScheduler
  <2> QED BY <2>1 DEF NamesInv
<1>9. CASE TaskDetect
  <2>1. /\ task = "loop" /\ rx' = <<>> /\ sensor' \in {sensor, "idle"}
        /\ UNCHANGED <<asked, fingerName, httpd, overwritten, taskVars>>
    BY <1>9 DEF TaskDetect, Command
  <2> QED BY <2>1, <1>r DEF NamesInv
<1>10. CASE SensorProgress \/ SensorEnds
  <2>1. /\ sensor = "enrolling" /\ sensor' \in {sensor, "idle"}
        /\ UNCHANGED <<asked, fingerName, taskVars, httpdVars, overwritten>>
        /\ \E last, j : Sends(last, j)
    BY <1>10, SensorPhases, <1>i DEF SensorProgress, SensorEnds, SensorFails, SensorStores,
       SensorRefuses
  <2>2. ASSUME httpd # "enroll", task # "off"
        PROVE  \A k \in 1 .. Len(rx') : rx'[k].for = fingerName
    <3>1. PICK last, j : Sends(last, j)
      BY <2>1
    <3> DEFINE p == [last |-> last, index |-> j, for |-> asked]
    <3>2. p.for = fingerName /\ \A k \in 1 .. Len(rx) : rx[k].for = fingerName
      BY <2>1, <2>2 DEF NamesInv
    <3>3. rx' = Append(rx, p) \/ rx' = rx
      BY <3>1 DEF Sends
    <3> HIDE DEF p
    <3> QED BY <1>i, <3>2, <3>3, AppendProperties
  <2> QED BY <2>1, <2>2 DEF NamesInv
<1>11. CASE Reset
  BY <1>11 DEF Reset, NamesInv
<1>12. CASE UNCHANGED vars
  BY <1>12 DEF vars, NamesInv
<1> QED BY <1>1, <1>2, <1>3, <1>4, <1>5, <1>6, <1>7, <1>8, <1>9, <1>10, <1>11, <1>12
        DEF Next, BeginStep, HttpdStep, TaskStep

\* A template is stored under the name it was asked for, through cancels,
\* timeouts, lost answers, resets and requests that overlap the enrollment; only
\* between a second request and its command is the name that waits another one.
THEOREM EnrollmentsKeepTheirNames == Spec => []EnrolledUnderItsName
<1>1. Init => NamesInv
  BY EmptySeq DEF Init, NamesInv
<1>2. NamesInv => EnrolledUnderItsName
  BY DEF NamesInv, EnrolledUnderItsName
<1> QED BY <1>1, <1>2, TypesInitially, TypesStep, PhaseInitially, PhaseStep, NamesStep, PTL DEF Spec

-----------------------------------------------------------------------------
\* A template whose index has the action of an earlier one is about to be
\* given action 0, or its enrollment was cut off.
Awaited(i) == Arrives(i) /\ isInEnrollment /\ task # "off"

InheritInv ==
    \A i \in library \ unstored :
        \/ index2action[i] \in {None, NoAction} \/ i \in granted
        \/ Awaited(i) \/ (task \in {"name", "action"} /\ taskIndex = i)

LEMMA InheritStep == TypesInv /\ PhaseInv /\ InheritInv /\ [Next]_vars => InheritInv'
<1> SUFFICES ASSUME TypesInv, PhaseInv, InheritInv, [Next]_vars,
                    NEW i \in library', i \notin unstored'
             PROVE  \/ index2action'[i] \in {None, NoAction} \/ i \in granted'
                    \/ Awaited(i)' \/ (task' \in {"name", "action"} /\ taskIndex' = i)
  BY DEF InheritInv
<1> DEFINE Goal == \/ index2action'[i] \in {None, NoAction} \/ i \in granted'
                   \/ Awaited(i)' \/ (task' \in {"name", "action"} /\ taskIndex' = i)
<1> USE DEF sensorVars, nvsVars, taskVars, httpdVars, historyVars, cutVars
<1>i. /\ index2action \in [Indices -> Actions \cup {None}] /\ library \subseteq Indices
      /\ httpd \in JobPhases => jobIndex \in Indices
      /\ task \in StorePhases => taskIndex \in Indices
  BY DEF TypesInv, TypeOK
\* A step that gives i no action, adds no template and loses no packet.
<1>k. ASSUME i \in library \ unstored,
             index2action'[i] \in {index2action[i], None, NoAction} \/ i \in granted',
             granted \subseteq granted',
             Awaited(i) => Awaited(i)',
             task \in {"name", "action"} => UNCHANGED taskIndex /\ task' \in {"name", "action"}
      PROVE  Goal
  BY <1>k DEF InheritInv
<1>f. CutOff(Unread, {}) \/ (\E others : CutOff(Unread, others)) => ~Arrives(i)
  BY UnreadArrives DEF CutOff
<1>a. UNCHANGED <<rx, isInEnrollment, task>> => (Awaited(i) => Awaited(i)')
  BY DEF Awaited, Arrives
<1>1. CASE BeginStep
  <2>1. UNCHANGED <<library, unstored, taskIndex>> /\ granted \subseteq granted'
        /\ index2action' \in {index2action, [index2action EXCEPT ![jobIndex] = NoAction]}
        /\ httpd \in {"off"} \cup BeginPhases
    BY <1>1 DEF BeginStep, Begin, CheckIndex, NameIndex, GiveIndexAction, GiveIndexScheduler,
                EndBegin, BeginFails, SetAction, BeginPhases
  <2>2. ~Awaited(i) /\ task \in {"off", "loop"}
    BY <2>1 DEF PhaseInv, Awaited
  <2>3. index2action'[i] \in {index2action[i], NoAction}
    BY <2>1, <1>i
  <2> QED BY <2>1, <2>2, <2>3, <1>k
<1>2. CASE Request
  <2>1. library' \subseteq library /\ granted \subseteq granted' /\ unstored \subseteq unstored'
    BY <1>2 DEF Request, TryEnrollAndStore, TryDelete, TryRename, TryStoreFingerAction, SetAction,
                TryStoreFingerScheduler, TryDeleteAll, CancelInstruction, CutOff
  <2>2. UNCHANGED index2action \/ \E j \in Indices : \E a : SetAction(j, a)
    BY <1>2 DEF Request, TryEnrollAndStore, TryDelete, TryRename, TryStoreFingerAction,
                TryStoreFingerScheduler, TryDeleteAll, CancelInstruction
  <2>3. index2action'[i] = index2action[i] \/ i \in granted'
    BY <2>1, <2>2, <1>i DEF SetAction
  <2>4. UNCHANGED rx \/ \E others : CutOff(Unread, others)
    BY <1>2 DEF Request, TryEnrollAndStore, TryDelete, TryRename, TryStoreFingerAction,
                TryStoreFingerScheduler, TryDeleteAll, CancelInstruction
  <2>5. Awaited(i) => Awaited(i)'
    BY <1>2, <2>4, <1>a, <1>f, RequestPhases DEF Awaited
  <2> QED BY <1>2, <2>1, <2>3, <2>5, <1>k, RequestPhases
<1>3. CASE HttpdStep
  <2>1. UNCHANGED <<library, granted, task, taskIndex>> /\ unstored \subseteq unstored'
    BY <1>3 DEF HttpdStep, AutoEnroll, FinishRename, DeleteName, DeleteAction, DeleteScheduler,
                DeleteNames, DeleteActions, DeleteSchedulers, CutOff
  <2>2. index2action'[i] \in {index2action[i], None}
    BY <1>3, <1>i DEF HttpdStep, AutoEnroll, FinishRename, DeleteName, DeleteAction,
                DeleteScheduler, DeleteNames, DeleteActions, DeleteSchedulers
  <2>3. Awaited(i) => Awaited(i)'
    BY <1>3, <1>a, <1>f, HttpdPhases DEF AutoEnroll, Awaited
  <2> QED BY <2>1, <2>2, <2>3, <1>k
<1>4. CASE TaskEnroll
  <2>1. /\ task = "loop" /\ rx # <<>> /\ rx' = Tail(rx)
        /\ UNCHANGED <<library, sensor, unstored, index2action, granted>>
        /\ Head(rx).last => task' = "name" /\ taskIndex' = Head(rx).index
        /\ ~Head(rx).last => UNCHANGED taskVars
    BY <1>4 DEF TaskEnroll
  <2>2. CASE Head(rx).last
    <3>1. Arrives(i) => Head(rx).index = i
      BY <2>1, <2>2, Reading DEF PhaseInv
    <3> QED BY <2>1, <2>2, <3>1 DEF InheritInv, Awaited
  <2>3. CASE ~Head(rx).last
    <3>1. Arrives(i) => Arrives(i)'
      BY <2>1, <2>3, Reading DEF PhaseInv
    <3>2. Awaited(i) => Awaited(i)'
      BY <2>1, <2>3, <3>1, Zenon DEF Awaited
    <3> QED BY <2>1, <2>3, <3>2, <1>k
  <2> QED BY <2>2, <2>3
<1>5. CASE TaskTimeout \/ StoreName
  <2>1. ~Awaited(i) \/ UNCHANGED <<rx, isInEnrollment>>
    BY <1>5, NothingArrives DEF TaskTimeout, StoreName, Awaited
  <2>2. /\ UNCHANGED <<library, rx, unstored, index2action, granted, taskIndex>>
        /\ task \in {"name", "action"} => task' \in {"name", "action"}
        /\ task' # "off"
    BY <1>5 DEF TaskTimeout, StoreName
  <2>3. Awaited(i) => Awaited(i)'
    BY <2>1, <2>2 DEF Awaited, Arrives
  <2> QED BY <2>2, <2>3, <1>k
<1>6. CASE StoreAction
  <2>1. /\ task = "action" /\ task' = "scheduler" /\ SetAction(taskIndex, NoAction)
        /\ UNCHANGED <<library, rx, unstored, taskIndex, isInEnrollment>>
    BY <1>6 DEF StoreAction
  <2>2. taskIndex \in Indices
    BY <2>1, <1>i DEF StorePhases
  <2>3. Awaited(i) => Awaited(i)'
    BY <2>1 DEF Awaited, Arrives
  <2> QED BY <2>1, <2>2, <2>3, <1>i DEF InheritInv, SetAction
<1>7. CASE StoreScheduler
  <2>1. /\ task = "scheduler" /\ task' = "loop"
        /\ UNCHANGED <<library, rx, unstored, index2action, granted, isInEnrollment>>
    BY <1>7 DEF StoreScheduler
  <2>2. Awaited(i) => Awaited(i)'
    BY <2>1 DEF Awaited, Arrives
  <2> QED BY <2>1, <2>2, <1>k
<1>8. CASE TaskDetect
  <2>1. ~isInEnrollment /\ UNCHANGED <<library, unstored, index2action, granted, taskVars>>
    BY <1>8 DEF TaskDetect
  <2> QED BY <2>1, <1>k DEF Awaited
<1>9. CASE SensorProgress \/ SensorEnds
  <2>1. /\ sensor = "enrolling" /\ UNCHANGED <<index2action, taskVars>>
    BY <1>9, SensorPhases
  <2>2. ~Awaited(i)
    BY <1>9, <2>1, Sending, SensorPhases DEF PhaseInv, Awaited
  <2>3. CASE SensorProgress \/ SensorFails \/ \E j \in Indices : SensorRefuses(j)
    <3>1. UNCHANGED <<library, granted>> /\ unstored' = unstored
      BY <2>3 DEF SensorProgress, SensorFails, SensorRefuses, CutOff
    <3> QED BY <2>1, <2>2, <3>1, <1>k
  <2>4. ASSUME NEW j \in Indices, SensorStores(j) PROVE Goal
    <3>1. /\ Sends(TRUE, j) /\ library' = library \cup {j} /\ granted' = granted \ {j}
          /\ unstored \ {j} \subseteq unstored'
          /\ j \in unstored' \/ (rx' # rx /\ isInEnrollment /\ task # "off")
      BY <2>4 DEF SensorStores, CutOff
    <3>2. CASE i = j
      <4>1. rx' # rx /\ isInEnrollment /\ task # "off"
        BY <3>1, <3>2
      <4>2. Arrives(i)'
        BY <2>1, <3>1, <3>2, <4>1, Sending DEF PhaseInv
      <4>3. isInEnrollment' /\ task' # "off"
        BY <2>1, <4>1
      <4> QED BY <4>2, <4>3 DEF Awaited
    <3>3. CASE i # j
      <4>1. i \in library \ unstored /\ (i \in granted => i \in granted')
        BY <3>1, <3>3
      <4> QED BY <2>1, <2>2, <4>1 DEF InheritInv
    <3> QED BY <3>2, <3>3
  <2> QED BY <1>9, <2>3, <2>4 DEF SensorEnds
<1>10. CASE Reset
  <2>1. /\ UNCHANGED <<library, index2action, granted>>
        /\ unstored' = unstored \cup Unread \cup (IF task \in {"off", "loop"} THEN {} ELSE {taskIndex})
    BY <1>10 DEF Reset, CutOff
  <2>2. ~Arrives(i) /\ i \notin unstored
    BY <2>1, UnreadArrives
  <2>3. task \in {"name", "action"} => taskIndex # i
    BY <2>1
  <2> QED BY <2>1, <2>2, <2>3 DEF InheritInv, Awaited
<1>11. CASE UNCHANGED vars
  BY <1>11, <1>k, <1>a DEF vars
<1> QED BY <1>1, <1>2, <1>3, <1>4, <1>5, <1>6, <1>7, <1>8, <1>9, <1>10, <1>11
        DEF Next, TaskStep

\* A finger never inherits what its index was given before, although resets,
\* lost answers and requests in between leave half of what was stored: unless
\* its own enrollment was cut off.
THEOREM ActionsAreNotInherited == Spec => []NoInheritedAction
<1>1. Init => InheritInv
  BY FingersAssumption DEF Init, InheritInv, TypeOK
<1>2. InheritInv => NoInheritedAction
  BY DEF InheritInv, Awaited, NoInheritedAction
<1> QED BY <1>1, <1>2, TypesInitially, TypesStep, PhaseInitially, PhaseStep, InheritStep, PTL
        DEF Spec

-----------------------------------------------------------------------------
\* What the sensor and the namespaces tell of an index, but for the part that
\* the request, the enrollment or the repair that is going on has still to store
\* or to delete.
NamesOf(i) == {n \in Names : name2index[n] = i}

Naming(i) == task = "name" /\ taskIndex = i
Storing(i) == task \in StorePhases /\ taskIndex = i
Renaming(i) == httpd = "rename" /\ jobIndex = i
Repairing(i) == httpd \in {"action", "scheduler"} /\ jobIndex = i

\* Templates that were in the sensor before: Begin will come to them.
Missing(i) ==
    /\ i \in library \cap FirstPage /\ NamesOf(i) = {} /\ index2action[i] = None
    /\ task = "off" \/ (httpd \in BeginPhases /\ i \in toCheck)

NamesFit(i) ==
    /\ \A m, n \in NamesOf(i) : m = n
    /\ i \notin library =>
           \/ NamesOf(i) = {} \/ httpd = "deleteNames"
           \/ httpd = "deleteName" /\ jobIndex = i /\ NamesOf(i) \subseteq {jobName}
    /\ i \in library /\ NamesOf(i) = {} =>
           Arrives(i) \/ Naming(i) \/ Renaming(i) \/ Missing(i)

EntriesFit(i) ==
    /\ i \in library /\ ~Arrives(i) /\ ~Storing(i) /\ ~Missing(i) /\ ~Repairing(i) =>
           index2action[i] # None /\ index2scheduler[i] # None
    /\ i \in library /\ ~Arrives(i) /\ Storing(i) /\ task = "scheduler" => index2action[i] # None
    /\ httpd = "scheduler" /\ jobIndex = i => index2action[i] # None

JobsFit(i) ==
    /\ Repairing(i) => NamesOf(i) # {}
    /\ Arrives(i) \/ Naming(i) \/ Renaming(i) \/ (httpd = "name" /\ jobIndex = i) =>
           i \in library /\ NamesOf(i) = {}
    /\ Arrives(i) => isInEnrollment /\ task # "off" /\ ~Naming(i) /\ ~Renaming(i)
    /\ Renaming(i) => ~Naming(i) /\ ~Missing(i)
    /\ Deleting(i) => i \notin library

Fits(i) == NamesFit(i) /\ EntriesFit(i) /\ JobsFit(i)

AgreeInv == \A i \in Indices \ torn : Fits(i)

LEMMA SetNameHere ==
    ASSUME TypesInv, NEW name \in Names, NEW j \in Indices, NEW value, SetName(name, value, j)
    PROVE  /\ value = j => NamesOf(j)' = NamesOf(j) \cup {name}
           /\ value = None => NamesOf(j)' = NamesOf(j) \ {name}
BY FingersAssumption DEF TypesInv, TypeOK, SetName, NamesOf

LEMMA SetNameElsewhere ==
    ASSUME TypesInv, NEW name \in Names, NEW j \in Indices, NEW value \in {j, None},
           SetName(name, value, j), NEW i \in Indices \ torn', i # j
    PROVE  NamesOf(i)' = NamesOf(i)
<1>1. name2index[name] # i
  BY FingersAssumption DEF SetName
<1>2. \A n \in Names : name2index'[n] = i <=> name2index[n] = i
  BY <1>1, FingersAssumption DEF TypesInv, TypeOK, SetName
<1> QED BY <1>2 DEF NamesOf

LEMMA NamesUnchanged == UNCHANGED name2index => \A i : NamesOf(i)' = NamesOf(i)
BY DEF NamesOf

LEMMA TornGrows == [Next]_vars => torn \subseteq torn'
BY DEF Next, BeginStep, Begin, CheckIndex, NameIndex, GiveIndexAction, GiveIndexScheduler,
       EndBegin, BeginFails, Request, TryEnrollAndStore, TryDelete, TryRename,
       TryStoreFingerAction, TryStoreFingerScheduler, TryDeleteAll, CancelInstruction,
       HttpdStep, AutoEnroll, FinishRename, DeleteName, DeleteAction, DeleteScheduler,
       DeleteNames, DeleteActions, DeleteSchedulers,
       TaskStep, TaskEnroll, TaskTimeout, StoreName, StoreAction, StoreScheduler, TaskDetect,
       SensorProgress, SensorEnds, SensorFails, SensorStores, SensorRefuses, Reset,
       vars, historyVars, cutVars, SetName, CutOff

LEMMA FitsBegin ==
    ASSUME TypesInv, PhaseInv, BeginStep, NEW i \in Indices \ torn', Fits(i)
    PROVE  Fits(i)'
<1> USE DEF sensorVars, nvsVars, taskVars, httpdVars, historyVars, cutVars, BeginPhases
<1> USE DEF Fits, NamesFit, EntriesFit, JobsFit, Naming, Storing, Renaming, Repairing, Missing,
            Deleting, StorePhases
<1>i. /\ index2action \in [Indices -> Actions \cup {None}]
      /\ index2scheduler \in [Indices -> Schedules \cup {None}]
      /\ httpd \in JobPhases => jobIndex \in Indices /\ jobName \in Names
      /\ NoAction # None /\ "ALWAYS" # None
  BY FingersAssumption DEF TypesInv, TypeOK
<1>p. /\ httpd \in {"off"} \cup BeginPhases /\ ~isInEnrollment
      /\ httpd = "off" => task = "off"
      /\ httpd # "off" => task = "loop" /\ rx = <<>> /\ toCheck \subseteq library
  BY DEF BeginStep, Begin, CheckIndex, NameIndex, GiveIndexAction, GiveIndexScheduler,
         EndBegin, BeginFails, PhaseInv
<1>a. ~Arrives(i) /\ ~Arrives(i)'
  <2>1. rx' \in {rx, <<>>}
    BY DEF BeginStep, Begin, CheckIndex, NameIndex, GiveIndexAction, GiveIndexScheduler,
           EndBegin, BeginFails, Command
  <2>2. rx' = rx => (Arrives(i)' <=> Arrives(i))
    BY DEF Arrives
  <2> QED BY <2>1, <2>2, <1>p, NothingArrivesNext
<1>1. CASE Begin
  <2>1. NamesOf(i)' = NamesOf(i)
    BY <1>1, NamesUnchanged DEF Begin
  <2> QED BY <1>1, <2>1, <1>a, <1>p DEF Begin
<1>2. CASE CheckIndex
  <2>1. NamesOf(i)' = NamesOf(i)
    BY <1>2, NamesUnchanged DEF CheckIndex
  <2>2. Min(toCheck) \in toCheck
    BY <1>2, Lowest DEF CheckIndex
  <2> QED BY <1>2, <2>1, <2>2, <1>a, <1>p DEF CheckIndex
<1>3. CASE NameIndex
  <2>1. jobIndex \in Indices /\ jobName \in Names /\ SetName(jobName, jobIndex, jobIndex)
    BY <1>3, <1>i DEF NameIndex, JobPhases
  <2>2. CASE i = jobIndex
    <3>1. NamesOf(i)' = {jobName}
      BY <1>3, <2>1, <2>2, SetNameHere DEF NameIndex
    <3> QED BY <1>3, <2>2, <3>1, <1>a, <1>p DEF NameIndex
  <2>3. CASE i # jobIndex
    <3>1. NamesOf(i)' = NamesOf(i)
      BY <2>1, <2>3, SetNameElsewhere
    <3> QED BY <1>3, <2>3, <3>1, <1>a, <1>p DEF NameIndex
  <2> QED BY <2>2, <2>3
<1>4. CASE GiveIndexAction
  <2>1. NamesOf(i)' = NamesOf(i)
    BY <1>4, NamesUnchanged DEF GiveIndexAction
  <2> QED BY <1>4, <2>1, <1>a, <1>p, <1>i DEF GiveIndexAction, SetAction
<1>5. CASE GiveIndexScheduler
  <2>1. NamesOf(i)' = NamesOf(i)
    BY <1>5, NamesUnchanged DEF GiveIndexScheduler
  <2> QED BY <1>5, <2>1, <1>a, <1>p, <1>i DEF GiveIndexScheduler
<1>6. CASE EndBegin \/ BeginFails
  <2>1. NamesOf(i)' = NamesOf(i)
    BY <1>6, NamesUnchanged DEF EndBegin, BeginFails
  <2> QED BY <1>6, <2>1, <1>a, <1>p DEF EndBegin, BeginFails
<1> QED BY <1>1, <1>2, <1>3, <1>4, <1>5, <1>6 DEF BeginStep

LEMMA FitsRequest ==
    ASSUME TypesInv, PhaseInv, Request, NEW i \in Indices \ torn', Fits(i)
    PROVE  Fits(i)'
<1> USE DEF sensorVars, nvsVars, taskVars, httpdVars, historyVars, cutVars, BeginPhases
<1> USE DEF Fits, NamesFit, EntriesFit, JobsFit, Naming, Storing, Renaming, Repairing, Missing,
            Deleting, StorePhases
<1>i. /\ name2index \in [Names -> Indices \cup {None}]
      /\ index2action \in [Indices -> Actions \cup {None}]
      /\ index2scheduler \in [Indices -> Schedules \cup {None}]
      /\ None \notin Indices /\ None \notin Actions /\ None \notin Schedules
  BY FingersAssumption DEF TypesInv, TypeOK
<1>p. httpd = "idle" /\ UNCHANGED taskVars
  BY RequestPhases
\* A flush tears what arrives.
<1>f. (\E enrolled, others : CutOff(Unread \cup enrolled, others)) /\ rx' = <<>>
      => ~Arrives(i) /\ ~Arrives(i)'
  BY UnreadArrives, NothingArrivesNext DEF CutOff
<1>r. UNCHANGED rx => (Arrives(i)' <=> Arrives(i))
  BY DEF Arrives
<1>n. UNCHANGED name2index => NamesOf(i)' = NamesOf(i)
  BY NamesUnchanged
<1>1. ASSUME NEW name \in Names, TryEnrollAndStore(name) PROVE Fits(i)'
  BY <1>1, <1>p, <1>r, <1>n DEF TryEnrollAndStore
<1>2. ASSUME NEW name \in Names, TryDelete(name) PROVE Fits(i)'
  <2> DEFINE j == name2index[name]
  <2>1. /\ library' = library \ {j} /\ rx' = <<>> /\ j \in Indices
        /\ UNCHANGED <<name2index, index2action, index2scheduler, taskVars, toCheck>>
        /\ \E others : CutOff(Unread, others)
        /\ \/ httpd' = "deleteName" /\ jobName' = name /\ jobIndex' = j
           \/ UNCHANGED <<httpd, jobName, jobIndex>> /\ j \in torn'
    BY <1>2, <1>i DEF TryDelete, Command, CutOff
  <2>2. NamesOf(i)' = NamesOf(i) /\ ~Arrives(i) /\ ~Arrives(i)'
    <3>1. Unread \cup {} = Unread
      OBVIOUS
    <3> QED BY <2>1, <3>1, <1>f, <1>n
  <2>3. name \in NamesOf(j)
    BY DEF NamesOf
  <2> HIDE DEF j
  <2>4. CASE i = j
    <3>1. NamesOf(i) \subseteq {name}
      BY <2>3, <2>4
    <3>2. ~Naming(i)
      BY <2>3, <2>4
    <3> QED BY <2>1, <2>2, <2>4, <3>1, <3>2, <1>p
  <2>5. CASE i # j
    BY <2>1, <2>2, <2>5, <1>p
  <2> QED BY <2>4, <2>5
<1>3. ASSUME NEW oldName \in Names, NEW newName \in Names, TryRename(oldName, newName)
      PROVE  Fits(i)'
  <2> DEFINE j == name2index[oldName]
  <2>1. /\ j \in Indices /\ httpd' = "rename" /\ jobName' = newName /\ jobIndex' = j
        /\ name2index' = [name2index EXCEPT ![oldName] = None]
        /\ UNCHANGED <<sensorVars, index2action, index2scheduler, taskVars, toCheck>>
    BY <1>3, <1>i DEF TryRename
  <2>2. NamesOf(i)' = NamesOf(i) \ {oldName} /\ oldName \in NamesOf(j)
    BY <2>1, <1>i DEF NamesOf
  <2>3. i # j => NamesOf(i)' = NamesOf(i)
    BY <2>1, <1>i DEF NamesOf
  <2> HIDE DEF j
  <2>4. CASE i = j
    <3>1. NamesOf(i)' = {} /\ NamesOf(i) # {}
      BY <2>2, <2>4
    <3> QED BY <2>1, <2>4, <3>1, <1>p, <1>r
  <2>5. CASE i # j
    BY <2>1, <2>3, <2>5, <1>p, <1>r
  <2> QED BY <2>4, <2>5
<1>4. ASSUME NEW j \in Indices, NEW action \in Actions, TryStoreFingerAction(j, action)
      PROVE  Fits(i)'
  <2>1. /\ index2action' = [index2action EXCEPT ![j] = action]
        /\ UNCHANGED <<sensorVars, name2index, index2scheduler, taskVars, httpdVars>>
        /\ CutOff({}, IF task = "off" THEN {j} \cap (library \ Named) ELSE {})
    BY <1>4 DEF TryStoreFingerAction, SetAction
  <2>2. NamesOf(i)' = NamesOf(i)
    BY <2>1, <1>n
  <2>3. CASE i = j
    <3>1. task = "off" => i \notin library \ Named
      BY <2>1, <2>3 DEF CutOff
    <3>2. i \in Named => NamesOf(i) # {}
      BY DEF Named, NamesOf
    <3>3. ~Missing(i)
      BY <3>1, <3>2, <1>p
    <3>4. index2action'[i] # None
      BY <2>1, <2>3, <1>i
    <3> QED BY <2>1, <2>2, <3>3, <3>4, <1>p, <1>r
  <2>4. CASE i # j
    <3>1. index2action'[i] = index2action[i]
      BY <2>1, <2>4, <1>i
    <3> QED BY <2>1, <2>2, <3>1, <1>p, <1>r
  <2> QED BY <2>3, <2>4
<1>5. ASSUME NEW j \in Indices, NEW schedule \in Schedules, TryStoreFingerScheduler(j, schedule)
      PROVE  Fits(i)'
  <2>1. /\ index2scheduler' = [index2scheduler EXCEPT ![j] = schedule]
        /\ UNCHANGED <<sensorVars, name2index, index2action, taskVars, httpdVars>>
    BY <1>5 DEF TryStoreFingerScheduler
  <2>2. index2scheduler'[i] = index2scheduler[i] \/ index2scheduler'[i] # None
    BY <2>1, <1>i
  <2> QED BY <2>1, <2>2, <1>p, <1>r, <1>n
<1>6. CASE TryDeleteAll
  <2>1. /\ library' = {} /\ rx' = <<>>
        /\ UNCHANGED <<name2index, index2action, index2scheduler, taskVars, jobIndex, jobName, toCheck>>
        /\ \E others : CutOff(Unread, others)
        /\ \/ httpd' = "deleteNames" /\ (task = "name" => taskIndex \in torn')
           \/ torn' = torn \cup Unread \cup Indices
    BY <1>6 DEF TryDeleteAll, Command, CutOff
  <2>2. NamesOf(i)' = NamesOf(i) /\ ~Arrives(i) /\ ~Arrives(i)'
    <3>1. Unread \cup {} = Unread
      OBVIOUS
    <3> QED BY <2>1, <3>1, <1>f, <1>n
  <2> QED BY <2>1, <2>2, <1>p
<1>7. CASE CancelInstruction
  <2>1. /\ rx' = <<>> /\ UNCHANGED <<library, nvsVars, taskVars, httpdVars>>
        /\ \E others : CutOff(Unread, others)
    BY <1>7 DEF CancelInstruction
  <2>2. NamesOf(i)' = NamesOf(i) /\ ~Arrives(i) /\ ~Arrives(i)'
    <3>1. Unread \cup {} = Unread
      OBVIOUS
    <3> QED BY <2>1, <3>1, <1>f, <1>n
  <2> QED BY <2>1, <2>2, <1>p
<1> QED BY <1>1, <1>2, <1>3, <1>4, <1>5, <1>6, <1>7 DEF Request

LEMMA FitsHttpd ==
    ASSUME TypesInv, PhaseInv, HttpdStep, NEW i \in Indices \ torn', Fits(i)
    PROVE  Fits(i)'
<1> USE DEF sensorVars, nvsVars, taskVars, httpdVars, historyVars, cutVars, BeginPhases
<1> USE DEF Fits, NamesFit, EntriesFit, JobsFit, Naming, Storing, Renaming, Repairing, Missing,
            Deleting, StorePhases
<1>i. /\ name2index \in [Names -> Indices \cup {None}]
      /\ index2action \in [Indices -> Actions \cup {None}]
      /\ index2scheduler \in [Indices -> Schedules \cup {None}]
      /\ httpd \in JobPhases => jobIndex \in Indices /\ jobName \in Names
      /\ None \notin Indices
  BY FingersAssumption DEF TypesInv, TypeOK
<1>r. UNCHANGED rx => (Arrives(i)' <=> Arrives(i))
  BY DEF Arrives
<1>n. UNCHANGED name2index => NamesOf(i)' = NamesOf(i)
  BY NamesUnchanged
<1>1. CASE AutoEnroll
  <2>1. /\ httpd = "enroll" /\ httpd' = "idle" /\ rx' = <<>> /\ CutOff(Unread, {})
        /\ UNCHANGED <<library, nvsVars, task, taskIndex, jobName, jobIndex, toCheck>>
    BY <1>1 DEF AutoEnroll
  <2>2. ~Arrives(i) /\ ~Arrives(i)'
    BY <2>1, UnreadArrives, NothingArrivesNext DEF CutOff
  <2> QED BY <2>1, <2>2, <1>n
<1>2. CASE FinishRename
  <2>1. /\ httpd = "rename" /\ httpd' = "idle" /\ jobIndex \in Indices /\ jobName \in Names
        /\ SetName(jobName, jobIndex, jobIndex)
        /\ UNCHANGED <<sensorVars, index2action, index2scheduler, taskVars, toCheck>>
    BY <1>2, <1>i DEF FinishRename, JobPhases
  <2>2. CASE i = jobIndex
    <3>1. NamesOf(i) = {} /\ SetName(jobName, i, i)
      BY <2>1, <2>2
    <3>2. NamesOf(i)' = {jobName}
      BY <2>1, <3>1, SetNameHere
    <3> QED BY <2>1, <2>2, <3>1, <3>2, <1>r
  <2>3. CASE i # jobIndex
    <3>1. NamesOf(i)' = NamesOf(i)
      BY <2>1, <2>3, SetNameElsewhere
    <3> QED BY <2>1, <2>3, <3>1, <1>r
  <2> QED BY <2>2, <2>3
<1>3. CASE DeleteName
  <2>1. /\ httpd = "deleteName" /\ httpd' = "deleteAction" /\ jobIndex \in Indices
        /\ jobName \in Names /\ SetName(jobName, None, jobIndex)
        /\ UNCHANGED <<sensorVars, index2action, index2scheduler, taskVars, jobIndex, toCheck>>
    BY <1>3, <1>i DEF DeleteName, JobPhases, DeletePhases
  <2>2. CASE i = jobIndex
    <3>1. NamesOf(i)' = {}
      BY <2>1, <2>2, SetNameHere
    <3> QED BY <2>1, <2>2, <3>1, <1>r
  <2>3. CASE i # jobIndex
    <3>1. NamesOf(i)' = NamesOf(i)
      BY <2>1, <2>3, SetNameElsewhere
    <3> QED BY <2>1, <2>3, <3>1, <1>r
  <2> QED BY <2>2, <2>3
<1>4. CASE DeleteAction
  <2>1. /\ httpd = "deleteAction" /\ httpd' = "deleteScheduler"
        /\ index2action' = [index2action EXCEPT ![jobIndex] = None]
        /\ UNCHANGED <<sensorVars, name2index, index2scheduler, taskVars, jobIndex, toCheck>>
    BY <1>4 DEF DeleteAction
  <2>2. i # jobIndex => index2action'[i] = index2action[i]
    BY <2>1, <1>i
  <2> QED BY <2>1, <2>2, <1>n, <1>r
<1>5. CASE DeleteScheduler
  <2>1. /\ httpd = "deleteScheduler" /\ httpd' = "idle"
        /\ index2scheduler' = [index2scheduler EXCEPT ![jobIndex] = None]
        /\ UNCHANGED <<sensorVars, name2index, index2action, taskVars, toCheck>>
    BY <1>5 DEF DeleteScheduler
  <2>2. i # jobIndex => index2scheduler'[i] = index2scheduler[i]
    BY <2>1, <1>i
  <2> QED BY <2>1, <2>2, <1>n, <1>r
<1>6. CASE DeleteNames
  <2>1. /\ httpd = "deleteNames" /\ httpd' = "deleteActions" /\ i \notin library
        /\ name2index' = [n \in Names |-> None]
        /\ UNCHANGED <<sensorVars, index2action, index2scheduler, taskVars, toCheck>>
    BY <1>6 DEF DeleteNames
  <2>2. NamesOf(i)' = {}
    BY <2>1, <1>i DEF NamesOf
  <2> QED BY <2>1, <2>2, <1>r
<1>7. CASE DeleteActions \/ DeleteSchedulers
  <2>1. /\ httpd \in {"deleteActions", "deleteSchedulers"} /\ httpd' \in {"deleteSchedulers", "idle"}
        /\ i \notin library
        /\ UNCHANGED <<sensorVars, name2index, taskVars, toCheck>>
    BY <1>7 DEF DeleteActions, DeleteSchedulers
  <2> QED BY <2>1, <1>n, <1>r
<1> QED BY <1>1, <1>2, <1>3, <1>4, <1>5, <1>6, <1>7 DEF HttpdStep

\* The fingerprint task stores what the last packet tells of, one namespace
\* after the other.
LEMMA FitsTask ==
    ASSUME TypesInv, PhaseInv, TaskStep \/ TaskDetect, NEW i \in Indices \ torn', Fits(i)
    PROVE  Fits(i)'
<1> USE DEF sensorVars, nvsVars, taskVars, httpdVars, historyVars, cutVars
<1> USE DEF Fits, NamesFit, EntriesFit, JobsFit, Naming, Storing, Renaming, Repairing, Missing,
            Deleting, StorePhases
<1>i. /\ index2action \in [Indices -> Actions \cup {None}]
      /\ index2scheduler \in [Indices -> Schedules \cup {None}]
      /\ task \in StorePhases => taskIndex \in Indices
      /\ task = "name" => fingerName \in Names
      /\ None \notin Indices /\ NoAction # None /\ "ALWAYS" # None
  BY FingersAssumption DEF TypesInv, TypeOK
<1>r. UNCHANGED rx => (Arrives(i)' <=> Arrives(i))
  BY DEF Arrives
<1>n. UNCHANGED name2index => NamesOf(i)' = NamesOf(i)
  BY NamesUnchanged
<1>1. CASE TaskEnroll
  <2>1. /\ task = "loop" /\ isInEnrollment /\ rx # <<>> /\ rx' = Tail(rx)
        /\ UNCHANGED <<library, sensor, nvsVars, httpdVars>>
        /\ IF Head(rx).last
           THEN task' = "name" /\ taskIndex' = Head(rx).index
           ELSE UNCHANGED taskVars
    BY <1>1 DEF TaskEnroll
  <2>2. httpd \notin BeginPhases
    BY <2>1 DEF PhaseInv
  <2>3. CASE Head(rx).last
    <3>1. (Arrives(i) <=> i = taskIndex') /\ ~Arrives(i)'
      BY <2>1, <2>3, Reading DEF PhaseInv
    <3> QED BY <2>1, <2>2, <2>3, <3>1, <1>n DEF BeginPhases
  <2>4. CASE ~Head(rx).last
    <3>1. Arrives(i)' <=> Arrives(i)
      BY <2>1, <2>4, Reading DEF PhaseInv
    <3> QED BY <2>1, <2>4, <3>1, <1>n
  <2> QED BY <2>3, <2>4
<1>2. CASE TaskTimeout
  <2>1. /\ rx = <<>> /\ UNCHANGED <<library, rx, nvsVars, task, taskIndex, httpdVars>>
    BY <1>2 DEF TaskTimeout
  <2>2. ~Arrives(i) /\ ~Arrives(i)'
    BY <2>1, NothingArrives, NothingArrivesNext
  <2> QED BY <2>1, <2>2, <1>n
<1>3. CASE StoreName
  <2>1. /\ task = "name" /\ task' = "action" /\ taskIndex \in Indices /\ fingerName \in Names
        /\ SetName(fingerName, taskIndex, taskIndex)
        /\ UNCHANGED <<library, rx, index2action, index2scheduler, taskIndex,
                       isInEnrollment, httpdVars>>
    BY <1>3, <1>i DEF StoreName
  <2>2. httpd \notin BeginPhases
    BY <2>1 DEF PhaseInv
  <2>3. CASE i = taskIndex
    <3>1. NamesOf(i) = {} /\ SetName(fingerName, i, i)
      BY <2>1, <2>3
    <3>2. NamesOf(i)' = {fingerName}
      BY <2>1, <3>1, SetNameHere
    <3> QED BY <2>1, <2>2, <2>3, <3>1, <3>2, <1>r DEF BeginPhases
  <2>4. CASE i # taskIndex
    <3>1. NamesOf(i)' = NamesOf(i)
      BY <2>1, <2>4, SetNameElsewhere
    <3> QED BY <2>1, <2>4, <3>1, <1>r
  <2> QED BY <2>3, <2>4
<1>4. CASE StoreAction
  <2>1. /\ task = "action" /\ task' = "scheduler" /\ taskIndex \in Indices
        /\ index2action' = [index2action EXCEPT ![taskIndex] = NoAction]
        /\ UNCHANGED <<library, rx, name2index, index2scheduler, taskIndex, isInEnrollment, httpdVars>>
    BY <1>4, <1>i DEF StoreAction, SetAction
  <2>2. httpd \notin BeginPhases
    BY <2>1 DEF PhaseInv
  <2>3. index2action'[i] = IF i = taskIndex THEN NoAction ELSE index2action[i]
    BY <2>1, <1>i
  <2> QED BY <2>1, <2>2, <2>3, <1>i, <1>r, <1>n DEF BeginPhases
<1>5. CASE StoreScheduler
  <2>1. /\ task = "scheduler" /\ task' = "loop" /\ taskIndex \in Indices
        /\ index2scheduler' = [index2scheduler EXCEPT ![taskIndex] = "ALWAYS"]
        /\ UNCHANGED <<library, rx, name2index, index2action, isInEnrollment, httpdVars>>
    BY <1>5, <1>i DEF StoreScheduler
  <2>2. httpd \notin BeginPhases
    BY <2>1 DEF PhaseInv
  <2>3. index2scheduler'[i] = IF i = taskIndex THEN "ALWAYS" ELSE index2scheduler[i]
    BY <2>1, <1>i
  <2>4. ~Missing(i)' /\ ~Naming(i) /\ ~Naming(i)'
    BY <2>1, <2>2 DEF BeginPhases
  <2> QED BY <2>1, <2>2, <2>3, <2>4, <1>i, <1>r, <1>n DEF BeginPhases
<1>6. CASE TaskDetect
  <2>1. /\ ~isInEnrollment /\ rx' = <<>>
        /\ UNCHANGED <<library, nvsVars, taskVars, httpdVars>>
    BY <1>6 DEF TaskDetect, Command
  <2>2. ~Arrives(i) /\ ~Arrives(i)'
    BY <2>1, NothingArrivesNext
  <2> QED BY <2>1, <2>2, <1>n
<1> QED BY <1>1, <1>2, <1>3, <1>4, <1>5, <1>6 DEF TaskStep

LEMMA FitsSensor ==
    ASSUME TypesInv, PhaseInv, SensorProgress \/ SensorEnds, NEW i \in Indices \ torn', Fits(i)
    PROVE  Fits(i)'
<1> USE DEF Fits, NamesFit, EntriesFit, JobsFit, Naming, Storing, Renaming, Repairing, Missing,
            Deleting, StorePhases
<1>p. /\ sensor = "enrolling"
      /\ UNCHANGED <<name2index, index2action, index2scheduler, taskVars, httpdVars>>
      /\ httpd \notin BeginPhases
  BY SensorPhases DEF PhaseInv
<1>n. NamesOf(i)' = NamesOf(i) /\ ~Arrives(i)
  BY <1>p, NamesUnchanged, SensorPhases, Sending DEF PhaseInv
<1>1. CASE UNCHANGED library /\ ~Arrives(i)'
  BY <1>1, <1>p, <1>n DEF taskVars, httpdVars
<1>2. CASE SensorProgress \/ SensorFails
  <2>1. UNCHANGED library /\ Sends(FALSE, None)
    BY <1>2 DEF SensorProgress, SensorFails
  <2> QED BY <2>1, <1>1, <1>p, Sending DEF PhaseInv
<1>3. ASSUME NEW j \in Indices, SensorRefuses(j) PROVE Fits(i)'
  <2>1. UNCHANGED library /\ Sends(TRUE, j) /\ i # j
    BY <1>3 DEF SensorRefuses, CutOff
  <2> QED BY <2>1, <1>1, <1>p, Sending DEF PhaseInv
<1>4. ASSUME NEW j \in Indices, SensorStores(j) PROVE Fits(i)'
  <2>1. /\ j \notin library /\ library' = library \cup {j} /\ Sends(TRUE, j)
        /\ i = j => rx' # rx /\ isInEnrollment /\ task # "off" /\ ~Deleting(i)
    BY <1>4, Zenon DEF SensorStores, CutOff
  <2>2. Arrives(i)' <=> i = j
    BY <2>1, <1>p, Sending DEF PhaseInv
  <2>3. CASE i = j
    <3>1. NamesOf(i) = {} /\ ~Naming(i) /\ ~Renaming(i)
      BY <2>1, <2>3
    <3> QED BY <2>1, <2>2, <2>3, <3>1, <1>p, <1>n DEF taskVars, httpdVars, BeginPhases
  <2>4. CASE i # j
    BY <2>1, <2>2, <2>4, <1>p, <1>n DEF taskVars, httpdVars
  <2> QED BY <2>3, <2>4
<1> QED BY <1>2, <1>3, <1>4 DEF SensorEnds

\* A reset cuts off what has begun; Begin comes to the rest.
LEMMA FitsReset ==
    ASSUME TypesInv, PhaseInv, Reset, NEW i \in Indices \ torn', i \notin torn, Fits(i)
    PROVE  Fits(i)'
<1> USE DEF Fits, NamesFit, EntriesFit, JobsFit, Naming, Storing, Renaming, Repairing, Missing,
            Deleting, StorePhases
<1>1. /\ UNCHANGED <<library, name2index, index2action, index2scheduler>>
      /\ httpd' = "off" /\ task' = "off" /\ rx' = <<>>
  BY DEF Reset, nvsVars
<1>2. NamesOf(i)' = NamesOf(i) /\ ~Arrives(i)'
  BY <1>1, NamesUnchanged, NothingArrivesNext
<1>3. ~Arrives(i) /\ ~Interrupted(i)
  BY UnreadArrives DEF Reset, CutOff
<1>4. ~Storing(i)
  BY DEF Reset, CutOff
<1> QED BY <1>1, <1>2, <1>3, <1>4 DEF Interrupted, BeginPhases

LEMMA AgreeStep == TypesInv /\ PhaseInv /\ AgreeInv /\ [Next]_vars => AgreeInv'
<1> SUFFICES ASSUME TypesInv, PhaseInv, AgreeInv, [Next]_vars, NEW i \in Indices \ torn'
             PROVE  Fits(i)'
  BY DEF AgreeInv
<1>1. i \notin torn /\ Fits(i)
  BY TornGrows DEF AgreeInv
<1>2. CASE UNCHANGED vars
  <2>1. NamesOf(i)' = NamesOf(i) /\ (Arrives(i)' <=> Arrives(i))
    BY <1>2, NamesUnchanged DEF vars, nvsVars, sensorVars, Arrives
  <2> QED BY <1>1, <1>2, <2>1
          DEF vars, sensorVars, nvsVars, taskVars, httpdVars, Fits, NamesFit, EntriesFit, JobsFit,
              Naming, Storing, Renaming, Repairing, Missing, Deleting
<1> QED BY <1>1, <1>2, FitsBegin, FitsRequest, FitsHttpd, FitsTask, FitsSensor, FitsReset DEF Next

\* Whenever nothing is going on the sensor and the three namespaces tell of the
\* same fingers, wherever nothing was cut off.
THEOREM StoresStayEqual == Spec => []StoresAgree
<1>1. Init => AgreeInv
  <2> SUFFICES ASSUME Init, NEW i \in Indices \ torn PROVE Fits(i)
    BY DEF AgreeInv
  <2>1. NamesOf(i) = {} /\ ~Arrives(i)
    BY NothingArrives, FingersAssumption DEF Init, NamesOf
  <2> QED BY <2>1 DEF Init, Fits, NamesFit, EntriesFit, JobsFit, Naming, Storing, Renaming,
             Repairing, Missing, Deleting, StorePhases, BeginPhases
<1>2. TypesInv /\ AgreeInv => StoresAgree
  <2> SUFFICES ASSUME TypesInv, AgreeInv, httpd = "idle", task = "loop", ~Underway,
                      NEW i \in Indices \ torn
               PROVE  /\ i \in Named <=> i \in library
                      /\ \A m, n \in Names : name2index[m] = i /\ name2index[n] = i => m = n
                      /\ i \in library => index2action[i] # None /\ index2scheduler[i] # None
    BY DEF StoresAgree
  <2>1. Fits(i) /\ ~isInEnrollment
    BY DEF AgreeInv, Underway
  <2>2. /\ i \in library <=> NamesOf(i) # {}
        /\ \A m, n \in NamesOf(i) : m = n
        /\ i \in library => index2action[i] # None /\ index2scheduler[i] # None
    BY <2>1 DEF Fits, NamesFit, EntriesFit, JobsFit, Naming, Storing, Renaming, Repairing, Missing,
       StorePhases, BeginPhases
  <2>3. i \in Named <=> NamesOf(i) # {}
    BY FingersAssumption DEF Named, NamesOf
  <2> QED BY <2>2, <2>3 DEF NamesOf
<1> QED BY <1>1, <1>2, TypesInitially, TypesStep, PhaseInitially, PhaseStep, AgreeStep, PTL DEF Spec
=============================================================================
