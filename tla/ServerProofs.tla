---------------------------- MODULE ServerProofs ----------------------------
(***************************************************************************)
(* Proofs about Server.  AnswersInv is inductive for the answers on their  *)
(* way, whatever the plugins do; SettingsInv for the settings, whatever    *)
(* happens to connections and answers.                                     *)
(***************************************************************************)
EXTENDS Server, SequenceTheorems, TLAPS

-----------------------------------------------------------------------------
\* An answer is queued at most once, for a request that still waits for it; a
\* handler that has answered waits for nothing else.
QueuedArePending ==
    /\ \A k \in 1 .. Len(queue) : queue[k] \in Ids => queue[k] \in Pending
    /\ \A k, l \in 1 .. Len(queue) : queue[k] = queue[l] /\ queue[k] \in Ids => k = l
    /\ handling # None => fate[handling] \in {"open", "dropped"}

\* While nothing has disturbed a request its asker is the one listened to.
AskersAreHeard ==
    \A i \in Pending \ disturbed : asker[i] \in Clients /\ Listens(asker[i])

AnswersInv == SocketsTypeOK /\ QueuedArePending /\ AskersAreHeard /\ AnswersReachAsker

\* What one pass of the HTTP task, a client or another task does to the
\* sockets; the plugins only choose among these.
SocketsNext ==
    \/ \E c \in Clients, fd \in Fds : Connect(c, fd)
    \/ \E c \in Clients : Close(c) \/ ReceiveIgnored(c) \/ ReceiveFails(c) \/ Receive(c)
    \/ \E i \in Deferred \cup {Unsolicited} : Post(i)
    \/ Answer \/ AnswerAndSleep \/ EndSleep \/ Refuse \/ Defer
    \/ ws_async_send \/ SocketsReset \/ SocketsBoot

LEMMA NextIsSocketsNext == [Next]_vars => [SocketsNext]_socketVars
BY DEF Next, Dispatch, HttpdStep, Reset, Only, handleRequestSetUserSettings, SetNext, SetAnswers,
       handleRequestGetUserSettings, OtherPluginAnswers, NotAnswered, handleRequestWifiConnect,
       handleRequestWifiDisconnect, esp_restart, SendAnswer, SocketsNext, vars

-----------------------------------------------------------------------------
\* Queueing an answer that waits for its request, or a message nobody asked
\* for: it is appended, or dropped where the queue is full.
LEMMA WrapAndSendAsyncStep ==
    ASSUME AnswersInv, NEW i \in Pending \cup {Unsolicited}, i \in Ids => ~Answered(i),
           WrapAndSendAsync(i), UNCHANGED <<up, conn, websocket_file_descriptor, asker, disturbed>>,
           handling' \in {handling, None}
    PROVE  AnswersInv'
<1> USE SocketsAssumption DEF AnswersInv, SocketsTypeOK, Ids, Unsolicited, Pending, Fates
<1>1. CASE Len(queue) < QueueSize
  <2>1. queue' = Append(queue, i) /\ UNCHANGED fate
    BY <1>1 DEF WrapAndSendAsync
  <2>2. /\ queue' \in Seq(Ids \cup {Unsolicited}) /\ Len(queue') = Len(queue) + 1
        /\ \A k \in 1 .. Len(queue) : queue'[k] = queue[k]
        /\ queue'[Len(queue) + 1] = i
    BY <2>1, AppendProperties
  <2>3. SocketsTypeOK'
    BY <1>1, <2>1, <2>2
  <2>4. QueuedArePending'
    BY <2>1, <2>2 DEF QueuedArePending, Answered
  <2> QED BY <2>1, <2>3, <2>4 DEF AskersAreHeard, Listens, AnswersReachAsker
<1>2. CASE ~(Len(queue) < QueueSize)
  <2>1. fate' = [j \in Ids |-> IF j = i THEN "dropped" ELSE fate[j]] /\ UNCHANGED queue
    BY <1>2 DEF WrapAndSendAsync
  <2>2. SocketsTypeOK'
    BY <2>1
  <2>3. QueuedArePending'
    BY <2>1 DEF QueuedArePending, Answered
  <2> QED BY <2>1, <2>2, <2>3 DEF AskersAreHeard, Listens, AnswersReachAsker
<1> QED BY <1>1, <1>2

LEMMA SocketsStep == AnswersInv /\ [SocketsNext]_socketVars => AnswersInv'
<1> SUFFICES ASSUME AnswersInv, [SocketsNext]_socketVars PROVE AnswersInv'
  OBVIOUS
<1> USE SocketsAssumption DEF AnswersInv, Ids, Unsolicited
\* What keeps the queue and the requests keeps QueuedArePending.
<1>0. ASSUME UNCHANGED <<queue, handling, fate>>
      PROVE  QueuedArePending' /\ Pending' = Pending
  BY <1>0 DEF QueuedArePending, Pending
<1>1. ASSUME NEW c \in Clients, NEW fd \in Fds, Connect(c, fd) PROVE AnswersInv'
  <2>1. SocketsTypeOK'
    BY <1>1 DEF Connect, SocketsTypeOK
  <2> QED BY <1>0, <1>1, <2>1 DEF Connect, SocketsTypeOK, AskersAreHeard, Listens, AnswersReachAsker
<1>2. ASSUME NEW c \in Clients, Close(c) PROVE AnswersInv'
  <2>1. SocketsTypeOK'
    BY <1>2 DEF Close, AskedBy, Pending, SocketsTypeOK
  <2>2. AskersAreHeard'
    BY <1>0, <1>2 DEF Close, AskedBy, SocketsTypeOK, AskersAreHeard, Listens
  <2> QED BY <1>0, <1>2, <2>1, <2>2 DEF Close, AnswersReachAsker
<1>3. ASSUME NEW c \in Clients, ReceiveIgnored(c) PROVE AnswersInv'
  <2>1. SocketsTypeOK'
    BY <1>3 DEF ReceiveIgnored, ListenTo, Pending, SocketsTypeOK
  <2>2. AskersAreHeard'
    BY <1>0, <1>3 DEF ReceiveIgnored, ListenTo, AskedBy, SocketsTypeOK, AskersAreHeard, Listens
  <2> QED BY <1>0, <1>3, <2>1, <2>2 DEF ReceiveIgnored, ListenTo, AnswersReachAsker
<1>4. ASSUME NEW c \in Clients, ReceiveFails(c) PROVE AnswersInv'
  <2>1. SocketsTypeOK'
    BY <1>4 DEF ReceiveFails, Pending, SocketsTypeOK
  <2>2. AskersAreHeard'
    BY <1>0, <1>4 DEF ReceiveFails, AskersAreHeard
  <2> QED BY <1>0, <1>4, <2>1, <2>2 DEF ReceiveFails, AnswersReachAsker
<1>5. ASSUME NEW c \in Clients, Receive(c) PROVE AnswersInv'
  <2>1. PICK i \in Ids : /\ fate[i] = "unasked" /\ handling' = i
                         /\ asker' = [asker EXCEPT ![i] = c]
                         /\ fate' = [fate EXCEPT ![i] = "open"]
    BY <1>5 DEF Receive
  <2>2. /\ i \notin Pending /\ Pending' = Pending \cup {i} /\ UNCHANGED <<up, conn, queue>>
        /\ conn[c] # None /\ websocket_file_descriptor' = conn[c]
        /\ disturbed' = disturbed \cup (Pending \ AskedBy(c))
    BY <1>5, <2>1 DEF Receive, ListenTo, Pending, SocketsTypeOK
  <2>3. SocketsTypeOK'
    BY <2>1, <2>2 DEF Pending, SocketsTypeOK, Fates
  <2>4. QueuedArePending'
    BY <2>1, <2>2 DEF QueuedArePending, SocketsTypeOK
  <2>5. AskersAreHeard'
    BY <2>1, <2>2 DEF AskedBy, SocketsTypeOK, AskersAreHeard, Listens
  <2>6. AnswersReachAsker'
    BY <2>1, <2>2 DEF AnswersReachAsker, SocketsTypeOK
  <2> QED BY <2>3, <2>4, <2>5, <2>6
<1>6. ASSUME NEW i \in Deferred \cup {Unsolicited}, Post(i) PROVE AnswersInv'
  BY <1>6, WrapAndSendAsyncStep DEF Post, Deferred, Pending
<1>7. CASE Answer \/ AnswerAndSleep
  <2>1. handling \in Ids /\ fate[handling] = "open" /\ ~Answered(handling)
    BY <1>7 DEF Answer, AnswerAndSleep, Answers, Answered, QueuedArePending, SocketsTypeOK
  <2> QED BY <1>7, <2>1, WrapAndSendAsyncStep DEF Answer, AnswerAndSleep, Answers, Pending
<1>8. CASE EndSleep
  BY <1>8 DEF EndSleep, SocketsTypeOK, Pending, QueuedArePending, AskersAreHeard, Listens,
              AnswersReachAsker
<1>9. CASE Refuse \/ Defer
  <2>1. PICK what \in {"refused", "deferred"} : EndsAs(what)
    BY <1>9 DEF Refuse, Defer
  <2>2. handling \in Ids /\ \A k \in 1 .. Len(queue) : queue[k] # handling
    BY <2>1 DEF EndsAs, Answered, SocketsTypeOK
  <2>3. SocketsTypeOK'
    BY <2>1 DEF EndsAs, SocketsTypeOK, Fates
  <2>4. /\ Pending' \subseteq Pending \cup {handling} /\ Pending \ {handling} \subseteq Pending'
        /\ handling \in Pending
    BY <2>1, <2>2 DEF EndsAs, Answered, Pending, QueuedArePending, SocketsTypeOK
  <2>5. QueuedArePending'
    BY <2>1, <2>2, <2>4 DEF EndsAs, QueuedArePending
  <2>6. AskersAreHeard'
    BY <2>1, <2>4 DEF EndsAs, AskersAreHeard, Listens
  <2>7. AnswersReachAsker'
    BY <2>1, <2>2 DEF EndsAs, AnswersReachAsker, SocketsTypeOK
  <2> QED BY <2>3, <2>5, <2>6, <2>7
<1>10. CASE ws_async_send
  <2>1. /\ queue \in Seq(Ids \cup {Unsolicited}) /\ queue # <<>> /\ queue' = Tail(queue)
        /\ UNCHANGED <<up, conn, websocket_file_descriptor, handling, asker, disturbed>>
        /\ handling = None
        /\ \E failed \in BOOLEAN :
               fate' = [j \in Ids |-> IF j # Head(queue) THEN fate[j]
                                     ELSE IF failed THEN "failed" ELSE Outcome(j)]
    BY <1>10 DEF ws_async_send, SocketsTypeOK
  <2>2. /\ Head(queue) = queue[1] /\ queue' \in Seq(Ids \cup {Unsolicited})
        /\ Len(queue) \in Nat \ {0} /\ Len(queue') = Len(queue) - 1
        /\ \A k \in 1 .. Len(queue') : queue'[k] = queue[k + 1]
    BY <2>1, HeadTailProperties, EmptySeq
  <2>3. \A j \in Ids : Outcome(j) \in {"reached", "astray", "lost"}
    BY DEF Outcome
  <2>4. SocketsTypeOK'
    BY <2>1, <2>2, <2>3 DEF SocketsTypeOK, Fates
  <2>5. Pending' = Pending \ {Head(queue)}
    BY <2>1, <2>3 DEF Pending
  <2>6. QueuedArePending'
    BY <2>1, <2>2, <2>5 DEF QueuedArePending
  <2>7. AskersAreHeard'
    BY <2>1, <2>5 DEF AskersAreHeard, Listens
  <2>8. ASSUME NEW j \in Ids, fate'[j] \in {"astray", "lost"} PROVE j \in disturbed'
    <3>1. CASE j = Head(queue)
      <4>1. j \in Pending /\ ~Listens(asker[j])
        BY <2>1, <2>2, <2>8, <3>1 DEF QueuedArePending, Outcome
      <4> QED BY <2>1, <4>1 DEF AskersAreHeard
    <3>2. CASE j # Head(queue)
      BY <2>1, <2>8, <3>2 DEF AnswersReachAsker
    <3> QED BY <3>1, <3>2
  <2> QED BY <2>4, <2>6, <2>7, <2>8 DEF AnswersReachAsker
<1>11. CASE SocketsReset
  <2>1. SocketsTypeOK'
    <3>1. queue' \in Seq(Ids \cup {Unsolicited}) /\ Len(queue') = 0
      BY <1>11 DEF SocketsReset
    <3>2. fate' \in [Ids -> Fates]
      BY <1>11 DEF SocketsReset, SocketsTypeOK, Fates
    <3>3. /\ up' \in BOOLEAN /\ websocket_file_descriptor' \in Fds \cup {None}
          /\ handling' \in Ids \cup {None} /\ asker' \in [Ids -> Clients \cup {None}]
          /\ disturbed' \subseteq Ids
      BY <1>11 DEF SocketsReset, SocketsTypeOK
    <3>4. /\ conn' \in [Clients -> Fds \cup {None}]
          /\ \A c, d \in Clients : conn'[c] = conn'[d] /\ conn'[c] # None => c = d
      BY <1>11 DEF SocketsReset
    <3> QED BY <3>1, <3>2, <3>3, <3>4 DEF SocketsTypeOK
  <2>2. Pending' = {} /\ Len(queue') = 0 /\ handling' = None
    BY <1>11 DEF SocketsReset, Pending
  <2>3. AnswersReachAsker'
    BY <1>11 DEF SocketsReset, AnswersReachAsker
  <2> QED BY <2>1, <2>2, <2>3 DEF QueuedArePending, AskersAreHeard
<1>12. CASE SocketsBoot \/ UNCHANGED socketVars
  <2>1. UNCHANGED <<conn, websocket_file_descriptor, handling, queue, asker, fate, disturbed>>
        /\ up' \in BOOLEAN
    BY <1>12 DEF SocketsBoot, socketVars, SocketsTypeOK
  <2> QED BY <1>0, <2>1 DEF SocketsTypeOK, AskersAreHeard, Listens, AnswersReachAsker
<1> QED
  BY <1>1, <1>2, <1>3, <1>4, <1>5, <1>6, <1>7, <1>8, <1>9, <1>10, <1>11, <1>12 DEF SocketsNext

LEMMA AnswersInitially == Init => AnswersInv
<1> SUFFICES ASSUME Init PROVE AnswersInv
  OBVIOUS
<1>1. queue \in Seq(Ids \cup {Unsolicited}) /\ Len(queue) = 0
  BY DEF Init, SocketsInit
<1>2. Pending = {} /\ AnswersReachAsker
  BY DEF Init, SocketsInit, Pending, AnswersReachAsker
<1>3. SocketsTypeOK
  <2>1. /\ conn \in [Clients -> Fds \cup {None}]
        /\ \A c, d \in Clients : conn[c] = conn[d] /\ conn[c] # None => c = d
    BY DEF Init, SocketsInit
  <2>2. fate \in [Ids -> Fates] /\ asker \in [Ids -> Clients \cup {None}]
    BY DEF Init, SocketsInit, Fates
  <2>3. /\ up \in BOOLEAN /\ websocket_file_descriptor \in Fds \cup {None}
        /\ handling \in Ids \cup {None} /\ disturbed \subseteq Ids
    BY DEF Init, SocketsInit
  <2> QED BY <1>1, <2>1, <2>2, <2>3, SocketsAssumption DEF SocketsTypeOK
<1> QED BY <1>1, <1>2, <1>3 DEF AnswersInv, QueuedArePending, AskersAreHeard, Init, SocketsInit

\* An answer goes to whoever is listened to when it is sent.  Where that is
\* not the asker, somebody else has sent a frame meanwhile or the asker left.
THEOREM AnswersReachTheirAskers == Spec => []AnswersReachAsker
<1>1. AnswersInv /\ [Next]_vars => AnswersInv'
  BY NextIsSocketsNext, SocketsStep
<1> QED BY <1>1, AnswersInitially, PTL DEF Spec, AnswersInv

-----------------------------------------------------------------------------
\* A request gives some keys of its group a value.
LEMMA AssignmentProperties ==
    ASSUME NEW value \in Assignments
    PROVE  /\ DOMAIN value \subseteq Keys
           /\ value \in [DOMAIN value -> SettingValues \cup {Unset}]
BY DEF Assignments

\* Of the request that is handled nothing is promised yet, and what is not
\* left to do is in flash.
SettingIsPending ==
    setting # NotSetting => \A k \in Given(setting.value) :
        /\ promised[setting.group][k] = Unset
        /\ k \in setting.todo \/ stored[setting.group][k] = setting.value[k]

SettingsInv ==
    /\ SettingsTypeOK /\ promised \in [Groups -> [Keys -> SettingValues \cup {Unset}]]
    /\ SettingIsPending /\ AcknowledgedSettingsHold

LEMMA SettingsStep == SettingsInv /\ [Next]_vars => SettingsInv'
<1> SUFFICES ASSUME SettingsInv, [Next]_vars PROVE SettingsInv'
  OBVIOUS
<1> USE SettingsAssumption DEF SettingsInv, SettingsTypeOK, Given
<1>1. CASE handleRequestSetUserSettings
  <2>1. PICK request \in SetRequests :
            /\ BeginSet(request)
            /\ promised' = [promised EXCEPT ![request.group] =
                   [k \in Keys |-> IF k \in Given(request.value) THEN Unset ELSE @[k]]]
    BY <1>1 DEF handleRequestSetUserSettings
  <2>2. request.group \in Groups /\ request.value \in Assignments
    BY DEF SetRequests
  <2>3. DOMAIN request.value \subseteq Keys
    BY <2>2, AssignmentProperties
  <2>4. SettingsTypeOK'
    BY <2>1, <2>2, <2>3 DEF BeginSet
  <2>5. promised' \in [Groups -> [Keys -> SettingValues \cup {Unset}]]
    BY <2>1, <2>2
  <2>6. SettingIsPending'
    BY <2>1, <2>2, <2>3 DEF BeginSet, SettingIsPending
  <2>7. AcknowledgedSettingsHold'
    BY <2>1, <2>2 DEF BeginSet, AcknowledgedSettingsHold
  <2> QED BY <2>4, <2>5, <2>6, <2>7
<1>2. ASSUME NEW k \in Keys, SetKey(k), UNCHANGED promised PROVE SettingsInv'
  <2>1. setting # NotSetting /\ k \in setting.todo
    BY <1>2 DEF SetKey, NotSetting
  <2>2. /\ setting.group \in Groups /\ setting.group \in known /\ setting.value \in Assignments
        /\ setting.todo \subseteq DOMAIN setting.value /\ DOMAIN setting.value \subseteq Keys
        /\ setting.value[k] \in SettingValues \cup {Unset}
    BY <2>1, AssignmentProperties
  <2>3. /\ stored' = [stored EXCEPT ![setting.group][k] =
                            IF k \in Given(setting.value) THEN setting.value[k] ELSE @]
        /\ setting'.group = setting.group /\ setting'.value = setting.value
        /\ setting'.todo = setting.todo \ {k} /\ UNCHANGED known
        /\ setting' \in [group : known, value : Assignments, todo : SUBSET Keys]
    BY <1>2, <2>1, <2>2 DEF SetKey
  <2>4. SettingsTypeOK'
    BY <2>2, <2>3
  <2>5. SettingIsPending'
    BY <1>2, <2>1, <2>2, <2>3 DEF SettingIsPending
  <2>6. AcknowledgedSettingsHold'
    BY <1>2, <2>1, <2>2, <2>3 DEF SettingIsPending, AcknowledgedSettingsHold
  <2> QED BY <1>2, <2>4, <2>5, <2>6
<1>3. CASE SetAnswers
  <2>1. /\ setting # NotSetting /\ setting.todo = {} /\ setting' = NotSetting
        /\ UNCHANGED <<known, stored>>
        /\ promised' = [promised EXCEPT ![setting.group] =
               [k \in Keys |-> IF k \in Given(setting.value) THEN setting.value[k] ELSE @[k]]]
    BY <1>3 DEF SetAnswers, FinishSet
  <2>2. /\ setting.group \in Groups /\ DOMAIN setting.value \subseteq Keys
        /\ \A k \in Given(setting.value) :
               /\ setting.value[k] \in SettingValues
               /\ stored[setting.group][k] = setting.value[k]
    BY <2>1, AssignmentProperties DEF SettingIsPending
  <2>3. promised' \in [Groups -> [Keys -> SettingValues \cup {Unset}]]
    BY <2>1, <2>2
  <2>4. AcknowledgedSettingsHold'
    BY <2>1, <2>2 DEF AcknowledgedSettingsHold
  <2> QED BY <2>1, <2>3, <2>4 DEF SettingIsPending
<1>4. CASE CutSet /\ UNCHANGED promised
  BY <1>4 DEF CutSet, SettingIsPending, AcknowledgedSettingsHold
<1>5. CASE UNCHANGED <<settingsVars, promised>>
  BY <1>5 DEF settingsVars, SettingIsPending, AcknowledgedSettingsHold
<1> QED
  BY <1>1, <1>2, <1>3, <1>4, <1>5
     DEF Next, Dispatch, HttpdStep, Only, SetNext, handleRequestGetUserSettings, GetAnswers,
         GetRefused, GetAborts, OtherPluginAnswers, NotAnswered, handleRequestWifiConnect,
         handleRequestWifiDisconnect, esp_restart, SendAnswer, Reset, vars

LEMMA SettingsInitially == Init => SettingsInv
BY SettingsAssumption
   DEF Init, SettingsInit, SettingsInv, SettingsTypeOK, SettingIsPending,
       AcknowledgedSettingsHold

\* A setting that was given a value, and whose answer is on its way, is in flash
\* until a request gives it another, wherever later requests are cut off.
THEOREM AcknowledgedSettingsStay == Spec => []AcknowledgedSettingsHold
BY SettingsInitially, SettingsStep, PTL DEF Spec, SettingsInv

-----------------------------------------------------------------------------
\* A request to set is only written while its handler runs.
SettingIsHandled == setting # NotSetting => handling # None

LEMMA SettingIsHandledStep == SettingIsHandled /\ [Next]_vars => SettingIsHandled'
<1> SUFFICES ASSUME SettingIsHandled, [Next]_vars PROVE SettingIsHandled'
  OBVIOUS
<1> USE DEF SettingIsHandled
\* Where the handler ends, it was not writing or has stopped.
<1>1. CASE Dispatch
  <2>1. UNCHANGED setting /\ (UNCHANGED handling \/ handling = None)
    BY <1>1 DEF Dispatch, Only, Connect, Close, ListenTo, Receive, ReceiveIgnored, ReceiveFails,
                Post, SocketsBoot, settingsVars
  <2> QED BY <2>1
<1>2. CASE handleRequestSetUserSettings \/ SetNext
  <2>1. UNCHANGED handling
    BY <1>2 DEF handleRequestSetUserSettings, SetNext, socketVars
  <2>2. CASE handleRequestSetUserSettings
    BY <2>1, <2>2 DEF handleRequestSetUserSettings, Handling
  <2>3. CASE SetNext
    <3>1. setting.todo # {} /\ NotSetting.todo = {}
      BY <2>3 DEF SetNext, SetKey, NotSetting
    <3> QED BY <2>1, <3>1
  <2> QED BY <1>2, <2>2, <2>3
<1>3. CASE SetAnswers \/ Reset
  BY <1>3 DEF SetAnswers, FinishSet, Reset, CutSet
<1>4. CASE handleRequestGetUserSettings
  BY <1>4 DEF handleRequestGetUserSettings, Handling, GetAnswers, GetRefused, GetAborts, CutSet,
              settingsVars
<1>5. CASE OtherPluginAnswers \/ NotAnswered \/ handleRequestWifiConnect
               \/ handleRequestWifiDisconnect \/ esp_restart
  BY <1>5 DEF OtherPluginAnswers, NotAnswered, handleRequestWifiConnect,
              handleRequestWifiDisconnect, esp_restart, Handling, Only, settingsVars
<1>6. CASE SendAnswer \/ UNCHANGED vars
  BY <1>6 DEF SendAnswer, Only, ws_async_send, socketVars, settingsVars, vars
<1> QED
  BY <1>1, <1>2, <1>3, <1>4, <1>5, <1>6 DEF Next, HttpdStep

\* Every variable keeps its type: the queue its bound, and a handler's request
\* to set its place.
THEOREM ServerTypeCorrect == Spec => []TypeOK
<1>1. Init => SettingIsHandled
  BY DEF Init, SettingsInit, SettingIsHandled
<1>2. AnswersInv /\ [Next]_vars => AnswersInv'
  BY NextIsSocketsNext, SocketsStep
<1>3. AnswersInv /\ SettingsInv /\ SettingIsHandled => TypeOK
  BY DEF AnswersInv, SettingsInv, SettingIsHandled, TypeOK
<1> QED
  BY <1>1, <1>2, <1>3, AnswersInitially, SettingsInitially, SettingsStep, SettingIsHandledStep, PTL
     DEF Spec
=============================================================================
