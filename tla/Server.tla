------------------------------- MODULE Server -------------------------------
(***************************************************************************)
(* Requests over the WebSocket and the plugins that handle them: the user  *)
(* settings with their state, the others by how they answer.  All handlers *)
(* and the queued answers run in the HTTP task, one after the other.       *)
(***************************************************************************)
EXTENDS WebSocket, UserSettings

VARIABLE promised       \* history: the value of each setting that was
                        \* acknowledged and that no later request sets

vars == <<socketVars, settingsVars, promised>>

TypeOK ==
    /\ SocketsTypeOK /\ SettingsTypeOK
    /\ setting # NotSetting => handling # None
    /\ promised \in [Groups -> [Keys -> SettingValues \cup {Unset}]]

\* No handler is part-way through its request.
Handling == handling # None /\ setting = NotSetting

Only(action) == action /\ UNCHANGED <<settingsVars, promised>>

Dispatch ==
    \/ \E c \in Clients, fd \in Fds : Only(Connect(c, fd))
    \/ \E c \in Clients : \/ Only(Close(c)) \/ Only(ReceiveIgnored(c)) \/ Only(ReceiveFails(c))
                          \/ Only(Receive(c))
    \/ \E i \in Deferred \cup {Unsolicited} : Only(Post(i))
    \/ Only(SocketsBoot)

(***************************************************************************)
(* Handlers.                                                               *)
(***************************************************************************)
handleRequestSetUserSettings ==
    /\ Handling /\ ~Answered(handling)
    /\ \E request \in SetRequests :
          /\ BeginSet(request)
          /\ promised' = [promised EXCEPT ![request.group] =
                 [k \in Keys |-> IF k \in Given(request.value) THEN Unset ELSE @[k]]]
    /\ UNCHANGED socketVars

SetNext == (\E k \in Keys : SetKey(k)) /\ UNCHANGED <<socketVars, promised>>

SetAnswers ==
    /\ FinishSet /\ Answer
    /\ promised' = [promised EXCEPT ![setting.group] =
           [k \in Keys |-> IF k \in Given(setting.value) THEN setting.value[k] ELSE @[k]]]

\* There is no answer when the namespace does not exist.
handleRequestGetUserSettings ==
    /\ Handling /\ UNCHANGED promised
    /\ \E g \in Groups : \/ GetAnswers(g) /\ Answer
                         \/ GetRefused(g) /\ Refuse
                         \/ GetAborts(g) /\ SocketsReset

\* The network information, the system's data, the requests of the scheduler
\* and the fingerprint manager, and a request to connect that is turned down.
OtherPluginAnswers == Handling /\ Only(Answer)

\* A namespace or a request nobody knows, an unknown group, or an NVS that
\* does not open: the client is told nothing.
NotAnswered == Handling /\ Only(Refuse)

\* The answer comes from the event loop, when the attempt ends.
handleRequestWifiConnect == Handling /\ Only(Defer)

handleRequestWifiDisconnect == Handling /\ (Only(AnswerAndSleep) \/ Only(EndSleep))

esp_restart == Handling /\ Only(SocketsReset)

SendAnswer == Only(ws_async_send)

HttpdStep ==
    \/ handleRequestSetUserSettings \/ SetNext \/ SetAnswers
    \/ handleRequestGetUserSettings \/ OtherPluginAnswers \/ NotAnswered
    \/ handleRequestWifiConnect \/ handleRequestWifiDisconnect \/ esp_restart
    \/ SendAnswer

\* At any moment, and where ESP_ERROR_CHECK fails.
Reset == SocketsReset /\ CutSet /\ UNCHANGED promised

Init == SocketsInit /\ SettingsInit /\ promised = [g \in Groups |-> [k \in Keys |-> Unset]]

Next == Dispatch \/ HttpdStep \/ Reset

Spec == Init /\ [][Next]_vars

\* The HTTP task runs; nothing is assumed of clients and of other tasks.
FairSpec == Spec /\ WF_vars(HttpdStep)

(***************************************************************************)
(* Properties.                                                             *)
(***************************************************************************)
\* An answer goes to the descriptor stored last.  If since the request no
\* other client sent a frame and the asker stayed connected, that is still the
\* asker's: the answer is sent to it, and nobody else, through disconnections,
\* descriptors used again and answers posted by other tasks.  Only the sending
\* itself may still fail, which nobody is told.
AnswersReachAsker == \A i \in Ids : fate[i] \in {"astray", "lost"} => i \in disturbed

\* Once the answer to a request to set is on its way every setting it gave a
\* value is in flash, and stays there until a later request gives it another:
\* also when a request for the group is cut off by a reset.  A setting whose
\* value has an unknown type is acknowledged, too; it keeps what it had.
AcknowledgedSettingsHold ==
    \A g \in Groups, k \in Keys : promised[g][k] # Unset => stored[g][k] = promised[g][k]

\* A request that is taken up comes to an end: answered, turned down, or cut
\* off by a reset.  It does not wait for a client that is gone or a full queue;
\* only a request to connect may wait, for the network.
RequestsEnd == \A i \in Ids : fate[i] = "open" ~> fate[i] # "open"
=============================================================================
