----------------------------- MODULE WebSocket -----------------------------
(***************************************************************************)
(* The WebSocket side of webmanager::M: a request is handled in the HTTP   *)
(* task, and its answer is queued to the same task by WrapAndSendAsync,    *)
(* from the handler or later from another task.  ws_async_send sends it to *)
(* the descriptor of the client that asked last, not of the one that asked *)
(* for it; a descriptor is never forgotten, and the next client to connect *)
(* may get its number.                                                     *)
(*                                                                         *)
(* The actions are those of the dispatcher; what a plugin does between     *)
(* Receive and the end of its handler is in `Server'.                      *)
(***************************************************************************)
EXTENDS Naturals, Sequences

CONSTANTS
    Clients,
    Fds,            \* socket descriptors of the HTTP server
    None,
    QueueSize,      \* of the HTTP server's work queue
    MaxRequests     \* bound: requests in a behaviour

ASSUME SocketsAssumption ==
    /\ None \notin Clients \cup Fds
    /\ QueueSize \in Nat \ {0} /\ MaxRequests \in Nat \ {0}

Ids == 1 .. MaxRequests
Unsolicited == 0        \* a message that answers no request

VARIABLES
    up,
    conn,                       \* the descriptor of each client's connection
    websocket_file_descriptor,
    handling,                   \* the request in the HTTP task, or None
    queue,                      \* the work queue
    asker, fate,                \* history: who waits for an answer, and what
                                \* became of each request
    disturbed                   \* history: requests since which another client
                                \* sent a frame, or whose asker has left

socketVars == <<up, conn, websocket_file_descriptor, handling, queue,
                asker, fate, disturbed>>

\* A request is open while it is handled or its answer is queued.  The answer
\* may reach the client that asked, go astray to another, be lost, or fail to be
\* sent to a connection that is open.
Fates == {"unasked", "open", "deferred", "reached", "astray", "lost", "failed",
          "dropped", "refused", "cut"}

SocketsTypeOK ==
    /\ up \in BOOLEAN
    /\ conn \in [Clients -> Fds \cup {None}]
    /\ \A c, d \in Clients : conn[c] = conn[d] /\ conn[c] # None => c = d
    /\ websocket_file_descriptor \in Fds \cup {None}
    /\ handling \in Ids \cup {None}
    /\ queue \in Seq(Ids \cup {Unsolicited}) /\ Len(queue) <= QueueSize
    /\ asker \in [Ids -> Clients \cup {None}]
    /\ fate \in [Ids -> Fates] /\ disturbed \subseteq Ids

Pending == {i \in Ids : fate[i] \in {"open", "deferred"}}
AskedBy(c) == {i \in Pending : asker[i] = c}

\* Connections are accepted in the HTTP task, too.
Connect(c, fd) ==
    /\ up /\ handling = None /\ conn[c] = None /\ \A d \in Clients : conn[d] # fd
    /\ conn' = [conn EXCEPT ![c] = fd]
    /\ UNCHANGED <<up, websocket_file_descriptor, handling, queue, asker, fate, disturbed>>

Close(c) ==
    /\ up /\ conn[c] # None
    /\ conn' = [conn EXCEPT ![c] = None]
    /\ disturbed' = disturbed \cup AskedBy(c)
    /\ UNCHANGED <<up, websocket_file_descriptor, handling, queue, asker, fate>>

\* What handle_webmanager_ws does first, whatever it is sent.
\* Mutant: the descriptor of the first client is kept.
ListenTo_First(c) ==
    /\ up /\ handling = None /\ conn[c] # None
    /\ websocket_file_descriptor' =
          IF websocket_file_descriptor = None THEN conn[c] ELSE websocket_file_descriptor
    /\ disturbed' = disturbed \cup (Pending \ AskedBy(c))

ListenTo(c) ==
    /\ up /\ handling = None /\ conn[c] # None
    /\ websocket_file_descriptor' = conn[c]
    /\ disturbed' = disturbed \cup (Pending \ AskedBy(c))

Receive(c) ==
    /\ ListenTo(c)
    /\ \E i \in Ids :
          /\ fate[i] = "unasked" /\ \A j \in Ids : j < i => fate[j] # "unasked"
          /\ handling' = i
          /\ asker' = [asker EXCEPT ![i] = c]
          /\ fate' = [fate EXCEPT ![i] = "open"]
    /\ UNCHANGED <<up, conn, queue>>

\* An empty frame, or one that is not binary.
ReceiveIgnored(c) ==
    /\ ListenTo(c)
    /\ UNCHANGED <<up, conn, handling, queue, asker, fate>>

\* The payload does not arrive: the server closes the connection.
ReceiveFails(c) ==
    /\ up /\ handling = None /\ conn[c] # None
    /\ websocket_file_descriptor' = conn[c]
    /\ conn' = [conn EXCEPT ![c] = None]
    /\ disturbed' = disturbed \cup Pending
    /\ UNCHANGED <<up, handling, queue, asker, fate>>

\* Mutant: nobody counts what is queued.
WrapAndSendAsyncUnbounded(i) == queue' = Append(queue, i) /\ UNCHANGED fate

\* httpd_queue_work refuses when the queue is full; the answer is deleted, and
\* the caller is told ESP_OK.
WrapAndSendAsync(i) ==
    IF Len(queue) < QueueSize
    THEN queue' = Append(queue, i) /\ UNCHANGED fate
    ELSE /\ fate' = [j \in Ids |-> IF j = i THEN "dropped" ELSE fate[j]]
         /\ UNCHANGED queue

Answered(i) == fate[i] = "dropped" \/ \E k \in 1 .. Len(queue) : queue[k] = i

\* A handler answers, and ends: at once or, where it sleeps after answering,
\* later.  It may also end without an answer or with one to come.
Answers ==
    /\ handling # None /\ ~Answered(handling)
    /\ WrapAndSendAsync(handling)
    /\ UNCHANGED <<up, conn, websocket_file_descriptor, asker, disturbed>>

Answer == Answers /\ handling' = None

AnswerAndSleep == Answers /\ UNCHANGED handling

EndSleep ==
    /\ handling # None /\ Answered(handling)
    /\ handling' = None
    /\ UNCHANGED <<up, conn, websocket_file_descriptor, queue, asker, fate, disturbed>>

EndsAs(what) ==
    /\ handling # None /\ ~Answered(handling)
    /\ handling' = None /\ fate' = [fate EXCEPT ![handling] = what]
    /\ UNCHANGED <<up, conn, websocket_file_descriptor, queue, asker, disturbed>>

Refuse == EndsAs("refused")

Defer == EndsAs("deferred")

Deferred == {i \in Ids : fate[i] = "deferred" /\ ~Answered(i)}

\* Another task: the event loop, which answers requests to connect, or the
\* fingerprint task's reports.
Post(i) ==
    /\ up /\ i \in Deferred \cup {Unsolicited}
    /\ WrapAndSendAsync(i)
    /\ UNCHANGED <<up, conn, websocket_file_descriptor, handling, asker, disturbed>>

Listens(c) == conn[c] # None /\ conn[c] = websocket_file_descriptor

Outcome(i) ==
    IF Listens(asker[i]) THEN "reached"
    ELSE IF \E c \in Clients : Listens(c) THEN "astray" ELSE "lost"

\* Mutant: the work is put off while nobody listens.
ws_async_sendWaits ==
    /\ up /\ handling = None /\ queue # <<>> /\ \E c \in Clients : Listens(c)
    /\ queue' = Tail(queue)
    /\ fate' = [j \in Ids |-> IF j = Head(queue) THEN Outcome(j) ELSE fate[j]]
    /\ UNCHANGED <<up, conn, websocket_file_descriptor, handling, asker, disturbed>>

\* Sending fails to a descriptor that is closed, and may fail to one that is
\* open; nobody asks.
ws_async_send ==
    /\ up /\ handling = None /\ queue # <<>>
    /\ queue' = Tail(queue)
    /\ \/ fate' = [j \in Ids |-> IF j = Head(queue) THEN Outcome(j) ELSE fate[j]]
       \/ /\ \E c \in Clients : Listens(c)
          /\ fate' = [j \in Ids |-> IF j = Head(queue) THEN "failed" ELSE fate[j]]
    /\ UNCHANGED <<up, conn, websocket_file_descriptor, handling, asker, disturbed>>

\* A restart, or an abort: of ESP_ERROR_CHECK where a frame's length is not
\* received, or in a handler.
SocketsReset ==
    /\ up /\ up' = FALSE
    /\ conn' = [c \in Clients |-> None] /\ websocket_file_descriptor' = None
    /\ handling' = None /\ queue' = <<>>
    /\ fate' = [i \in Ids |-> IF i \in Pending THEN "cut" ELSE fate[i]]
    /\ UNCHANGED <<asker, disturbed>>

SocketsBoot ==
    /\ ~up /\ up' = TRUE
    /\ UNCHANGED <<conn, websocket_file_descriptor, handling, queue, asker, fate, disturbed>>

SocketsInit ==
    /\ up = FALSE
    /\ conn = [c \in Clients |-> None] /\ websocket_file_descriptor = None
    /\ handling = None /\ queue = <<>>
    /\ asker = [i \in Ids |-> None]
    /\ fate = [i \in Ids |-> "unasked"] /\ disturbed = {}
=============================================================================
