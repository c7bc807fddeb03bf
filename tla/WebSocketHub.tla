----------------------------- MODULE WebSocketHub -----------------------------
(***************************************************************************)
(* The hub of the dashboard's WebSocket connections: one hub goroutine     *)
(* registers and unregisters clients and passes each broadcast message to  *)
(* the buffered channel of every client; two goroutines per client, its    *)
(* write pump and its read pump, move messages to the browser and notice   *)
(* when it is gone.  A channel is a sequence; an unbuffered one is a       *)
(* goroutine that waits to hand over.                                      *)
(*                                                                         *)
(* A definition named for a defect (...Blocking, ...Dropping, ...Forgotten, *)
(* ...KeepsClient) is a faulty variant of the definition that follows it.  *)
(***************************************************************************)
EXTENDS Naturals, Sequences

CONSTANTS
    Client,       \* browser connections
    QueueSize,    \* capacity of hub.broadcast (256 in the code)
    BufferSize,   \* capacity of client.send (256 in the code)
    MaxMessages   \* bound: messages broadcast

ASSUME HubAssumption ==
    QueueSize \in Nat \ {0} /\ BufferSize \in Nat \ {0} /\ MaxMessages \in Nat

VARIABLES
    queue,      \* hub.broadcast: messages are numbered in the order of Broadcast
    sent,       \* messages broadcast so far
    clients,    \* hub.clients
    hub,        \* the hub goroutine: the message it passes on, to whom still
    buffer,     \* [Client -> Seq(Nat)]: client.send
    closed,     \* clients whose send channel is closed
    writer,     \* [Client -> "none", "run", "done"]: the write pump
    reader,     \* [Client -> "none", "register", "run", "leave", "done"]: ServerWs up
                \* to the hand-over, then the read pump
    conn,       \* [Client -> "up", "gone" (the browser), "closed"]
    received    \* [Client -> Seq(Nat)]: what the browser was sent

hubVars == <<queue, sent, clients, hub, buffer, closed, writer, reader, conn, received>>

Message == 1..MaxMessages
Selecting == [msg |-> 0, todo |-> {}]

(* Types; and a client is in the map exactly as long as its channel is open *)
(* and its hand-over was taken: the hub never sends on or closes a closed   *)
(* channel, which would panic.                                              *)
HubTypeOK ==
    /\ queue \in Seq(Message) /\ Len(queue) <= QueueSize
    /\ sent \in 0..MaxMessages
    /\ clients \in SUBSET Client
    /\ hub \in [msg : 0..MaxMessages, todo : SUBSET Client]
    /\ buffer \in [Client -> Seq(Message)]
    /\ closed \in SUBSET Client
    /\ writer \in [Client -> {"none", "run", "done"}]
    /\ reader \in [Client -> {"none", "register", "run", "leave", "done"}]
    /\ conn \in [Client -> {"none", "up", "gone", "closed"}]
    /\ received \in [Client -> Seq(Message)]
    /\ \A c \in Client : Len(buffer[c]) <= BufferSize
    /\ clients = {c \in Client : reader[c] \notin {"none", "register"}} \ closed

HubInit ==
    /\ queue = <<>> /\ sent = 0
    /\ clients = {} /\ hub = Selecting
    /\ buffer = [c \in Client |-> <<>>] /\ closed = {}
    /\ writer = [c \in Client |-> "none"] /\ reader = [c \in Client |-> "none"]
    /\ conn = [c \in Client |-> "none"]
    /\ received = [c \in Client |-> <<>>]

HubUnchanged == UNCHANGED <<queue, sent, clients, hub>>

-----------------------------------------------------------------------------
(* Browsers, and the scheduler that broadcasts scan results *)

Connect(c) ==
    /\ conn[c] = "none"
    /\ conn' = [conn EXCEPT ![c] = "up"]
    /\ reader' = [reader EXCEPT ![c] = "register"]
    /\ HubUnchanged /\ UNCHANGED <<buffer, closed, writer, received>>

Vanish(c) ==
    /\ conn[c] = "up"
    /\ conn' = [conn EXCEPT ![c] = "gone"]
    /\ HubUnchanged /\ UNCHANGED <<buffer, closed, writer, reader, received>>

Broadcast ==
    /\ sent < MaxMessages /\ Len(queue) < QueueSize
    /\ sent' = sent + 1
    /\ queue' = Append(queue, sent + 1)
    /\ UNCHANGED <<clients, hub, buffer, closed, writer, reader, conn, received>>

-----------------------------------------------------------------------------
(* Hub.Run: each of the first three is a case of the select.                *)

Register(c) ==
    /\ hub = Selecting /\ reader[c] = "register"
    /\ clients' = clients \cup {c}
    /\ reader' = [reader EXCEPT ![c] = "run"]
    /\ writer' = [writer EXCEPT ![c] = "run"]
    /\ UNCHANGED <<queue, sent, hub, buffer, closed, conn, received>>

(* The read pump closes the connection after the hand-over.                 *)
UnregisterKeepsClient(c) ==
    /\ hub = Selecting /\ reader[c] = "leave"
    /\ closed' = IF c \in clients THEN closed \cup {c} ELSE closed
    /\ reader' = [reader EXCEPT ![c] = "done"]
    /\ conn' = [conn EXCEPT ![c] = "closed"]
    /\ UNCHANGED <<queue, sent, clients, hub, buffer, writer, received>>
Unregister(c) ==
    /\ hub = Selecting /\ reader[c] = "leave"
    /\ clients' = clients \ {c}
    /\ closed' = IF c \in clients THEN closed \cup {c} ELSE closed
    /\ reader' = [reader EXCEPT ![c] = "done"]
    /\ conn' = [conn EXCEPT ![c] = "closed"]
    /\ UNCHANGED <<queue, sent, hub, buffer, writer, received>>

TakeBroadcast ==
    /\ hub = Selecting /\ queue # <<>>
    /\ hub' = [msg |-> Head(queue), todo |-> clients]
    /\ queue' = Tail(queue)
    /\ UNCHANGED <<sent, clients, buffer, closed, writer, reader, conn, received>>

(* One client of the range over the map: a client that cannot keep up is    *)
(* let go.                                                                  *)
PassOnBlocking(c) ==
    /\ c \in hub.todo
    /\ hub' = [hub EXCEPT !.todo = @ \ {c}]
    /\ Len(buffer[c]) < BufferSize
    /\ buffer' = [buffer EXCEPT ![c] = Append(@, hub.msg)]
    /\ UNCHANGED <<queue, sent, clients, closed, writer, reader, conn, received>>
PassOnDropping(c) ==
    /\ c \in hub.todo
    /\ hub' = [hub EXCEPT !.todo = @ \ {c}]
    /\ buffer' = IF Len(buffer[c]) < BufferSize
                 THEN [buffer EXCEPT ![c] = Append(@, hub.msg)] ELSE buffer
    /\ UNCHANGED <<queue, sent, clients, closed, writer, reader, conn, received>>
PassOnCloseForgotten(c) ==
    /\ c \in hub.todo
    /\ hub' = [hub EXCEPT !.todo = @ \ {c}]
    /\ IF Len(buffer[c]) < BufferSize
       THEN buffer' = [buffer EXCEPT ![c] = Append(@, hub.msg)] /\ UNCHANGED closed
       ELSE closed' = closed \cup {c} /\ UNCHANGED buffer
    /\ UNCHANGED <<queue, sent, clients, writer, reader, conn, received>>
PassOn(c) ==
    /\ c \in hub.todo
    /\ hub' = [hub EXCEPT !.todo = @ \ {c}]
    /\ IF Len(buffer[c]) < BufferSize
       THEN buffer' = [buffer EXCEPT ![c] = Append(@, hub.msg)] /\ UNCHANGED <<clients, closed>>
       ELSE closed' = closed \cup {c} /\ clients' = clients \ {c} /\ UNCHANGED buffer
    /\ UNCHANGED <<queue, sent, writer, reader, conn, received>>

PassedOn ==
    /\ hub.msg # 0 /\ hub.todo = {}
    /\ hub' = Selecting
    /\ UNCHANGED <<queue, sent, clients, buffer, closed, writer, reader, conn, received>>

-----------------------------------------------------------------------------
(* WritePump *)

(* A write or a ping that fails, and a closed and drained channel, end the  *)
(* pump, which closes the connection.  A write to a browser that is gone    *)
(* may still succeed: it fails once the network notices.                    *)
WriteNext(c) ==
    /\ writer[c] = "run" /\ buffer[c] # <<>>
    /\ conn[c] # "closed"
    /\ received' = [received EXCEPT ![c] =
                      IF conn[c] = "up" THEN Append(@, Head(buffer[c])) ELSE @]
    /\ buffer' = [buffer EXCEPT ![c] = Tail(@)]
    /\ HubUnchanged /\ UNCHANGED <<closed, writer, reader, conn>>

StopWriter(c) ==
    /\ writer[c] = "run"
    /\ conn[c] # "up" \/ (c \in closed /\ buffer[c] = <<>>)
    /\ writer' = [writer EXCEPT ![c] = "done"]
    /\ conn' = [conn EXCEPT ![c] = "closed"]
    /\ HubUnchanged /\ UNCHANGED <<buffer, closed, reader, received>>

(* ReadPump: ReadMessage fails when the connection is closed, or when no    *)
(* pong came for a minute, because the browser is gone or nobody pings it.  *)
ReadFails(c) ==
    /\ reader[c] = "run" /\ (conn[c] # "up" \/ writer[c] = "done")
    /\ reader' = [reader EXCEPT ![c] = "leave"]
    /\ HubUnchanged /\ UNCHANGED <<buffer, closed, writer, conn, received>>

HubStep ==
    \/ \E c \in Client : Register(c) \/ Unregister(c) \/ PassOn(c)
    \/ TakeBroadcast
    \/ PassedOn

(* Browsers that stay, and nothing to send. *)
HubAtRest ==
    /\ sent = MaxMessages /\ queue = <<>> /\ hub = Selecting
    /\ \A c \in Client : conn[c] \in {"none", "up", "closed"} /\ reader[c] \in {"none", "run", "done"}
    /\ UNCHANGED hubVars

HubNext ==
    \/ \E c \in Client :
         Connect(c) \/ Vanish(c) \/ WriteNext(c) \/ StopWriter(c) \/ ReadFails(c)
    \/ Broadcast
    \/ HubStep
    \/ HubAtRest

HubSpec == HubInit /\ [][HubNext]_hubVars

(* Goroutines that can run do; select does not pass over a case for ever.   *)
HubFairness ==
    /\ WF_hubVars(HubStep)
    /\ \A c \in Client :
         /\ SF_hubVars(Register(c)) /\ SF_hubVars(Unregister(c))
         /\ WF_hubVars(WriteNext(c) \/ StopWriter(c))
         /\ WF_hubVars(ReadFails(c))

HubFairSpec == HubSpec /\ HubFairness

-----------------------------------------------------------------------------
(* Properties *)

(* A dashboard that is connected sees every broadcast, in order, from the   *)
(* first one after it registered to the one at which it is cut off: a slow  *)
(* browser is disconnected, it never misses a message and stays.            *)
GaplessFeed ==
    \A c \in Client : \A n \in 1..(Len(received[c]) - 1) :
        received[c][n + 1] = received[c][n] + 1

(* A connection that broke or was cut off is let go on all sides: both      *)
(* pumps end and the hub forgets the client, whichever of the three notices *)
(* first.                                                                   *)
BrokenIsLetGo ==
    \A c \in Client :
        (c \in closed \/ conn[c] \in {"gone", "closed"})
            ~> (c \notin clients /\ writer[c] = "done" /\ reader[c] = "done")

(* No client, slow or gone, holds up the hub: a message that was broadcast  *)
(* is passed on to all.                                                     *)
BroadcastPassed ==
    \A m \in Message : (m <= sent) ~> (hub.msg # m /\ \A n \in DOMAIN queue : queue[n] # m)
=============================================================================
