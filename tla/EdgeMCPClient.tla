---------------------------- MODULE EdgeMCPClient ----------------------------
(***************************************************************************)
(* The EdgeMCPClient of src/docs/openapi/examples/python/client.py: one    *)
(* client object shared by several asyncio tasks (the Callers), one        *)
(* WebSocket at a time, and the Edge MCP server at the far end.            *)
(*                                                                         *)
(* What the code does, and what this module keeps:                         *)
(*  - _next_id increments request_id and returns it, with no await, so it  *)
(*    is atomic under asyncio; send_message then writes the request        *)
(*    (websocket.send writes the frame before its first suspension).       *)
(*  - send_message then calls self.websocket.recv() and returns WHATEVER   *)
(*    message comes next: the reply is never matched against request_id.  *)
(*  - self.websocket is read again when recv is called, so a connect()    *)
(*    made by another task in between makes recv read the new socket.     *)
(*  - The websockets library (legacy protocol, the one connect(...,       *)
(*    extra_headers=...) selects) lets one task wait in recv at a time; a  *)
(*    second concurrent recv raises RuntimeError; messages queued before   *)
(*    a close are still returned by recv; a recv with an empty queue on a  *)
(*    closed socket, and a send on a closed socket, raise ConnectionClosed.*)
(*  - The server (outside src/, modelled from spec sections 4 and 6)       *)
(*    answers every request that carries an id, in any order, with a      *)
(*    result or an error, and may push notifications that carry no id.    *)
(* Data is abstracted to what correlation tells apart: a message is its id *)
(* and the method it answers; parameters and results are left out.        *)
(***************************************************************************)
EXTENDS Naturals, Sequences, FiniteSets

CONSTANTS
    Callers,    \* the asyncio tasks sharing one EdgeMCPClient
    NoCaller,   \* model value: no task is waiting in recv
    MaxId,      \* bound on request_id (the code's counter is unbounded)
    MaxEpoch,   \* bound on the number of connect() calls
    MaxNotify,  \* bound on the notifications the server pushes
    CalledOps   \* the facade operations the application calls

ASSUME ClientAssumption ==
    /\ IsFiniteSet(Callers)
    /\ Callers # {}
    /\ NoCaller \notin Callers
    /\ MaxId \in Nat
    /\ MaxEpoch \in Nat
    /\ MaxNotify \in Nat
    /\ CalledOps \subseteq {"initialize", "tools/list", "tools/call", "tools/batch",
                           "context.get", "context.update"}

(* The facade operations, each one call of send_message, and the second   *)
(* request of initialize().                                                *)
Ops == {"initialize", "tools/list", "tools/call", "tools/batch",
        "context.get", "context.update"}
Methods == Ops \cup {"initialized"}

NoId == 0                 \* ids handed out by _next_id start at 1
Outcomes == {"none", "ok", "remote_error", "key_error", "not_connected",
             "transport_error", "runtime_error"}

Requests == [id : Nat, method : Methods]
Messages == [id : Nat, method : Methods \cup {"notification"},
             kind : {"result", "error", "notification"}]
Notification == [id |-> NoId, method |-> "notification", kind |-> "notification"]

VARIABLES
    websocket,   \* "none" before connect(), then "open" or "closed"
    request_id,  \* EdgeMCPClient.request_id
    epoch,       \* number of connect() calls so far
    ready,       \* history: initialize() returned normally since the last connect()
    pc,          \* per task: "idle", "recv" (request written) or "wait" (blocked in recv)
    op,          \* per task: method of the request in flight
    cur,         \* per task: the request_id local of send_message
    info,        \* per task: initialize()'s first result carries serverInfo
    outcome,     \* per task: how its last facade call ended
    srv,         \* requests the server has read on the current socket, unanswered
    inbox,       \* messages queued by the library on the current socket
    waiter,      \* the task blocked in recv, or NoCaller
    notified,    \* notifications pushed so far
    sent,        \* history: the ids written, in write order
    delivered    \* history: <<request id, id of the message recv returned>>

clientVars == <<websocket, request_id, epoch, ready>>
callerVars == <<pc, op, cur, info, outcome>>
chanVars == <<srv, inbox, waiter, notified>>
vars == <<clientVars, callerVars, chanVars, sent, delivered>>

TypeOK ==
    /\ websocket \in {"none", "open", "closed"}
    /\ request_id \in Nat
    /\ epoch \in Nat
    /\ ready \in BOOLEAN
    /\ pc \in [Callers -> {"idle", "recv", "wait"}]
    /\ op \in [Callers -> Methods \cup {"none"}]
    /\ cur \in [Callers -> Nat]
    /\ info \in [Callers -> BOOLEAN]
    /\ outcome \in [Callers -> Outcomes]
    /\ srv \in SUBSET Requests
    /\ inbox \in Seq(Messages)
    /\ waiter \in Callers \cup {NoCaller}
    /\ notified \in Nat
    /\ sent \in Seq(Nat)
    /\ delivered \in SUBSET (Nat \X Nat)

-----------------------------------------------------------------------------
Init ==
    /\ websocket = "none"
    /\ request_id = 0
    /\ epoch = 0
    /\ ready = FALSE
    /\ pc = [c \in Callers |-> "idle"]
    /\ op = [c \in Callers |-> "none"]
    /\ cur = [c \in Callers |-> NoId]
    /\ info = [c \in Callers |-> FALSE]
    /\ outcome = [c \in Callers |-> "none"]
    /\ srv = {}
    /\ inbox = <<>>
    /\ waiter = NoCaller
    /\ notified = 0
    /\ sent = <<>>
    /\ delivered = {}

(* A facade call of task c ends, returning or raising o. *)
Finish(c, o) ==
    /\ pc' = [pc EXCEPT ![c] = "idle"]
    /\ op' = [op EXCEPT ![c] = "none"]
    /\ cur' = [cur EXCEPT ![c] = NoId]
    /\ outcome' = [outcome EXCEPT ![c] = o]

(* Mutants of _next_id: the counter decremented, or never incremented. *)
NextIdDecrement == request_id - 1
NextIdNoIncrement == request_id

(* _next_id: the value request_id takes and the id it returns. *)
NextId == request_id + 1

(* send_message(method) up to its recv: the not-connected check, the id    *)
(* allocation, and the write, which raises on a closed socket after the id *)
(* was taken.                                                               *)
SendMessage(c, method) ==
    \/ /\ websocket = "none"
       /\ Finish(c, "not_connected")
       /\ UNCHANGED <<request_id, srv, sent>>
    \/ /\ websocket = "closed"
       /\ request_id' = NextId
       /\ Finish(c, "transport_error")
       /\ UNCHANGED <<srv, sent>>
    \/ /\ websocket = "open"
       /\ request_id' = NextId
       /\ srv' = srv \cup {[id |-> NextId, method |-> method]}
       /\ sent' = Append(sent, NextId)
       /\ pc' = [pc EXCEPT ![c] = "recv"]
       /\ op' = [op EXCEPT ![c] = method]
       /\ cur' = [cur EXCEPT ![c] = NextId]
       /\ UNCHANGED outcome

(* Mutants of line 96: "initialized" written without awaiting its reply,  *)
(* or sent as a notification (no id) while send_message still awaits one. *)
SendInitializedNoWait(c) ==
    \/ /\ websocket # "open"
       /\ SendMessage(c, "initialized")
    \/ /\ websocket = "open"
       /\ request_id' = NextId
       /\ srv' = srv \cup {[id |-> NextId, method |-> "initialized"]}
       /\ sent' = Append(sent, NextId)
       /\ Finish(c, "ok")
SendInitializedAsNotification(c) ==
    \/ /\ websocket # "open"
       /\ SendMessage(c, "initialized")
    \/ /\ websocket = "open"
       /\ srv' = srv \cup {[id |-> NoId, method |-> "initialized"]}
       /\ pc' = [pc EXCEPT ![c] = "recv"]
       /\ op' = [op EXCEPT ![c] = "initialized"]
       /\ cur' = [cur EXCEPT ![c] = NoId]
       /\ UNCHANGED <<request_id, sent, outcome>>

(* initialize(), line 96: after the initialize reply, the "initialized"    *)
(* request goes out through send_message, which awaits its reply.          *)
SendInitialized(c) == SendMessage(c, "initialized")

(* The result of send_message (line 83) has the key its caller then reads: *)
(* serverInfo for initialize (line 98), success_count for tools/batch      *)
(* (line 129). Only the reply to that very method has it.                  *)
HasKeyFor(m, method) == m.kind = "result" /\ m.method = method

(* Lines 75-83 and the rest of the facade method once recv returned m.     *)
Complete(c, m) ==
    \/ /\ m.kind = "error"
       /\ Finish(c, "remote_error")
       /\ UNCHANGED <<request_id, srv, sent, info, ready>>
    \/ /\ m.kind # "error"
       /\ op[c] = "initialize"
       /\ info' = [info EXCEPT ![c] = HasKeyFor(m, "initialize")]
       /\ SendInitialized(c)
       /\ UNCHANGED ready
    \/ /\ m.kind # "error"
       /\ op[c] = "initialized"
       /\ Finish(c, IF info[c] THEN "ok" ELSE "key_error")
       /\ ready' = (ready \/ info[c])
       /\ UNCHANGED <<request_id, srv, sent, info>>
    \/ /\ m.kind # "error"
       /\ op[c] = "tools/batch"
       /\ Finish(c, IF HasKeyFor(m, "tools/batch") THEN "ok" ELSE "key_error")
       /\ UNCHANGED <<request_id, srv, sent, info, ready>>
    \/ /\ m.kind # "error"
       /\ op[c] \in {"tools/list", "tools/call", "context.get", "context.update"}
       /\ Finish(c, "ok")
       /\ UNCHANGED <<request_id, srv, sent, info, ready>>

(* recv hands task c the head of the queue. *)
Consume(c) ==
    /\ inbox' = Tail(inbox)
    /\ delivered' = delivered \cup {<<cur[c], Head(inbox).id>>}
    /\ Complete(c, Head(inbox))
    /\ UNCHANGED <<websocket, epoch, notified>>

(* Line 74: self.websocket.recv() on whatever socket self.websocket is now. *)
Recv(c) ==
    /\ pc[c] = "recv"
    /\ \/ /\ waiter # NoCaller
          /\ Finish(c, "runtime_error")
          /\ UNCHANGED <<clientVars, info, chanVars, sent, delivered>>
       \/ /\ waiter = NoCaller
          /\ inbox # <<>>
          /\ Consume(c)
          /\ UNCHANGED waiter
       \/ /\ waiter = NoCaller
          /\ inbox = <<>>
          /\ websocket = "open"
          /\ waiter' = c
          /\ pc' = [pc EXCEPT ![c] = "wait"]
          /\ UNCHANGED <<clientVars, op, cur, info, outcome, srv, inbox,
                         notified, sent, delivered>>
       \/ /\ waiter = NoCaller
          /\ inbox = <<>>
          /\ websocket = "closed"
          /\ Finish(c, "transport_error")
          /\ UNCHANGED <<clientVars, info, chanVars, sent, delivered>>

(* The task blocked in recv is woken by a message. *)
Deliver(c) ==
    /\ pc[c] = "wait"
    /\ waiter = c
    /\ inbox # <<>>
    /\ waiter' = NoCaller
    /\ Consume(c)

(* The facade methods, lines 85-144: each starts with send_message. A    *)
(* call starts only if the ids it may take stay within MaxId.              *)
StartCall(c, method, ids) ==
    /\ pc[c] = "idle"
    /\ method \in CalledOps
    /\ request_id + ids <= MaxId
    /\ SendMessage(c, method)
    /\ UNCHANGED info

Initialize(c) == StartCall(c, "initialize", 2)
ListTools(c) == StartCall(c, "tools/list", 1)
CallTool(c) == StartCall(c, "tools/call", 1)
BatchCallTools(c) == StartCall(c, "tools/batch", 1)
GetContext(c) == StartCall(c, "context.get", 1)
UpdateContext(c) == StartCall(c, "context.update", 1)

CallFacade(c) ==
    /\ \/ Initialize(c) \/ ListTools(c) \/ CallTool(c)
       \/ BatchCallTools(c) \/ GetContext(c) \/ UpdateContext(c)
    /\ UNCHANGED <<websocket, epoch, ready, inbox, waiter, notified, delivered>>

(* Closing the socket: the task blocked in recv gets ConnectionClosed, the *)
(* server drops what it had not answered, the queue stays readable.        *)
CloseSocket ==
    /\ websocket' = "closed"
    /\ srv' = {}
    /\ waiter' = NoCaller
    /\ IF waiter = NoCaller
         THEN UNCHANGED callerVars
         ELSE /\ Finish(waiter, "transport_error")
              /\ UNCHANGED info
    /\ UNCHANGED <<request_id, epoch, ready, inbox, notified, sent, delivered>>

(* Mutant of connect(): it also resets the id counter. *)
ConnectResetCounter(c) ==
    /\ pc[c] = "idle"
    /\ websocket \in {"none", "closed"}
    /\ epoch < MaxEpoch
    /\ websocket' = "open"
    /\ epoch' = epoch + 1
    /\ inbox' = <<>>
    /\ srv' = {}
    /\ request_id' = 0
    /\ ready' = FALSE
    /\ UNCHANGED <<callerVars, waiter, notified, sent, delivered>>

(* connect(), line 47: a new socket replaces self.websocket. Reconnecting  *)
(* over an open socket is not modelled.                                     *)
Connect(c) ==
    /\ pc[c] = "idle"
    /\ websocket \in {"none", "closed"}
    /\ epoch < MaxEpoch
    /\ websocket' = "open"
    /\ epoch' = epoch + 1
    /\ inbox' = <<>>
    /\ srv' = {}
    /\ ready' = FALSE
    /\ UNCHANGED <<request_id, callerVars, waiter, notified, sent, delivered>>

(* disconnect(), lines 50-54 (closing a closed socket changes nothing). *)
Disconnect(c) ==
    /\ pc[c] = "idle"
    /\ websocket = "open"
    /\ CloseSocket

(* The server or the network ends the connection. *)
ChannelDrop ==
    /\ websocket = "open"
    /\ CloseSocket

(* The server answers request r, with a result or an error. *)
ServerReply(r) ==
    /\ r \in srv
    /\ r.id # NoId
    /\ srv' = srv \ {r}
    /\ \E k \in {"result", "error"} :
          inbox' = Append(inbox, [id |-> r.id, method |-> r.method, kind |-> k])
    /\ UNCHANGED <<clientVars, callerVars, waiter, notified, sent, delivered>>

(* The server pushes a notification (no id). *)
ServerNotify ==
    /\ websocket = "open"
    /\ notified < MaxNotify
    /\ inbox' = Append(inbox, Notification)
    /\ notified' = notified + 1
    /\ UNCHANGED <<clientVars, callerVars, srv, waiter, sent, delivered>>

(* Every task is idle and no call can start within MaxId: the run is over. *)
Terminating ==
    /\ \A c \in Callers : pc[c] = "idle"
    /\ request_id >= MaxId
    /\ UNCHANGED vars

Next ==
    \/ \E c \in Callers :
          \/ CallFacade(c)
          \/ Recv(c)
          \/ Deliver(c)
          \/ Connect(c)
          \/ Disconnect(c)
    \/ ChannelDrop
    \/ \E r \in srv : ServerReply(r)
    \/ ServerNotify
    \/ Terminating

(* The asyncio loop runs every ready task, and the server answers every     *)
(* request it read while the socket stays open. Starting a call, connecting *)
(* and closing are the application's choice and are not fair.               *)
Fairness ==
    /\ \A c \in Callers : WF_vars(Recv(c)) /\ WF_vars(Deliver(c))
    /\ WF_vars(\E r \in srv : ServerReply(r))

Spec == Init /\ [][Next]_vars /\ Fairness

-----------------------------------------------------------------------------
(* Ids written to the wire strictly increase in write order, across every  *)
(* reconnect of the same client, and none exceeds request_id: _next_id and *)
(* connect() never hand out an id twice (spec section 8).                   *)
RequestIdsNeverReused ==
    /\ \A i \in 1..Len(sent) : sent[i] <= request_id
    /\ \A i \in 1..(Len(sent) - 1) : sent[i] < sent[i + 1]

(* Every message recv handed to send_message answers the request that call *)
(* wrote: the reply's id equals the call's request_id (spec sections 4.1   *)
(* and 8). send_message itself never compares the two.                      *)
ResponseMatchesRequest ==
    \A d \in delivered : d[1] = d[2]

(* The session state machine of spec section 4.2: on each socket the      *)
(* handshake requests are written only before initialize() has returned,   *)
(* and every other request only after it. send_message (line 58) checks    *)
(* only that a socket exists, so the facade itself does not enforce this.  *)
HandshakeBeforeUse ==
    [][\A r \in srv' \ srv :
          IF r.method \in {"initialize", "initialized"} THEN ~ready ELSE ready]_vars

(* Every facade call that wrote its request eventually returns or raises: *)
(* no task stays blocked in send_message's recv (spec section 8).          *)
CallsReturn ==
    \A c \in Callers : (pc[c] # "idle") ~> (pc[c] = "idle")
=============================================================================
