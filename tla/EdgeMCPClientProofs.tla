------------------------- MODULE EdgeMCPClientProofs -------------------------
(***************************************************************************)
(* Machine-checked proofs about EdgeMCPClient, for every value of the      *)
(* constants that satisfies ClientAssumption.                              *)
(***************************************************************************)
EXTENDS EdgeMCPClient, TLAPS

USE ClientAssumption

(* Finishing a call keeps the per-task variables well typed. *)
LEMMA FinishType ==
    ASSUME TypeOK, NEW c \in Callers, NEW o \in Outcomes, Finish(c, o)
    PROVE  /\ pc' \in [Callers -> {"idle", "recv", "wait"}]
           /\ op' \in [Callers -> Methods \cup {"none"}]
           /\ cur' \in [Callers -> Nat]
           /\ outcome' \in [Callers -> Outcomes]
BY DEF TypeOK, Finish, NoId

(* send_message up to its recv keeps every variable it writes well typed. *)
LEMMA SendMessageType ==
    ASSUME TypeOK, NEW c \in Callers, NEW method \in Methods,
           SendMessage(c, method)
    PROVE  /\ pc' \in [Callers -> {"idle", "recv", "wait"}]
           /\ op' \in [Callers -> Methods \cup {"none"}]
           /\ cur' \in [Callers -> Nat]
           /\ outcome' \in [Callers -> Outcomes]
           /\ request_id' \in Nat
           /\ srv' \in SUBSET Requests
           /\ sent' \in Seq(Nat)
<1>1. CASE websocket = "none" /\ Finish(c, "not_connected")
                              /\ UNCHANGED <<request_id, srv, sent>>
  BY <1>1, FinishType DEF TypeOK, Outcomes
<1>2. CASE websocket = "closed" /\ request_id' = NextId
                                /\ Finish(c, "transport_error")
                                /\ UNCHANGED <<srv, sent>>
  BY <1>2, FinishType DEF TypeOK, Outcomes, NextId
<1>3. CASE /\ websocket = "open"
           /\ request_id' = NextId
           /\ srv' = srv \cup {[id |-> NextId, method |-> method]}
           /\ sent' = Append(sent, NextId)
           /\ pc' = [pc EXCEPT ![c] = "recv"]
           /\ op' = [op EXCEPT ![c] = method]
           /\ cur' = [cur EXCEPT ![c] = NextId]
           /\ UNCHANGED outcome
  BY <1>3 DEF TypeOK, NextId, Requests
<1>4. QED
  BY <1>1, <1>2, <1>3 DEF SendMessage

(* A facade call, and the rest of it once recv returned m. *)
LEMMA CompleteType ==
    ASSUME TypeOK, NEW c \in Callers, NEW m \in Messages, Complete(c, m)
    PROVE  /\ pc' \in [Callers -> {"idle", "recv", "wait"}]
           /\ op' \in [Callers -> Methods \cup {"none"}]
           /\ cur' \in [Callers -> Nat]
           /\ outcome' \in [Callers -> Outcomes]
           /\ info' \in [Callers -> BOOLEAN]
           /\ ready' \in BOOLEAN
           /\ request_id' \in Nat
           /\ srv' \in SUBSET Requests
           /\ sent' \in Seq(Nat)
<1>1. CASE op[c] = "initialize" /\ m.kind # "error"
  <2>1. info' = [info EXCEPT ![c] = HasKeyFor(m, "initialize")]
    BY <1>1 DEF Complete
  <2>2. SendMessage(c, "initialized")
    BY <1>1 DEF Complete, SendInitialized
  <2>3. info' \in [Callers -> BOOLEAN]
    BY <2>1 DEF TypeOK, HasKeyFor
  <2>4. "initialized" \in Methods
    BY DEF Methods
  <2>5. ready' = ready
    BY <1>1 DEF Complete
  <2>. QED
    BY <2>2, <2>3, <2>4, <2>5, SendMessageType DEF TypeOK
<1>2. CASE ~(op[c] = "initialize" /\ m.kind # "error")
  <2>1. \E o \in Outcomes : /\ Finish(c, o)
                            /\ UNCHANGED <<request_id, srv, sent, info>>
                            /\ ready' \in BOOLEAN
    BY <1>2 DEF Complete, Outcomes, TypeOK
  <2>. QED
    BY <2>1, FinishType DEF TypeOK
<1>. QED
  BY <1>1, <1>2

(* The queue's head is a message. *)
LEMMA ConsumeType ==
    ASSUME TypeOK, NEW c \in Callers, inbox # <<>>, Consume(c)
    PROVE  /\ inbox' \in Seq(Messages)
           /\ delivered' \in SUBSET (Nat \X Nat)
           /\ Complete(c, Head(inbox))
           /\ Head(inbox) \in Messages
<1>1. Head(inbox) \in Messages /\ Tail(inbox) \in Seq(Messages)
  BY DEF TypeOK
<1>2. Head(inbox).id \in Nat
  BY <1>1 DEF Messages
<1>3. cur[c] \in Nat
  BY DEF TypeOK
<1>. QED
  BY <1>1, <1>2, <1>3 DEF TypeOK, Consume

(* The initial state is well typed. *)
LEMMA InitType == Init => TypeOK
<1> SUFFICES ASSUME Init PROVE TypeOK
  OBVIOUS
<1>1. ready \in BOOLEAN
  BY DEF Init
<1>. QED
  BY <1>1 DEF Init, TypeOK, NoId, Outcomes

(* The type invariant is preserved by every step. *)
LEMMA TypeNext == TypeOK /\ [Next]_vars => TypeOK'
<1> SUFFICES ASSUME TypeOK, [Next]_vars PROVE TypeOK'
  OBVIOUS
<1>1. ASSUME NEW c \in Callers, CallFacade(c) PROVE TypeOK'
  <2>1. \E mth \in Ops : SendMessage(c, mth) /\ UNCHANGED info
    BY <1>1 DEF CallFacade, Initialize, ListTools, CallTool, BatchCallTools,
                GetContext, UpdateContext, StartCall, Ops
  <2>2. Ops \subseteq Methods
    BY DEF Ops, Methods
  <2>. QED
    BY <2>1, <2>2, <1>1, SendMessageType DEF TypeOK, CallFacade
<1>2. ASSUME NEW c \in Callers, Recv(c) PROVE TypeOK'
  <2>1. CASE waiter # NoCaller /\ Finish(c, "runtime_error")
             /\ UNCHANGED <<clientVars, info, chanVars, sent, delivered>>
    BY <2>1, FinishType DEF TypeOK, Outcomes, clientVars, chanVars
  <2>2. CASE waiter = NoCaller /\ inbox # <<>> /\ Consume(c) /\ UNCHANGED waiter
    BY <2>2, ConsumeType, CompleteType DEF TypeOK, Consume
  <2>3. CASE /\ waiter = NoCaller /\ inbox = <<>> /\ websocket = "open"
             /\ waiter' = c
             /\ pc' = [pc EXCEPT ![c] = "wait"]
             /\ UNCHANGED <<clientVars, op, cur, info, outcome, srv, inbox,
                            notified, sent, delivered>>
    BY <2>3 DEF TypeOK, clientVars
  <2>4. CASE waiter = NoCaller /\ inbox = <<>> /\ websocket = "closed"
             /\ Finish(c, "transport_error")
             /\ UNCHANGED <<clientVars, info, chanVars, sent, delivered>>
    BY <2>4, FinishType DEF TypeOK, Outcomes, clientVars, chanVars
  <2>. QED
    BY <1>2, <2>1, <2>2, <2>3, <2>4 DEF Recv
<1>3. ASSUME NEW c \in Callers, Deliver(c) PROVE TypeOK'
  BY <1>3, ConsumeType, CompleteType DEF TypeOK, Deliver, Consume
<1>4. ASSUME NEW c \in Callers, Connect(c) PROVE TypeOK'
  <2>1. ready' \in BOOLEAN
    BY <1>4 DEF Connect
  <2>. QED
    BY <1>4, <2>1 DEF TypeOK, Connect, callerVars
<1>5. ASSUME CloseSocket PROVE TypeOK'
  <2>1. CASE waiter = NoCaller
    BY <1>5, <2>1 DEF TypeOK, CloseSocket, callerVars
  <2>2. CASE waiter # NoCaller
    BY <1>5, <2>2, FinishType DEF TypeOK, CloseSocket, Outcomes
  <2>. QED
    BY <2>1, <2>2
<1>6. ASSUME NEW r \in srv, ServerReply(r) PROVE TypeOK'
  BY <1>6 DEF TypeOK, ServerReply, Requests, Messages, Methods,
              clientVars, callerVars
<1>7. ASSUME ServerNotify PROVE TypeOK'
  BY <1>7 DEF TypeOK, ServerNotify, Notification, Messages, NoId,
              clientVars, callerVars
<1>8. CASE UNCHANGED vars
  BY <1>8 DEF TypeOK, vars, clientVars, callerVars, chanVars
<1>. QED
  BY <1>1, <1>2, <1>3, <1>4, <1>5, <1>6, <1>7, <1>8
     DEF Next, Disconnect, ChannelDrop, Terminating

(* Every reachable state is well typed (the type invariant TypeOK).        *)
THEOREM TypeCorrect == Spec => []TypeOK
<1>1. Init => TypeOK
  BY InitType
<1>. QED
  BY <1>1, TypeNext, PTL DEF Spec

-----------------------------------------------------------------------------
(* send_message appends to the ids written exactly the id _next_id gives,  *)
(* which exceeds every id written before.                                  *)
LEMMA SendMessageIds ==
    ASSUME TypeOK, RequestIdsNeverReused, NEW c \in Callers,
           NEW method \in Methods, SendMessage(c, method)
    PROVE  RequestIdsNeverReused'
<1>1. CASE websocket = "none" /\ Finish(c, "not_connected")
                              /\ UNCHANGED <<request_id, srv, sent>>
  BY <1>1 DEF RequestIdsNeverReused
<1>2. CASE websocket = "closed" /\ request_id' = NextId
                                /\ Finish(c, "transport_error")
                                /\ UNCHANGED <<srv, sent>>
  BY <1>2 DEF RequestIdsNeverReused, NextId, TypeOK
<1>3. CASE websocket = "open" /\ request_id' = NextId
                              /\ sent' = Append(sent, NextId)
  BY <1>3 DEF RequestIdsNeverReused, NextId, TypeOK
<1>. QED
  BY <1>1, <1>2, <1>3 DEF SendMessage

(* A step either leaves request_id and the ids written alone, or is one   *)
(* send_message.                                                           *)
LEMMA IdsStep ==
    ASSUME TypeOK, [Next]_vars
    PROVE  \/ UNCHANGED <<request_id, sent>>
           \/ \E c \in Callers, mth \in Methods : SendMessage(c, mth)
<1>1. ASSUME NEW c \in Callers, NEW m, Complete(c, m)
      PROVE  \/ UNCHANGED <<request_id, sent>>
             \/ \E cc \in Callers, mth \in Methods : SendMessage(cc, mth)
  <2>1. "initialized" \in Methods
    BY DEF Methods
  <2>. QED
    BY <1>1, <2>1 DEF Complete, SendInitialized
<1>2. ASSUME NEW c \in Callers, CallFacade(c)
      PROVE  \E cc \in Callers, mth \in Methods : SendMessage(cc, mth)
  BY <1>2 DEF CallFacade, Initialize, ListTools, CallTool, BatchCallTools,
              GetContext, UpdateContext, StartCall, Methods, Ops
<1>3. ASSUME NEW c \in Callers, Recv(c)
      PROVE  \/ UNCHANGED <<request_id, sent>>
             \/ \E cc \in Callers, mth \in Methods : SendMessage(cc, mth)
  BY <1>3, <1>1 DEF Recv, Consume, clientVars
<1>4. ASSUME NEW c \in Callers, Deliver(c)
      PROVE  \/ UNCHANGED <<request_id, sent>>
             \/ \E cc \in Callers, mth \in Methods : SendMessage(cc, mth)
  BY <1>4, <1>1 DEF Deliver, Consume
<1>. QED
  BY <1>2, <1>3, <1>4
     DEF Next, vars, clientVars, Connect, Disconnect, ChannelDrop, CloseSocket,
         ServerReply, ServerNotify, Terminating

(* The ids written to the socket strictly increase and never exceed        *)
(* request_id, whatever the number of tasks, connects and calls: the       *)
(* client never sends two requests with one id (RequestIdsNeverReused).    *)
THEOREM IdsNeverReused == Spec => []RequestIdsNeverReused
<1>1. Init => RequestIdsNeverReused
  BY DEF Init, RequestIdsNeverReused
<1>2. TypeOK /\ RequestIdsNeverReused /\ [Next]_vars => RequestIdsNeverReused'
  BY IdsStep, SendMessageIds DEF RequestIdsNeverReused
<1>3. Init => TypeOK
  BY InitType
<1>. QED
  BY <1>1, <1>2, <1>3, TypeNext, PTL DEF Spec
-----------------------------------------------------------------------------
(* With one task c and no notifications: what is in flight is the reply  *)
(* to c's current request and nothing else. The inductive strengthening of *)
(* ResponseMatchesRequest proved below.                   *)
SingleInv(c) ==
    /\ websocket = "none" => inbox = <<>> /\ srv = {}
    /\ websocket = "closed" => srv = {}
    /\ pc[c] = "idle" => srv = {} /\ (inbox = <<>> \/ websocket = "closed")
    /\ pc[c] # "idle" =>
          /\ cur[c] # NoId
          /\ srv \subseteq {[id |-> cur[c], method |-> op[c]]}
          /\ Len(inbox) <= 1
          /\ (srv = {} \/ inbox = <<>>)
          /\ (inbox # <<>> => Head(inbox).id = cur[c])
    /\ waiter \in {NoCaller, c}
    /\ waiter = c => pc[c] = "wait"
    /\ ResponseMatchesRequest

(* recv hands the single task the one message in flight, which answers    *)
(* its current request; what follows keeps SingleInv.                      *)
LEMMA SingleConsume ==
    ASSUME NEW c, Callers = {c}, TypeOK, SingleInv(c),
           pc[c] # "idle", inbox # <<>>, Consume(c), waiter' = NoCaller
    PROVE  SingleInv(c)'
<1>1. srv = {} /\ Len(inbox) = 1 /\ Head(inbox).id = cur[c]
  <2>1. /\ Len(inbox) <= 1
        /\ (srv = {} \/ inbox = <<>>)
        /\ (inbox # <<>> => Head(inbox).id = cur[c])
    BY DEF SingleInv
  <2>2. Len(inbox) # 0
    BY DEF TypeOK
  <2>. QED
    BY <2>1, <2>2
<1>2. inbox' = <<>>
  <2>1. inbox' = Tail(inbox)
    BY DEF Consume
  <2>. QED
    BY <1>1, <2>1 DEF TypeOK
<1>3. websocket # "none" /\ UNCHANGED websocket
  BY DEF SingleInv, Consume
<1>4. ResponseMatchesRequest'
  BY <1>1 DEF Consume, SingleInv, ResponseMatchesRequest
<1>5. Complete(c, Head(inbox))
  BY DEF Consume
<1>6. CASE ~(op[c] = "initialize" /\ Head(inbox).kind # "error")
  <2>1. \E o \in Outcomes : Finish(c, o) /\ UNCHANGED srv
    BY <1>5, <1>6 DEF Complete, Outcomes
  <2>2. pc'[c] = "idle" /\ srv' = {}
    BY <2>1, <1>1 DEF Finish, TypeOK
  <2>. QED
    BY <1>2, <1>3, <1>4, <2>2 DEF SingleInv
<1>7. CASE op[c] = "initialize" /\ Head(inbox).kind # "error"
  <2>1. SendMessage(c, "initialized")
    BY <1>5, <1>7 DEF Complete, SendInitialized
  <2>2. CASE websocket = "closed"
    <3>1. pc'[c] = "idle" /\ srv' = {}
      BY <2>1, <2>2, <1>1 DEF SendMessage, Finish, TypeOK
    <3>. QED
      BY <1>2, <1>3, <1>4, <2>2, <3>1 DEF SingleInv
  <2>3. CASE websocket = "open"
    <3>1. /\ srv' = {[id |-> cur'[c], method |-> op'[c]]}
          /\ pc'[c] = "recv"
          /\ cur'[c] # NoId
      BY <2>1, <2>3, <1>1 DEF SendMessage, TypeOK, NextId, NoId
    <3>. QED
      BY <1>2, <1>3, <1>4, <2>3, <3>1 DEF SingleInv
  <2>. QED
    BY <1>3, <2>2, <2>3 DEF TypeOK
<1>. QED
  BY <1>6, <1>7

(* One step of the single task, or of the server or the network, keeps    *)
(* SingleInv.                                                              *)
LEMMA SingleStep ==
    ASSUME NEW c, Callers = {c}, MaxNotify = 0,
           TypeOK, SingleInv(c), [Next]_vars
    PROVE  SingleInv(c)'
<1>1. ASSUME CallFacade(c) PROVE SingleInv(c)'
  <2>1. PICK mth \in Ops : StartCall(c, mth, IF mth = "initialize" THEN 2 ELSE 1)
    BY <1>1 DEF CallFacade, Initialize, ListTools, CallTool, BatchCallTools,
                GetContext, UpdateContext, Ops
  <2>2. pc[c] = "idle" /\ SendMessage(c, mth)
    BY <2>1 DEF StartCall
  <2>3. srv = {}
    BY <2>2 DEF SingleInv
  <2>4. UNCHANGED <<websocket, inbox, waiter, delivered>>
    BY <1>1 DEF CallFacade
  <2>5. CASE websocket = "none"
    BY <2>2, <2>3, <2>4, <2>5 DEF SendMessage, Finish, SingleInv,
                                  ResponseMatchesRequest, TypeOK
  <2>6. CASE websocket = "closed"
    BY <2>2, <2>3, <2>4, <2>6 DEF SendMessage, Finish, SingleInv,
                                  ResponseMatchesRequest, TypeOK
  <2>7. CASE websocket = "open"
    <3>1. inbox = <<>>
      BY <2>2, <2>7 DEF SingleInv
    <3>2. cur'[c] # NoId
      BY <2>2, <2>7 DEF SendMessage, TypeOK, NextId, NoId
    <3>. QED
      BY <1>1, <2>2, <2>3, <2>4, <2>7, <3>1, <3>2 DEF SendMessage, SingleInv,
         ResponseMatchesRequest, TypeOK, CallFacade
  <2>. QED
    BY <2>5, <2>6, <2>7 DEF TypeOK
<1>2. ASSUME Recv(c) PROVE SingleInv(c)'
  <2>1. pc[c] = "recv"
    BY <1>2 DEF Recv
  <2>2. waiter = NoCaller
    BY <2>1 DEF SingleInv
  <2>3. CASE inbox # <<>> /\ Consume(c) /\ UNCHANGED waiter
    BY <2>1, <2>2, <2>3, SingleConsume
  <2>4. CASE /\ inbox = <<>> /\ websocket = "open"
             /\ waiter' = c
             /\ pc' = [pc EXCEPT ![c] = "wait"]
             /\ UNCHANGED <<clientVars, op, cur, info, outcome, srv, inbox,
                            notified, sent, delivered>>
    BY <2>1, <2>4 DEF SingleInv, ResponseMatchesRequest, TypeOK, clientVars
  <2>5. CASE /\ inbox = <<>> /\ websocket = "closed"
             /\ Finish(c, "transport_error")
             /\ UNCHANGED <<clientVars, info, chanVars, sent, delivered>>
    BY <2>2, <2>5 DEF SingleInv, ResponseMatchesRequest, TypeOK, clientVars,
               chanVars, Finish
  <2>. QED
    BY <1>2, <2>2, <2>3, <2>4, <2>5 DEF Recv
<1>3. ASSUME Deliver(c) PROVE SingleInv(c)'
  <2>1. pc[c] # "idle" /\ inbox # <<>> /\ Consume(c) /\ waiter' = NoCaller
    BY <1>3 DEF Deliver
  <2>. QED
    BY <2>1, SingleConsume
<1>4. ASSUME Connect(c) PROVE SingleInv(c)'
  BY <1>4 DEF Connect, SingleInv, ResponseMatchesRequest, callerVars
<1>5. ASSUME CloseSocket PROVE SingleInv(c)'
  <2>1. websocket' = "closed" /\ srv' = {} /\ waiter' = NoCaller
        /\ UNCHANGED <<inbox, delivered>>
    BY <1>5 DEF CloseSocket
  <2>2. CASE waiter = NoCaller
    BY <1>5, <2>1, <2>2 DEF CloseSocket, SingleInv, ResponseMatchesRequest,
                            callerVars
  <2>3. CASE waiter = c
    <3>1. pc'[c] = "idle"
      BY <1>5, <2>3 DEF CloseSocket, Finish, TypeOK
    <3>. QED
      BY <2>1, <3>1 DEF SingleInv, ResponseMatchesRequest
  <2>. QED
    BY <2>2, <2>3 DEF SingleInv
<1>6. ASSUME NEW r \in srv, ServerReply(r) PROVE SingleInv(c)'
  <2>1. /\ pc[c] # "idle" /\ websocket = "open" /\ inbox = <<>>
        /\ r = [id |-> cur[c], method |-> op[c]]
    BY DEF SingleInv, TypeOK
  <2>2. srv' = {} /\ Len(inbox') = 1 /\ Head(inbox').id = cur[c]
    <3>1. srv \subseteq {r}
      BY <2>1 DEF SingleInv
    <3>. QED
      BY <1>6, <2>1, <3>1 DEF ServerReply
  <2>. QED
    BY <1>6, <2>1, <2>2 DEF ServerReply, SingleInv, ResponseMatchesRequest,
                            clientVars, callerVars
<1>7. ~ServerNotify
  BY DEF ServerNotify, TypeOK
<1>8. CASE UNCHANGED vars
  BY <1>8 DEF SingleInv, ResponseMatchesRequest, vars, clientVars,
              callerVars, chanVars
<1>9. ASSUME Terminating PROVE SingleInv(c)'
  BY <1>9, <1>8 DEF Terminating
<1>. QED
  BY <1>1, <1>2, <1>3, <1>4, <1>5, <1>6, <1>7, <1>8, <1>9
     DEF Next, Disconnect, ChannelDrop

(* With a single task and a server that sends no notification, every      *)
(* message send_message returns answers the request that call wrote        *)
(* (ResponseMatchesRequest), for every bound on ids and reconnects: with   *)
(* one task at most one request or reply is in flight, and it carries the  *)
(* task's current request id (SingleInv).                                 *)
THEOREM SingleTaskResponsesMatch ==
    ASSUME NEW c, Callers = {c}, MaxNotify = 0
    PROVE  Spec => []ResponseMatchesRequest
<1>1. Init => SingleInv(c)
  BY DEF Init, SingleInv, ResponseMatchesRequest
<1>2. TypeOK /\ SingleInv(c) /\ [Next]_vars => SingleInv(c)'
  BY SingleStep
<1>3. SingleInv(c) => ResponseMatchesRequest
  BY DEF SingleInv
<1>. QED
  BY <1>1, <1>2, <1>3, InitType, TypeNext, PTL DEF Spec

=============================================================================
