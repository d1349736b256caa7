-------------------- MODULE EdgeMCPClientRefinementProofs --------------------
(***************************************************************************)
(* With one task and no notifications, every step of EdgeMCPClient is a    *)
(* step of CorrelatedClient under the mapping pendingBar, or leaves the    *)
(* abstract state alone. The proof rests on SingleInv (EdgeMCPClientProofs)*)
(* which says the message recv returns answers the current request.       *)
(***************************************************************************)
EXTENDS EdgeMCPClientRefinement, EdgeMCPClientProofs, TLAPS

USE ClientAssumption

(* With one task, the mapped pending calls after a step are those before   *)
(* it with the task's entry replaced by what pc' and cur' give.            *)
LEMMA PendingBarStep ==
    ASSUME NEW c, Callers = {c}
    PROVE  /\ pendingBar[c] = IF pc[c] = "idle" THEN NoId ELSE cur[c]
           /\ pendingBar' = [pendingBar EXCEPT ![c] =
                               IF pc'[c] = "idle" THEN NoId ELSE cur'[c]]
BY DEF pendingBar

(* recv hands the task the reply to its own request: the call is answered. *)
LEMMA RefineConsume ==
    ASSUME NEW c, Callers = {c}, TypeOK, SingleInv(c),
           pc[c] # "idle", inbox # <<>>, Consume(c)
    PROVE  Correlated!Answer(c)
<1>1. srv = {} /\ Len(inbox) = 1 /\ Head(inbox).id = cur[c] /\ cur[c] # NoId
  <2>1. /\ Len(inbox) <= 1
        /\ (srv = {} \/ inbox = <<>>)
        /\ (inbox # <<>> => Head(inbox).id = cur[c])
        /\ cur[c] # NoId
    BY DEF SingleInv
  <2>2. Len(inbox) # 0
    BY DEF TypeOK
  <2>. QED
    BY <2>1, <2>2
<1>2. websocket # "none"
  BY DEF SingleInv
<1>3. delivered' = delivered \cup {<<cur[c], cur[c]>>}
  BY <1>1 DEF Consume
<1>4. Complete(c, Head(inbox))
  BY DEF Consume
<1>5. CASE ~(op[c] = "initialize" /\ Head(inbox).kind # "error")
  <2>1. \E o \in Outcomes : Finish(c, o) /\ UNCHANGED request_id
    BY <1>4, <1>5 DEF Complete, Outcomes
  <2>2. pc'[c] = "idle" /\ UNCHANGED request_id
    BY <2>1 DEF Finish, TypeOK
  <2>. QED
    BY <1>1, <1>3, <2>2, PendingBarStep DEF Correlated!Answer, NoId
<1>6. CASE op[c] = "initialize" /\ Head(inbox).kind # "error"
  <2>1. SendMessage(c, "initialized")
    BY <1>4, <1>6 DEF Complete, SendInitialized
  <2>2. CASE websocket = "closed"
    <3>1. pc'[c] = "idle" /\ request_id' = request_id + 1
      BY <2>1, <2>2 DEF SendMessage, Finish, TypeOK, NextId
    <3>. QED
      BY <1>1, <1>3, <3>1, PendingBarStep DEF Correlated!Answer, NoId
  <2>3. CASE websocket = "open"
    <3>1. /\ pc'[c] = "recv"
          /\ request_id' = request_id + 1
          /\ cur'[c] = request_id + 1
      BY <2>1, <2>3 DEF SendMessage, TypeOK, NextId
    <3>. QED
      BY <1>1, <1>3, <3>1, PendingBarStep DEF Correlated!Answer, NoId
  <2>. QED
    BY <1>2, <2>2, <2>3 DEF TypeOK
<1>. QED
  BY <1>5, <1>6

(* Every step maps to a CorrelatedClient step or to a stutter. *)
LEMMA RefineStep ==
    ASSUME NEW c, Callers = {c}, MaxNotify = 0,
           TypeOK, SingleInv(c), [Next]_vars
    PROVE  [Correlated!Next]_Correlated!avars
<1>0. /\ pendingBar \in [Callers -> Nat]
      /\ pendingBar[c] = IF pc[c] = "idle" THEN NoId ELSE cur[c]
      /\ pendingBar' = [pendingBar EXCEPT ![c] =
                          IF pc'[c] = "idle" THEN NoId ELSE cur'[c]]
  BY PendingBarStep DEF pendingBar, TypeOK, NoId
<1>1. ASSUME CallFacade(c) PROVE [Correlated!Next]_Correlated!avars
  <2>1. PICK mth \in Ops : StartCall(c, mth, IF mth = "initialize" THEN 2 ELSE 1)
    BY <1>1 DEF CallFacade, Initialize, ListTools, CallTool, BatchCallTools,
                GetContext, UpdateContext, Ops
  <2>2. pc[c] = "idle" /\ SendMessage(c, mth) /\ UNCHANGED delivered
    BY <1>1, <2>1 DEF StartCall, CallFacade
  <2>3. CASE websocket = "none"
    <3>1. pc'[c] = "idle" /\ UNCHANGED request_id
      BY <2>2, <2>3 DEF SendMessage, Finish, TypeOK
    <3>2. pendingBar' = pendingBar
      BY <1>0, <2>2, <3>1
    <3>. QED
      BY <2>2, <3>1, <3>2 DEF Correlated!avars
  <2>4. CASE websocket = "closed"
    <3>1. pc'[c] = "idle" /\ request_id' = request_id + 1
      BY <2>2, <2>4 DEF SendMessage, Finish, TypeOK, NextId
    <3>2. Correlated!Call(c)
      <4>1. pendingBar' = pendingBar /\ pendingBar[c] = 0
        BY <1>0, <2>2, <3>1 DEF NoId
      <4>. QED
        BY <2>2, <3>1, <4>1 DEF Correlated!Call
    <3>. QED
      BY <3>2 DEF Correlated!Next
  <2>5. CASE websocket = "open"
    <3>1. /\ pc'[c] = "recv"
          /\ request_id' = request_id + 1
          /\ cur'[c] = request_id + 1
      BY <2>2, <2>5 DEF SendMessage, TypeOK, NextId
    <3>2. Correlated!Call(c)
      <4>1. /\ pendingBar' = [pendingBar EXCEPT ![c] = request_id + 1]
            /\ pendingBar[c] = 0
        BY <1>0, <2>2, <3>1 DEF NoId
      <4>. QED
        BY <2>2, <3>1, <4>1 DEF Correlated!Call
    <3>. QED
      BY <3>2 DEF Correlated!Next
  <2>. QED
    BY <2>3, <2>4, <2>5 DEF TypeOK
<1>2. ASSUME Recv(c) PROVE [Correlated!Next]_Correlated!avars
  <2>1. pc[c] = "recv" /\ waiter = NoCaller
    BY <1>2 DEF Recv, SingleInv
  <2>2. CASE inbox # <<>> /\ Consume(c)
    BY <2>1, <2>2, RefineConsume DEF Correlated!Next
  <2>3. CASE /\ inbox = <<>> /\ websocket = "open"
             /\ pc' = [pc EXCEPT ![c] = "wait"]
             /\ UNCHANGED <<clientVars, cur, delivered>>
    <3>1. pc'[c] = "wait"
      BY <2>3 DEF TypeOK
    <3>. QED
      <4>1. pendingBar' = pendingBar
        BY <1>0, <2>1, <2>3, <3>1
      <4>. QED
        BY <2>3, <4>1 DEF clientVars, Correlated!avars
  <2>4. CASE /\ inbox = <<>> /\ websocket = "closed"
             /\ Finish(c, "transport_error")
             /\ UNCHANGED <<clientVars, delivered>>
    <3>1. pc'[c] = "idle" /\ cur[c] # NoId
      BY <2>1, <2>4 DEF Finish, TypeOK, SingleInv
    <3>2. Correlated!Abandon(c)
      <4>1. pendingBar' = [pendingBar EXCEPT ![c] = 0] /\ pendingBar[c] # 0
        BY <1>0, <2>1, <3>1 DEF NoId
      <4>. QED
        BY <2>4, <4>1 DEF Correlated!Abandon, clientVars
    <3>. QED
      BY <3>2 DEF Correlated!Next
  <2>. QED
    BY <1>2, <2>1, <2>2, <2>3, <2>4 DEF Recv
<1>3. ASSUME Deliver(c) PROVE [Correlated!Next]_Correlated!avars
  <2>1. pc[c] # "idle" /\ inbox # <<>> /\ Consume(c)
    BY <1>3 DEF Deliver
  <2>. QED
    BY <2>1, RefineConsume DEF Correlated!Next
<1>4. ASSUME CloseSocket PROVE [Correlated!Next]_Correlated!avars
  <2>1. UNCHANGED <<request_id, delivered>>
    BY <1>4 DEF CloseSocket
  <2>2. CASE waiter = NoCaller
    <3>1. UNCHANGED <<pc, cur>>
      BY <1>4, <2>2 DEF CloseSocket, callerVars
    <3>2. pendingBar' = pendingBar
      BY <3>1 DEF pendingBar
    <3>. QED
      BY <2>1, <3>2 DEF Correlated!avars
  <2>3. CASE waiter = c
    <3>1. pc[c] = "wait" /\ cur[c] # NoId
      BY <2>3 DEF SingleInv
    <3>2. pc'[c] = "idle"
      BY <1>4, <2>3 DEF CloseSocket, Finish, TypeOK
    <3>3. Correlated!Abandon(c)
      <4>1. pendingBar' = [pendingBar EXCEPT ![c] = 0] /\ pendingBar[c] # 0
        BY <1>0, <3>1, <3>2 DEF NoId
      <4>. QED
        BY <2>1, <4>1 DEF Correlated!Abandon
    <3>. QED
      BY <3>3 DEF Correlated!Next
  <2>. QED
    BY <2>2, <2>3 DEF SingleInv
<1>5. ASSUME \/ Connect(c)
             \/ \E r \in srv : ServerReply(r)
             \/ Terminating
             \/ UNCHANGED vars
      PROVE  UNCHANGED Correlated!avars
  <2>1. UNCHANGED <<request_id, pc, cur, delivered>>
    BY <1>5 DEF Connect, ServerReply, Terminating, vars, clientVars,
                callerVars
  <2>2. pendingBar' = pendingBar
    BY <2>1 DEF pendingBar
  <2>. QED
    BY <2>1, <2>2 DEF Correlated!avars
<1>6. ~ServerNotify
  BY DEF ServerNotify, TypeOK
<1>. QED
  BY <1>1, <1>2, <1>3, <1>4, <1>5, <1>6 DEF Next, Disconnect, ChannelDrop

(* With one task and a server that sends no notification, the client      *)
(* implements the safety part of CorrelatedClient (CorrelatedSpec without  *)
(* its fairness): each call takes the next id and is answered only with    *)
(* the reply to that id, or fails, for every bound on ids and reconnects.  *)
THEOREM SingleTaskRefinesCorrelated ==
    ASSUME NEW c, Callers = {c}, MaxNotify = 0
    PROVE  Spec => Correlated!Init /\ [][Correlated!Next]_Correlated!avars
<1>1. Init => Correlated!Init
  BY PendingBarStep DEF Init, Correlated!Init, pendingBar, NoId
<1>2. TypeOK /\ SingleInv(c) /\ [Next]_vars => [Correlated!Next]_Correlated!avars
  BY RefineStep
<1>3. Init => SingleInv(c)
  BY DEF Init, SingleInv, ResponseMatchesRequest
<1>4. TypeOK /\ SingleInv(c) /\ [Next]_vars => SingleInv(c)'
  BY SingleStep
<1>. QED
  BY <1>1, <1>2, <1>3, <1>4, InitType, TypeNext, PTL DEF Spec
=============================================================================
