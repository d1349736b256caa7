-------------------------- MODULE EdgeMCPMainProofs --------------------------
(***************************************************************************)
(* Machine-checked proofs about main() of client.py (EdgeMCPMain): its     *)
(* type invariant for every value of the constants, and read-your-writes   *)
(* of update_context then get_context when main is the client's one task   *)
(* and the server pushes no notification.                                  *)
(***************************************************************************)
EXTENDS EdgeMCPMain, EdgeMCPClientProofs, TLAPS

USE ClientAssumption, MainAssumption

(* Only main's task acts, and it takes its ids within MaxId: every id the  *)
(* server read or answered was handed out by _next_id and is at most      *)
(* MaxId, so snapshot has an entry for each. An initialize call in flight  *)
(* still has the id of its "initialized" request to take.                  *)
IdBound ==
    /\ request_id <= MaxId
    /\ pc[Main] # "idle" /\ op[Main] = "initialize" => request_id < MaxId
    /\ \A r \in srv : r.id <= request_id
    /\ \A i \in 1..Len(inbox) : inbox[i].id <= request_id

(* Where main() is in its script, given what its task is doing: a call is  *)
(* in flight only for the statement being run (initialize's second        *)
(* request included), and the message queued for it answers its method.   *)
ScriptInv ==
    /\ step \in {"connect", "disconnect", "done"} => pc[Main] = "idle"
    /\ pc[Main] # "idle" =>
          /\ called
          /\ \/ op[Main] = step
             \/ op[Main] = "initialized" /\ step = "initialize"
    /\ pc[Main] # "idle" /\ inbox # <<>> => Head(inbox).method = op[Main]

(* Why get_context reads main's update: the update is in the document once *)
(* update_context returned normally, in every successful context.update   *)
(* reply queued, and in every document a queued context.get reply carries. *)
ContextInv ==
    /\ step = "context.get" => "update" \in doc
    /\ step = "context.update" /\ called /\ pc[Main] = "idle"
       /\ outcome[Main] = "ok" => "update" \in doc
    /\ \A i \in 1..Len(inbox) :
          inbox[i].method = "context.update" /\ inbox[i].kind # "error"
             => "update" \in doc
    /\ \A i \in 1..Len(inbox) :
          inbox[i].method = "context.get" => "update" \in snapshot[inbox[i].id]

(* The inductive invariants: MInvType for every instance, MInv for one task *)
(* and no notification.                                                    *)
MInvType == MainTypeOK /\ IdBound
MInv == MInvType /\ SingleInv(Main) /\ ScriptInv /\ ContextInv /\ ContextReadsOwnWrite

(* main()'s initial state is one of the client's. *)
LEMMA MainInitIsInit == MainInit => Init
BY DEF MainInit

(* The statement main() runs after each one is a statement of main(). *)
LEMMA AfterType ==
    \A s \in {"connect"} \cup Ops : After[s] \in Ops \cup {"disconnect"}
BY DEF After, Ops

(* Every step of main() and of its server is a step of the client and its *)
(* server (or leaves the client's variables alone): main only uses the     *)
(* client through its facade, connect and disconnect.                      *)
LEMMA MainStepIsClientStep ==
    ASSUME TypeOK, MainNext
    PROVE  [Next]_vars
<1>1. CASE MainConnect
  BY <1>1 DEF MainConnect, Next
<1>2. CASE MainCall
  <2>1. step \in Ops /\ StartCall(Main, step, IF step = "initialize" THEN 2 ELSE 1)
    BY <1>2 DEF MainCall
  <2>2. CallFacade(Main)
    BY <1>2, <2>1 DEF MainCall, CallFacade, Initialize, ListTools, CallTool,
                      BatchCallTools, GetContext, UpdateContext, Ops
  <2>. QED
    BY <2>2 DEF Next
<1>3. CASE MainReturn
  BY <1>3 DEF MainReturn
<1>4. CASE MainDisconnect
  BY <1>4 DEF MainDisconnect, Next, ChannelDrop
<1>5. CASE MainRecv
  BY <1>5 DEF MainRecv, Next
<1>6. CASE MainDeliver
  BY <1>6 DEF MainDeliver, Next
<1>7. CASE \E r \in srv : DocServerReply(r)
  BY <1>7 DEF DocServerReply, Next
<1>8. CASE MainDone
  BY <1>8 DEF MainDone, allVars
<1>. QED
  BY <1>1, <1>2, <1>3, <1>4, <1>5, <1>6, <1>7, <1>8 DEF MainNext, Next

(* The client's variables stay well typed under main(). *)
LEMMA MainTypeNext ==
    ASSUME TypeOK, [MainNext]_allVars
    PROVE  TypeOK'
<1>1. CASE MainNext
  BY <1>1, MainStepIsClientStep, TypeNext
<1>2. CASE UNCHANGED allVars
  BY <1>2, TypeNext DEF allVars
<1>. QED
  BY <1>1, <1>2

(* main()'s own variables in their ranges (MainTypeOK without TypeOK). *)
ScriptType ==
    /\ step \in {"connect", "disconnect", "done"} \cup Ops
    /\ called \in BOOLEAN
    /\ doc \subseteq Keys
    /\ snapshot \in [0..MaxId -> SUBSET Keys]
    /\ got \in Got

LEMMA MInvTypeSplit == MInvType <=> TypeOK /\ ScriptType /\ IdBound
BY DEF MInvType, MainTypeOK, ScriptType

(* The ids of the requests the server holds and of the queued messages   *)
(* are naturals.                                                           *)
LEMMA InboxElem ==
    ASSUME TypeOK, NEW i \in 1..Len(inbox)
    PROVE  inbox[i] \in Messages
BY DEF TypeOK

LEMMA MessageId ==
    ASSUME NEW m \in Messages
    PROVE  m.id \in Nat /\ m.method \in Methods \cup {"notification"}
BY DEF Messages

LEMMA IdsNat ==
    ASSUME TypeOK
    PROVE  /\ \A r \in srv : r.id \in Nat
           /\ \A i \in 1..Len(inbox) : inbox[i].id \in Nat
<1>1. \A r \in srv : r.id \in Nat
  BY DEF TypeOK, Requests
<1>. QED
  BY <1>1, InboxElem, MessageId

(* A call that ends leaves main's task idle, and no other task's state    *)
(* changes.                                                                *)
LEMMA FinishIdBound ==
    ASSUME TypeOK, IdBound, NEW c, NEW o, Finish(c, o),
           UNCHANGED <<request_id, srv, inbox>>
    PROVE  IdBound'
BY DEF Finish, IdBound, TypeOK

(* send_message(method) within the guard of StartCall, or the second      *)
(* request of an initialize call in flight, keeps ids within MaxId.       *)
LEMMA SendIdBound ==
    ASSUME TypeOK, IdBound, NEW mth \in Methods, SendMessage(Main, mth),
           request_id < MaxId, mth = "initialize" => request_id + 1 < MaxId,
           \A i \in 1..Len(inbox') : inbox'[i].id \in Nat /\ inbox'[i].id <= request_id
    PROVE  IdBound'
<1>1. CASE websocket = "none"
  BY <1>1, IdsNat DEF SendMessage, Finish, IdBound, TypeOK
<1>2. CASE websocket = "closed"
  <2>1. request_id' = request_id + 1 /\ UNCHANGED srv
        /\ pc'[Main] = "idle"
    BY <1>2 DEF SendMessage, Finish, TypeOK, NextId
  <2>2. request_id \in Nat
    BY DEF TypeOK
  <2>. QED
    BY <2>1, <2>2, IdsNat DEF IdBound
<1>3. CASE websocket = "open"
  <2>1. /\ request_id' = request_id + 1
        /\ srv' = srv \cup {[id |-> request_id + 1, method |-> mth]}
        /\ op'[Main] = mth
    BY <1>3 DEF SendMessage, TypeOK, NextId
  <2>2. request_id \in Nat
    BY DEF TypeOK
  <2>. QED
    BY <2>1, <2>2, IdsNat DEF IdBound
<1>. QED
  BY <1>1, <1>2, <1>3 DEF TypeOK

(* recv takes the head of the queue; what stays queued has ids within    *)
(* request_id.                                                             *)
LEMMA TailIds ==
    ASSUME TypeOK, IdBound, inbox # <<>>
    PROVE  \A i \in 1..Len(Tail(inbox)) :
              Tail(inbox)[i].id \in Nat /\ Tail(inbox)[i].id <= request_id
<1>1. Len(Tail(inbox)) = Len(inbox) - 1 /\ Len(inbox) \in Nat \ {0}
  BY DEF TypeOK
<1>2. \A i \in 1..Len(Tail(inbox)) : Tail(inbox)[i] = inbox[i + 1]
  BY DEF TypeOK
<1>. QED
  BY <1>1, <1>2, IdsNat DEF IdBound

(* A context document returned by get_context is a set of keys: the ids of *)
(* queued replies have an entry in snapshot.                               *)
LEMMA ReplyDocType ==
    ASSUME TypeOK, ScriptType, IdBound, inbox # <<>>
    PROVE  ReplyDoc(Head(inbox)) \in Got
<1>1. Head(inbox) = inbox[1] /\ 1 \in 1..Len(inbox)
  BY DEF TypeOK
<1>2. Head(inbox).id \in 0..MaxId
  BY <1>1, IdsNat DEF IdBound, TypeOK
<1>. QED
  BY <1>2 DEF ReplyDoc, Got, ScriptType

(* recv hands main's task the head of the queue: ids stay within MaxId,    *)
(* the initialized request of an initialize call included.                *)
LEMMA ConsumeIdBound ==
    ASSUME TypeOK, IdBound, pc[Main] # "idle", inbox # <<>>, Consume(Main)
    PROVE  IdBound'
<1>1. inbox' = Tail(inbox) /\ Complete(Main, Head(inbox))
  BY DEF Consume
<1>2. \A i \in 1..Len(inbox') : inbox'[i].id \in Nat /\ inbox'[i].id <= request_id
  BY <1>1, TailIds
<1>3. CASE op[Main] = "initialize" /\ Head(inbox).kind # "error"
  <2>1. SendMessage(Main, "initialized")
    BY <1>1, <1>3 DEF Complete, SendInitialized
  <2>2. request_id < MaxId
    BY <1>3 DEF IdBound
  <2>. QED
    BY <1>2, <2>1, <2>2, SendIdBound DEF Methods
<1>4. CASE ~(op[Main] = "initialize" /\ Head(inbox).kind # "error")
  <2>1. \E o \in Outcomes : Finish(Main, o) /\ UNCHANGED <<request_id, srv>>
    BY <1>1, <1>4 DEF Complete, Outcomes
  <2>. QED
    BY <1>2, <2>1, IdsNat DEF Finish, IdBound, TypeOK
<1>. QED
  BY <1>3, <1>4

(* Closing the socket empties the server's requests and ends at most the  *)
(* call blocked in recv.                                                   *)
LEMMA CloseSocketIdBound ==
    ASSUME TypeOK, IdBound, CloseSocket
    PROVE  IdBound'
<1>1. CASE waiter = NoCaller
  BY <1>1 DEF CloseSocket, IdBound, callerVars
<1>2. CASE waiter # NoCaller
  BY <1>2 DEF CloseSocket, Finish, IdBound, TypeOK
<1>. QED
  BY <1>1, <1>2

(* main's recv, through Recv or Deliver, keeps main's variables in range  *)
(* and its ids within MaxId.                                               *)
LEMMA MainRecvType ==
    ASSUME TypeOK, ScriptType, IdBound,
           Recv(Main) \/ Deliver(Main), Returned,
           UNCHANGED <<step, called, doc, snapshot>>
    PROVE  ScriptType' /\ IdBound'
<1>1. got' \in Got
  <2>1. CASE inbox # <<>>
    BY <2>1, ReplyDocType DEF Returned, ScriptType
  <2>2. CASE inbox = <<>>
    <3>1. ~(Len(inbox') < Len(inbox))
      BY <2>2 DEF TypeOK
    <3>. QED
      BY <3>1 DEF Returned, ScriptType
  <2>. QED
    BY <2>1, <2>2
<1>2. IdBound'
  <2>1. CASE Deliver(Main)
    BY <2>1, ConsumeIdBound DEF Deliver
  <2>2. CASE Recv(Main)
    <3>1. pc[Main] = "recv"
      BY <2>2 DEF Recv
    <3>2. CASE inbox # <<>> /\ Consume(Main)
      BY <3>1, <3>2, ConsumeIdBound
    <3>3. CASE ~(inbox # <<>> /\ Consume(Main))
      BY <2>2, <3>3, IdsNat DEF Recv, Finish, IdBound, TypeOK, clientVars,
                                 chanVars
    <3>. QED
      BY <3>2, <3>3
  <2>. QED
    BY <2>1, <2>2
<1>. QED
  BY <1>1, <1>2 DEF ScriptType

(* Every step of main(), of its server and of the network keeps MInvType. *)
LEMMA MInvTypeStep ==
    ASSUME MInvType, [MainNext]_allVars
    PROVE  MInvType'
<1>0. TypeOK /\ ScriptType /\ IdBound
  BY MInvTypeSplit
<1>1. TypeOK'
  BY <1>0, MainTypeNext
<1> SUFFICES ScriptType' /\ IdBound'
  BY <1>1 DEF MInvType, MainTypeOK, ScriptType
<1>2. CASE MainConnect
  <2>1. step' \in {"connect", "disconnect", "done"} \cup Ops
    BY <1>2, AfterType DEF MainConnect
  <2>2. IdBound'
    <3>1. CASE Connect(Main)
      <4>1. srv' = {} /\ inbox' = <<>> /\ UNCHANGED <<request_id, pc, op>>
        BY <3>1 DEF Connect, callerVars
      <4>. QED
        BY <1>0, <4>1 DEF IdBound
    <3>2. CASE UNCHANGED vars
      BY <1>0, <3>2 DEF IdBound, vars, callerVars, chanVars, clientVars
    <3>. QED
      BY <1>2, <3>1, <3>2 DEF MainConnect
  <2>. QED
    BY <1>0, <1>2, <2>1, <2>2 DEF MainConnect, ScriptType
<1>3. CASE MainCall
  <2>1. /\ step \in Ops /\ request_id + (IF step = "initialize" THEN 2 ELSE 1) <= MaxId
        /\ SendMessage(Main, step) /\ UNCHANGED inbox
    BY <1>3 DEF MainCall, StartCall
  <2>2. step \in Methods
    BY <2>1 DEF Methods
  <2>3. request_id < MaxId /\ (step = "initialize" => request_id + 1 < MaxId)
    BY <1>0, <2>1 DEF TypeOK
  <2>4. \A i \in 1..Len(inbox') : inbox'[i].id \in Nat /\ inbox'[i].id <= request_id
    BY <1>0, <2>1, IdsNat DEF IdBound
  <2>5. IdBound'
    BY <1>0, <2>1, <2>2, <2>3, <2>4, SendIdBound
  <2>. QED
    BY <1>0, <1>3, <2>5 DEF MainCall, ScriptType
<1>4. CASE MainReturn
  <2>1. step' \in {"connect", "disconnect", "done"} \cup Ops
    BY <1>4, AfterType DEF MainReturn
  <2>. QED
    BY <1>0, <1>4, <2>1 DEF MainReturn, ScriptType, IdBound, vars, callerVars,
                            chanVars, clientVars
<1>5. CASE MainDisconnect
  <2>1. IdBound'
    BY <1>0, <1>5, CloseSocketIdBound DEF MainDisconnect, IdBound, vars,
                                         callerVars, chanVars, clientVars
  <2>. QED
    BY <1>0, <1>5, <2>1 DEF MainDisconnect, ScriptType
<1>6. CASE MainRecv
  BY <1>0, <1>6, MainRecvType DEF MainRecv
<1>7. CASE MainDeliver
  BY <1>0, <1>7, MainRecvType DEF MainDeliver
<1>8. ASSUME NEW r \in srv, DocServerReply(r) PROVE ScriptType' /\ IdBound'
  <2>1. PICK k \in {"result", "error"} :
          inbox' = Append(inbox, [id |-> r.id, method |-> r.method, kind |-> k])
    BY <1>8 DEF DocServerReply, ServerReply
  <2>2. r.id \in Nat /\ r.id <= request_id
    BY <1>0, IdsNat DEF IdBound
  <2>3. \A i \in 1..Len(inbox') : inbox'[i].id <= request_id
    BY <1>0, <2>1, <2>2, IdsNat DEF IdBound, TypeOK
  <2>4. IdBound'
    BY <1>0, <1>8, <2>3 DEF DocServerReply, ServerReply, IdBound, callerVars,
                            clientVars
  <2>5. doc' \subseteq Keys /\ snapshot' \in [0..MaxId -> SUBSET Keys]
    BY <1>0, <1>8 DEF DocServerReply, ScriptType, Keys
  <2>. QED
    BY <1>0, <1>8, <2>4, <2>5 DEF DocServerReply, ScriptType
<1>9. CASE ChannelDrop /\ UNCHANGED mainVars
  BY <1>0, <1>9, CloseSocketIdBound DEF ChannelDrop, ScriptType, mainVars
<1>10. CASE ServerNotify /\ UNCHANGED mainVars
  <2>1. \A i \in 1..Len(inbox') : inbox'[i].id <= request_id
    BY <1>0, <1>10, IdsNat DEF ServerNotify, Notification, NoId, IdBound, TypeOK
  <2>. QED
    BY <1>0, <1>10, <2>1 DEF ServerNotify, ScriptType, IdBound, mainVars,
                             callerVars, clientVars
<1>11. CASE MainDone \/ UNCHANGED allVars
  BY <1>0, <1>11 DEF MainDone, allVars, vars, mainVars, ScriptType, IdBound,
                     clientVars, callerVars, chanVars
<1>. QED
  BY <1>2, <1>3, <1>4, <1>5, <1>6, <1>7, <1>8, <1>9, <1>10, <1>11 DEF MainNext

(* main() starts in a state of MInvType. *)
LEMMA MainInitMInvType == MainInit => MInvType
<1> SUFFICES ASSUME MainInit PROVE MInvType
  OBVIOUS
<1>1. TypeOK
  BY MainInitIsInit, InitType
<1>2. ScriptType
  BY DEF MainInit, ScriptType, Got, NoGet, Keys
<1>3. IdBound
  BY DEF MainInit, Init, IdBound
<1>. QED
  BY <1>1, <1>2, <1>3, MInvTypeSplit

(* main()'s state is well typed in every reachable state, for every value  *)
(* of the constants (MainTypeOK, checked by run main_lifecycle): in        *)
(* particular every id a reply carries has its entry in snapshot.          *)
THEOREM MainTypeCorrect == MainSpec => []MainTypeOK
<1>1. MainInit => MInvType
  BY MainInitMInvType
<1>2. MInvType => MainTypeOK
  BY DEF MInvType
<1>. QED
  BY <1>1, <1>2, MInvTypeStep, PTL DEF MainSpec

-----------------------------------------------------------------------------
(* Read-your-writes, for main() as the client's one task and a server     *)
(* that pushes no notification (the instance of run main_context).         *)

(* What MInv adds to MInvType and SingleInv(Main). *)
MainRest == ScriptInv /\ ContextInv /\ ContextReadsOwnWrite

LEMMA MInvSplit ==
    MInv <=> MInvType /\ SingleInv(Main) /\ MainRest
BY DEF MInv, MainRest

(* Only update_context is followed by get_context; connect is followed by *)
(* initialize.                                                             *)
LEMMA AfterValues ==
    /\ After["connect"] = "initialize"
    /\ \A s \in {"connect"} \cup Ops : After[s] = "context.get" => s = "context.update"
BY DEF After, Ops

(* The part of TypeOK about main's task, without the sequence types. *)
LEMMA TaskType ==
    ASSUME TypeOK
    PROVE  /\ pc \in [Callers -> {"idle", "recv", "wait"}]
           /\ op \in [Callers -> Methods \cup {"none"}]
           /\ outcome \in [Callers -> Outcomes]
           /\ websocket \in {"none", "open", "closed"}
           /\ Len(inbox) \in Nat
BY DEF TypeOK

(* A natural that is neither 0 nor above 1 is 1. *)
LEMMA AtMostOne ==
    ASSUME NEW n \in Nat, n <= 1, n # 0
    PROVE  n = 1
OBVIOUS

(* main's recv takes the one queued message, which answers its current    *)
(* request: if that is context.get, the document it carries holds the     *)
(* update; if it is context.update and succeeded, the update is in doc.    *)
LEMMA ContextConsume ==
    ASSUME Callers = {Main}, MInv, pc[Main] # "idle", inbox # <<>>,
           Consume(Main), Returned, UNCHANGED <<step, called, doc, snapshot>>,
           NEW m \in Messages, m = Head(inbox)
    PROVE  MainRest'
<1>0. /\ TypeOK /\ ScriptType /\ IdBound /\ SingleInv(Main)
      /\ ScriptInv /\ ContextInv /\ ContextReadsOwnWrite
  BY MInvSplit, MInvTypeSplit DEF MainRest
<1>8. /\ pc \in [Callers -> {"idle", "recv", "wait"}]
      /\ op \in [Callers -> Methods \cup {"none"}]
      /\ outcome \in [Callers -> Outcomes]
      /\ websocket \in {"none", "open", "closed"}
  BY <1>0, TaskType
<1>1. /\ Len(inbox) = 1 /\ srv = {} /\ m = inbox[1] /\ websocket # "none"
  <2>1. /\ Len(inbox) <= 1 /\ (srv = {} \/ inbox = <<>>)
        /\ (websocket = "none" => inbox = <<>>)
    BY <1>0 DEF SingleInv
  <2>2. Len(inbox) # 0 /\ Len(inbox) \in Nat
    BY <1>0, TaskType
  <2>3. Len(inbox) = 1
    BY <2>1, <2>2, AtMostOne
  <2>4. m = inbox[1]
    OBVIOUS
  <2>. QED
    BY <2>1, <2>3, <2>4
<1>7. m.method = op[Main]
  BY <1>0 DEF ScriptInv
<1>2. inbox' = <<>> /\ Complete(Main, m)
  BY <1>0, <1>1 DEF Consume, TypeOK
<1>3. /\ \/ op[Main] = step
         \/ op[Main] = "initialized" /\ step = "initialize"
      /\ called
  BY <1>0 DEF ScriptInv
<1>4. ContextReadsOwnWrite'
  <2>1. CASE op[Main] = "context.get" /\ m.kind # "error"
    <3>1. got' = ReplyDoc(m)
      BY <1>0, <1>1, <1>2, <2>1 DEF Returned
    <3>2. "update" \in snapshot[m.id]
      BY <1>0, <1>1, <1>7, <2>1 DEF ContextInv
    <3>. QED
      BY <1>7, <2>1, <3>1, <3>2 DEF ReplyDoc, ContextReadsOwnWrite
  <2>2. CASE ~(op[Main] = "context.get" /\ m.kind # "error")
    BY <1>0, <1>7, <2>2 DEF Returned, ContextReadsOwnWrite
  <2>. QED
    BY <2>1, <2>2
<1>5. ContextInv'
  <2>0. Len(inbox') = 0
    BY <1>2
  <2>1. CASE step = "context.update" /\ pc'[Main] = "idle" /\ outcome'[Main] = "ok"
    <3>1. op[Main] = "context.update"
      BY <1>3, <2>1
    <3>2. m.kind # "error"
      BY <1>2, <1>8, <2>1 DEF Complete, Finish
    <3>3. "update" \in doc
      BY <1>0, <1>1, <1>7, <3>1, <3>2 DEF ContextInv
    <3>. QED
      BY <1>0, <2>0, <3>3 DEF ContextInv
  <2>. QED
    BY <1>0, <2>0, <2>1 DEF ContextInv
<1>6. ScriptInv'
  <2>1. CASE op[Main] = "initialize" /\ m.kind # "error" /\ websocket = "open"
    <3>1. op'[Main] = "initialized" /\ step = "initialize"
      BY <1>2, <1>3, <1>8, <2>1 DEF Complete, SendInitialized, SendMessage
    <3>. QED
      BY <1>0, <1>2, <1>3, <3>1 DEF ScriptInv
  <2>2. CASE ~(op[Main] = "initialize" /\ m.kind # "error" /\ websocket = "open")
    <3>1. pc'[Main] = "idle"
      BY <1>1, <1>2, <1>8, <2>2 DEF Complete, SendInitialized, SendMessage, Finish
    <3>. QED
      BY <3>1 DEF ScriptInv
  <2>. QED
    BY <2>1, <2>2
<1>. QED
  BY <1>4, <1>5, <1>6 DEF MainRest

(* What every step below starts from. *)
LEMMA MInvFacts ==
    ASSUME MInv
    PROVE  /\ TypeOK /\ ScriptType /\ IdBound /\ SingleInv(Main)
           /\ ScriptInv /\ ContextInv /\ ContextReadsOwnWrite
           /\ pc \in [Callers -> {"idle", "recv", "wait"}]
           /\ op \in [Callers -> Methods \cup {"none"}]
           /\ outcome \in [Callers -> Outcomes]
           /\ websocket \in {"none", "open", "closed"}
           /\ Len(inbox) \in Nat
BY MInvSplit, MInvTypeSplit, TaskType DEF MainRest

(* connect() opens a socket with an empty queue (or raises); main goes on  *)
(* to initialize (or to its finally clause).                               *)
LEMMA ConnectRest ==
    ASSUME MInv, MainConnect
    PROVE  MainRest'
<1>0. /\ ScriptInv /\ ContextInv /\ ContextReadsOwnWrite
      /\ pc[Main] = "idle" /\ step = "connect"
  BY MInvFacts DEF MainConnect, ScriptInv
<1>1. CASE Connect(Main) /\ step' = After["connect"]
  <2>1. step' = "initialize" /\ inbox' = <<>> /\ UNCHANGED <<pc, op, outcome>>
    BY <1>1, AfterValues DEF Connect, callerVars
  <2>2. Len(inbox') = 0
    BY <2>1
  <2>. QED
    BY <1>0, <2>1, <2>2 DEF MainConnect, MainRest, ScriptInv, ContextInv,
                            ContextReadsOwnWrite
<1>2. CASE step' = "disconnect" /\ UNCHANGED vars
  BY <1>0, <1>2 DEF MainConnect, MainRest, ScriptInv, ContextInv,
                    ContextReadsOwnWrite, vars, callerVars, chanVars
<1>. QED
  BY <1>1, <1>2 DEF MainConnect

(* main() starts the facade call of its statement: its request is the one *)
(* in flight, or the call fails at once without reaching the server.       *)
LEMMA CallRest ==
    ASSUME MInv, MainCall
    PROVE  MainRest'
<1>0. /\ ScriptInv /\ ContextInv /\ ContextReadsOwnWrite /\ SingleInv(Main)
      /\ pc \in [Callers -> {"idle", "recv", "wait"}]
      /\ op \in [Callers -> Methods \cup {"none"}]
      /\ outcome \in [Callers -> Outcomes]
      /\ websocket \in {"none", "open", "closed"}
  BY MInvFacts
<1>1. /\ step \in Ops /\ pc[Main] = "idle" /\ SendMessage(Main, step)
      /\ called' = TRUE /\ UNCHANGED <<inbox, step, doc, snapshot, got>>
  BY DEF MainCall, StartCall
<1>2. CASE websocket # "open"
  <2>1. pc'[Main] = "idle" /\ outcome'[Main] # "ok"
    BY <1>0, <1>1, <1>2 DEF SendMessage, Finish
  <2>. QED
    BY <1>0, <1>1, <2>1 DEF MainRest, ScriptInv, ContextInv, ContextReadsOwnWrite
<1>3. CASE websocket = "open"
  <2>1. inbox = <<>>
    BY <1>0, <1>1, <1>3 DEF SingleInv
  <2>2. pc'[Main] = "recv" /\ op'[Main] = step
    BY <1>0, <1>1, <1>3 DEF SendMessage
  <2>. QED
    BY <1>0, <1>1, <2>1, <2>2 DEF MainRest, ScriptInv, ContextInv,
                                  ContextReadsOwnWrite, Ops
<1>. QED
  BY <1>2, <1>3

(* The facade call returned: main goes on with the next statement, or to  *)
(* its finally clause. It reaches get_context only after update_context   *)
(* returned normally.                                                      *)
LEMMA ReturnRest ==
    ASSUME MInv, MainReturn
    PROVE  MainRest'
<1>0. /\ ScriptInv /\ ContextInv /\ ContextReadsOwnWrite
      /\ step \in Ops /\ called /\ pc[Main] = "idle" /\ ~called'
      /\ UNCHANGED <<vars, doc, snapshot, got>>
  BY MInvFacts DEF MainReturn
<1>1. step' = "context.get" => step = "context.update" /\ outcome[Main] = "ok"
  BY <1>0, AfterValues DEF MainReturn
<1>2. UNCHANGED <<pc, op, outcome, inbox>>
  BY <1>0 DEF vars, callerVars, chanVars
<1>. QED
  BY <1>0, <1>1, <1>2 DEF MainRest, ScriptInv, ContextInv, ContextReadsOwnWrite

(* The finally clause closes the socket; main's task is idle there, so no *)
(* call is cut short.                                                      *)
LEMMA DisconnectRest ==
    ASSUME MInv, MainDisconnect
    PROVE  MainRest'
<1>0. /\ ScriptInv /\ ContextInv /\ ContextReadsOwnWrite /\ SingleInv(Main)
      /\ pc[Main] = "idle" /\ step' = "done"
      /\ UNCHANGED <<called, doc, snapshot, got>>
  BY MInvFacts DEF MainDisconnect, ScriptInv
<1>1. waiter = NoCaller
  BY <1>0 DEF SingleInv
<1>2. UNCHANGED <<pc, op, outcome, inbox>>
  BY <1>1 DEF MainDisconnect, CloseSocket, vars, callerVars, chanVars
<1>. QED
  BY <1>0, <1>2 DEF MainRest, ScriptInv, ContextInv, ContextReadsOwnWrite

(* The head of a non-empty queue is a message. *)
LEMMA HeadMessage ==
    ASSUME TypeOK, inbox # <<>>
    PROVE  Head(inbox) \in Messages
<1>1. Head(inbox) = inbox[1] /\ 1 \in 1..Len(inbox)
  BY DEF TypeOK
<1>. QED
  BY <1>1, InboxElem

(* main's recv: it takes the queued reply, blocks on an empty queue, or   *)
(* gets ConnectionClosed; being the only task, it never meets another     *)
(* task's recv.                                                            *)
LEMMA RecvRest ==
    ASSUME Callers = {Main}, MInv, MainRecv \/ MainDeliver
    PROVE  MainRest'
<1>0. /\ TypeOK /\ ScriptInv /\ ContextInv /\ ContextReadsOwnWrite
      /\ SingleInv(Main)
      /\ pc \in [Callers -> {"idle", "recv", "wait"}]
      /\ outcome \in [Callers -> Outcomes]
      /\ Len(inbox) \in Nat
      /\ Returned /\ UNCHANGED <<step, called, doc, snapshot>>
  BY MInvFacts DEF MainRecv, MainDeliver
<1>1. CASE pc[Main] # "idle" /\ inbox # <<>> /\ Consume(Main)
  BY <1>0, <1>1, HeadMessage, ContextConsume
<1>2. CASE ~(pc[Main] # "idle" /\ inbox # <<>> /\ Consume(Main))
  <2>1. /\ pc[Main] = "recv" /\ waiter = NoCaller
        /\ Recv(Main)
    BY <1>0, <1>2 DEF MainRecv, MainDeliver, Deliver, Recv, SingleInv
  <2>2. UNCHANGED <<inbox, got>>
    <3>1. UNCHANGED inbox
      BY <1>2, <2>1 DEF Recv, chanVars
    <3>. QED
      BY <1>0, <3>1 DEF Returned
  <2>3. \/ pc'[Main] = "wait" /\ inbox = <<>> /\ UNCHANGED <<op, outcome>>
        \/ pc'[Main] = "idle" /\ outcome'[Main] = "transport_error"
    BY <1>0, <1>2, <2>1 DEF Recv, Finish
  <2>. QED
    BY <1>0, <2>1, <2>2, <2>3 DEF MainRest, ScriptInv, ContextInv, ContextReadsOwnWrite
<1>. QED
  BY <1>1, <1>2

(* The server answers main's request: the reply is the only message       *)
(* queued, a successful context.update puts the update in the document,   *)
(* and a context.get reply carries the document as it is, the update in   *)
(* it, because main asks for the context only after the update returned.   *)
LEMMA ReplyRest ==
    ASSUME Callers = {Main}, MInv, NEW r \in srv, DocServerReply(r)
    PROVE  MainRest'
<1>0. /\ ScriptType /\ IdBound /\ ScriptInv /\ ContextInv
      /\ ContextReadsOwnWrite /\ SingleInv(Main) /\ TypeOK
      /\ UNCHANGED <<step, called, got, pc, op, outcome>>
  BY MInvFacts DEF DocServerReply, ServerReply, callerVars
<1>1. /\ pc[Main] # "idle" /\ inbox = <<>>
      /\ r = [id |-> cur[Main], method |-> op[Main]]
  BY <1>0 DEF SingleInv
<1>2. r.id \in 0..MaxId
  <2>1. r.id \in Nat /\ request_id \in Nat
    BY <1>0, IdsNat DEF TypeOK
  <2>. QED
    BY <1>0, <2>1 DEF IdBound
<1>3. PICK k \in {"result", "error"} :
        inbox' = Append(inbox, [id |-> r.id, method |-> r.method, kind |-> k])
  BY DEF DocServerReply, ServerReply
<1> DEFINE msg == [id |-> r.id, method |-> r.method, kind |-> k]
<1>4. /\ inbox' = <<msg>> /\ Len(inbox') = 1 /\ Head(inbox') = msg
      /\ inbox'[Len(inbox')] = msg
  BY <1>1, <1>3 DEF msg
<1>5. /\ doc' = IF r.method = "context.update" /\ k = "result"
                  THEN doc \cup {"update"} ELSE doc
      /\ snapshot' = IF r.method = "context.get"
                       THEN [snapshot EXCEPT ![r.id] = doc] ELSE snapshot
  BY <1>4 DEF DocServerReply, msg
<1>6. doc \subseteq doc'
  BY <1>5
<1>7. ScriptInv'
  BY <1>0, <1>1, <1>4 DEF ScriptInv, msg
<1>8. r.method = "context.get" => "update" \in snapshot'[r.id]
  <2>1. r.method = "context.get" => step = "context.get"
    BY <1>0, <1>1 DEF ScriptInv
  <2>. QED
    BY <1>0, <1>2, <1>5, <2>1 DEF ContextInv, ScriptType
<1>9. ContextInv'
  <2>1. /\ step' = "context.get" => "update" \in doc'
        /\ step' = "context.update" /\ called' /\ pc'[Main] = "idle"
           /\ outcome'[Main] = "ok" => "update" \in doc'
    BY <1>0, <1>6 DEF ContextInv
  <2>2. 1..Len(inbox') = {1} /\ inbox'[1] = msg
    BY <1>4
  <2>3. msg.method = "context.update" /\ msg.kind # "error" => "update" \in doc'
    BY <1>5 DEF msg
  <2>4. msg.method = "context.get" => "update" \in snapshot'[msg.id]
    BY <1>8 DEF msg
  <2>. QED
    BY <2>1, <2>2, <2>3, <2>4 DEF ContextInv
<1>. QED
  BY <1>0, <1>7, <1>9 DEF MainRest, ContextReadsOwnWrite

(* The server or the network drops the connection: a recv blocked on it   *)
(* raises ConnectionClosed; queued replies stay readable.                  *)
LEMMA DropRest ==
    ASSUME MInv, ChannelDrop, UNCHANGED mainVars
    PROVE  MainRest'
<1>0. /\ ScriptInv /\ ContextInv /\ ContextReadsOwnWrite /\ SingleInv(Main)
      /\ pc \in [Callers -> {"idle", "recv", "wait"}]
      /\ outcome \in [Callers -> Outcomes]
      /\ UNCHANGED <<inbox, step, called, doc, snapshot, got>>
  BY MInvFacts DEF ChannelDrop, CloseSocket, mainVars
<1>1. CASE waiter = NoCaller
  <2>1. UNCHANGED <<pc, op, outcome>>
    BY <1>1 DEF ChannelDrop, CloseSocket, callerVars
  <2>. QED
    BY <1>0, <2>1 DEF MainRest, ScriptInv, ContextInv, ContextReadsOwnWrite
<1>2. CASE waiter # NoCaller
  <2>1. waiter = Main
    BY <1>0, <1>2 DEF SingleInv
  <2>2. pc'[Main] = "idle" /\ outcome'[Main] = "transport_error"
    BY <1>0, <2>1 DEF ChannelDrop, CloseSocket, Finish
  <2>. QED
    BY <1>0, <2>2 DEF MainRest, ScriptInv, ContextInv, ContextReadsOwnWrite
<1>. QED
  BY <1>1, <1>2

(* Every step of main(), of the server and of the network keeps MInv when *)
(* main is the one task and the server pushes no notification.             *)
LEMMA MInvStep ==
    ASSUME Callers = {Main}, MaxNotify = 0, MInv, [MainNext]_allVars
    PROVE  MInv'
<1>0. TypeOK /\ SingleInv(Main) /\ MInvType
  BY MInvSplit, MInvFacts
<1>1. MInvType'
  BY <1>0, MInvTypeStep
<1>2. SingleInv(Main)'
  <2>1. [Next]_vars
    <3>1. CASE MainNext
      BY <1>0, <3>1, MainStepIsClientStep
    <3>2. CASE UNCHANGED allVars
      BY <3>2 DEF allVars
    <3>. QED
      BY <3>1, <3>2
  <2>. QED
    BY <1>0, <2>1, SingleStep
<1>3. MainRest'
  <2>1. CASE MainConnect
    BY <2>1, ConnectRest
  <2>2. CASE MainCall
    BY <2>2, CallRest
  <2>3. CASE MainReturn
    BY <2>3, ReturnRest
  <2>4. CASE MainDisconnect
    BY <2>4, DisconnectRest
  <2>5. CASE MainRecv \/ MainDeliver
    BY <2>5, RecvRest
  <2>6. CASE \E r \in srv : DocServerReply(r)
    BY <2>6, ReplyRest
  <2>7. CASE ChannelDrop /\ UNCHANGED mainVars
    BY <2>7, DropRest
  <2>8. ~ServerNotify
    <3>1. notified \in Nat
      BY <1>0 DEF TypeOK
    <3>. QED
      BY <3>1 DEF ServerNotify
  <2>9. CASE MainDone \/ UNCHANGED allVars
    <3>1. UNCHANGED <<vars, mainVars>>
      BY <2>9 DEF MainDone, allVars
    <3>2. MainRest
      BY MInvSplit
    <3>. QED
      BY <3>1, <3>2 DEF MainRest, ScriptInv, ContextInv, ContextReadsOwnWrite,
                          vars, mainVars, callerVars, chanVars
  <2>. QED
    BY <2>1, <2>2, <2>3, <2>4, <2>5, <2>6, <2>7, <2>8, <2>9 DEF MainNext
<1>. QED
  BY <1>1, <1>2, <1>3 DEF MInv, MainRest

(* Read-your-writes holds for main() (ContextReadsOwnWrite, checked by run *)
(* main_context) for every bound on ids and reconnects, when main is the  *)
(* client's one task and the server pushes no notification: get_context   *)
(* runs only after update_context returned normally, so the server had     *)
(* merged the update into the document before it read the context.get     *)
(* request, and the message recv returns to get_context is that request's  *)
(* reply (SingleInv). With a notification it fails (run                    *)
(* main_context_notification).                                             *)
THEOREM MainContextReadsOwnWrite ==
    ASSUME Callers = {Main}, MaxNotify = 0
    PROVE  MainSpec => []ContextReadsOwnWrite
<1>1. MainInit => MInv
  <2> SUFFICES ASSUME MainInit PROVE MInv
    OBVIOUS
  <2>1. MInvType
    BY MainInitMInvType
  <2>2. SingleInv(Main)
    BY DEF MainInit, Init, SingleInv, ResponseMatchesRequest
  <2>3. MainRest
    BY DEF MainInit, Init, MainRest, ScriptInv, ContextInv,
           ContextReadsOwnWrite, NoGet
  <2>. QED
    BY <2>1, <2>2, <2>3, MInvSplit
<1>2. MInv /\ [MainNext]_allVars => MInv'
  BY MInvStep
<1>3. MInv => ContextReadsOwnWrite
  BY MInvSplit DEF MainRest
<1>. QED
  BY <1>1, <1>2, <1>3, PTL DEF MainSpec

-----------------------------------------------------------------------------
(* The session state machine (spec section 4.2) for main(), for every      *)
(* value of the constants and with notifications.                          *)

(* Where main() is and whether initialize() has returned normally on the  *)
(* current socket: after connect, ready is FALSE until initialize's second *)
(* reply brings serverInfo; main goes past initialize only then, and no    *)
(* later statement reconnects.                                             *)
HsInv ==
    /\ waiter \in {NoCaller, Main}
    /\ waiter = Main => pc[Main] = "wait"
    /\ step = "connect" => ~called
    /\ step \in {"connect", "disconnect", "done"} => pc[Main] = "idle"
    /\ pc[Main] # "idle" =>
          /\ called
          /\ \/ op[Main] = step
             \/ op[Main] = "initialized" /\ step = "initialize"
    /\ step \in Ops \ {"initialize"} => ready
    /\ step = "initialize" /\ called /\ pc[Main] = "idle" =>
          (ready <=> outcome[Main] = "ok")
    /\ step = "initialize" /\ ~(called /\ pc[Main] = "idle") => ~ready

(* The step HandshakeBeforeUse constrains: every request the server reads *)
(* is a handshake request exactly when initialize() has not returned.      *)
HandshakeStep ==
    \A r \in srv' \ srv :
        IF r.method \in {"initialize", "initialized"} THEN ~ready ELSE ready

LEMMA HandshakeStepDef == MainHandshakeBeforeUse <=> [][HandshakeStep]_vars
BY DEF MainHandshakeBeforeUse, HandshakeBeforeUse, HandshakeStep

(* No statement of main() after connect leads back to initialize. *)
LEMMA AfterNotInitialize ==
    \A s \in Ops : After[s] # "initialize"
BY DEF After, Ops

(* The facts about main's task the steps below rely on. *)
LEMMA HsFacts ==
    ASSUME MInvType
    PROVE  /\ TypeOK
           /\ pc \in [Callers -> {"idle", "recv", "wait"}]
           /\ op \in [Callers -> Methods \cup {"none"}]
           /\ outcome \in [Callers -> Outcomes]
           /\ info \in [Callers -> BOOLEAN]
           /\ ready \in BOOLEAN
           /\ websocket \in {"none", "open", "closed"}
           /\ step \in {"connect", "disconnect", "done"} \cup Ops
           /\ called \in BOOLEAN
BY MInvTypeSplit, TaskType DEF TypeOK, ScriptType

(* recv hands main's task a message (a reply or a notification): the call *)
(* ends, or initialize goes on with its "initialized" request, written     *)
(* while ready is still FALSE; ready becomes TRUE only with an ok outcome. *)
LEMMA HsConsume ==
    ASSUME MInvType, HsInv, pc[Main] # "idle", inbox # <<>>, Consume(Main),
           waiter' = NoCaller, UNCHANGED <<step, called>>
    PROVE  HsInv' /\ HandshakeStep
<1>0. /\ pc \in [Callers -> {"idle", "recv", "wait"}]
      /\ op \in [Callers -> Methods \cup {"none"}]
      /\ outcome \in [Callers -> Outcomes]
      /\ info \in [Callers -> BOOLEAN]
      /\ ready \in BOOLEAN
  BY HsFacts
<1>1. /\ called
      /\ \/ op[Main] = step
         \/ op[Main] = "initialized" /\ step = "initialize"
      /\ step \notin {"connect", "disconnect", "done"}
      /\ step = "initialize" => ~ready
  BY DEF HsInv
<1>2. Complete(Main, Head(inbox))
  BY DEF Consume
<1>3. CASE \E o \in Outcomes : Finish(Main, o) /\ UNCHANGED srv
           /\ (step = "initialize" => o # "ok" /\ ~ready')
           /\ (step # "initialize" => UNCHANGED ready)
  <2>1. PICK o \in Outcomes : Finish(Main, o) /\ UNCHANGED srv
           /\ (step = "initialize" => o # "ok" /\ ~ready')
           /\ (step # "initialize" => UNCHANGED ready)
    BY <1>3
  <2>2. pc'[Main] = "idle" /\ outcome'[Main] = o
    BY <1>0, <2>1 DEF Finish
  <2>. QED
    BY <1>1, <2>1, <2>2 DEF HsInv, HandshakeStep
<1>4. CASE Head(inbox).kind = "error"
  <2>1. Finish(Main, "remote_error") /\ UNCHANGED <<srv, ready>>
    BY <1>2, <1>4 DEF Complete
  <2>. QED
    BY <1>1, <1>3, <2>1 DEF Outcomes
<1>5. CASE Head(inbox).kind # "error" /\ op[Main] = "initialize"
  <2>1. step = "initialize" /\ ~ready /\ UNCHANGED ready
        /\ SendMessage(Main, "initialized")
    BY <1>1, <1>2, <1>5 DEF Complete, SendInitialized
  <2>2. CASE websocket # "open"
    <3>1. \E o \in Outcomes : Finish(Main, o) /\ UNCHANGED srv /\ o # "ok"
      BY <2>1, <2>2 DEF SendMessage, Outcomes
    <3>. QED
      BY <1>3, <2>1, <3>1
  <2>3. CASE websocket = "open"
    <3>1. /\ pc'[Main] = "recv" /\ op'[Main] = "initialized"
          /\ srv' = srv \cup {[id |-> NextId, method |-> "initialized"]}
      BY <1>0, <2>1, <2>3 DEF SendMessage
    <3>. QED
      BY <1>1, <2>1, <3>1 DEF HsInv, HandshakeStep
  <2>. QED
    BY <2>2, <2>3
<1>6. CASE Head(inbox).kind # "error" /\ op[Main] = "initialized"
  <2>1. step = "initialize" /\ ~ready
    BY <1>1, <1>6, HsFacts DEF Ops
  <2>2. /\ Finish(Main, IF info[Main] THEN "ok" ELSE "key_error")
        /\ ready' = info[Main] /\ UNCHANGED srv
    BY <1>0, <1>2, <1>6, <2>1 DEF Complete
  <2>3. pc'[Main] = "idle"
        /\ (outcome'[Main] = "ok" <=> info[Main])
    BY <1>0, <2>2 DEF Finish
  <2>. QED
    BY <1>1, <2>1, <2>2, <2>3 DEF HsInv, HandshakeStep
<1>7. CASE Head(inbox).kind # "error"
           /\ op[Main] \notin {"initialize", "initialized"}
  <2>1. step = op[Main] /\ step # "initialize"
    BY <1>1, <1>7
  <2>2. \E o \in Outcomes : Finish(Main, o) /\ UNCHANGED <<srv, ready>>
    BY <1>2, <1>7 DEF Complete, Outcomes
  <2>. QED
    BY <1>3, <2>1, <2>2
<1>. QED
  BY <1>4, <1>5, <1>6, <1>7

(* Every step of main(), of the server and of the network keeps HsInv and *)
(* writes a request only in the phase of the session it belongs to.        *)
LEMMA HsStep ==
    ASSUME MInvType, HsInv, [MainNext]_allVars
    PROVE  HsInv' /\ [HandshakeStep]_vars
<1>0. /\ pc \in [Callers -> {"idle", "recv", "wait"}]
      /\ op \in [Callers -> Methods \cup {"none"}]
      /\ outcome \in [Callers -> Outcomes]
      /\ ready \in BOOLEAN
      /\ websocket \in {"none", "open", "closed"}
      /\ step \in {"connect", "disconnect", "done"} \cup Ops
      /\ TypeOK
  BY HsFacts
<1>1. CASE MainConnect
  <2>1. pc[Main] = "idle" /\ ~called /\ UNCHANGED called
    BY <1>1 DEF MainConnect, HsInv
  <2>2. CASE Connect(Main) /\ step' = After["connect"]
    <3>1. /\ step' = "initialize" /\ ~ready' /\ srv' = {}
          /\ UNCHANGED <<pc, op, outcome, waiter>>
      BY <2>2, AfterValues DEF Connect, callerVars
    <3>. QED
      BY <2>1, <3>1 DEF HsInv, HandshakeStep
  <2>3. CASE step' = "disconnect" /\ UNCHANGED vars
    BY <2>1, <2>3 DEF HsInv, vars, callerVars, clientVars, chanVars
  <2>. QED
    BY <1>1, <2>2, <2>3 DEF MainConnect
<1>2. CASE MainCall
  <2>1. /\ step \in Ops /\ ~called /\ pc[Main] = "idle"
        /\ SendMessage(Main, step) /\ called'
        /\ UNCHANGED <<step, waiter, ready>>
    BY <1>2 DEF MainCall, StartCall
  <2>2. step = "initialize" => ~ready
    BY <2>1 DEF HsInv
  <2>3. CASE websocket # "open"
    <3>1. /\ pc'[Main] = "idle" /\ outcome'[Main] # "ok" /\ UNCHANGED srv
      BY <1>0, <2>1, <2>3 DEF SendMessage, Finish
    <3>. QED
      BY <2>1, <2>2, <3>1 DEF HsInv, HandshakeStep
  <2>4. CASE websocket = "open"
    <3>1. /\ pc'[Main] = "recv" /\ op'[Main] = step
          /\ srv' = srv \cup {[id |-> NextId, method |-> step]}
      BY <1>0, <2>1, <2>4 DEF SendMessage
    <3>. QED
      BY <2>1, <2>2, <3>1 DEF HsInv, HandshakeStep, Ops
  <2>. QED
    BY <2>3, <2>4
<1>3. CASE MainReturn
  <2>1. /\ step \in Ops /\ called /\ pc[Main] = "idle" /\ ~called'
        /\ UNCHANGED vars
        /\ step' = IF outcome[Main] = "ok" THEN After[step] ELSE "disconnect"
    BY <1>3 DEF MainReturn
  <2>2. UNCHANGED <<pc, op, outcome, waiter, ready, srv>>
    BY <2>1 DEF vars, callerVars, clientVars, chanVars
  <2>3. step' \in Ops \ {"initialize"} => ready
    <3>1. step' # "disconnect" => outcome[Main] = "ok" /\ step' = After[step]
      BY <2>1
    <3>2. step' # "disconnect" => step' # "initialize"
      BY <2>1, <3>1, AfterNotInitialize
    <3>. QED
      BY <2>1, <3>1, <3>2 DEF HsInv, Ops
  <2>4. step' # "initialize" /\ step' # "connect"
    BY <2>1, AfterNotInitialize, AfterType
  <2>. QED
    BY <2>1, <2>2, <2>3, <2>4 DEF HsInv, HandshakeStep
<1>4. CASE MainDisconnect
  <2>1. pc[Main] = "idle" /\ step' = "done" /\ UNCHANGED called
    BY <1>4 DEF MainDisconnect, HsInv
  <2>2. waiter = NoCaller
    BY <2>1 DEF HsInv
  <2>3. UNCHANGED <<pc, op, outcome, ready>> /\ waiter' = NoCaller
        /\ srv' \subseteq srv
    BY <1>4, <2>2 DEF MainDisconnect, CloseSocket, vars, callerVars,
                      clientVars, chanVars
  <2>. QED
    BY <2>1, <2>3 DEF HsInv, HandshakeStep
<1>5. CASE MainRecv \/ MainDeliver
  <2>1. UNCHANGED <<step, called>>
    BY <1>5 DEF MainRecv, MainDeliver
  <2>2. CASE Deliver(Main)
    BY <2>1, <2>2, HsConsume DEF Deliver
  <2>3. CASE Recv(Main)
    <3>1. pc[Main] = "recv" /\ waiter = NoCaller
      BY <2>3 DEF Recv, HsInv
    <3>2. CASE inbox # <<>> /\ Consume(Main) /\ UNCHANGED waiter
      BY <2>1, <3>1, <3>2, HsConsume
    <3>3. CASE /\ inbox = <<>> /\ websocket = "open"
               /\ waiter' = Main
               /\ pc' = [pc EXCEPT ![Main] = "wait"]
               /\ UNCHANGED <<clientVars, op, cur, info, outcome, srv, inbox,
                              notified, sent, delivered>>
      <4>1. pc'[Main] = "wait" /\ UNCHANGED <<ready, op, outcome, srv>>
        BY <1>0, <3>3 DEF clientVars
      <4>. QED
        BY <2>1, <3>1, <3>3, <4>1 DEF HsInv, HandshakeStep
    <3>4. CASE /\ inbox = <<>> /\ websocket = "closed"
               /\ Finish(Main, "transport_error")
               /\ UNCHANGED <<clientVars, info, chanVars, sent, delivered>>
      <4>1. /\ pc'[Main] = "idle" /\ outcome'[Main] = "transport_error"
            /\ UNCHANGED <<ready, srv, waiter>>
        BY <1>0, <3>4 DEF Finish, clientVars, chanVars
      <4>. QED
        BY <2>1, <3>1, <4>1 DEF HsInv, HandshakeStep
    <3>. QED
      BY <2>3, <3>1, <3>2, <3>3, <3>4 DEF Recv
  <2>. QED
    BY <1>5, <2>2, <2>3 DEF MainRecv, MainDeliver
<1>6. CASE \E r \in srv : DocServerReply(r)
  <2>1. /\ srv' \subseteq srv
        /\ UNCHANGED <<step, called, pc, op, outcome, waiter, ready>>
    BY <1>6 DEF DocServerReply, ServerReply, callerVars, clientVars
  <2>. QED
    BY <2>1 DEF HsInv, HandshakeStep
<1>7. CASE ChannelDrop /\ UNCHANGED mainVars
  <2>1. /\ srv' = {} /\ waiter' = NoCaller
        /\ UNCHANGED <<step, called, ready>>
    BY <1>7 DEF ChannelDrop, CloseSocket, mainVars
  <2>2. CASE waiter = NoCaller
    <3>1. UNCHANGED <<pc, op, outcome>>
      BY <1>7, <2>2 DEF ChannelDrop, CloseSocket, callerVars
    <3>. QED
      BY <2>1, <3>1 DEF HsInv, HandshakeStep
  <2>3. CASE waiter # NoCaller
    <3>1. waiter = Main /\ pc[Main] = "wait"
      BY <2>3 DEF HsInv
    <3>2. pc'[Main] = "idle" /\ outcome'[Main] = "transport_error"
      BY <1>0, <1>7, <3>1 DEF ChannelDrop, CloseSocket, Finish
    <3>. QED
      BY <2>1, <3>1, <3>2 DEF HsInv, HandshakeStep
  <2>. QED
    BY <2>2, <2>3
<1>8. CASE ServerNotify /\ UNCHANGED mainVars
  <2>1. UNCHANGED <<step, called, pc, op, outcome, waiter, ready, srv>>
    BY <1>8 DEF ServerNotify, mainVars, callerVars, clientVars
  <2>. QED
    BY <2>1 DEF HsInv, HandshakeStep
<1>9. CASE MainDone \/ UNCHANGED allVars
  <2>1. UNCHANGED <<step, called, pc, op, outcome, waiter, ready, srv>>
    BY <1>9 DEF MainDone, allVars, vars, mainVars, callerVars, clientVars,
                chanVars
  <2>. QED
    BY <2>1 DEF HsInv, HandshakeStep
<1>. QED
  BY <1>1, <1>2, <1>3, <1>4, <1>5, <1>6, <1>7, <1>8, <1>9 DEF MainNext

(* main() follows the session state machine of spec section 4.2           *)
(* (MainHandshakeBeforeUse, checked by run main_lifecycle), for every      *)
(* value of the constants and whatever notifications the server pushes:    *)
(* the server reads initialize and initialized only before initialize()    *)
(* has returned normally on the current socket, and every other request    *)
(* only after, because main runs its statements in order, stops at the     *)
(* first exception, and never reconnects after initialize (HsInv).         *)
THEOREM MainHandshakeFollowed == MainSpec => MainHandshakeBeforeUse
<1>1. MainInit => MInvType /\ HsInv
  <2> SUFFICES ASSUME MainInit PROVE MInvType /\ HsInv
    OBVIOUS
  <2>1. MInvType
    BY MainInitMInvType
  <2>2. HsInv
    BY DEF MainInit, Init, HsInv
  <2>. QED
    BY <2>1, <2>2
<1>2. MInvType /\ HsInv /\ [MainNext]_allVars => (MInvType /\ HsInv)'
  BY MInvTypeStep, HsStep
<1>3. MInvType /\ HsInv /\ [MainNext]_allVars => [HandshakeStep]_vars
  BY HsStep
<1>4. MainSpec => [][HandshakeStep]_vars
  BY <1>1, <1>2, <1>3, PTL DEF MainSpec
<1>. QED
  BY <1>4, HandshakeStepDef

=============================================================================
