------------------------------ MODULE EdgeMCPMain ------------------------------
(***************************************************************************)
(* main() of src/docs/openapi/examples/python/client.py driving the        *)
(* EdgeMCPClient as its one task Main, composed with the server's session  *)
(* context document (spec section 4.4).                                    *)
(*                                                                         *)
(* main() connects, runs initialize, list_tools, call_tool,                *)
(* batch_call_tools, update_context and get_context in order, and on any   *)
(* exception goes to its finally clause, disconnect(). The context         *)
(* document is abstracted to the set of its keys: "prior" stands for keys  *)
(* it held before, "update" for the keys main's update_context writes      *)
(* (merge=True, the default main uses: the server unions them in).         *)
(***************************************************************************)
EXTENDS EdgeMCPClient

CONSTANTS Main   \* the task running main()

ASSUME MainAssumption ==
    /\ Main \in Callers
    /\ MaxId >= 7                \* main takes seven ids
    /\ CalledOps = Ops

Keys == {"prior", "update"}
(* What get_context returned: whether it has, whether the result is a      *)
(* context document, and if so its keys.                                   *)
Got == [returned : BOOLEAN, isDoc : BOOLEAN, keys : SUBSET Keys]
NoGet == [returned |-> FALSE, isDoc |-> FALSE, keys |-> {}]

VARIABLES
    step,      \* the statement of main() to run next
    called,    \* the facade call of step has been started
    doc,       \* the server's context document (its keys)
    snapshot,  \* the document each context.get reply carries, by request id
    got        \* what get_context returned to main

mainVars == <<step, called, doc, snapshot, got>>
allVars == <<vars, mainVars>>

MainTypeOK ==
    /\ TypeOK
    /\ step \in {"connect", "disconnect", "done"} \cup Ops
    /\ called \in BOOLEAN
    /\ doc \subseteq Keys
    /\ snapshot \in [0..MaxId -> SUBSET Keys]
    /\ got \in Got

MainInit ==
    /\ Init
    /\ step = "connect"
    /\ called = FALSE
    /\ doc \in {{}, {"prior"}}
    /\ snapshot = [i \in 0..MaxId |-> {}]
    /\ got = NoGet

(* Mutant of main(): it never calls initialize. *)
AfterSkipInit ==
    [s \in {"connect"} \cup Ops |->
        CASE s = "connect"        -> "tools/list"
          [] s = "initialize"     -> "tools/list"
          [] s = "tools/list"     -> "tools/call"
          [] s = "tools/call"     -> "tools/batch"
          [] s = "tools/batch"    -> "context.update"
          [] s = "context.update" -> "context.get"
          [] s = "context.get"    -> "disconnect"]

(* Mutant of main(): get_context before update_context. *)
AfterSwapped ==
    [s \in {"connect"} \cup Ops |->
        CASE s = "connect"        -> "initialize"
          [] s = "initialize"     -> "tools/list"
          [] s = "tools/list"     -> "tools/call"
          [] s = "tools/call"     -> "tools/batch"
          [] s = "tools/batch"    -> "context.get"
          [] s = "context.get"    -> "context.update"
          [] s = "context.update" -> "disconnect"]

(* The statements of main()'s try block, each with the one after it. *)
After ==
    [s \in {"connect"} \cup Ops |->
        CASE s = "connect"        -> "initialize"
          [] s = "initialize"     -> "tools/list"
          [] s = "tools/list"     -> "tools/call"
          [] s = "tools/call"     -> "tools/batch"
          [] s = "tools/batch"    -> "context.update"
          [] s = "context.update" -> "context.get"
          [] s = "context.get"    -> "disconnect"]

(* await client.connect(): a new socket, or an exception (the server is    *)
(* not there) that sends main to its finally clause.                       *)
MainConnect ==
    /\ step = "connect"
    /\ \/ /\ Connect(Main)
          /\ step' = After["connect"]
       \/ /\ step' = "disconnect"
          /\ UNCHANGED vars
    /\ UNCHANGED <<called, doc, snapshot, got>>

(* main() awaits the facade method of the current statement. *)
MainCall ==
    /\ step \in Ops
    /\ ~called
    /\ StartCall(Main, step, IF step = "initialize" THEN 2 ELSE 1)
    /\ called' = TRUE
    /\ UNCHANGED <<websocket, epoch, ready, inbox, waiter, notified, delivered,
                   step, doc, snapshot, got>>

(* Mutant of main(): no finally clause; an exception ends main with the    *)
(* socket left open.                                                       *)
MainReturnNoFinally ==
    /\ step \in Ops
    /\ called
    /\ pc[Main] = "idle"
    /\ called' = FALSE
    /\ step' = IF outcome[Main] = "ok" THEN After[step] ELSE "done"
    /\ UNCHANGED <<vars, doc, snapshot, got>>

(* The facade call returned: main goes on with the next statement, or an   *)
(* exception (RemoteError, KeyError, RuntimeError, ConnectionClosed) takes  *)
(* it to the finally clause.                                               *)
MainReturn ==
    /\ step \in Ops
    /\ called
    /\ pc[Main] = "idle"
    /\ called' = FALSE
    /\ step' = IF outcome[Main] = "ok" THEN After[step] ELSE "disconnect"
    /\ UNCHANGED <<vars, doc, snapshot, got>>

(* finally: await client.disconnect(), then main returns or re-raises. *)
MainDisconnect ==
    /\ step = "disconnect"
    /\ step' = "done"
    /\ IF websocket = "open"
         THEN CloseSocket
         ELSE UNCHANGED vars
    /\ UNCHANGED <<called, doc, snapshot, got>>

(* What a message returned to get_context is: the document the server put *)
(* in its reply to a context.get, or some other result; a notification     *)
(* gives response.get("result", {}), an empty dict (line 83).               *)
ReplyDoc(m) ==
    [returned |-> TRUE, isDoc |-> m.method = "context.get",
     keys |-> IF m.method = "context.get" THEN snapshot[m.id] ELSE {}]

(* The recv of main's send_message; get_context keeps what it returned, *)
(* unless the message was an error, which raises (lines 79-81).          *)
Returned ==
    got' = IF /\ Len(inbox') < Len(inbox)
              /\ op[Main] = "context.get"
              /\ Head(inbox).kind # "error"
           THEN ReplyDoc(Head(inbox))
           ELSE got

MainRecv ==
    /\ Recv(Main)
    /\ Returned
    /\ UNCHANGED <<step, called, doc, snapshot>>

MainDeliver ==
    /\ Deliver(Main)
    /\ Returned
    /\ UNCHANGED <<step, called, doc, snapshot>>

(* The server answers r: context.update merges main's keys into the       *)
(* document when it succeeds, context.get replies with the document.       *)
DocServerReply(r) ==
    /\ ServerReply(r)
    /\ LET m == inbox'[Len(inbox')]
       IN /\ doc' = IF r.method = "context.update" /\ m.kind = "result"
                      THEN doc \cup {"update"} ELSE doc
          /\ snapshot' = IF r.method = "context.get"
                           THEN [snapshot EXCEPT ![r.id] = doc] ELSE snapshot
    /\ UNCHANGED <<step, called, got>>

(* main() has returned and asyncio.run ends the process. *)
MainDone ==
    /\ step = "done"
    /\ UNCHANGED allVars

MainNext ==
    \/ MainConnect
    \/ MainCall
    \/ MainReturn
    \/ MainDisconnect
    \/ MainRecv
    \/ MainDeliver
    \/ \E r \in srv : DocServerReply(r)
    \/ ChannelDrop /\ UNCHANGED mainVars
    \/ ServerNotify /\ UNCHANGED mainVars
    \/ MainDone

(* main is the task the asyncio loop runs. The server answers every request *)
(* it read: spec section 4.2 makes initialized, too, a correlated call the  *)
(* server confirms. send_message has no timeout (spec section 5), so this  *)
(* is an assumption about the server, not something the client enforces.   *)
MainFairness ==
    /\ WF_allVars(MainConnect) /\ WF_allVars(MainCall)
    /\ WF_allVars(MainReturn) /\ WF_allVars(MainDisconnect)
    /\ WF_allVars(MainRecv) /\ WF_allVars(MainDeliver)
    /\ WF_allVars(\E r \in srv : DocServerReply(r))

MainSpec == MainInit /\ [][MainNext]_allVars /\ MainFairness

-----------------------------------------------------------------------------
(* On a server that answers every request it reads (MainFairness), main()  *)
(* ends and leaves no socket open, whatever errors, drops and notifications *)
(* occur: every exception path of lines 209-212 reaches the finally clause  *)
(* (lines 213-215), and a reply shifted by a notification never leaves a   *)
(* call waiting for a message that will not come.                           *)
MainTerminates ==
    <>(step = "done" /\ websocket # "open")

(* update_context then get_context reads the update (spec sections 4.4 and *)
(* 8): the document get_context returned holds main's keys.                *)
ContextReadsOwnWrite ==
    got.returned => got.isDoc /\ "update" \in got.keys

(* The session state machine of spec section 4.2 for main's calls. *)
MainHandshakeBeforeUse == HandshakeBeforeUse
=============================================================================
