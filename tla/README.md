# Verification of the developer-mesh Python clients

TLA+ models of the two Python programs of this repository, model-checked with
TLC and, where it matters most, proved with TLAPS.

- `src/docs/openapi/examples/python/client.py` — `EdgeMCPClient`, an asyncio
  JSON-RPC client for the Edge MCP server over one WebSocket.
- `src/test/ai_agent_simulation.py` — `MCPClient` and the test scenarios of a
  REST test harness (`AgentSimulation.tla`).

## 1. Inventory

### Components and their state

| Component | Code | State | Operations |
|---|---|---|---|
| Request Correlator | `client.py` 37-83 | `request_id` (counter, starts at 0), the socket `self.websocket` | `_next_id`, `send_message` (allocate id, write, `recv` the next message, raise on `"error"`) |
| Session Lifecycle | `client.py` 42-54, 85-99 | `self.websocket`: `None`, open, closed | `connect`, `initialize` (`initialize` then `initialized`, then read `serverInfo`), `disconnect` |
| Tool Facade | `client.py` 101-131 | none of its own | `list_tools`, `call_tool`, `batch_call_tools` (reads `success_count`, `error_count`) |
| Context Accessor | `client.py` 133-144 | none client-side; the server holds the document | `get_context`, `update_context(merge)` |
| websockets library (legacy protocol) | dependency | the queue of received messages, the one task waiting in `recv` | `send` (raises on a closed socket), `recv` (returns the head of the queue even after close; a second concurrent `recv` raises `RuntimeError`; an empty queue on a closed socket raises `ConnectionClosed`), `close` |
| Edge MCP server | not under `src/` (spec §4, §6) | requests read and not yet answered, the context document | answer a request (result or error, any order), push a notification, drop the connection |
| REST test harness | `ai_agent_simulation.py` | `TestResult` counters, the context id under test, the server's contexts and embeddings | `MCPClient` REST calls with fallback-to-mock and a legacy-endpoint retry; the `test_*` scenarios; `run_all_tests` |

### How they interact

Several asyncio tasks may share one `EdgeMCPClient` (the spec requires N
concurrent calls on one session). Each facade method is one `send_message`
(two for `initialize`). `send_message` takes an id with no suspension point,
writes the frame, and then awaits `self.websocket.recv()` — **the next message
on the socket, whoever it is for**: nothing in the code compares the reply id
with the request id. `self.websocket` is looked up again after the send's
await, so a `connect()` by another task in between redirects the `recv`.
The server answers on the same socket, in whatever order its handlers finish.

### What is hard

- interleaving of tasks between `send` and `recv` (misrouted replies; the
  library's one-waiter rule turns a second concurrent `recv` into `RuntimeError`);
- out-of-order replies and unsolicited notifications;
- the socket closing under waiting tasks, and reconnecting with calls still in flight;
- no timeout anywhere: a missing reply hangs the caller;
- the handshake sending `initialized` as a request that expects a reply;
- in the harness, failures masked by mock data and retries.

### What makes each component correct

- Correlator: ids never repeat (spec §3, §8); every call gets the reply to its
  own request (§4.1, §8); every call returns or raises (§8, close fails all
  pending calls).
- Lifecycle: `initialize` before any other call, at most once; after close no
  call touches the channel (§4.2).
- Facade / Context: one request, one reply; `update_context` then
  `get_context` reads the update (§8).
- Harness: a run that exits 0 leaves nothing stored on the server.

## 2. Modules

### `EdgeMCPClient.tla` — correlator, lifecycle, facade, library, server

Constants: `Callers` (the tasks), `NoCaller`, `MaxId` (bound on
`request_id`), `MaxEpoch` (bound on `connect()` calls), `MaxNotify` (bound on
server notifications), `CalledOps` (the facade methods the application calls).
`ClientAssumption` states what they must be.

State: `websocket` (`"none"`, `"open"`, `"closed"`), `request_id`, `epoch`;
per task `pc` (`"idle"`, `"recv"` = request written, `"wait"` = blocked in
`recv`), `op` (method in flight), `cur` (the local `request_id`), `info`
(the first `initialize` reply had `serverInfo`), `outcome` (how the last call
ended: ok, `RemoteError` = `remote_error`, `KeyError`, `RuntimeError` for "not
connected" and for a concurrent `recv`, `ConnectionClosed`); the channel:
`srv` (requests the server has read and not answered), `inbox` (the library's
queue on the current socket), `waiter`, `notified`; and two history variables,
`sent` (ids written, in order) and `delivered` (pairs request id / id of the
message `recv` returned). A third history variable, `ready`, records whether
`initialize()` returned normally since the last `connect()`. The code keeps no
such flag; the variable lets a property say what the spec says of the
handshake.

Actions and the code they translate:

| Action | Code |
|---|---|
| `Initialize`, `ListTools`, `CallTool`, `BatchCallTools`, `GetContext`, `UpdateContext` (through `StartCall`, `SendMessage`) | the facade methods, `send_message` lines 56-71: not-connected check, `_next_id`, write or `ConnectionClosed` |
| `Recv` | line 74: `RuntimeError` if another task waits, else take the head of the queue, else block, else `ConnectionClosed` |
| `Deliver` | the blocked task woken by a message |
| `Complete` (inside `Recv`/`Deliver`) | lines 75-83 plus the rest of the facade method: `RemoteError`; `initialize` goes on with `SendInitialized` (line 96) in the same step, as no await separates them; `KeyError` at 98 and 129 when the reply lacks the key |
| `Connect` | `connect()` line 47: a fresh socket, empty queue, `request_id` kept |
| `Disconnect`, `ChannelDrop` (through `CloseSocket`) | `disconnect()`; a drop by the server: the waiting task gets `ConnectionClosed`, queued messages stay readable |
| `ServerReply`, `ServerNotify` | the server (spec §4, §6) |

Data is abstracted: a request is its id and method, a reply its id, the
method it answers and result/error. That is all correlation distinguishes,
and it is what decides `KeyError` at lines 98 and 129.

### `CorrelatedClient.tla` and `EdgeMCPClientRefinement.tla` — what the correlator promises

`CorrelatedClient` is the abstract specification of spec §4.1: a counter
`request_id`, per task the id `pending` of its call in flight (0 when idle),
and `delivered`. `Call(c)` takes the next id, or fails before writing
(`pending` unchanged). `Answer(c)` returns to `c` the reply with its own id;
`initialize` may at once take the next id for `initialized`. `Abandon(c)` ends
the call with an error. Under weak fairness every pending call is answered or
abandoned.

`EdgeMCPClientRefinement` maps the client onto it:
`pendingBar[c]` is `cur[c]` while `c` is in a call and 0 when it is idle; the
counter and `delivered` map to themselves. `CorrelatedSpec` is
`Correlated!Spec`, and the run checks it as a PROPERTY.

### `EdgeMCPMain.tla` — `main()` composed with the client and the server's context

`EdgeMCPMain` EXTENDS `EdgeMCPClient`. It adds `main()`'s script for the task
`Main`, and the server's context document. The document is abstracted to a
set of keys: `"prior"` (there before) and `"update"` (what main writes). As
main passes `merge=True`, a merge is a union. Variables:

- `step`: the next line of `main()`.
- `called`: the current call was started.
- `doc`: the server's document.
- `snapshot`: the document as of each `context.get` reply id.
- `got`: what `get_context` returned (was it a document, and with which keys).

| Definition | Code |
|---|---|
| `After` | the order of the awaits in the `try` block, lines 153-207 |
| `MainConnect` | `await client.connect()` line 155; a failure goes to the `finally` clause |
| `MainCall`, `MainReturn` | each facade call of lines 156-206 and its return; an exception goes to the `except`/`finally` clauses, lines 209-215 |
| `MainRecv`, `MainDeliver`, `Returned` | `Recv`/`Deliver` for `Main`, recording what `get_context` (lines 133-136) returned |
| `MainDisconnect`, `MainDone` | `finally: await client.disconnect()`, lines 213-215; `asyncio.run(main())` ends, 218-219 |
| `DocServerReply` | the server applying `context.update` and answering `context.get` (spec §4.4) |

The network may still drop the connection, and the server may send
notifications (`ChannelDrop`, `ServerNotify`).

### `AgentSimulation.tla` — the REST test harness

The harness is one sequential program, so each scenario `test_*` that
`run_all_tests` calls is one action, together with the `MCPClient` calls it
makes. Its state: `phase` (the scenario that runs next), `ctxId` (the
`context_id` that `test_context_creation` returns), `verdict`, `passed`,
`failed`, `total` (what `TestResult.add_result` recorded), and `exitCode`.
The server's state: `routes` (which of the PUT, CORS, legacy and vectors
routes this server build has; chosen at start), `ctxs`, `content` (the length
of each context's content) and `emb` (the embeddings stored per context).
Every HTTP call gets a status class from `Answers`.
That class is a 2xx with a body, a 2xx with an empty body, a 404 when the
context is unknown, or an error.

| Definition | Code |
|---|---|
| `Record` | `TestResult.add_result`, lines 39-50 |
| `CreateContextReturn`, `GetContextReturn`, `UpdateContextReturn` | what `create_context`, `get_context` and `update_context` return, mock data included (lines 111, 128-130, 152-179) |
| `HealthCheck` | `test_health_check`; on failure `run_all_tests` goes straight to the summary (line 448) |
| `ContextCreation` | `test_context_creation`: two POSTs, the second only if the first succeeded |
| `ContextRetrieval` | `test_context_retrieval` |
| `ContextUpdate` | `test_context_update`: the OPTIONS probe with its skip-as-passed, the PUT, and the legacy retry on 404 |
| `EmbeddingOperations` | `test_embedding_operations`: `get_context`, the vectors probe, one store per content item, then search, get and delete when every store succeeded |
| `Summary`, `Exited` | `summary()` and `sys.exit(0 if success else 1)` |

Properties:

- `NoEmbeddingsLeftOnSuccess`: a run that exits 0 leaves no embeddings on the
  server. A partial store skips the cleanup, so the run must then fail, and
  so must a run whose search, get or delete failed after a complete store.

No property states what a PASS verdict means about the server. The mock
fallbacks of `create_context`, `get_context` and `update_context` (lines
111, 130, 179) and the skip of `test_context_update` (line 337) are the
harness's deliberate behaviour (its comments at lines 129, 178 and 336), and
spec §1 leaves the harness out of the system. For the other verdicts, a
PASS follows from the status of the very call it checks, so such a property
would restate the code.

### Properties of `EdgeMCPClient`

- `TypeOK` — the type invariant.
- `RequestIdsNeverReused` — ids written on the wire strictly increase, across
  reconnects, and never exceed `request_id`.
- `ResponseMatchesRequest` — every message `send_message` returned has the id
  of the request that call wrote.
- `CallsReturn` — every facade call that wrote its request eventually returns
  or raises.
- `HandshakeBeforeUse` (action property) — a request other than the two
  handshake messages is written only when `ready`, and a handshake message only
  when not (spec §4.2: fail fast before Ready, one handshake per session).
- `CorrelatedSpec` (in `EdgeMCPClientRefinement`) — the client implements
  `CorrelatedClient`.

### Properties of `EdgeMCPMain`

- `MainTypeOK` — the type invariant of the composition.
- `MainTerminates` — on a server that answers every request it reads,
  `main()` ends with no socket left open, whatever errors, drops and
  notifications occur. `send_message` has no timeout, so a server that never
  answers (for instance one that takes `initialized` as a notification)
  leaves `main()` waiting at line 96. Spec §4.2 makes `initialized` a
  correlated call that the server confirms, so the model's server answers it.
- `MainHandshakeBeforeUse` — `HandshakeBeforeUse` for `main()`'s calls.
- `ContextReadsOwnWrite` — the document `get_context` returns contains the key
  that `update_context` wrote (spec §4.4, §8).

### Fairness

Weak fairness on `Recv` and `Deliver` of every task (the asyncio loop runs
every ready task) and on the server answering some outstanding request (the
server answers every request it read while the socket is open; this is an
assumption about the server, which is not in `src/`). Starting a call,
connecting, disconnecting, drops and notifications are not fair: the
application and the network may do them or not. In `EdgeMCPMain` the script's
own steps are weakly fair too. `main()` is one coroutine, and
`asyncio.run` drives it until it returns. The server's answers are weakly fair
there as well (`DocServerReply`).

## 3. Runs

| Run | cfg | Instance | Checks | Result |
|---|---|---|---|---|
| `client_single_task` | `EdgeMCPClientSeq.cfg` | 1 task, all six methods, `MaxId`=5, 2 connects | `TypeOK`, `ResponseMatchesRequest`, `RequestIdsNeverReused`, `CallsReturn` | pass, 9 450 states |
| `client_two_tasks` | `EdgeMCPClientConc.cfg` | 2 tasks, `initialize` and `batch_call_tools`, `MaxId`=3, 1 connect, 1 notification | `RequestIdsNeverReused`, `CallsReturn` | pass, ~900 000 states |
| `client_misroute` | `EdgeMCPClientMisroute.cfg` | 2 tasks calling `call_tool` | `ResponseMatchesRequest` | violated |
| `client_notification` | `EdgeMCPClientNotify.cfg` | 1 task, 1 notification | `ResponseMatchesRequest` | violated |
| `client_reconnect` | `EdgeMCPClientReconnect.cfg` | 2 tasks, 2 connects | `CallsReturn` | violated |
| `client_handshake` | `EdgeMCPClientHandshake.cfg` | 1 task calling `initialize` and `list_tools` | `HandshakeBeforeUse` | violated |
| `client_refines_correlated` | `EdgeMCPClientRefinement.cfg` | as `client_single_task` | `CorrelatedSpec` | pass, 10 620 states |
| `main_lifecycle` | `EdgeMCPMain.cfg` | `main()`, `MaxId`=7, 1 connect, 1 notification, drops and errors | `MainTypeOK`, `MainTerminates`, `MainHandshakeBeforeUse` | pass, 10 988 states |
| `main_context` | `EdgeMCPMainContext.cfg` | the same, no notification | `ContextReadsOwnWrite` | pass, 424 states |
| `main_context_notification` | `EdgeMCPMainNotify.cfg` | the same, 1 notification | `ContextReadsOwnWrite` | violated |
| `harness_verdicts` | `AgentSimulation.cfg` | every server build, every answer, 2 server ids | `TypeOK`, `NoEmbeddingsLeftOnSuccess` | pass, 1 376 states |

Why the bounds suffice: every interesting case needs at most two outstanding
requests, one drop and one reconnect. With one task, `MaxId`=5 covers a full
handshake (two ids) followed by calls across a drop and a reconnect. With two
tasks, `MaxId`=3 lets one task run the two-request handshake while the other
has a batch call outstanding, so replies can cross and `KeyError` and
`RuntimeError` both happen. `main()` makes seven requests (the handshake takes
two), so `MaxId`=7 lets it run to the end; a single notification is enough to
shift the replies by one. `initialize` starts only if two ids remain, so the
bound never cuts a handshake in half; `Terminating` is the one state where
nothing can start.

What the runs show:

- With one task and a server that sends only replies, the code is correct:
  each call gets its own reply, and no call hangs across drops and reconnects.
- **Finding 1** (`client_misroute`): with two tasks, one task's
  `call_tool` returns the other's result. The spec (§4.1, §8) requires
  correlation by id; the code has none.
- **Finding 2** (`client_notification`): a server notification is returned as
  the result of the call that is waiting, and that call's real reply is then
  returned to the next call.
- **Finding 3** (`client_reconnect`): a task's request is written on socket
  1; the socket is closed and another task calls `connect()` before the first
  reaches `recv`; the first task then waits on socket 2, takes the second
  task's reply, and the second task waits forever. The spec says a pending
  call fails when the channel closes and a dropped session is terminal.
- **Finding 4** (`client_handshake`): `send_message` checks only that a
  socket exists (line 58). `list_tools` before `initialize` writes its
  request, and so does a second `initialize` on a ready session. Spec §4.2
  says an operation before Ready fails fast.
- **Finding 5** (`main_context_notification`): in `main()`, one notification
  taken as a reply shifts every later reply by one. `get_context` then
  returns `update_context`'s acknowledgement as the document. Spec §4.4/§8
  promise read-your-writes. Without notifications (`main_context`) the
  property holds.
- With one task, the client refines `CorrelatedClient`
  (`client_refines_correlated`), liveness included. `main()` always reaches
  its `finally` clause and closes the socket, and it never uses the session
  before the handshake (`main_lifecycle`).
- With two tasks, ids still never repeat, and no call hangs so long as
  nobody reconnects: every reply goes to *some* waiting call (a misrouted one).

Every property of a passing run has a mutant of the code that breaks it
(`PROJECT.json`, "mutants"): `_next_id` decrementing or not incrementing,
`connect()` resetting the counter, `initialized` written without awaiting its
reply (the next call then gets the stale reply), and `initialized` sent as a
notification while `send_message` still awaits a reply (the handshake hangs).
For `main()`: a script that skips `initialize`, one that calls `get_context`
before `update_context`, and a `main()` whose exception path skips the
`finally` clause.

## 4. Proofs

`EdgeMCPClientProofs.tla`, checked by `tlapm`, for every value of the
constants satisfying `ClientAssumption`:

- `TypeCorrect`: `Spec => []TypeOK`. Lemmas: `FinishType`,
  `SendMessageType`, `CompleteType`, `ConsumeType`, and `TypeNext` (one step
  per action).
- `IdsNeverReused`: `Spec => []RequestIdsNeverReused`. The inductive
  invariant is `TypeOK /\ RequestIdsNeverReused`: `request_id` is a natural
  number, every id written is at most `request_id`, and the ids written
  increase. `IdsStep` shows that a step either leaves `request_id` and `sent`
  alone or is one `send_message`; `SendMessageIds` shows that `send_message`
  appends `request_id + 1`, above every earlier id. It holds for any number
  of tasks and reconnects because no await separates `_next_id` from the write.

- `SingleTaskResponsesMatch`: with one task (`Callers = {c}`) and no
  notifications (`MaxNotify = 0`), `Spec => []ResponseMatchesRequest`, for
  every bound on ids and reconnects. `ResponseMatchesRequest` is not
  inductive: a step that takes a message from the queue needs to know that
  the message carries the task's current id. The strengthening `SingleInv(c)`
  says:
  - with no socket, nothing is in flight; on a closed socket the server holds
    no request;
  - an idle task has nothing outstanding;
  - a busy task has at most one request at the server, or one reply in the
    queue, but never both, and it carries `cur[c]`;
  - only `c` can be the waiter, and only while it waits.

  `SingleConsume` covers taking the reply; `SingleStep` has one step per
  action.

`EdgeMCPClientRefinementProofs.tla`:

- `SingleTaskRefinesCorrelated`: under the same hypotheses,
  `Spec => Correlated!Init /\ [][Correlated!Next]_Correlated!avars`. This is
  the safety part of `CorrelatedSpec`. `RefineStep` maps each client step to
  a `CorrelatedClient` step or a stutter:
  - a write or a failed call maps to `Call`;
  - taking the reply (`RefineConsume`, which rests on `SingleInv`) maps to
    `Answer`;
  - `ConnectionClosed`, `RemoteError` and `KeyError` map to `Abandon`;
  - everything else is a stutter.

  The fairness part of `CorrelatedSpec` is checked by TLC only.

`AgentSimulationProofs.tla`, for every value of the constants satisfying
`HarnessAssumption` (the server ids are finite and at least two, and none of
them is the default, the mock or the "no context" id):

- `HarnessTypeCorrect`: `HarnessSpec => []TypeOK`.
- `CleanOnSuccess`: `HarnessSpec => []NoEmbeddingsLeftOnSuccess`.

`NoEmbeddingsLeftOnSuccess` is not inductive: it says nothing before the
exit. The strengthening `IInv` ties `emb` to the phase, to the failure count
and to the exit code: a context holds embeddings
only while a store succeeded and `"Delete"` has not passed, and such a run
has a failing verdict, so `success` is false and `Exited` exits 1. Each
scenario action gets its own lemma. `Record(ran, ok)` is stated over sets
(the tests that ran and those that passed) so that the provers can use it.

`EdgeMCPMainProofs.tla`, `main()` composed with the client, for every value
of the constants satisfying `ClientAssumption` and `MainAssumption` unless
stated:

- `MainTypeCorrect`: `MainSpec => []MainTypeOK`. `MainTypeOK` says that
  `got` holds keys of a snapshot, and a `context.get` reply's snapshot must
  exist. So the inductive invariant `MInvType` adds `IdBound`: every id at
  the server or in the queue is at most `request_id`, and `request_id`
  stays within `MaxId`. An `initialize` in flight leaves room for one more
  id, because `initialize()` sends `initialized` too.
- `MainContextReadsOwnWrite`: with `Callers = {Main}` and `MaxNotify = 0`
  (the instance of run `main_context`), `MainSpec => []ContextReadsOwnWrite`.
  The inductive invariant `MInv` is `MInvType`, `SingleInv(Main)` from the
  client proofs, `ScriptInv` (the call in flight is the one `step` names,
  and the reply at the head of the queue answers it) and `ContextInv` (once
  the update was sent, the document and every later snapshot hold
  `"update"`). With a notification the property is violated (run
  `main_context_notification`, Finding 5), so the hypothesis is the
  instance where it holds, not a convenience.
- `MainHandshakeFollowed`: `MainSpec => MainHandshakeBeforeUse`, the action
  property, with notifications and any number of tasks. `HsInv` says that
  `main()` calls `initialize` first and that `ready` is set once its reply
  is taken, so every request the server receives after `initialize` and
  `initialized` finds `ready` set. The step proof shows `[][HandshakeStep]_vars`
  by PTL, and `HandshakeStepDef` rewrites it to the property.

Only model-checked:
- `CallsReturn`, `MainTerminates` and the fairness part of `CorrelatedSpec`:
  liveness under fairness, and `ENABLED`, are beyond TLAPS.
- The properties that runs find violated: `ResponseMatchesRequest` with
  notifications or more tasks, `HandshakeBeforeUse` for a client used
  without `initialize()`, and `ContextReadsOwnWrite` with notifications.
  There is nothing to prove; the runs give the counterexamples.
- `CorrelatedSpec`'s liveness for the refinement, and `MainTerminates`, as
  above; every safety property a passing run checks now has a theorem.

## 5. Not modelled, and why

- `connect()` over a socket that is still open (two live sockets at once).
- Parameters, tool results, logging, JSON formatting: no effect on control.
- `update_context(merge=False)`, the replace semantics. Nothing in the
  repository calls it; `main()` merges.
- `main()` together with a second task: the script has one task.
- In the harness: the bodies of the embedding calls and the ids in search
  results, which no verdict depends on, and the creation reply without an
  `"id"` (line 283), which gives `"test-id-1"` and is not modelled.

## 6. Plan

1. (done) `EdgeMCPClient`: correlator, lifecycle, facade, library, server;
   runs above; `TypeCorrect`, `IdsNeverReused`.
2. (done) `AgentSimulation.tla`: the REST harness — `MCPClient`'s calls with the
   fallback-to-mock (`get_context` line 130, `update_context` line 179) and
   the legacy retry (line 153), the scenarios of `run_all_tests`, and a server
   whose answers are chosen per call. Property: embeddings stored by a
   passing run are deleted by it. What a PASS says about the server is left
   unstated: the mocks are deliberate (see the harness properties above).
Items 3 to 6 were done in the second sitting. Item 4 covers the merge case
with `main()`'s single task; two tasks are covered by Finding 1.

3. Lifecycle properties in `EdgeMCPClient`: `HandshakeBeforeUse` (spec §4.2),
   one handshake per session, no I/O after close.
4. Context document on the server (merge versus replace) and the property
   `update_context` then `get_context` reads the update, with one task (holds)
   and with two (reply misrouting lets `update_context` return before the
   server applied it).
5. A correlating client as the abstract specification (`CorrelatedClient`:
   a call returns the reply with its id), and `EdgeMCPClient` with one task
   shown to refine it via `INSTANCE ... WITH`.
6. Proofs: `ResponseMatchesRequest` for one task with no notifications
   (inductive invariant: with one task there is at most one request or reply
   in flight and it carries `cur`); the refinement step of plan item 5.
7. (done, third sitting) Proofs of the harness invariants
   (`AgentSimulationProofs`), of `MainTypeOK`, of `ContextReadsOwnWrite` for
   `main()` with one task and no notifications, and of the action property
   `MainHandshakeBeforeUse` (`EdgeMCPMainProofs`).
8. Open: a run, and then a proof, of read-your-writes for `main()` beside a
   second task.
