--------------------------- MODULE AgentSimulation ---------------------------
(***************************************************************************)
(* The REST test harness src/test/ai_agent_simulation.py: run_all_tests    *)
(* runs the test_* scenarios in order through MCPClient and records a      *)
(* verdict per test in TestResult. The program is sequential, so each      *)
(* scenario function is one action, the HTTP calls it makes included.      *)
(*                                                                         *)
(* The server (not under src/, the Context Store of spec section 1) is     *)
(* modelled by what each call may answer: a status class ("ok_json": 2xx   *)
(* with a body, "ok_empty": 2xx with an empty body, "notfound": 404,       *)
(* "error": anything else) and the state it keeps: the contexts it         *)
(* created, the length of each one's content, and the embeddings stored   *)
(* for each. Which routes this server build has is fixed at start.         *)
(* A context document is abstracted to its id and content length.          *)
(***************************************************************************)
EXTENDS Integers, FiniteSets, TLC

CONSTANTS
    ServerIds,  \* ids the server may assign to created contexts
    DefaultId,  \* "test-id-1", the id test_context_creation falls back to
    MockId,     \* "test-id", the id of create_context's mock reply
    NoContext   \* None

ASSUME HarnessAssumption ==
    /\ IsFiniteSet(ServerIds)
    /\ Cardinality(ServerIds) >= 2
    /\ {DefaultId, MockId, NoContext} \cap ServerIds = {}
    /\ DefaultId # MockId
    /\ NoContext \notin {DefaultId, MockId}

InitialLen == 3   \* initial_content, lines 294-298
NewLen == 5       \* new_content, lines 359-365

Tests == {"Health", "Creation", "CreationWithContent", "Retrieval", "Update",
          "StoreEmbeddings", "Search", "GetEmbeddings", "Delete"}
Status == {"ok_json", "ok_empty", "notfound", "error"}
Ok == {"ok_json", "ok_empty"}
Routes == {"put", "cors", "legacy", "vectors"}
Phases == {"health", "creation", "retrieval", "update", "embedding",
           "summary", "exited"}

VARIABLES
    phase,     \* the scenario run_all_tests runs next
    ctxId,     \* context_id returned by test_context_creation
    verdict,   \* per test: "none", "pass", "fail" as add_result recorded it
    passed,    \* TestResult.passed
    failed,    \* TestResult.failed
    total,     \* TestResult.total
    exitCode,  \* sys.exit code, -1 while running
    routes,    \* the server build: its "put", "cors", "legacy", "vectors" routes
    ctxs,      \* contexts the server holds
    content,   \* content length of each context the server holds
    emb        \* embeddings the server holds per context

vars == <<phase, ctxId, verdict, passed, failed, total, exitCode, routes,
          ctxs, content, emb>>

TypeOK ==
    /\ phase \in Phases
    /\ ctxId \in ServerIds \cup {DefaultId, MockId, NoContext}
    /\ verdict \in [Tests -> {"none", "pass", "fail"}]
    /\ passed \in Nat /\ failed \in Nat /\ total \in Nat
    /\ exitCode \in {-1, 0, 1}
    /\ routes \subseteq Routes
    /\ ctxs \subseteq ServerIds
    /\ content \in [ServerIds -> Nat]
    /\ emb \in [ServerIds -> Nat]

Init ==
    /\ phase = "health"
    /\ ctxId = NoContext
    /\ verdict = [t \in Tests |-> "none"]
    /\ passed = 0 /\ failed = 0 /\ total = 0
    /\ exitCode = -1
    /\ routes \in SUBSET Routes
    /\ ctxs = {}
    /\ content = [s \in ServerIds |-> 0]
    /\ emb = [s \in ServerIds |-> 0]

(* Mutant of add_result: a failure is not counted. *)
RecordNoFail(ran, ok) ==
    /\ verdict' = [t \in Tests |-> IF t \in ok THEN "pass"
                                     ELSE IF t \in ran THEN "fail"
                                     ELSE verdict[t]]
    /\ passed' = passed + Cardinality(ok)
    /\ failed' = failed
    /\ total' = total + Cardinality(ran)

(* add_result for each test in ran; those in ok (a subset) succeeded. *)
Record(ran, ok) ==
    /\ verdict' = [t \in Tests |-> IF t \in ok THEN "pass"
                                     ELSE IF t \in ran THEN "fail"
                                     ELSE verdict[t]]
    /\ passed' = passed + Cardinality(ok)
    /\ failed' = failed + Cardinality(ran \ ok)
    /\ total' = total + Cardinality(ran)

(* What the server may answer a call on context x: 404 if it has no such  *)
(* context, else a success or a failure.                                  *)
Answers(x) == IF x \in ctxs THEN Ok \cup {"error"} ELSE {"notfound"}

(* create_context's return: the server's reply, the mock when the body is *)
(* empty, None when the status is not 200/201.                            *)
CreateContextReturn(st, sid) ==
    CASE st = "ok_json" -> sid
      [] st = "ok_empty" -> MockId
      [] OTHER -> NoContext

(* get_context's return: the context, or mock data with the requested id   *)
(* and no content on an empty body or on any failure.                      *)
GetContextReturn(x, st) ==
    [id |-> x, content |-> IF st = "ok_json" THEN content[x] ELSE 0]

(* update_context's return after the PUT (st) and, on 404, the legacy PUT  *)
(* (lst): the server's reply when one succeeded, the mock otherwise; both  *)
(* carry the content that was sent.                                        *)
UpdateContextReturn(x, st, lst) == [id |-> x, content |-> NewLen]

(* test_health_check: GET /health; on failure run_all_tests goes straight *)
(* to the summary.                                                         *)
HealthCheck ==
    /\ phase = "health"
    /\ \E healthy \in BOOLEAN :
          /\ Record({"Health"}, {t \in {"Health"} : healthy})
          /\ phase' = IF healthy THEN "creation" ELSE "summary"
    /\ UNCHANGED <<ctxId, exitCode, routes, ctxs, content, emb>>

(* test_context_creation: an empty context, then one with initial_content *)
(* (only if the first succeeded); context_id is the first reply's id, or   *)
(* the mock's.                                                             *)
ContextCreation ==
    /\ phase = "creation"
    /\ \E st1, st2 \in Ok \cup {"error"}, s1, s2 \in ServerIds \ ctxs :
          LET made1 == st1 \in Ok
              made2 == made1 /\ st2 \in Ok
              id1 == CreateContextReturn(st1, s1)
          IN /\ s1 # s2
             /\ ctxs' = ctxs \cup (IF made1 THEN {s1} ELSE {})
                             \cup (IF made2 THEN {s2} ELSE {})
             /\ content' = IF made2 THEN [content EXCEPT ![s2] = InitialLen]
                                    ELSE content
             /\ ctxId' = id1
             /\ IF id1 = NoContext
                  THEN /\ Record({"Creation"}, {})
                       /\ phase' = "summary"
                  ELSE /\ Record({"Creation", "CreationWithContent"},
                                 {"Creation"} \cup {t \in {"CreationWithContent"} :
                                                      CreateContextReturn(st2, s2) # NoContext})
                       /\ phase' = "retrieval"
    /\ UNCHANGED <<exitCode, routes, emb>>

(* test_context_retrieval: passes when the returned context has the id.   *)
ContextRetrieval ==
    /\ phase = "retrieval"
    /\ \E st \in Answers(ctxId) :
          Record({"Retrieval"}, {t \in {"Retrieval"} : GetContextReturn(ctxId, st).id = ctxId})
    /\ phase' = "update"
    /\ UNCHANGED <<ctxId, exitCode, routes, ctxs, content, emb>>

(* test_context_update: the OPTIONS probe (404 unless the PUT route or a   *)
(* CORS handler answers it) skips the test as passed; otherwise            *)
(* update_context PUTs, retries a 404 on the legacy route, and the test    *)
(* passes when the returned content has new_content's length.              *)
ContextUpdate ==
    /\ phase = "update"
    /\ IF routes \cap {"put", "cors"} = {}
         THEN /\ Record({"Update"}, {"Update"})
              /\ UNCHANGED content
         ELSE \E st \in IF "put" \in routes THEN Answers(ctxId) ELSE {"notfound"},
                 lst \in IF "legacy" \in routes THEN Answers(ctxId) ELSE {"notfound"} :
                LET applied == st \in Ok \/ (st = "notfound" /\ lst \in Ok)
                IN /\ Record({"Update"}, {t \in {"Update"} :
                                        UpdateContextReturn(ctxId, st, lst).content = NewLen})
                   /\ content' = IF applied THEN [content EXCEPT ![ctxId] = NewLen]
                                            ELSE content
    /\ phase' = "embedding"
    /\ UNCHANGED <<ctxId, exitCode, routes, ctxs, emb>>

(* The calls made after a complete store: search, get, delete. *)
Cleanup == {"Search", "GetEmbeddings", "Delete"}

(* Line 411: every content item got its embedding stored. *)
StoreSucceeded(k, items) == k = items

(* test_embedding_operations: get_context again, the vectors probe (404:   *)
(* skipped as passed), one store_embedding per content item (k of them    *)
(* succeed), then, only if all did and there were some, search, get and    *)
(* delete, each recorded.                                                  *)
EmbeddingOperations ==
    /\ phase = "embedding"
    /\ \E gst \in Answers(ctxId) :
          LET items == GetContextReturn(ctxId, gst).content
          IN IF "vectors" \notin routes
               THEN /\ Record({"StoreEmbeddings"}, {"StoreEmbeddings"})
                    /\ UNCHANGED emb
               ELSE \E k \in 0..items :
                      LET stored == IF ctxId \in ctxs
                                      THEN [emb EXCEPT ![ctxId] = @ + k] ELSE emb
                          storeOk == StoreSucceeded(k, items)
                      IN IF storeOk /\ items > 0
                           THEN \E okd \in SUBSET Cleanup :
                                  /\ Record({"StoreEmbeddings"} \cup Cleanup,
                                            {"StoreEmbeddings"} \cup okd)
                                  /\ emb' = IF "Delete" \in okd
                                              THEN [stored EXCEPT ![ctxId] = 0]
                                              ELSE stored
                           ELSE /\ Record({"StoreEmbeddings"}, {t \in {"StoreEmbeddings"} : storeOk})
                                /\ emb' = stored
    /\ phase' = "summary"
    /\ UNCHANGED <<ctxId, exitCode, routes, ctxs, content>>

(* Mutant of the exit: sys.exit(results.failed). *)
SummaryExitFailed ==
    /\ phase = "summary"
    /\ exitCode' = failed
    /\ phase' = "exited"
    /\ UNCHANGED <<ctxId, verdict, passed, failed, total, routes, ctxs,
                   content, emb>>

(* results.summary() and sys.exit: 0 exactly when no test failed. *)
Summary ==
    /\ phase = "summary"
    /\ exitCode' = IF failed = 0 THEN 0 ELSE 1
    /\ phase' = "exited"
    /\ UNCHANGED <<ctxId, verdict, passed, failed, total, routes, ctxs,
                   content, emb>>

(* The process has exited. *)
Exited == phase = "exited" /\ UNCHANGED vars

Next ==
    \/ HealthCheck
    \/ ContextCreation
    \/ ContextRetrieval
    \/ ContextUpdate
    \/ EmbeddingOperations
    \/ Summary
    \/ Exited

Spec == Init /\ [][Next]_vars

-----------------------------------------------------------------------------
(* A run that exits 0 leaves no embeddings behind on the server: the       *)
(* cleanup in test_embedding_operations runs whenever something was stored *)
(* and its failure, or a partial store, fails the run.                     *)
NoEmbeddingsLeftOnSuccess ==
    (phase = "exited" /\ exitCode = 0) => \A s \in ServerIds : emb[s] = 0
=============================================================================
