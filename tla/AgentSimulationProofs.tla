------------------------ MODULE AgentSimulationProofs ------------------------
(***************************************************************************)
(* Proofs about the REST test harness (AgentSimulation), for every set of  *)
(* server ids satisfying HarnessAssumption: the run's type invariant, and  *)
(* that a run exiting 0 leaves no embeddings on the server.                *)
(***************************************************************************)
EXTENDS AgentSimulation, FiniteSetTheorems, TLAPS

USE HarnessAssumption

(* No embedding is stored on the server. *)
EmbClean == \A s \in ServerIds : emb[s] = 0

(***************************************************************************)
(* The inductive invariant. NoEmbeddingsLeftOnSuccess is not inductive: it *)
(* says nothing before the exit. Until the embedding scenario has run the  *)
(* server holds no embeddings; after it, a run that has recorded no        *)
(* failure holds none either, and the exit code is 0 exactly when nothing  *)
(* failed.                                                                  *)
(***************************************************************************)
IInv ==
    /\ TypeOK
    /\ phase \in {"health", "creation", "retrieval", "update", "embedding"} => EmbClean
    /\ phase \in {"summary", "exited"} /\ failed = 0 => EmbClean
    /\ phase = "exited" => exitCode = IF failed = 0 THEN 0 ELSE 1

(* The nine test names form a finite set. *)
LEMMA TestsFinite == IsFiniteSet(Tests)
<1>1. IsFiniteSet({"Health"})
  BY FS_Singleton
<1>2. IsFiniteSet({"Health"} \cup {"Creation"})
  BY <1>1, FS_AddElement
<1>3. IsFiniteSet({"Health", "Creation"} \cup {"CreationWithContent"})
  BY <1>2, FS_AddElement
<1>4. IsFiniteSet({"Health", "Creation", "CreationWithContent"} \cup {"Retrieval"})
  BY <1>3, FS_AddElement
<1>5. IsFiniteSet({"Health", "Creation", "CreationWithContent", "Retrieval"}
                  \cup {"Update"})
  BY <1>4, FS_AddElement
<1>6. IsFiniteSet({"Health", "Creation", "CreationWithContent", "Retrieval",
                   "Update"} \cup {"StoreEmbeddings"})
  BY <1>5, FS_AddElement
<1>7. IsFiniteSet({"Health", "Creation", "CreationWithContent", "Retrieval",
                   "Update", "StoreEmbeddings"} \cup {"Search"})
  BY <1>6, FS_AddElement
<1>8. IsFiniteSet({"Health", "Creation", "CreationWithContent", "Retrieval",
                   "Update", "StoreEmbeddings", "Search"} \cup {"GetEmbeddings"})
  BY <1>7, FS_AddElement
<1>9. IsFiniteSet({"Health", "Creation", "CreationWithContent", "Retrieval",
                   "Update", "StoreEmbeddings", "Search", "GetEmbeddings"}
                  \cup {"Delete"})
  BY <1>8, FS_AddElement
<1>. QED
  BY <1>9 DEF Tests

(***************************************************************************)
(* What add_result does to the counters when it records the tests in ran,  *)
(* those in ok having passed: they stay natural numbers, and the failure   *)
(* count grows exactly when some test of ran did not pass.                 *)
(***************************************************************************)
LEMMA RecordCounts ==
  ASSUME NEW ran \in SUBSET Tests, NEW ok \in SUBSET ran,
         passed \in Nat, failed \in Nat, total \in Nat,
         Record(ran, ok)
  PROVE  /\ passed' \in Nat /\ failed' \in Nat /\ total' \in Nat
         /\ failed' >= failed
         /\ ran \ ok # {} => failed' > failed
         /\ ran \ ok = {} => failed' = failed
<1>1. /\ IsFiniteSet(ran) /\ IsFiniteSet(ok) /\ IsFiniteSet(ran \ ok)
  BY TestsFinite, FS_Subset
<1>2. /\ Cardinality(ran) \in Nat /\ Cardinality(ok) \in Nat
      /\ Cardinality(ran \ ok) \in Nat
  BY <1>1, FS_CardinalityType
<1>3. ran \ ok # {} => Cardinality(ran \ ok) > 0
  BY <1>1, <1>2, FS_EmptySet
<1>4. ran \ ok = {} => Cardinality(ran \ ok) = 0
  BY FS_EmptySet
<1>. QED
  BY <1>2, <1>3, <1>4 DEF Record

(* The verdicts add_result leaves: "pass" for ok, "fail" for the rest of   *)
(* ran, the earlier verdict for every other test.                         *)
LEMMA RecordVerdicts ==
  ASSUME NEW ran, NEW ok, Record(ran, ok)
  PROVE  verdict' = [t \in Tests |-> IF t \in ok THEN "pass"
                                     ELSE IF t \in ran THEN "fail"
                                     ELSE verdict[t]]
BY DEF Record

(* The initial state satisfies the inductive invariant. *)
LEMMA InitIInv == Init => IInv
BY DEF Init, IInv, TypeOK, EmbClean, Phases, Tests

(* test_health_check preserves the inductive invariant. *)
LEMMA HealthCheckIInv ==
  ASSUME IInv, HealthCheck
  PROVE  IInv'
<1>1. PICK healthy \in BOOLEAN :
        /\ Record({"Health"}, {t \in {"Health"} : healthy})
        /\ phase' = IF healthy THEN "creation" ELSE "summary"
  BY DEF HealthCheck
<1>2. /\ passed' \in Nat /\ failed' \in Nat /\ total' \in Nat
  BY <1>1, RecordCounts DEF IInv, TypeOK, Tests
<1>3. verdict' = [t \in Tests |-> IF t = "Health" THEN IF healthy THEN "pass" ELSE "fail"
                                  ELSE verdict[t]]
  <2>1. verdict' = [t \in Tests |-> IF t \in {t2 \in {"Health"} : healthy} THEN "pass"
                                     ELSE IF t \in {"Health"} THEN "fail"
                                     ELSE verdict[t]]
    BY <1>1, RecordVerdicts
  <2>. QED
    BY <2>1
<1>4. /\ phase = "health"
      /\ UNCHANGED <<ctxId, exitCode, routes, ctxs, content, emb>>
  BY DEF HealthCheck
<1>5. TypeOK'
  BY <1>1, <1>2, <1>3, <1>4 DEF IInv, TypeOK, Phases, Tests
<1>8. /\ (phase' \in {"health", "creation", "retrieval", "update", "embedding"} => EmbClean')
      /\ (phase' \in {"summary", "exited"} /\ failed' = 0 => EmbClean')
      /\ (phase' = "exited" => exitCode' = IF failed' = 0 THEN 0 ELSE 1)
  BY <1>1, <1>4 DEF IInv, EmbClean
<1>. QED
  BY <1>5, <1>8 DEF IInv

(* create_context returns an id (the server's or the mock's) exactly when  *)
(* the POST succeeded, and None otherwise.                                 *)
LEMMA CreateReturn ==
  ASSUME NEW st \in Ok \cup {"error"}, NEW sid \in ServerIds
  PROVE  /\ CreateContextReturn(st, sid) # NoContext <=> st \in Ok
         /\ CreateContextReturn(st, sid) \in ServerIds \cup {MockId, NoContext}
BY DEF CreateContextReturn, Ok

(* test_context_creation preserves the inductive invariant. *)
LEMMA ContextCreationIInv ==
  ASSUME IInv, ContextCreation
  PROVE  IInv'
<1>1. PICK st1, st2 \in Ok \cup {"error"}, s1, s2 \in ServerIds \ ctxs :
        /\ s1 # s2
        /\ ctxs' = ctxs \cup (IF st1 \in Ok THEN {s1} ELSE {})
                        \cup (IF st1 \in Ok /\ st2 \in Ok THEN {s2} ELSE {})
        /\ content' = IF st1 \in Ok /\ st2 \in Ok
                        THEN [content EXCEPT ![s2] = InitialLen] ELSE content
        /\ ctxId' = CreateContextReturn(st1, s1)
        /\ IF CreateContextReturn(st1, s1) = NoContext
             THEN /\ Record({"Creation"}, {})
                  /\ phase' = "summary"
             ELSE /\ Record({"Creation", "CreationWithContent"},
                            {"Creation"} \cup {t \in {"CreationWithContent"} :
                                                 CreateContextReturn(st2, s2) # NoContext})
                  /\ phase' = "retrieval"
  BY DEF ContextCreation
<1>2. /\ phase = "creation"
      /\ UNCHANGED <<exitCode, routes, emb>>
  BY DEF ContextCreation
<1>3. /\ CreateContextReturn(st1, s1) # NoContext <=> st1 \in Ok
      /\ CreateContextReturn(st2, s2) # NoContext <=> st2 \in Ok
      /\ CreateContextReturn(st1, s1) \in ServerIds \cup {MockId, NoContext}
  BY CreateReturn
<1>4. /\ ctxs' \subseteq ServerIds
      /\ content' \in [ServerIds -> Nat]
  BY <1>1 DEF IInv, TypeOK, InitialLen
<1>5. CASE st1 \notin Ok
  <2>1. /\ Record({"Creation"}, {})
        /\ phase' = "summary"
    BY <1>1, <1>3, <1>5
  <2>2. /\ passed' \in Nat /\ failed' \in Nat /\ total' \in Nat
        /\ failed' > failed
    BY <2>1, RecordCounts DEF IInv, TypeOK, Tests
  <2>3. verdict' = [t \in Tests |-> IF t \in {} THEN "pass"
                                    ELSE IF t \in {"Creation"} THEN "fail"
                                    ELSE verdict[t]]
    BY <2>1, RecordVerdicts
  <2>4. TypeOK'
    <3>2. verdict' \in [Tests -> {"none", "pass", "fail"}]
      BY <2>3 DEF IInv, TypeOK
    <3>. QED
      BY <1>1, <1>2, <1>3, <1>4, <2>1, <2>2, <3>2 DEF IInv, TypeOK, Phases
  <2>. QED
    BY <1>2, <2>1, <2>2, <2>4 DEF IInv, TypeOK, EmbClean
<1>6. CASE st1 \in Ok
  <2> DEFINE ok == {"Creation"} \cup {t \in {"CreationWithContent"} :
                                        CreateContextReturn(st2, s2) # NoContext}
  <2>1. /\ Record({"Creation", "CreationWithContent"}, ok)
        /\ phase' = "retrieval"
    BY <1>1, <1>3, <1>6
  <2>2. /\ passed' \in Nat /\ failed' \in Nat /\ total' \in Nat
    BY <2>1, RecordCounts DEF IInv, TypeOK, Tests
  <2>3. verdict' = [t \in Tests |-> IF t \in ok THEN "pass"
                                    ELSE IF t \in {"Creation", "CreationWithContent"}
                                         THEN "fail"
                                    ELSE verdict[t]]
    BY <2>1, RecordVerdicts
  <2>4. TypeOK'
    BY <1>1, <1>2, <1>3, <1>4, <2>1, <2>2, <2>3 DEF IInv, TypeOK, Phases, Tests
  <2>. QED
    BY <1>2, <2>1, <2>4 DEF IInv, TypeOK, EmbClean
<1>. QED
  BY <1>5, <1>6

(* test_context_retrieval preserves the inductive invariant: it records    *)
(* only Retrieval and changes no server state.                             *)
LEMMA ContextRetrievalIInv ==
  ASSUME IInv, ContextRetrieval
  PROVE  IInv'
<1>1. PICK st \in Answers(ctxId) :
        /\ Record({"Retrieval"}, {t \in {"Retrieval"} :
                                    GetContextReturn(ctxId, st).id = ctxId})
  BY DEF ContextRetrieval
<1>2. /\ phase = "retrieval" /\ phase' = "update"
      /\ UNCHANGED <<ctxId, exitCode, routes, ctxs, content, emb>>
  BY DEF ContextRetrieval
<1>3. /\ passed' \in Nat /\ failed' \in Nat /\ total' \in Nat
  BY <1>1, RecordCounts DEF IInv, TypeOK, Tests
<1>4. verdict' = [t \in Tests |-> IF t = "Retrieval"
                                    THEN IF GetContextReturn(ctxId, st).id = ctxId
                                           THEN "pass" ELSE "fail"
                                    ELSE verdict[t]]
  BY <1>1, RecordVerdicts
<1>6. TypeOK'
  BY <1>2, <1>3, <1>4 DEF IInv, TypeOK, Phases
<1>. QED
  BY <1>2, <1>6 DEF IInv, EmbClean

(* test_context_update preserves the inductive invariant: whether it skips *)
(* on the OPTIONS probe or PUTs, it records only Update and changes only   *)
(* the content of the context.                                             *)
LEMMA ContextUpdateIInv ==
  ASSUME IInv, ContextUpdate
  PROVE  IInv'
<1>1. /\ phase = "update" /\ phase' = "embedding"
      /\ UNCHANGED <<ctxId, exitCode, routes, ctxs, emb>>
  BY DEF ContextUpdate
<1>2. PICK ok \in SUBSET {"Update"} :
        /\ Record({"Update"}, ok)
        /\ \/ UNCHANGED content
           \/ \E applied \in BOOLEAN :
                content' = IF applied THEN [content EXCEPT ![ctxId] = NewLen]
                                      ELSE content
  BY DEF ContextUpdate
<1>3. /\ passed' \in Nat /\ failed' \in Nat /\ total' \in Nat
  BY <1>2, RecordCounts DEF IInv, TypeOK, Tests
<1>4. verdict' = [t \in Tests |-> IF t \in ok THEN "pass"
                                    ELSE IF t \in {"Update"} THEN "fail"
                                    ELSE verdict[t]]
  BY <1>2, RecordVerdicts
<1>5. content' \in [ServerIds -> Nat]
  BY <1>2 DEF IInv, TypeOK, NewLen
<1>6. TypeOK'
  BY <1>1, <1>3, <1>4, <1>5 DEF IInv, TypeOK, Phases
<1>. QED
  BY <1>1, <1>6 DEF IInv, EmbClean

(* The end of test_embedding_operations: the scenario leaves every other  *)
(* part of the state alone and moves to the summary, so the inductive      *)
(* invariant follows from the facts about counters, embeddings and        *)
(* verdicts that each of its branches establishes.                         *)
LEMMA EmbeddingClose ==
  ASSUME IInv, phase = "embedding", phase' = "summary",
         UNCHANGED <<ctxId, exitCode, routes, ctxs, content>>,
         passed' \in Nat, failed' \in Nat, total' \in Nat,
         emb' \in [ServerIds -> Nat],
         verdict' \in [Tests -> {"none", "pass", "fail"}],
         failed' = 0 => EmbClean'
  PROVE  IInv'
<1>1. TypeOK'
  BY DEF IInv, TypeOK, Phases
<1>2. /\ (phase' \in {"health", "creation", "retrieval", "update", "embedding"} => EmbClean')
      /\ (phase' \in {"summary", "exited"} /\ failed' = 0 => EmbClean')
      /\ (phase' = "exited" => exitCode' = IF failed' = 0 THEN 0 ELSE 1)
  OBVIOUS
<1>. QED
  BY <1>1, <1>2 DEF IInv

(* test_embedding_operations preserves the inductive invariant. It is the *)
(* one step that changes the server's embeddings: a complete store of a    *)
(* non-empty content runs the cleanup, and when the delete did not succeed *)
(* the Delete verdict is a failure; a partial store is a failure itself;   *)
(* an empty content stores nothing.                                        *)
LEMMA EmbeddingOperationsIInv ==
  ASSUME IInv, EmbeddingOperations
  PROVE  IInv'
<1>1. /\ phase = "embedding" /\ phase' = "summary"
      /\ UNCHANGED <<ctxId, exitCode, routes, ctxs, content>>
  BY DEF EmbeddingOperations
<1>2. EmbClean /\ TypeOK
  BY <1>1 DEF IInv
<1>3. PICK gst \in Answers(ctxId) :
        LET items == GetContextReturn(ctxId, gst).content
        IN IF "vectors" \notin routes
             THEN /\ Record({"StoreEmbeddings"}, {"StoreEmbeddings"})
                  /\ UNCHANGED emb
             ELSE \E k \in 0..items :
                    LET stored == IF ctxId \in ctxs
                                    THEN [emb EXCEPT ![ctxId] = @ + k] ELSE emb
                        storeOk == StoreSucceeded(k, items)
                    IN IF storeOk /\ items > 0
                         THEN \E okd \in SUBSET Cleanup :
                                /\ Record({"StoreEmbeddings"} \cup Cleanup,
                                          {"StoreEmbeddings"} \cup okd)
                                /\ emb' = IF "Delete" \in okd
                                            THEN [stored EXCEPT ![ctxId] = 0]
                                            ELSE stored
                         ELSE /\ Record({"StoreEmbeddings"},
                                        {t \in {"StoreEmbeddings"} : storeOk})
                              /\ emb' = stored
  BY DEF EmbeddingOperations
<1> DEFINE items == GetContextReturn(ctxId, gst).content
<1>4. items \in Nat
  BY <1>2 DEF TypeOK, GetContextReturn, Answers, Ok
<1>6. CASE "vectors" \notin routes
  <2>1. /\ Record({"StoreEmbeddings"}, {"StoreEmbeddings"})
        /\ UNCHANGED emb
    BY <1>3, <1>6
  <2>2. /\ passed' \in Nat /\ failed' \in Nat /\ total' \in Nat
    BY <2>1, <1>2, RecordCounts DEF TypeOK, Tests
  <2>3. verdict' = [t \in Tests |-> IF t \in {"StoreEmbeddings"} THEN "pass"
                                    ELSE IF t \in {"StoreEmbeddings"} THEN "fail"
                                    ELSE verdict[t]]
    BY <2>1, RecordVerdicts
  <2>4. verdict' \in [Tests -> {"none", "pass", "fail"}]
    BY <1>2, <2>3 DEF TypeOK
  <2>6. EmbClean'
    BY <1>2, <2>1 DEF EmbClean
  <2>. QED
    BY <1>2, EmbeddingClose, <1>1, <2>1, <2>2, <2>4, <2>6 DEF TypeOK
<1>7. CASE "vectors" \in routes
  <2>1. PICK k \in 0..items :
          LET stored == IF ctxId \in ctxs
                          THEN [emb EXCEPT ![ctxId] = @ + k] ELSE emb
              storeOk == StoreSucceeded(k, items)
          IN IF storeOk /\ items > 0
               THEN \E okd \in SUBSET Cleanup :
                      /\ Record({"StoreEmbeddings"} \cup Cleanup,
                                {"StoreEmbeddings"} \cup okd)
                      /\ emb' = IF "Delete" \in okd
                                  THEN [stored EXCEPT ![ctxId] = 0]
                                  ELSE stored
               ELSE /\ Record({"StoreEmbeddings"},
                              {t \in {"StoreEmbeddings"} : storeOk})
                    /\ emb' = stored
    BY <1>3, <1>7
  <2> DEFINE stored == IF ctxId \in ctxs THEN [emb EXCEPT ![ctxId] = @ + k] ELSE emb
  <2>2. /\ stored \in [ServerIds -> Nat]
        /\ \A s \in ServerIds \ {ctxId} : stored[s] = emb[s]
    BY <1>2, <1>4 DEF TypeOK
  <2>3. CASE k = items /\ items > 0
    <3>1. PICK okd \in SUBSET Cleanup :
            /\ Record({"StoreEmbeddings"} \cup Cleanup, {"StoreEmbeddings"} \cup okd)
            /\ emb' = IF "Delete" \in okd THEN [stored EXCEPT ![ctxId] = 0] ELSE stored
      BY <2>1, <2>3 DEF StoreSucceeded
    <3>2. /\ passed' \in Nat /\ failed' \in Nat /\ total' \in Nat
          /\ "Delete" \notin okd => failed' > failed
      BY <3>1, <1>2, RecordCounts DEF TypeOK, Tests, Cleanup
    <3>3. verdict' = [t \in Tests |-> IF t \in {"StoreEmbeddings"} \cup okd THEN "pass"
                                      ELSE IF t \in {"StoreEmbeddings"} \cup Cleanup
                                           THEN "fail"
                                      ELSE verdict[t]]
      BY <3>1, RecordVerdicts
    <3>4. /\ emb' \in [ServerIds -> Nat]
          /\ "Delete" \in okd => EmbClean'
      BY <1>2, <2>2, <3>1 DEF EmbClean
    <3>7. verdict' \in [Tests -> {"none", "pass", "fail"}]
      BY <1>2, <3>3 DEF TypeOK
    <3>8. failed' = 0 => EmbClean'
      BY <1>2, <3>2, <3>4 DEF TypeOK
    <3>. QED
      BY EmbeddingClose, <1>1, <3>2, <3>4, <3>7, <3>8
  <2>4. CASE ~(k = items /\ items > 0)
    <3>0. /\ Record({"StoreEmbeddings"}, {t \in {"StoreEmbeddings"} : k = items})
          /\ emb' = stored
      BY <2>1, <2>4 DEF StoreSucceeded
    <3>1. /\ passed' \in Nat /\ failed' \in Nat /\ total' \in Nat
          /\ k # items => failed' > failed
      BY <3>0, <1>2, RecordCounts DEF TypeOK, Tests
    <3>2. verdict' = [t \in Tests |-> IF t \in {t2 \in {"StoreEmbeddings"} : k = items}
                                        THEN "pass"
                                      ELSE IF t \in {"StoreEmbeddings"} THEN "fail"
                                      ELSE verdict[t]]
      BY <3>0, RecordVerdicts
    <3>3. k = items => emb' = emb
      BY <1>2, <2>4, <3>0 DEF TypeOK
    <3>6. verdict' \in [Tests -> {"none", "pass", "fail"}]
      BY <1>2, <3>2 DEF TypeOK
    <3>7. failed' = 0 => EmbClean'
      BY <1>2, <3>1, <3>3 DEF TypeOK, EmbClean
    <3>8. emb' \in [ServerIds -> Nat]
      BY <2>2, <3>0
    <3>. QED
      BY EmbeddingClose, <1>1, <3>1, <3>6, <3>7, <3>8
  <2>. QED
    BY <2>3, <2>4
<1>. QED
  BY <1>6, <1>7

(* The summary and the exit preserve the inductive invariant: sys.exit's  *)
(* code is 0 exactly when no failure was recorded.                         *)
LEMMA SummaryIInv ==
  ASSUME IInv, Summary
  PROVE  IInv'
BY DEF IInv, Summary, TypeOK, EmbClean, Phases

(* Every step of the harness, a stutter included, preserves the inductive *)
(* invariant.                                                              *)
LEMMA StepIInv == IInv /\ [Next]_vars => IInv'
<1> SUFFICES ASSUME IInv, [Next]_vars PROVE IInv'
  OBVIOUS
<1>1. CASE HealthCheck
  BY <1>1, HealthCheckIInv
<1>2. CASE ContextCreation
  BY <1>2, ContextCreationIInv
<1>3. CASE ContextRetrieval
  BY <1>3, ContextRetrievalIInv
<1>4. CASE ContextUpdate
  BY <1>4, ContextUpdateIInv
<1>5. CASE EmbeddingOperations
  BY <1>5, EmbeddingOperationsIInv
<1>6. CASE Summary
  BY <1>6, SummaryIInv
<1>7. CASE Exited \/ UNCHANGED vars
  BY <1>7 DEF Exited, vars, IInv, TypeOK, EmbClean
<1>. QED
  BY <1>1, <1>2, <1>3, <1>4, <1>5, <1>6, <1>7 DEF Next

(* The inductive invariant holds in every state of every run. *)
LEMMA AlwaysIInv == Spec => []IInv
BY InitIInv, StepIInv, PTL DEF Spec

(* Type correctness of the harness model for every set of server ids:     *)
(* TestResult's counters stay natural numbers, sys.exit gets -1 (running), *)
(* 0 or 1, and the server's state keeps its shape.                         *)
THEOREM HarnessTypeCorrect == Spec => []TypeOK
<1>1. IInv => TypeOK
  BY DEF IInv
<1>. QED
  BY AlwaysIInv, <1>1, PTL

(* In every run, a harness that exits 0 leaves no embeddings stored on the *)
(* server: test_embedding_operations either stores nothing or runs the     *)
(* delete, and a failed delete or a partial store makes sys.exit's code 1. *)
THEOREM CleanOnSuccess == Spec => []NoEmbeddingsLeftOnSuccess
<1>1. IInv => NoEmbeddingsLeftOnSuccess
  BY DEF IInv, NoEmbeddingsLeftOnSuccess, EmbClean
<1>. QED
  BY AlwaysIInv, <1>1, PTL

=============================================================================
