------------------------ MODULE EdgeMCPClientRefinement ------------------------
(***************************************************************************)
(* EdgeMCPClient seen through CorrelatedClient: a task's pending call is    *)
(* the id its send_message holds while it has not returned; request_id and *)
(* the delivered pairs are the client's own.                               *)
(***************************************************************************)
EXTENDS EdgeMCPClient

(* The refinement mapping. *)
pendingBar == [c \in Callers |-> IF pc[c] = "idle" THEN NoId ELSE cur[c]]

Correlated == INSTANCE CorrelatedClient WITH pending <- pendingBar

(* The client implements the correlator of spec section 4.1: every call    *)
(* takes the next id, and returns once, with the reply to that id or with  *)
(* an error, never with another request's reply (send_message, lines       *)
(* 56-83, with the websockets recv it calls).                              *)
CorrelatedSpec == Correlated!Spec
=============================================================================
