--------------------------- MODULE CorrelatedClient ---------------------------
(***************************************************************************)
(* What the Request Correlator of spec section 4.1 promises, stated with   *)
(* no socket, no queue and no server: a call takes the next id; while it   *)
(* is pending it ends at most once, either answered by the reply that      *)
(* carries its own id or abandoned (the write failed, the channel closed). *)
(* The handshake's second request goes out in the same step as the first   *)
(* one's answer, so an answer may take a new id for the same caller.      *)
(***************************************************************************)
EXTENDS Naturals

CONSTANTS Callers

VARIABLES
    request_id,  \* the last id handed out
    pending,     \* per caller: the id of its call in flight, 0 for none
    delivered    \* pairs <<call id, id of the reply it was answered with>>

avars == <<request_id, pending, delivered>>

Init ==
    /\ request_id = 0
    /\ pending = [c \in Callers |-> 0]
    /\ delivered = {}

(* Caller c issues a call: a fresh id, pending unless the write failed. *)
Call(c) ==
    /\ pending[c] = 0
    /\ request_id' = request_id + 1
    /\ pending' \in {pending, [pending EXCEPT ![c] = request_id + 1]}
    /\ UNCHANGED delivered

(* The call of c is answered with the reply to its own id; it may go on   *)
(* with a next request at once.                                           *)
Answer(c) ==
    /\ pending[c] # 0
    /\ delivered' = delivered \cup {<<pending[c], pending[c]>>}
    /\ \/ /\ pending' = [pending EXCEPT ![c] = 0]
          /\ UNCHANGED request_id
       \/ /\ request_id' = request_id + 1
          /\ pending' \in {[pending EXCEPT ![c] = 0],
                           [pending EXCEPT ![c] = request_id + 1]}

(* The call of c fails without an answer. *)
Abandon(c) ==
    /\ pending[c] # 0
    /\ pending' = [pending EXCEPT ![c] = 0]
    /\ UNCHANGED <<request_id, delivered>>

Next == \E c \in Callers : Call(c) \/ Answer(c) \/ Abandon(c)

(* A pending call does not stay pending forever. *)
Spec == Init /\ [][Next]_avars
             /\ \A c \in Callers : WF_avars(Answer(c) \/ Abandon(c))
=============================================================================
