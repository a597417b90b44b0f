--------------------------- MODULE ClusterMessages ---------------------------
(***************************************************************************)
(* The messages that the coordinator and the participants of lab3/src_2pc  *)
(* exchange.  The text framing (CRLF lines) is abstracted: a message is a  *)
(* record with the fields that its lines carry.                            *)
(***************************************************************************)
EXTENDS StoreRequests

CONSTANT Ids       \* transaction ids that getRandomID may draw (only compared)

ASSUME IdsAssumption == -1 \notin Ids

(* From the coordinator: parseClusterMsg yields type, id and, in a
   PREPARED-REQUEST, the client's request. *)
PrepareRequest(id, op) == [type |-> "PREPARED-REQUEST", id |-> id, op |-> op]
Commit(id) == [type |-> "COMMIT", id |-> id, op |-> NoRequest]
Abort(id) == [type |-> "ABORT", id |-> id, op |-> NoRequest]

CoordinatorMsgs ==
    {PrepareRequest(i, op) : i \in Ids, op \in Requests}
      \cup {Commit(i) : i \in Ids} \cup {Abort(i) : i \in Ids}

(* From a participant.  "addition" is the fourth line: the value of a GET, the
   number of erased keys of a DEL, and missing (3 lines only) otherwise. *)
NoAddition == -1

Prepared(id, method) ==
    [type |-> "PREPARED", id |-> id, method |-> method, addition |-> NoAddition]
Done(id, method, addition) ==
    [type |-> "DONE", id |-> id, method |-> method, addition |-> addition]

NoMsg == [type |-> "none", id |-> -1, method |-> "none", addition |-> NoAddition]
=============================================================================
