------------------------- MODULE ParticipantHandlers -------------------------
(***************************************************************************)
(* The message handlers of a participant (lab3/src_2pc/Participant.cpp),   *)
(* as functions of its state.  A handler returns the new state, the reply *)
(* that is sent on the connection and what handleConnection does next:    *)
(* stay in its loop, return 1 (the next connection is accepted) or return *)
(* -1 (the process leaves startup and ends).                              *)
(* Definitions marked "mutant" are plausible mistakes in a definition that *)
(* follows them; no specification uses them.                               *)
(***************************************************************************)
EXTENDS ClusterMessages

(* rollbackLog maps a key the transaction changed to its old value (Nil for a
   "DEL key" entry): the code pushes at most one entry per key, so the order
   of the entries is immaterial.  operationLog keeps the request and, in acks,
   the keys whose entry ends in "ACK". *)
NoLog == [k \in {} |-> Nil]
RollbackLogs == UNION {[S -> Values \cup {Nil}] : S \in SUBSET Keys}
NoOperation == [op |-> NoRequest, acks |-> {}]
OperationLogs == [op : Requests \cup {NoRequest}, acks : SUBSET Keys]

Replies ==
    {Prepared(i, m) : i \in Ids, m \in {"SET", "DEL"}}
      \cup {Done(i, m, a) : i \in Ids, m \in {"SET", "GET", "DEL"},
                            a \in Values \cup {Nil, NoAddition} \cup 0..Cardinality(Keys)}

ParticipantStates ==
    [phase : {1, 2}, id : Ids \cup {-1}, db : Stores, rollbackLog : RollbackLogs,
     operationLog : OperationLogs, lastResponseMsg : Replies \cup {NoMsg}]

InitialParticipant ==
    [phase |-> 1, id |-> -1, db |-> EmptyStore, rollbackLog |-> NoLog,
     operationLog |-> NoOperation, lastResponseMsg |-> NoMsg]

(* The store without the transaction that is prepared. *)
Undo(db, log) == [k \in Keys |-> IF k \in DOMAIN log THEN log[k] ELSE db[k]]

rollBack(s) == [s EXCEPT !.db = Undo(s.db, s.rollbackLog), !.rollbackLog = NoLog]

LoggedIfPresent(op, db) == Present(op, db)                                \* mutant

(* The keys for which handlePreparePhase pushes a rollback entry: always the
   key of a SET, and of a DEL the keys that exist. *)
Logged(op, db) == IF op.method = "SET" THEN op.keys ELSE Present(op, db)

(* SET and DEL: the change is made at once, with the way back in the log. *)
StartPhaseTwo(s, id, op) ==
    [s EXCEPT !.phase = 2, !.id = id,
              !.operationLog = [op |-> op, acks |-> Present(op, s.db)],
              !.rollbackLog = [k \in Logged(op, s.db) |-> s.db[k]],
              !.db = Apply(op, s.db)]

ReadOnly(s, id, op) ==
    [s EXCEPT !.id = id, !.operationLog = [op |-> op, acks |-> {}], !.rollbackLog = NoLog]

handlePreparePhase(s, m) ==
    IF m.op.method = "GET"
    THEN [state |-> ReadOnly(s, m.id, m.op),
          reply |-> Done(m.id, "GET", s.db[KeyOf(m.op)])]
    ELSE [state |-> StartPhaseTwo(s, m.id, m.op),
          reply |-> Prepared(m.id, m.op.method)]

AcksAndOne(log) == Cardinality(log.acks) + 1                              \* mutant
AllListed(log) == Cardinality(log.op.keys)                                \* mutant

(* ACKcount *)
Acks(log) == Cardinality(log.acks)

handleCommitOrAbortPhase(s, m) ==
    LET op == s.operationLog.op
        ended == [s EXCEPT !.phase = 1]
    IN IF m.type = "COMMIT"
       THEN [state |-> ended,
             reply |-> Done(s.id, op.method,
                            IF op.method = "DEL" THEN Acks(s.operationLog) ELSE NoAddition)]
       ELSE [state |-> rollBack(ended), reply |-> Done(s.id, op.method, NoAddition)]

RememberNothing(r, result) ==                                             \* mutant
    [state |-> r.state, reply |-> r.reply, result |-> result]

(* lastResponseMsg = ...; sendMessage(...) *)
Remember(r, result) ==
    [state |-> [r.state EXCEPT !.lastResponseMsg = r.reply], reply |-> r.reply, result |-> result]

Resend(s, result) == [state |-> s, reply |-> s.lastResponseMsg, result |-> result]

PhaseOneStrict(s, m) ==                                                   \* mutant
    IF m.type = "PREPARED-REQUEST" THEN Remember(handlePreparePhase(s, m), "loop")
    ELSE [state |-> s, reply |-> NoMsg, result |-> "shutdown"]

(* One turn of the loop of handleConnection, for a message that parses. *)
PhaseOne(s, m) ==
    IF m.type = "PREPARED-REQUEST" THEN Remember(handlePreparePhase(s, m), "loop")
    ELSE IF m.id = s.id THEN Resend(s, "return")
    ELSE [state |-> s, reply |-> NoMsg, result |-> "shutdown"]

PhaseTwoAnyId(s, m) ==                                                    \* mutant
    IF m.type \in {"COMMIT", "ABORT"} THEN Remember(handleCommitOrAbortPhase(s, m), "return")
    ELSE Resend(s, "loop")

PhaseTwoNoRollBack(s, m) ==                                               \* mutant
    IF m.type \in {"COMMIT", "ABORT"} THEN Remember(handleCommitOrAbortPhase(s, m), "return")
    ELSE IF m.id = s.id THEN Resend(s, "loop")
    ELSE Remember(handlePreparePhase([s EXCEPT !.phase = 1], m), "loop")

PhaseTwo(s, m) ==
    IF m.type \in {"COMMIT", "ABORT"} THEN Remember(handleCommitOrAbortPhase(s, m), "return")
    ELSE IF m.id = s.id THEN Resend(s, "loop")
    ELSE Remember(handlePreparePhase([rollBack(s) EXCEPT !.phase = 1], m), "loop")

Handle(s, m) == IF s.phase = 1 THEN PhaseOne(s, m) ELSE PhaseTwo(s, m)

-----------------------------------------------------------------------------
(* What phase 2 keeps on record of the prepared write and of the store without
   it. *)
Recorded(s) ==
    s.phase = 2 =>
        LET op == s.operationLog.op
            stable == Undo(s.db, s.rollbackLog)
        IN /\ s.id \in Ids
           /\ op \in Writes
           /\ s.db = Apply(op, stable)
           /\ s.operationLog.acks = Present(op, stable)
           /\ DOMAIN s.rollbackLog = Logged(op, stable)
=============================================================================
