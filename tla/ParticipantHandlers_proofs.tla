--------------------- MODULE ParticipantHandlers_proofs ---------------------
(***************************************************************************)
(* What the handlers of a participant return, for every set of keys,       *)
(* values and ids: the lemmas that the proofs about one participant and     *)
(* about the whole two-phase commit share.                                  *)
(***************************************************************************)
EXTENDS ParticipantHandlers, FiniteSetTheorems, TLAPS

-----------------------------------------------------------------------------
(* The store and its logs. *)

(* The domain of a rollback log is a set of keys and its values are old values. *)
LEMMA RollbackLogType ==
    ASSUME NEW log \in RollbackLogs
    PROVE  /\ DOMAIN log \subseteq Keys
           /\ \A k \in DOMAIN log : log[k] \in Values \cup {Nil}
BY DEF RollbackLogs

(* Rolling back yields a store. *)
LEMMA UndoType ==
    ASSUME NEW db \in Stores, NEW log \in RollbackLogs
    PROVE  Undo(db, log) \in Stores
BY RollbackLogType DEF Undo, Stores

(* A request applied to a store yields a store. *)
LEMMA ApplyType ==
    ASSUME NEW db \in Stores, NEW op \in Requests
    PROVE  Apply(op, db) \in Stores
BY DEF Apply, Stores, Requests, Writes, SetRequests, GetRequests, DelRequests

(* The fields of a request. *)
LEMMA RequestType ==
    ASSUME NEW op \in Requests
    PROVE  /\ op.keys \subseteq Keys
           /\ op.method \in {"SET", "GET", "DEL"}
           /\ op.method = "GET" <=> op \in GetRequests
           /\ op.method # "GET" <=> op \in Writes
           /\ op.method = "DEL" => op.value = Nil
BY DEF Requests, Writes, SetRequests, GetRequests, DelRequests

(* The rollback log that handlePreparePhase writes undoes the write it belongs
   to, and it is a rollback log over the keys that had to be logged. *)
LEMMA UndoApply ==
    ASSUME NEW db \in Stores, NEW op \in Writes
    PROVE  /\ [k \in Logged(op, db) |-> db[k]] \in RollbackLogs
           /\ Undo(Apply(op, db), [k \in Logged(op, db) |-> db[k]]) = db
<1>1. op \in Requests /\ op.method # "GET"
  BY RequestType DEF Requests
<1>2. Logged(op, db) \subseteq Keys
  BY <1>1, RequestType DEF Logged, Present
<1>3. [k \in Logged(op, db) |-> db[k]] \in RollbackLogs
  BY <1>2 DEF RollbackLogs, Stores
<1>4. ASSUME NEW k \in Keys, k \notin Logged(op, db)
      PROVE  Apply(op, db)[k] = db[k]
  BY <1>1, <1>4, RequestType DEF Logged, Present, Apply
<1>5. Undo(Apply(op, db), [k \in Logged(op, db) |-> db[k]]) = [k \in Keys |-> db[k]]
  BY <1>2, <1>4 DEF Undo
<1> QED
  BY <1>3, <1>5 DEF Stores

(* A count of erased keys is a number up to the number of keys. *)
LEMMA CountType ==
    ASSUME NEW S \in SUBSET Keys
    PROVE  Cardinality(S) \in 0..Cardinality(Keys)
BY KeysAssumption, FS_Subset, FS_CardinalityType

-----------------------------------------------------------------------------
(* The handlers. *)

(* handlePreparePhase on a write, from a store without a prepared write: phase
   2, with the write applied and recorded, and the old store behind it. *)
LEMMA PrepareWrite ==
    ASSUME NEW s \in ParticipantStates, NEW id \in Ids, NEW op \in Writes
    PROVE  LET t == StartPhaseTwo(s, id, op)
           IN /\ t \in ParticipantStates
              /\ t.phase = 2
              /\ t.operationLog.op = op
              /\ Undo(t.db, t.rollbackLog) = s.db
              /\ Recorded(t)
<1> DEFINE t == StartPhaseTwo(s, id, op)
           log == [k \in Logged(op, s.db) |-> s.db[k]]
<1>1. op \in Requests
  BY DEF Requests
<1>2. Apply(op, s.db) \in Stores /\ s.db \in Stores
  BY <1>1, ApplyType DEF ParticipantStates
<1>3. log \in RollbackLogs /\ Undo(Apply(op, s.db), log) = s.db
  BY <1>2, UndoApply
<1>4. Present(op, s.db) \in SUBSET Keys
  BY <1>1, RequestType DEF Present
<1>5. /\ t.phase = 2 /\ t.id = id /\ t.db = Apply(op, s.db) /\ t.rollbackLog = log
      /\ t.operationLog = [op |-> op, acks |-> Present(op, s.db)]
      /\ t.lastResponseMsg = s.lastResponseMsg
  BY DEF StartPhaseTwo, ParticipantStates
<1>6. [op |-> op, acks |-> Present(op, s.db)] \in OperationLogs
  BY <1>1, <1>4 DEF OperationLogs
<1>7. t \in ParticipantStates
  BY <1>2, <1>3, <1>6 DEF StartPhaseTwo, ParticipantStates
<1>8. Recorded(t)
  BY <1>3, <1>5 DEF Recorded
<1> QED
  BY <1>3, <1>5, <1>7, <1>8

(* Rolling back leaves the types alone and the stable store as the database. *)
LEMMA RollBackType ==
    ASSUME NEW s \in ParticipantStates
    PROVE  LET t == [rollBack(s) EXCEPT !.phase = 1]
           IN /\ t \in ParticipantStates
              /\ t.db = Undo(s.db, s.rollbackLog)
              /\ t.phase = 1
<1>1. Undo(s.db, s.rollbackLog) \in Stores
  BY UndoType DEF ParticipantStates
<1>2. NoLog \in RollbackLogs
  BY DEF NoLog, RollbackLogs
<1> QED
  BY <1>1, <1>2 DEF rollBack, ParticipantStates

(* A read leaves phase and database alone and answers from the database. *)
LEMMA ReadType ==
    ASSUME NEW s \in ParticipantStates, NEW id \in Ids, NEW op \in GetRequests
    PROVE  /\ ReadOnly(s, id, op) \in ParticipantStates
           /\ ReadOnly(s, id, op).phase = s.phase
           /\ ReadOnly(s, id, op).db = s.db
           /\ Done(id, "GET", s.db[KeyOf(op)]) \in Replies
<1>1. NoLog \in RollbackLogs
  BY DEF NoLog, RollbackLogs
<1>2. [op |-> op, acks |-> {}] \in OperationLogs
  BY DEF OperationLogs, Requests
<1>3. KeyOf(op) \in Keys
  BY DEF KeyOf, GetRequests
<1>4. s.db[KeyOf(op)] \in Values \cup {Nil}
  BY <1>3 DEF ParticipantStates, Stores
<1>5. Done(id, "GET", s.db[KeyOf(op)]) \in Replies
  BY <1>4 DEF Replies
<1> QED
  BY <1>1, <1>2, <1>5 DEF ReadOnly, ParticipantStates

(* handlePreparePhase from a state without a prepared write. *)
LEMMA PreparePhase ==
    ASSUME NEW s \in ParticipantStates, s.phase = 1,
           NEW m \in CoordinatorMsgs, m.type = "PREPARED-REQUEST"
    PROVE  LET r == handlePreparePhase(s, m)
           IN /\ r.state \in ParticipantStates
              /\ Recorded(r.state)
              /\ r.reply \in Replies
              /\ \/ /\ m.op \in Writes
                    /\ r.state.phase = 2
                    /\ r.state.operationLog.op = m.op
                    /\ Undo(r.state.db, r.state.rollbackLog) = s.db
                    /\ r.reply.method = m.op.method
                    /\ r.reply.addition = NoAddition
                 \/ /\ m.op \in GetRequests
                    /\ r.state.phase = 1
                    /\ r.state.db = s.db
                    /\ r.reply.method = "GET"
                    /\ r.reply.addition = s.db[KeyOf(m.op)]
<1> DEFINE r == handlePreparePhase(s, m)
<1>1. m.id \in Ids /\ m.op \in Requests
  BY DEF CoordinatorMsgs, PrepareRequest, Commit, Abort
<1>2. CASE m.op.method = "GET"
  <2>1. m.op \in GetRequests
    BY <1>1, <1>2, RequestType
  <2>2. r = [state |-> ReadOnly(s, m.id, m.op), reply |-> Done(m.id, "GET", s.db[KeyOf(m.op)])]
    BY <1>2 DEF handlePreparePhase
  <2>3. Recorded(r.state)
    BY <1>1, <2>1, <2>2, ReadType DEF Recorded
  <2> QED
    BY <1>1, <2>1, <2>2, <2>3, ReadType DEF Done
<1>3. CASE m.op.method # "GET"
  <2>1. m.op \in Writes
    BY <1>1, <1>3, RequestType
  <2>2. r = [state |-> StartPhaseTwo(s, m.id, m.op), reply |-> Prepared(m.id, m.op.method)]
    BY <1>3 DEF handlePreparePhase
  <2>3. Prepared(m.id, m.op.method) \in Replies
    BY <1>1, <1>3, RequestType DEF Replies
  <2> QED
    BY <1>1, <2>1, <2>2, <2>3, PrepareWrite DEF Prepared
<1> QED
  BY <1>2, <1>3

(* handleCommitOrAbortPhase ends phase 2 with the write applied to the stable
   store, or with the stable store itself. *)
LEMMA CommitOrAbortPhase ==
    ASSUME NEW s \in ParticipantStates, s.phase = 2, Recorded(s),
           NEW m \in CoordinatorMsgs
    PROVE  LET r == handleCommitOrAbortPhase(s, m)
               op == s.operationLog.op
               stable == Undo(s.db, s.rollbackLog)
           IN /\ r.state \in ParticipantStates
              /\ r.state.phase = 1
              /\ r.reply \in Replies
              /\ r.reply.method = op.method
              /\ m.type = "COMMIT" =>
                   /\ r.state.db = Apply(op, stable)
                   /\ r.reply.addition = IF op.method = "DEL"
                                           THEN Cardinality(Present(op, stable))
                                           ELSE NoAddition
              /\ m.type # "COMMIT" =>
                   /\ r.state.db = stable
                   /\ r.reply.addition = NoAddition
<1> DEFINE r == handleCommitOrAbortPhase(s, m)
           op == s.operationLog.op
           stable == Undo(s.db, s.rollbackLog)
           ended == [s EXCEPT !.phase = 1]
<1>1. /\ s.id \in Ids /\ op \in Writes
      /\ s.db = Apply(op, stable) /\ s.operationLog.acks = Present(op, stable)
  BY DEF Recorded
<1>2. op.method \in {"SET", "GET", "DEL"} /\ s.operationLog.acks \in SUBSET Keys
  BY <1>1, RequestType DEF Requests, ParticipantStates, OperationLogs
<1>3. CASE m.type = "COMMIT"
  <2> DEFINE addition == IF op.method = "DEL" THEN Acks(s.operationLog)
                                              ELSE NoAddition
  <2>1. r = [state |-> ended, reply |-> Done(s.id, op.method, addition)]
    BY <1>3 DEF handleCommitOrAbortPhase
  <2>2. addition \in {NoAddition} \cup 0..Cardinality(Keys)
    BY <1>2, CountType DEF Acks
  <2>3. Done(s.id, op.method, addition) \in Replies
    <3>1. CASE op.method = "SET"
      BY <1>1, <3>1, <2>2 DEF Replies
    <3>2. CASE op.method = "DEL"
      BY <1>1, <3>2, <2>2 DEF Replies
    <3>3. CASE op.method = "GET"
      BY <1>1, <3>3, <2>2 DEF Replies
    <3> QED
      BY <1>2, <3>1, <3>2, <3>3
  <2>4. ended \in ParticipantStates /\ ended.phase = 1 /\ ended.db = s.db
    BY DEF ParticipantStates
  <2>5. r.reply.method = op.method /\ r.reply.addition = addition
    BY <2>1 DEF Done
  <2>6. r.state = ended /\ r.reply \in Replies
    BY <2>1, <2>3
  <2>7. addition = IF op.method = "DEL" THEN Cardinality(Present(op, stable)) ELSE NoAddition
    BY <1>1 DEF Acks
  <2>8. s.db = Apply(op, stable)
    BY <1>1
  <2> HIDE DEF r, ended, op, stable, addition
  <2> QED
    BY <1>3, <2>4, <2>5, <2>6, <2>7, <2>8 DEF r, op, stable
<1>4. CASE m.type # "COMMIT"
  <2>1. r = [state |-> rollBack(ended), reply |-> Done(s.id, op.method, NoAddition)]
    BY <1>4 DEF handleCommitOrAbortPhase
  <2>2. rollBack(ended) = [rollBack(s) EXCEPT !.phase = 1]
    BY DEF rollBack, ParticipantStates
  <2>3. Done(s.id, op.method, NoAddition) \in Replies
    BY <1>1, <1>2 DEF Replies
  <2>4. r.reply.method = op.method /\ r.reply.addition = NoAddition
    BY <2>1 DEF Done
  <2>5. r.state = [rollBack(s) EXCEPT !.phase = 1] /\ r.reply \in Replies
    BY <2>1, <2>2, <2>3
  <2> HIDE DEF r, ended, op, stable
  <2>6. r.state \in ParticipantStates /\ r.state.phase = 1 /\ r.state.db = stable
    BY <2>5, RollBackType DEF stable
  <2> QED
    BY <1>4, <2>4, <2>5, <2>6 DEF r, op, stable
<1> QED
  BY <1>3, <1>4

(* handleConnection's turn for one message, from any recorded state: types and
   records are kept, and the stable store, the prepared write and the answer
   change as PreparedStore lets them. *)
LEMMA HandlePhaseOne ==
    ASSUME NEW s \in ParticipantStates, s.phase = 1,
           NEW m \in CoordinatorMsgs
    PROVE  LET t == PhaseOne(s, m).state
           IN /\ t \in ParticipantStates
              /\ Recorded(t)
              /\ \/ t = s
                 \/ /\ m.op \in Writes
                    /\ t.phase = 2
                    /\ t.operationLog.op = m.op
                    /\ Undo(t.db, t.rollbackLog) = s.db
                    /\ t.lastResponseMsg.method = m.op.method
                    /\ t.lastResponseMsg.addition = NoAddition
                 \/ /\ m.op \in GetRequests
                    /\ t.phase = 1
                    /\ t.db = s.db
                    /\ t.lastResponseMsg.method = "GET"
                    /\ t.lastResponseMsg.addition = s.db[KeyOf(m.op)]
<1> DEFINE r == handlePreparePhase(s, m)
           t == PhaseOne(s, m).state
<1>1. CASE m.type = "PREPARED-REQUEST"
  <2>1. t = [r.state EXCEPT !.lastResponseMsg = r.reply]
    BY <1>1 DEF PhaseOne, Remember
  <2>2. r.state \in ParticipantStates /\ r.reply \in Replies /\ Recorded(r.state)
    BY <1>1, PreparePhase
  <2> HIDE DEF r, t
  <2>3. /\ t \in ParticipantStates
        /\ t.lastResponseMsg = r.reply
        /\ t.phase = r.state.phase /\ t.db = r.state.db /\ t.id = r.state.id
        /\ t.rollbackLog = r.state.rollbackLog /\ t.operationLog = r.state.operationLog
    BY <2>1, <2>2 DEF ParticipantStates
  <2>4. Recorded(t)
    BY <2>2, <2>3 DEF Recorded
  <2> QED
    BY <1>1, <2>3, <2>4, PreparePhase DEF r, t
<1>2. CASE m.type # "PREPARED-REQUEST"
  <2>1. t = s
    BY <1>2 DEF PhaseOne, Resend
  <2> QED
    BY <2>1 DEF Recorded
<1> QED
  BY <1>1, <1>2

LEMMA HandlePhaseTwo ==
    ASSUME NEW s \in ParticipantStates, s.phase = 2, Recorded(s),
           NEW m \in CoordinatorMsgs
    PROVE  LET t == PhaseTwo(s, m).state
               op == s.operationLog.op
               stable == Undo(s.db, s.rollbackLog)
           IN /\ t \in ParticipantStates
              /\ Recorded(t)
              /\ \/ t = s
                 \/ /\ m.type = "COMMIT"
                    /\ t.phase = 1
                    /\ t.db = Apply(op, stable)
                    /\ t.lastResponseMsg.method = op.method
                    /\ t.lastResponseMsg.addition = IF op.method = "DEL"
                                                    THEN Cardinality(Present(op, stable))
                                                    ELSE NoAddition
                 \/ /\ m.type = "ABORT"
                    /\ t.phase = 1
                    /\ t.db = stable
                    /\ t.lastResponseMsg.method = op.method
                    /\ t.lastResponseMsg.addition = NoAddition
                 \/ /\ m.op \in Writes
                    /\ t.phase = 2
                    /\ t.operationLog.op = m.op
                    /\ Undo(t.db, t.rollbackLog) = stable
                    /\ t.lastResponseMsg.method = m.op.method
                    /\ t.lastResponseMsg.addition = NoAddition
                 \/ /\ m.op \in GetRequests
                    /\ t.phase = 1
                    /\ t.db = stable
                    /\ t.lastResponseMsg.method = "GET"
                    /\ t.lastResponseMsg.addition = stable[KeyOf(m.op)]
<1> DEFINE t == PhaseTwo(s, m).state
           op == s.operationLog.op
           stable == Undo(s.db, s.rollbackLog)
<1>1. CASE m.type \in {"COMMIT", "ABORT"}
  <2> DEFINE r == handleCommitOrAbortPhase(s, m)
  <2>1. t = [r.state EXCEPT !.lastResponseMsg = r.reply]
    BY <1>1 DEF PhaseTwo, Remember
  <2>2. r.state \in ParticipantStates /\ r.reply \in Replies /\ r.state.phase = 1
    BY CommitOrAbortPhase
  <2> HIDE DEF r, t, op, stable
  <2>3. /\ t \in ParticipantStates
        /\ t.lastResponseMsg = r.reply /\ t.phase = 1 /\ t.db = r.state.db
    BY <2>1, <2>2 DEF ParticipantStates
  <2>4. Recorded(t)
    BY <2>3 DEF Recorded
  <2> QED
    BY <1>1, <2>3, <2>4, CommitOrAbortPhase DEF r, t, op, stable
<1>2. CASE m.type \notin {"COMMIT", "ABORT"} /\ m.id = s.id
  <2>1. t = s
    BY <1>2 DEF PhaseTwo, Resend
  <2> QED
    BY <2>1
<1>3. CASE m.type \notin {"COMMIT", "ABORT"} /\ m.id # s.id
  <2> DEFINE u == [rollBack(s) EXCEPT !.phase = 1]
             r == handlePreparePhase(u, m)
  <2>1. m.type = "PREPARED-REQUEST"
    BY <1>3 DEF CoordinatorMsgs, PrepareRequest, Commit, Abort
  <2>2. u \in ParticipantStates /\ u.phase = 1 /\ u.db = stable
    BY RollBackType
  <2>3. t = [r.state EXCEPT !.lastResponseMsg = r.reply]
    BY <1>3 DEF PhaseTwo, Remember
  <2> HIDE DEF u
  <2>4. r.state \in ParticipantStates /\ r.reply \in Replies /\ Recorded(r.state)
    BY <2>1, <2>2, PreparePhase
  <2> HIDE DEF r, t
  <2>5. /\ t \in ParticipantStates
        /\ t.lastResponseMsg = r.reply
        /\ t.phase = r.state.phase /\ t.db = r.state.db /\ t.id = r.state.id
        /\ t.rollbackLog = r.state.rollbackLog /\ t.operationLog = r.state.operationLog
    BY <2>3, <2>4 DEF ParticipantStates
  <2>6. Recorded(t)
    BY <2>4, <2>5 DEF Recorded
  <2> HIDE DEF stable
  <2>7. \/ /\ m.op \in Writes
           /\ t.phase = 2
           /\ t.operationLog.op = m.op
           /\ Undo(t.db, t.rollbackLog) = stable
           /\ t.lastResponseMsg.method = m.op.method
           /\ t.lastResponseMsg.addition = NoAddition
        \/ /\ m.op \in GetRequests
           /\ t.phase = 1
           /\ t.db = stable
           /\ t.lastResponseMsg.method = "GET"
           /\ t.lastResponseMsg.addition = stable[KeyOf(m.op)]
    BY <2>1, <2>2, <2>5, PreparePhase DEF r
  <2> QED
    BY <2>5, <2>6, <2>7 DEF t, stable
<1> QED
  BY <1>1, <1>2, <1>3

(* What a participant sends fits the fields that the coordinator looks at: the
   fourth line of an answer to a GET is a value, that of an answer to a DEL a
   number or missing. *)
FittingReplies ==
    {r \in Replies :
       /\ r.method = "GET" => r.addition \in Values \cup {Nil}
       /\ r.method = "DEL" => r.addition \in {NoAddition} \cup 0..Cardinality(Keys)}

(* A participant between two messages. *)
SoundStates ==
    {s \in ParticipantStates :
       Recorded(s) /\ s.lastResponseMsg \in FittingReplies \cup {NoMsg}}

LEMMA InitialIsSound == InitialParticipant \in SoundStates /\ InitialParticipant.phase = 1
<1>1. EmptyStore \in Stores
  BY DEF EmptyStore, Stores
<1>2. NoLog \in RollbackLogs
  BY DEF NoLog, RollbackLogs
<1>3. NoOperation \in OperationLogs
  BY DEF NoOperation, OperationLogs
<1>4. InitialParticipant \in ParticipantStates /\ InitialParticipant.phase = 1
  BY <1>1, <1>2, <1>3 DEF InitialParticipant, ParticipantStates
<1>5. InitialParticipant.lastResponseMsg = NoMsg
  BY DEF InitialParticipant
<1> QED
  BY <1>4, <1>5 DEF SoundStates, Recorded

(* The state after one message and the reply, from any sound state. *)
LEMMA HandleType ==
    ASSUME NEW s \in SoundStates, NEW m \in CoordinatorMsgs
    PROVE  LET r == Handle(s, m)
           IN /\ r.state \in SoundStates
              /\ r.reply \in FittingReplies \cup {NoMsg}
              /\ r.result \in {"loop", "return", "shutdown"}
<1> DEFINE r == Handle(s, m)
           t == r.state
<1>1. /\ s \in ParticipantStates /\ Recorded(s) /\ s.phase \in {1, 2}
      /\ s.lastResponseMsg \in FittingReplies \cup {NoMsg}
      /\ s.db \in Stores
  BY DEF SoundStates, ParticipantStates
<1>2. /\ r.result \in {"loop", "return", "shutdown"}
      /\ r.reply \in {t.lastResponseMsg, NoMsg}
  <2>1. CASE s.phase = 1
    <3>1. handlePreparePhase(s, m).state \in ParticipantStates
            \/ m.type # "PREPARED-REQUEST"
      BY <1>1, <2>1, PreparePhase
    <3> QED
      BY <2>1, <3>1 DEF Handle, PhaseOne, Remember, Resend, ParticipantStates
  <2>2. CASE s.phase = 2
    <3> DEFINE u == [rollBack(s) EXCEPT !.phase = 1]
    <3>1. u \in ParticipantStates /\ u.phase = 1
      BY <1>1, RollBackType
    <3>2. handlePreparePhase(u, m).state \in ParticipantStates
            \/ m.type # "PREPARED-REQUEST"
      BY <3>1, PreparePhase
    <3>3. handleCommitOrAbortPhase(s, m).state \in ParticipantStates
      BY <1>1, <2>2, CommitOrAbortPhase
    <3>4. m.type \in {"COMMIT", "ABORT", "PREPARED-REQUEST"}
      BY DEF CoordinatorMsgs, PrepareRequest, Commit, Abort
    <3> QED
      BY <1>1, <2>2, <3>2, <3>3, <3>4 DEF Handle, PhaseTwo, Remember, Resend, ParticipantStates
  <2> QED
    BY <1>1, <2>1, <2>2
<1>3. t \in ParticipantStates /\ Recorded(t)
  BY <1>1, HandlePhaseOne, HandlePhaseTwo DEF Handle
<1>4. t.lastResponseMsg \in FittingReplies \cup {NoMsg}
  <2>1. t.lastResponseMsg \in Replies \cup {NoMsg}
    BY <1>3 DEF ParticipantStates
  <2>2. ASSUME NEW op \in Writes, t.lastResponseMsg.method = op.method,
               t.lastResponseMsg.addition = NoAddition
        PROVE  t.lastResponseMsg \in FittingReplies \cup {NoMsg}
    BY <2>1, <2>2, RequestType DEF FittingReplies, Requests
  <2>3. ASSUME NEW op \in GetRequests, NEW db \in Stores, t.lastResponseMsg.method = "GET",
               t.lastResponseMsg.addition = db[KeyOf(op)]
        PROVE  t.lastResponseMsg \in FittingReplies \cup {NoMsg}
    <3>1. KeyOf(op) \in Keys
      BY DEF KeyOf, GetRequests
    <3>2. t.lastResponseMsg.addition \in Values \cup {Nil}
      BY <2>3, <3>1 DEF Stores
    <3> QED
      BY <2>1, <2>3, <3>2 DEF FittingReplies
  <2>4. ASSUME NEW op \in Writes, NEW db \in Stores, t.lastResponseMsg.method = op.method,
               t.lastResponseMsg.addition = IF op.method = "DEL"
                                            THEN Cardinality(Present(op, db))
                                            ELSE NoAddition
        PROVE  t.lastResponseMsg \in FittingReplies \cup {NoMsg}
    <3>1. op \in Requests /\ op.method # "GET"
      BY RequestType DEF Requests
    <3>2. Present(op, db) \in SUBSET Keys
      BY <3>1, RequestType DEF Present
    <3>3. Cardinality(Present(op, db)) \in 0..Cardinality(Keys)
      BY <3>2, CountType
    <3> QED
      BY <2>1, <2>4, <3>1, <3>3 DEF FittingReplies
  <2>5. CASE s.phase = 1
    <3>1. t = PhaseOne(s, m).state
      BY <2>5 DEF Handle
    <3> HIDE DEF t, r
    <3> QED
      BY <1>1, <2>2, <2>3, <2>5, <3>1, HandlePhaseOne
  <2>6. CASE s.phase = 2
    <3> DEFINE op == s.operationLog.op
               stable == Undo(s.db, s.rollbackLog)
    <3>1. t = PhaseTwo(s, m).state
      BY <2>6 DEF Handle
    <3>2. op \in Writes
      BY <1>1, <2>6 DEF Recorded
    <3>3. stable \in Stores
      BY <1>1, UndoType DEF ParticipantStates
    <3> HIDE DEF t, r
    <3>4. \/ t = s
          \/ /\ t.lastResponseMsg.method = op.method
             /\ t.lastResponseMsg.addition = IF op.method = "DEL"
                                             THEN Cardinality(Present(op, stable))
                                             ELSE NoAddition
          \/ /\ t.lastResponseMsg.method = op.method
             /\ t.lastResponseMsg.addition = NoAddition
          \/ /\ m.op \in Writes
             /\ t.lastResponseMsg.method = m.op.method
             /\ t.lastResponseMsg.addition = NoAddition
          \/ /\ m.op \in GetRequests
             /\ t.lastResponseMsg.method = "GET"
             /\ t.lastResponseMsg.addition = stable[KeyOf(m.op)]
      BY <1>1, <2>6, <3>1, HandlePhaseTwo
    <3> HIDE DEF op, stable
    <3> QED
      BY <1>1, <2>2, <2>3, <2>4, <3>2, <3>3, <3>4
  <2> QED
    BY <1>1, <2>5, <2>6
<1> QED
  BY <1>2, <1>3, <1>4 DEF SoundStates
=============================================================================
