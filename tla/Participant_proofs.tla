------------------------- MODULE Participant_proofs -------------------------
(***************************************************************************)
(* A participant keeps its types and its rollback log exact, and it        *)
(* implements PreparedStore, for every set of keys, values and ids.        *)
(***************************************************************************)
EXTENDS Participant, ParticipantHandlers_proofs

-----------------------------------------------------------------------------
(* The inductive invariant.  Types alone are not inductive: handling a COMMIT
   answers with the method of the logged operation and the id of the
   transaction, which have their types because phase 2 recorded them. *)
IInv == TypeOK /\ PreparedWriteIsRecorded

LEMMA InitIInv == Init => IInv
BY InitialIsSound DEF Init, IInv, TypeOK, PreparedWriteIsRecorded, Recorded, SoundStates

LEMMA NextIInv == IInv /\ [Next]_vars => IInv'
<1> SUFFICES ASSUME IInv, [Next]_vars PROVE IInv'
  OBVIOUS
<1>1. CASE UNCHANGED vars
  BY <1>1 DEF vars, IInv, TypeOK, PreparedWriteIsRecorded, Recorded
<1>2. ASSUME NEW m \in CoordinatorMsgs, Receive(m)
      PROVE  IInv'
  <2>1. part \in ParticipantStates /\ Recorded(part) /\ part.phase \in {1, 2}
    BY DEF IInv, TypeOK, PreparedWriteIsRecorded, ParticipantStates
  <2>2. part' = Handle(part, m).state
    BY <1>2 DEF Receive
  <2>3. part' \in ParticipantStates /\ Recorded(part')
    <3>1. CASE part.phase = 1
      BY <2>1, <2>2, <3>1, HandlePhaseOne DEF Handle
    <3>2. CASE part.phase = 2
      BY <2>1, <2>2, <3>2, HandlePhaseTwo DEF Handle
    <3> QED
      BY <2>1, <3>1, <3>2
  <2>4. running' \in BOOLEAN
    BY <1>2 DEF Receive
  <2> QED
    BY <2>3, <2>4 DEF IInv, TypeOK, PreparedWriteIsRecorded
<1> QED
  BY <1>1, <1>2 DEF Next

(* The participant's fields keep their types, whatever it is sent. *)
THEOREM ParticipantTypeOK == Spec => []TypeOK
<1>1. IInv => TypeOK
  BY DEF IInv
<1> QED
  BY <1>1, InitIInv, NextIInv, PTL DEF Spec

(* In every reachable phase 2 the rollback log leads exactly back to the store
   that the prepared write was applied to. *)
THEOREM ParticipantRecordsPreparedWrite == Spec => []PreparedWriteIsRecorded
<1>1. IInv => PreparedWriteIsRecorded
  BY DEF IInv
<1> QED
  BY <1>1, InitIInv, NextIInv, PTL DEF Spec

(* The copy of a message that left its own id behind is only answered again. *)
LEMMA SecondCopy ==
    ASSUME NEW s \in ParticipantStates, Recorded(s), NEW m \in CoordinatorMsgs,
           Handle(s, m).state.id = m.id, Handle(s, m).result # "shutdown"
    PROVE  LET first == Handle(s, m)
               second == Handle(first.state, m)
           IN second.state = first.state /\ second.reply = first.reply
<1> DEFINE t == Handle(s, m).state
           reply == Handle(s, m).reply
<1>1. m.type \in {"PREPARED-REQUEST", "COMMIT", "ABORT"}
  BY DEF CoordinatorMsgs, PrepareRequest, Commit, Abort
<1>2. s.phase \in {1, 2}
  BY DEF ParticipantStates
<1>3. ASSUME t.lastResponseMsg = reply, t.id = m.id,
             \/ t.phase = 1 /\ m.type # "PREPARED-REQUEST"
             \/ t.phase = 2 /\ m.type = "PREPARED-REQUEST"
      PROVE  Handle(t, m).state = t /\ Handle(t, m).reply = reply
  <2> HIDE DEF t, reply
  <2> QED
    BY <1>3 DEF Handle, PhaseOne, PhaseTwo, Resend
<1>4. ASSUME NEW u \in ParticipantStates, u.phase = 1, m.type = "PREPARED-REQUEST",
             Handle(s, m) = Remember(handlePreparePhase(u, m), "loop")
      PROVE  Handle(t, m).state = t /\ Handle(t, m).reply = reply
  <2> DEFINE r == handlePreparePhase(u, m)
  <2>1. t = [r.state EXCEPT !.lastResponseMsg = r.reply] /\ reply = r.reply
    BY <1>4 DEF Remember
  <2>2. CASE m.op.method # "GET"
    <3>1. r.state = StartPhaseTwo(u, m.id, m.op)
      BY <2>2 DEF handlePreparePhase
    <3>2. r.state \in ParticipantStates
      BY <1>4, PreparePhase
    <3>3. r.state.phase = 2 /\ r.state.id = m.id
      BY <3>1 DEF StartPhaseTwo, ParticipantStates
    <3> HIDE DEF r
    <3>4. t.phase = 2 /\ t.id = m.id /\ t.lastResponseMsg = reply
      BY <2>1, <3>2, <3>3 DEF ParticipantStates
    <3> QED
      BY <1>3, <1>4, <3>4
  <2>3. CASE m.op.method = "GET"
    <3> DEFINE answer == Done(m.id, "GET", u.db[KeyOf(m.op)])
    <3>1. r.state = ReadOnly(u, m.id, m.op) /\ r.reply = answer
      BY <2>3 DEF handlePreparePhase
    <3> HIDE DEF answer, r
    <3>2. t = [ReadOnly(u, m.id, m.op) EXCEPT !.lastResponseMsg = answer] /\ reply = answer
      BY <2>1, <3>1
    <3> HIDE DEF t, reply
    <3>3. t.db = u.db /\ t.phase = 1
      BY <1>4, <3>2 DEF ReadOnly, ParticipantStates
    <3>4. Handle(t, m) = Remember(handlePreparePhase(t, m), "loop")
      BY <1>4, <3>3 DEF Handle, PhaseOne
    <3>5. handlePreparePhase(t, m) = [state |-> ReadOnly(t, m.id, m.op), reply |-> answer]
      BY <2>3, <3>3 DEF handlePreparePhase, answer
    <3>6. ReadOnly(t, m.id, m.op) = t
      BY <3>2 DEF ReadOnly, ParticipantStates
    <3>7. [t EXCEPT !.lastResponseMsg = answer] = t
      BY <3>2 DEF ReadOnly, ParticipantStates
    <3> QED
      BY <3>2, <3>4, <3>5, <3>6, <3>7 DEF Remember
  <2> QED
    BY <2>2, <2>3
<1>5. CASE s.phase = 1
  <2>1. CASE m.type = "PREPARED-REQUEST"
    BY <1>4, <1>5, <2>1 DEF Handle, PhaseOne
  <2>2. CASE m.type # "PREPARED-REQUEST"
    BY <1>5, <2>2 DEF Handle, PhaseOne, Resend
  <2> QED
    BY <2>1, <2>2
<1>6. CASE s.phase = 2
  <2>1. CASE m.type \in {"COMMIT", "ABORT"}
    <3> DEFINE r == handleCommitOrAbortPhase(s, m)
    <3>1. t = [r.state EXCEPT !.lastResponseMsg = r.reply] /\ reply = r.reply
      BY <1>6, <2>1 DEF Handle, PhaseTwo, Remember
    <3>2. r.state \in ParticipantStates /\ r.state.phase = 1
      BY <1>6, CommitOrAbortPhase
    <3> HIDE DEF r
    <3>3. t.phase = 1 /\ t.lastResponseMsg = reply
      BY <3>1, <3>2 DEF ParticipantStates
    <3> QED
      BY <1>3, <2>1, <3>3
  <2>2. CASE m.type = "PREPARED-REQUEST" /\ m.id = s.id
    BY <1>6, <2>2 DEF Handle, PhaseTwo, Resend
  <2>3. CASE m.type = "PREPARED-REQUEST" /\ m.id # s.id
    <3> DEFINE u == [rollBack(s) EXCEPT !.phase = 1]
    <3>1. u \in ParticipantStates /\ u.phase = 1
      BY RollBackType
    <3>2. Handle(s, m) = Remember(handlePreparePhase(u, m), "loop")
      BY <1>6, <2>3 DEF Handle, PhaseTwo
    <3> QED
      BY <1>4, <2>3, <3>1, <3>2
  <2> QED
    BY <1>1, <2>1, <2>2, <2>3
<1> QED
  BY <1>2, <1>5, <1>6

(* A retransmission changes no field and is answered like the original,
   whatever the participant was sent before. *)
THEOREM ParticipantResendIsHarmless == Spec => []ResendIsHarmless
<1>1. IInv => ResendIsHarmless
  BY SecondCopy DEF IInv, TypeOK, PreparedWriteIsRecorded, ResendIsHarmless
<1> QED
  BY <1>1, InitIInv, NextIInv, PTL DEF Spec

(* Both modules extend ClusterMessages, so they speak of the same requests. *)
LEMMA SameVocabulary ==
    /\ Promise!NoAddition = NoAddition
    /\ Promise!NoRequest = NoRequest
    /\ Promise!EmptyStore = EmptyStore
    /\ Promise!Writes = Writes
    /\ Promise!GetRequests = GetRequests
    /\ \A op : Promise!KeyOf(op) = KeyOf(op)
    /\ \A op, store : Promise!Apply(op, store) = Apply(op, store)
    /\ \A op, store : Promise!Present(op, store) = Present(op, store)
    /\ \A S : Promise!Cardinality(S) = Cardinality(S)
<1>1. Promise!NoAddition = NoAddition /\ Promise!NoRequest = NoRequest
  BY DEF Promise!NoAddition, NoAddition, Promise!NoRequest, NoRequest
<1>2. Promise!EmptyStore = EmptyStore
  BY DEF Promise!EmptyStore, EmptyStore
<1>3. Promise!Writes = Writes
  BY DEF Promise!Writes, Writes, Promise!SetRequests, SetRequests,
         Promise!DelRequests, DelRequests
<1>4. Promise!GetRequests = GetRequests
  BY DEF Promise!GetRequests, GetRequests
<1>5. \A op : Promise!KeyOf(op) = KeyOf(op)
  BY DEF Promise!KeyOf, KeyOf
<1>6. \A op, store : Promise!Apply(op, store) = Apply(op, store)
  BY DEF Promise!Apply, Apply
<1>7. \A op, store : Promise!Present(op, store) = Present(op, store)
  BY DEF Promise!Present, Present
<1>8. \A S : Promise!Cardinality(S) = Cardinality(S)
  BY DEF Promise!Cardinality, Cardinality
<1> QED
  BY <1>1, <1>2, <1>3, <1>4, <1>5, <1>6, <1>7, <1>8

(* Every step of the participant is a step of PreparedStore, or changes none
   of what PreparedStore keeps. *)
LEMMA StepRefines ==
    ASSUME IInv, Next
    PROVE  [Promise!Next]_(Promise!vars)
<1>1. PICK m \in CoordinatorMsgs : Receive(m)
  BY DEF Next
<1>2. part \in ParticipantStates /\ Recorded(part) /\ part.phase \in {1, 2}
  BY DEF IInv, TypeOK, PreparedWriteIsRecorded, ParticipantStates
<1>3. part' = Handle(part, m).state
  BY <1>1 DEF Receive
<1>4. CASE part' = part
  BY <1>4 DEF Promise!vars, StableStore, PendingWrite, LastAnswer
<1>5. ASSUME m.op \in Writes, part'.phase = 2, part'.operationLog.op = m.op,
             Undo(part'.db, part'.rollbackLog) = StableStore,
             part'.lastResponseMsg.method = m.op.method,
             part'.lastResponseMsg.addition = NoAddition
      PROVE  Promise!Next
  <2>1. Promise!Prepare(m.op)
    BY <1>5, SameVocabulary DEF Promise!Prepare, Promise!Answer, StableStore, PendingWrite, LastAnswer
  <2> QED
    BY <1>5, <2>1, SameVocabulary DEF Promise!Next
<1>6. ASSUME m.op \in GetRequests, part'.phase = 1, part'.db = StableStore,
             part'.lastResponseMsg.method = "GET",
             part'.lastResponseMsg.addition = StableStore[KeyOf(m.op)]
      PROVE  Promise!Next
  <2>1. Promise!Read(m.op)
    BY <1>6, SameVocabulary DEF Promise!Read, Promise!Answer, StableStore, PendingWrite, LastAnswer
  <2> QED
    BY <1>6, <2>1, SameVocabulary DEF Promise!Next
<1>7. CASE part.phase = 1
  <2>1. part' = PhaseOne(part, m).state
    BY <1>3, <1>7 DEF Handle
  <2>2. StableStore = part.db
    BY <1>7 DEF StableStore
  <2> QED
    BY <1>2, <1>4, <1>5, <1>6, <1>7, <2>1, <2>2, HandlePhaseOne
<1>8. CASE part.phase = 2
  <2> DEFINE op == part.operationLog.op
  <2>1. part' = PhaseTwo(part, m).state
    BY <1>3, <1>8 DEF Handle
  <2>2. StableStore = Undo(part.db, part.rollbackLog) /\ PendingWrite = op
    BY <1>8 DEF StableStore, PendingWrite
  <2>3. op # NoRequest
    BY <1>2, <1>8 DEF Recorded, NoRequest, Writes, SetRequests, DelRequests
  <2>4. ASSUME part'.phase = 1,
               part'.db = Apply(op, StableStore),
               part'.lastResponseMsg.method = op.method,
               part'.lastResponseMsg.addition =
                   IF op.method = "DEL" THEN Cardinality(Present(op, StableStore))
                                        ELSE NoAddition
        PROVE  Promise!CommitPending
    BY <2>2, <2>3, <2>4, SameVocabulary DEF Promise!CommitPending, Promise!Answer, StableStore,
                            PendingWrite, LastAnswer
  <2>5. ASSUME part'.phase = 1, part'.db = StableStore,
               part'.lastResponseMsg.method = op.method,
               part'.lastResponseMsg.addition = NoAddition
        PROVE  Promise!Drop
    BY <2>2, <2>3, <2>5, SameVocabulary DEF Promise!Drop, Promise!Answer, StableStore, PendingWrite, LastAnswer
  <2> QED
    BY <1>2, <1>4, <1>5, <1>6, <1>8, <2>1, <2>2, <2>4, <2>5, HandlePhaseTwo DEF Promise!Next
<1> QED
  BY <1>2, <1>7, <1>8

(* A participant implements PreparedStore: whatever messages it receives, its
   stable store changes only by committing exactly the write it prepared. *)
THEOREM ParticipantImplementsPromise == Spec => ImplementsPromise
<1>1. Init => Promise!Init
  BY SameVocabulary DEF Init, Promise!Init, Promise!NoAnswer, Promise!Answer, StableStore, PendingWrite,
         LastAnswer, InitialParticipant, NoMsg
<1>2. IInv /\ [Next]_vars => [Promise!Next]_(Promise!vars)
  <2>1. UNCHANGED vars => UNCHANGED Promise!vars
    BY DEF vars, Promise!vars, StableStore, PendingWrite, LastAnswer
  <2> QED
    BY <2>1, StepRefines
<1> QED
  BY <1>1, <1>2, InitIInv, NextIInv, PTL DEF Spec, Promise!Spec, ImplementsPromise
=============================================================================
