----------------------------- MODULE Participant -----------------------------
(***************************************************************************)
(* One participant of lab3/src_2pc that is sent any message a coordinator *)
(* can build, in any order and any number of times: what it promises must *)
(* not depend on the coordinator's good behaviour, since coordinators     *)
(* crash, restart and retransmit.                                         *)
(***************************************************************************)
EXTENDS ParticipantHandlers

VARIABLES
    part,       \* the fields of the Participant object
    running     \* FALSE once handleConnection returned -1 and startup ended

vars == <<part, running>>

Init ==
    /\ part = InitialParticipant
    /\ running = TRUE

(* startup and handleConnection: the message is the next one of the connection
   in service, or the first one of the connection that is accepted after it. *)
Receive(m) ==
    /\ running
    /\ part' = Handle(part, m).state
    /\ running' = (Handle(part, m).result # "shutdown")

Next == \E m \in CoordinatorMsgs : Receive(m)

Spec == Init /\ [][Next]_vars

-----------------------------------------------------------------------------
(* Every field of the participant keeps its type. *)
TypeOK ==
    /\ part \in ParticipantStates
    /\ running \in BOOLEAN

(* The refinement mapping: outside phase 2 the database is the stable store;
   in phase 2 the rollback log leads back to it. *)
StableStore == IF part.phase = 1 THEN part.db ELSE Undo(part.db, part.rollbackLog)
PendingWrite == IF part.phase = 1 THEN NoRequest ELSE part.operationLog.op
LastAnswer == [method |-> part.lastResponseMsg.method, addition |-> part.lastResponseMsg.addition]

Promise == INSTANCE PreparedStore WITH
               stable <- StableStore, pending <- PendingWrite, answer <- LastAnswer

(* A participant behaves as a stable store with at most one prepared write
   beside it: prepares and aborts never disturb the stable store, a commit
   applies exactly the write that was prepared, and its answers (values read,
   keys deleted) are those of the stable store.  The in-place update of db,
   rollbackLog and operationLog implement that. *)
ImplementsPromise == Promise!Spec

(* In phase 2 the database is the stable store with the prepared write applied,
   the rollback log covers precisely the keys that write changed, and the
   operation log holds the keys a DEL found, under a drawn transaction id. *)
PreparedWriteIsRecorded == Recorded(part)

(* A coordinator resends what was not answered in time (Coordinator.cpp
   238-245 and 346-354).  The copy of a message that carries the
   participant's own transaction id has the effect and the answer of the first:
   no field changes, and what is sent is the same. *)
ResendIsHarmless ==
    \A m \in CoordinatorMsgs :
        LET first == Handle(part, m)
            second == Handle(first.state, m)
        IN running /\ first.state.id = m.id /\ first.result # "shutdown"
             => second.state = first.state /\ second.reply = first.reply
=============================================================================
