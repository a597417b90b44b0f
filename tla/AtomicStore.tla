----------------------------- MODULE AtomicStore -----------------------------
(***************************************************************************)
(* What a client of lab3/src_2pc, and of lab3/src_raft under its first    *)
(* leader, is promised: one store, although several processes keep copies  *)
(* of it.  A write takes effect at one instant or never, a                 *)
(* successful answer is the one that this store gives, and an error answer *)
(* (or none, when the coordinator stopped) leaves open whether a write     *)
(* took effect.                                                            *)
(***************************************************************************)
EXTENDS StoreRequests

VARIABLES
    store,      \* the one store
    request,    \* the request being served, or NoRequest
    outcome,    \* its result once it took effect, or NoReply
    reply       \* the answer to the last request, or NoReply

vars == <<store, request, outcome, reply>>

Init ==
    /\ store = EmptyStore
    /\ request = NoRequest
    /\ outcome = NoReply
    /\ reply = NoReply

Submit(op) ==
    /\ request = NoRequest
    /\ request' = op
    /\ outcome' = NoReply
    /\ reply' = NoReply
    /\ UNCHANGED store

TakeEffect ==
    /\ request \in Writes
    /\ outcome = NoReply
    /\ store' = Apply(request, store)
    /\ outcome' = Result(request, store)
    /\ UNCHANGED <<request, reply>>

AnswerWith(r) ==
    /\ request # NoRequest
    /\ request' = NoRequest
    /\ reply' = r
    /\ outcome' = NoReply
    /\ UNCHANGED store

AnswerWrite == outcome # NoReply /\ AnswerWith(outcome)
AnswerRead == request \in GetRequests /\ AnswerWith(Result(request, store))
AnswerError == AnswerWith(ERROR)
NoAnswer == AnswerWith(NoReply)

Next ==
    \/ \E op \in Requests : Submit(op)
    \/ TakeEffect
    \/ AnswerWrite
    \/ AnswerRead
    \/ AnswerError
    \/ NoAnswer

Spec == Init /\ [][Next]_vars
=============================================================================
