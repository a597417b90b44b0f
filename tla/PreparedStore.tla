---------------------------- MODULE PreparedStore ----------------------------
(***************************************************************************)
(* What one participant promises to the two-phase commit, whatever         *)
(* messages it is sent: a stable store, at most one write that is prepared *)
(* beside it, and an answer.  Preparing leaves the stable store alone,     *)
(* only a commit applies the write, dropping it has no effect, and a read  *)
(* answers from the stable store, never from the prepared write.           *)
(***************************************************************************)
EXTENDS ClusterMessages

VARIABLES
    stable,    \* the store as of the last decided transaction
    pending,   \* the prepared write, or NoRequest
    answer     \* the last answer given

vars == <<stable, pending, answer>>

Answer(method, addition) == [method |-> method, addition |-> addition]
NoAnswer == Answer("none", NoAddition)

Init ==
    /\ stable = EmptyStore
    /\ pending = NoRequest
    /\ answer = NoAnswer

(* A write is prepared; one that was still pending is dropped. *)
Prepare(op) ==
    /\ pending' = op
    /\ answer' = Answer(op.method, NoAddition)
    /\ UNCHANGED stable

CommitPending ==
    /\ pending # NoRequest
    /\ stable' = Apply(pending, stable)
    /\ pending' = NoRequest
    /\ answer' = Answer(pending.method,
                        IF pending.method = "DEL" THEN Cardinality(Present(pending, stable))
                                                  ELSE NoAddition)

Drop ==
    /\ pending # NoRequest
    /\ pending' = NoRequest
    /\ answer' = Answer(pending.method, NoAddition)
    /\ UNCHANGED stable

(* A read; a write that was still pending is dropped. *)
Read(op) ==
    /\ pending' = NoRequest
    /\ answer' = Answer("GET", stable[KeyOf(op)])
    /\ UNCHANGED stable

Next ==
    \/ \E op \in Writes : Prepare(op)
    \/ CommitPending
    \/ Drop
    \/ \E op \in GetRequests : Read(op)

Spec == Init /\ [][Next]_vars
=============================================================================
