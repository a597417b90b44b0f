---------------------------- MODULE StoreRequests ----------------------------
(***************************************************************************)
(* Requests of a client of a key-value store, what they mean for one store *)
(* and the answers.  The RESP arrays are abstracted to records, and a      *)
(* store is a total function in which Nil marks an absent key.             *)
(***************************************************************************)
EXTENDS Integers, FiniteSets

CONSTANTS
    Keys,      \* keys of the store
    Values,    \* values of the store, all different from Nil
    Nil        \* the absent value, "nil" on the wire

ASSUME KeysAssumption == IsFiniteSet(Keys)
ASSUME NilAssumption == Nil \notin Values

Stores == [Keys -> Values \cup {Nil}]

EmptyStore == [k \in Keys |-> Nil]

(* One key for SET and GET, a set of keys for DEL: a key that a DEL names twice
   is erased and counted once by the participant, so a set loses nothing.      *)
SetRequests == [method : {"SET"}, keys : {{k} : k \in Keys}, value : Values]
GetRequests == [method : {"GET"}, keys : {{k} : k \in Keys}, value : {Nil}]
DelRequests == [method : {"DEL"}, keys : (SUBSET Keys) \ {{}}, value : {Nil}]

Writes == SetRequests \cup DelRequests
Requests == Writes \cup GetRequests

(* What the requests mean for one store, independently of the protocol. *)
Apply(op, store) ==
    [k \in Keys |-> IF op.method # "GET" /\ k \in op.keys THEN op.value ELSE store[k]]

Present(op, store) == {k \in op.keys : store[k] # Nil}

KeyOf(op) == CHOOSE k \in op.keys : TRUE

NoRequest == [method |-> "none", keys |-> {}, value |-> Nil]

(* Answers to the client. *)
OK == [type |-> "+OK", value |-> Nil]
ERROR == [type |-> "-ERROR", value |-> Nil]
ValueReply(v) == [type |-> "*", value |-> v]
CountReply(n) == [type |-> ":", value |-> n]
NoReply == [type |-> "none", value |-> Nil]

(* The answer that a single store would give. *)
Result(op, store) ==
    CASE op.method = "SET" -> OK
      [] op.method = "GET" -> ValueReply(store[KeyOf(op)])
      [] op.method = "DEL" -> CountReply(Cardinality(Present(op, store)))
=============================================================================
