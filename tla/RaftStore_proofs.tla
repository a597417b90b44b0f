-------------------------- MODULE RaftStore_proofs --------------------------
(***************************************************************************)
(* The types of RaftStore, the role of node 0 and the agreement of the     *)
(* threads of each node, that a client is redirected at most once, that    *)
(* the nodes implement one atomic store while node 0 stays, that no vote   *)
(* is made up, and that the followers come to hold the same: for every     *)
(* number of nodes, every set of commands and all bounds.                  *)
(***************************************************************************)
EXTENDS RaftStore, FiniteSetTheorems, WellFoundedInduction, TLAPS

-----------------------------------------------------------------------------
(* Sequences of messages. *)

(* The elements of a sequence after an append. *)
LEMMA AppendElements ==
    ASSUME NEW S, NEW s \in Seq(S), NEW e \in S
    PROVE  /\ Append(s, e) \in Seq(S)
           /\ \A i \in DOMAIN Append(s, e) :
                Append(s, e)[i] = e \/ \E j \in DOMAIN s : s[j] = Append(s, e)[i]
OBVIOUS

(* The elements of a sequence without its first one. *)
LEMMA TailElements ==
    ASSUME NEW S, NEW s \in Seq(S), s # <<>>
    PROVE  /\ Tail(s) \in Seq(S)
           /\ Len(Tail(s)) = Len(s) - 1
           /\ Head(s) \in S
           /\ \E j \in DOMAIN s : s[j] = Head(s)
           /\ \A i \in DOMAIN Tail(s) : \E j \in DOMAIN s : s[j] = Tail(s)[i]
<1>1. Tail(s) \in Seq(S) /\ Len(Tail(s)) = Len(s) - 1 /\ Head(s) \in S
  OBVIOUS
<1>2. 1 \in DOMAIN s /\ s[1] = Head(s)
  OBVIOUS
<1>3. \A i \in DOMAIN Tail(s) : i + 1 \in DOMAIN s /\ s[i + 1] = Tail(s)[i]
  OBVIOUS
<1> QED
  BY <1>1, <1>2, <1>3

(* What the words of a command and of its COMMIT message are. *)
LEMMA CommandType ==
    ASSUME NEW c \in Commands
    PROVE  /\ c.method \in {"SET", "GET", "DEL", "other"}
           /\ c.words \in Seq(Keys) /\ c.words # <<>>
           /\ c.words[1] \in Keys
           /\ Tail(c.words) \in Seq(Keys)
           /\ c.method = "SET" =>
                /\ Tail(c.words) \in Values /\ Tail(Tail(c.words)) \in Values
                /\ Tail(c.words)[1] \in Keys
<1>1. /\ c.method \in {"SET", "GET", "DEL", "other"}
      /\ c.words \in Seq(Keys) /\ c.words # <<>>
      /\ c.method = "SET" =>
            Len(c.words) > 1 /\ {Tail(c.words), Tail(Tail(c.words))} \subseteq Values
  BY CommandsAssumption
<1>2. c.words[1] \in Keys /\ Tail(c.words) \in Seq(Keys) /\ Len(Tail(c.words)) = Len(c.words) - 1
  BY <1>1
<1>3. Len(c.words) > 1 => Tail(c.words)[1] \in Keys
  BY <1>1, <1>2
<1> QED
  BY <1>1, <1>2, <1>3

(* Which message a type stands for. *)
LEMMA MessageKinds ==
    ASSUME NEW m \in Messages
    PROVE  /\ m.type = "$" => \E c \in Commands : m = Request(c)
           /\ m.type = "COMMIT" => \E c \in Commands : m = CommitMessage(c)
           /\ m.type = "RequestVote" => \E n \in Nodes : m = RequestVote(n)
           /\ m.type = "AgreeVote" => m = AgreeVote
           /\ m.type = "HeartBeat" => m = HeartBeat
BY DEF Messages, Request, CommitMessage, COMMIT, RequestVote, AgreeVote, HeartBeat

(* A message that is sent is in no inbox but the receiver's, where it is last. *)
LEMMA SentToElements ==
    ASSUME up \in [Nodes -> BOOLEAN], NEW boxes \in [Nodes -> Seq(Messages)],
           NEW m \in Nodes, NEW msg \in Messages
    PROVE  /\ SentTo(m, msg, boxes) \in [Nodes -> Seq(Messages)]
           /\ \A k \in Nodes : \A i \in DOMAIN SentTo(m, msg, boxes)[k] :
                \/ \E j \in DOMAIN boxes[k] : boxes[k][j] = SentTo(m, msg, boxes)[k][i]
                \/ k = m /\ up[m] /\ SentTo(m, msg, boxes)[k][i] = msg
<1>1. CASE up[m]
  <2>1. SentTo(m, msg, boxes) = [boxes EXCEPT ![m] = Append(boxes[m], msg)]
    BY <1>1 DEF SentTo
  <2>2. boxes[m] \in Seq(Messages)
    OBVIOUS
  <2> QED
    BY <1>1, <2>1, <2>2, AppendElements
<1>2. CASE ~up[m]
  BY <1>2 DEF SentTo
<1> QED
  BY <1>1, <1>2

(* A message that was consumed was the first of its inbox. *)
LEMMA ConsumedElements ==
    ASSUME inbox \in [Nodes -> Seq(Messages)], NEW n \in Nodes, inbox[n] # <<>>
    PROVE  /\ Consumed(n) \in [Nodes -> Seq(Messages)]
           /\ Head(inbox[n]) \in Messages
           /\ \E j \in DOMAIN inbox[n] : inbox[n][j] = Head(inbox[n])
           /\ \A k \in Nodes : \A i \in DOMAIN Consumed(n)[k] :
                \E j \in DOMAIN inbox[k] : inbox[k][j] = Consumed(n)[k][i]
<1>1. inbox[n] \in Seq(Messages)
  OBVIOUS
<1> QED
  BY <1>1, TailElements DEF Consumed

-----------------------------------------------------------------------------
(* Types. *)

(* A new process has fields of the right types. *)
LEMMA ConstructedType == \A n \in Nodes : Constructed(n) \in NodeStates
BY NumNodesAssumption
   DEF Constructed, NodeStates, MainStates, Accepting, Garbage, Waiting, Nodes, NoCommand

(* Erasing keys leaves a store. *)
LEMMA EraseType ==
    ASSUME NEW store \in Stores, NEW keys
    PROVE  Erase(store, keys) \in Stores
BY DEF Erase, Stores

(* The number of keys that a DEL erases is at most the number of keys. *)
LEMMA CountType ==
    ASSUME NEW cmd \in Commands, NEW store \in Stores
    PROVE  successDelCnt(cmd, store) \in 0 .. Cardinality(Keys)
<1>1. WordsOf(cmd.words) \subseteq Keys
  BY CommandType DEF WordsOf
<1>2. {k \in WordsOf(cmd.words) : store[k] # Nil} \subseteq Keys
  BY <1>1
<1> QED
  BY <1>2, KeysAssumption, FS_Subset, FS_CardinalityType DEF successDelCnt

(* The types hold when all processes have started. *)
LEMMA InitType == Init => TypeOK
<1> SUFFICES ASSUME Init PROVE TypeOK
  OBVIOUS
<1>1. node \in [Nodes -> NodeStates]
  BY ConstructedType DEF Init
<1>2. kvdb \in [Nodes -> Stores] /\ up \in [Nodes -> BOOLEAN]
  BY DEF Init, Stores, EmptyStore
<1>3. inbox \in [Nodes -> Seq(Messages)]
  BY DEF Init
<1>4. client \in [cmd : Commands \cup {NoCommand}, to : Nodes, redirects : Nat]
  BY NumNodesAssumption DEF Init, NoRequestSent, Nodes
<1>5. answer \in Replies /\ reply \in Replies
  BY DEF Init, Replies
<1> QED
  BY <1>1, <1>2, <1>3, <1>4, <1>5 DEF TypeOK

(* What every message-handling step starts from. *)
LEMMA AcceptsType ==
    ASSUME TypeOK, NEW n \in Nodes, NEW type, Accepts(n, type)
    PROVE  /\ Consumed(n) \in [Nodes -> Seq(Messages)]
           /\ Head(inbox[n]) \in Messages /\ Head(inbox[n]).type = type
           /\ node[n] \in NodeStates /\ up[n] /\ node[n].main = Accepting
BY ConsumedElements DEF TypeOK, Accepts

(* A process that stops leaves a state of the right type. *)
LEMMA StopType ==
    ASSUME TypeOK, NEW n \in Nodes, Stop(n), UNCHANGED <<client, reply>>
    PROVE  TypeOK'
<1>1. node' \in [Nodes -> NodeStates] /\ up' \in [Nodes -> BOOLEAN]
  BY ConstructedType DEF TypeOK, Stop
<1>2. kvdb' \in [Nodes -> Stores]
  BY DEF TypeOK, Stop, Stores, EmptyStore
<1>3. inbox' \in [Nodes -> Seq(Messages)]
  BY DEF TypeOK, Stop
<1>4. answer' \in Replies \cup {ConnectionClosed} \cup {LeaderInfo(m) : m \in Nodes}
  BY DEF TypeOK, Stop
<1> QED
  BY <1>1, <1>2, <1>3, <1>4 DEF TypeOK

(* Whatever message the accept loop handles, the types are kept. *)
LEMMA AcceptType ==
    ASSUME TypeOK, NEW n \in Nodes, Accept(n)
    PROVE  TypeOK'
<1> USE NumNodesAssumption
<1>0. node[n] \in NodeStates /\ node[n].main \in MainStates
  BY DEF TypeOK, NodeStates
<1>1. CASE sendLeaderInfo(n)
  <2>1. inbox' \in [Nodes -> Seq(Messages)]
    BY <1>1, AcceptsType DEF sendLeaderInfo
  <2>2. node' \in [Nodes -> NodeStates]
    <3>1. node[n].main = Accepting
      BY <1>1 DEF sendLeaderInfo, Accepts
    <3>2. node' = [node EXCEPT ![n] = [node[n] EXCEPT !.main = [Accepting EXCEPT !.at = "closing"]]]
      BY <1>1, <3>1 DEF sendLeaderInfo
    <3>3. [Accepting EXCEPT !.at = "closing"] \in MainStates
      BY DEF Accepting, MainStates
    <3> QED
      BY <1>0, <3>2, <3>3 DEF TypeOK, NodeStates
  <2>3. answer' \in {LeaderInfo(m) : m \in Nodes}
    BY <1>1, <1>0 DEF sendLeaderInfo, NodeStates
  <2> QED
    BY <1>1, <2>1, <2>2, <2>3 DEF sendLeaderInfo, TypeOK
<1>2. CASE CloseAgain(n)
  <2>1. node' \in [Nodes -> NodeStates]
    BY <1>2, <1>0 DEF CloseAgain, TypeOK, NodeStates, MainStates, Accepting
  <2> QED
    BY <1>2, <2>1 DEF CloseAgain, TypeOK, clientVars
<1>3. CASE HandleGET(n)
  <2>1. inbox' \in [Nodes -> Seq(Messages)]
    BY <1>3, AcceptsType DEF HandleGET
  <2>2. PICK c \in Commands : Head(inbox[n]) = Request(c)
    BY <1>3, AcceptsType, MessageKinds DEF HandleGET
  <2>3. kvdb[n][c.words[1]] \in Values \cup {Nil}
    BY CommandType DEF TypeOK, Stores
  <2>4. answer' = ValueReply(kvdb[n][c.words[1]])
    <3>1. answer' = ValueReply(kvdb[n][Head(inbox[n]).cmd.words[1]])
      BY <1>3, Zenon DEF HandleGET
    <3>2. Head(inbox[n]).cmd = c
      BY <2>2 DEF Request
    <3> QED
      BY <3>1, <3>2, Zenon
  <2>5. answer' \in Replies
    BY <2>3, <2>4 DEF Replies
  <2> QED
    BY <1>3, <2>1, <2>5 DEF HandleGET, TypeOK
<1>4. CASE HandleWrite(n)
  <2>1. inbox' \in [Nodes -> Seq(Messages)]
    BY <1>4, AcceptsType DEF HandleWrite
  <2>2. PICK c \in Commands : Head(inbox[n]) = Request(c)
    BY <1>4, AcceptsType, MessageKinds DEF HandleWrite
  <2>3. node' = [node EXCEPT ![n].main = [at |-> "commit", cmd |-> c, idx |-> 0]]
    <3>1. Head(inbox[n]).cmd = c
      BY <2>2 DEF Request
    <3>2. node' = [node EXCEPT
             ![n].main = [at |-> "commit", cmd |-> Head(inbox[n]).cmd, idx |-> 0]]
      BY <1>4, Zenon DEF HandleWrite
    <3> QED
      BY <3>1, <3>2, Zenon
  <2>4. [at |-> "commit", cmd |-> c, idx |-> 0] \in MainStates
    BY DEF MainStates
  <2>5. node' \in [Nodes -> NodeStates]
    BY <1>0, <2>3, <2>4 DEF TypeOK, NodeStates
  <2>6. answer' \in Replies \cup {ConnectionClosed} \cup {LeaderInfo(m) : m \in Nodes}
    <3>1. answer' \in {ERROR, answer}
      BY <1>4, Zenon DEF HandleWrite
    <3> QED
      BY <3>1 DEF TypeOK, Replies
  <2> QED
    BY <1>4, <2>1, <2>5, <2>6 DEF HandleWrite, TypeOK
<1>5. CASE sendCommitinfo(n)
  <2>1. /\ node[n].main.cmd \in Commands /\ node[n].main.idx \in Nat
        /\ node[n].main.idx < NumNodes /\ node[n].main.at = "commit"
    BY <1>5, <1>0 DEF sendCommitinfo, MainStates, ReplicasAsked
  <2>2. CommitMessage(node[n].main.cmd) \in Messages /\ node[n].main.idx \in Nodes
    BY <2>1 DEF Messages, Nodes
  <2>3. inbox' \in [Nodes -> Seq(Messages)]
    BY <1>5, <2>2, SentToElements DEF sendCommitinfo, TypeOK
  <2>4. [node[n].main EXCEPT !.idx = @ + 1] \in MainStates
    BY <1>0, <2>1 DEF MainStates
  <2>5. node' = [node EXCEPT ![n] = [node[n] EXCEPT !.main = [node[n].main EXCEPT !.idx = @ + 1]]]
    BY <1>5 DEF sendCommitinfo
  <2>6. node' \in [Nodes -> NodeStates]
    BY <1>0, <2>4, <2>5 DEF TypeOK, NodeStates
  <2> QED
    BY <1>5, <2>3, <2>6 DEF sendCommitinfo, TypeOK, clientVars
<1>6. CASE Commit(n)
  <2>1. node[n].main.cmd \in Commands
    BY <1>6, <1>0 DEF Commit, MainStates
  <2>2. node' \in [Nodes -> NodeStates]
    BY <1>6, <1>0 DEF Commit, TypeOK, NodeStates, MainStates, Accepting
  <2> DEFINE cmd == node[n].main.cmd
  <2>3. kvdb' \in [Nodes -> Stores]
    <3>1. CASE cmd.method = "SET"
      <4>1. kvdb' = [kvdb EXCEPT ![n] = [kvdb[n] EXCEPT ![cmd.words[1]] = Tail(cmd.words)]]
        BY <1>6, <3>1 DEF Commit
      <4>2. [kvdb[n] EXCEPT ![cmd.words[1]] = Tail(cmd.words)] \in Stores
        BY <2>1, <3>1, CommandType DEF TypeOK, Stores
      <4> QED
        BY <4>1, <4>2 DEF TypeOK
    <3>2. CASE cmd.method = "DEL"
      <4>1. kvdb' = [kvdb EXCEPT ![n] = Erase(kvdb[n], WordsOf(cmd.words))]
        BY <1>6, <3>2 DEF Commit
      <4> QED
        BY <4>1, EraseType DEF TypeOK
    <3>3. CASE cmd.method \notin {"SET", "DEL"}
      BY <1>6, <3>3 DEF Commit, TypeOK
    <3> QED
      BY <3>1, <3>2, <3>3
  <2>4. answer' \in Replies \cup {ConnectionClosed} \cup {LeaderInfo(m) : m \in Nodes}
    <3>1. CASE cmd.method = "SET"
      BY <1>6, <3>1 DEF Commit, Replies
    <3>2. CASE cmd.method = "DEL"
      <4>1. successDelCnt(cmd, kvdb[n]) \in 0 .. Cardinality(Keys)
        BY <2>1, CountType DEF TypeOK
      <4>2. answer' = CountReply(successDelCnt(cmd, kvdb[n]))
        BY <1>6, <3>2 DEF Commit
      <4> QED
        BY <4>1, <4>2 DEF Replies
    <3>3. CASE cmd.method \notin {"SET", "DEL"}
      BY <1>6, <3>3 DEF Commit, TypeOK
    <3> QED
      BY <3>1, <3>2, <3>3
  <2> QED
    BY <1>6, <2>2, <2>3, <2>4 DEF Commit, TypeOK
<1>7. CASE handleCommitRequest(n)
  <2>1. inbox' \in [Nodes -> Seq(Messages)]
    BY <1>7, AcceptsType DEF handleCommitRequest
  <2>2. PICK c \in Commands : Head(inbox[n]) = CommitMessage(c)
    BY <1>7, AcceptsType, MessageKinds DEF handleCommitRequest
  <2> DEFINE words == Tail(c.words)
  <2>3. Head(inbox[n]) = [type |-> "COMMIT", method |-> c.method, words |-> words]
    BY <2>2 DEF CommitMessage, COMMIT
  <2> HIDE DEF words
  <2>4. Head(inbox[n]).method = c.method /\ Head(inbox[n]).words = words
    BY <2>3
  <2> USE DEF words
  <2>5. kvdb' \in [Nodes -> Stores]
    <3>1. CASE c.method = "SET"
      <4>1. kvdb' = [kvdb EXCEPT ![n] = [kvdb[n] EXCEPT ![Tail(c.words)[1]] = Tail(Tail(c.words))]]
        BY <1>7, <2>4, <3>1 DEF handleCommitRequest
      <4>2. [kvdb[n] EXCEPT ![Tail(c.words)[1]] = Tail(Tail(c.words))] \in Stores
        BY <3>1, CommandType DEF TypeOK, Stores
      <4> QED
        BY <4>1, <4>2 DEF TypeOK
    <3>2. CASE c.method # "SET"
      <4>1. kvdb' = [kvdb EXCEPT ![n] = Erase(kvdb[n], WordsOf(Tail(c.words)))]
        BY <1>7, <2>4, <3>2 DEF handleCommitRequest
      <4> QED
        BY <4>1, EraseType DEF TypeOK
    <3> QED
      BY <3>1, <3>2
  <2> QED
    BY <1>7, <2>1, <2>5 DEF handleCommitRequest, TypeOK, clientVars
<1>8. CASE handleHeartBeat(n)
  <2>1. inbox' \in [Nodes -> Seq(Messages)]
    BY <1>8, AcceptsType DEF handleHeartBeat
  <2>2. node' \in [Nodes -> NodeStates]
    BY <1>8, <1>0 DEF handleHeartBeat, TypeOK, NodeStates
  <2> QED
    BY <1>8, <2>1, <2>2 DEF handleHeartBeat, TypeOK, clientVars
<1>9. CASE handleRequestVote(n)
  <2>1. PICK m \in Nodes : Head(inbox[n]) = RequestVote(m)
    BY <1>9, AcceptsType, MessageKinds DEF handleRequestVote
  <2>2. inbox' = SentTo(m, AgreeVote, Consumed(n))
    BY <1>9, <2>1 DEF handleRequestVote, RequestVote
  <2>3. AgreeVote \in Messages /\ Consumed(n) \in [Nodes -> Seq(Messages)]
    BY <1>9, AcceptsType DEF handleRequestVote, Messages
  <2>4. inbox' \in [Nodes -> Seq(Messages)]
    BY <2>2, <2>3, SentToElements DEF TypeOK
  <2>5. node' \in [Nodes -> NodeStates]
    BY <1>9, <1>0 DEF handleRequestVote, TypeOK, NodeStates
  <2> QED
    BY <1>9, <2>4, <2>5 DEF handleRequestVote, TypeOK, clientVars
<1>10. CountVote(n) \in [Nodes -> NodeStates]
  <2>1. [node[n] EXCEPT !.votes = @ + 1] \in NodeStates
    BY <1>0 DEF NodeStates
  <2>2. \/ CountVote(n) = node
        \/ CountVote(n) = [node EXCEPT ![n] = [node[n] EXCEPT !.votes = @ + 1]]
    BY DEF CountVote
  <2> QED
    BY <2>1, <2>2 DEF TypeOK
<1>11. CASE handleRecvVote(n)
  <2>1. inbox' \in [Nodes -> Seq(Messages)]
    BY <1>11, AcceptsType DEF handleRecvVote
  <2> QED
    BY <1>10, <1>11, <2>1 DEF handleRecvVote, TypeOK, clientVars
<1>12. CASE becomeLeader(n)
  <2>1. inbox' \in [Nodes -> Seq(Messages)] /\ node[n].main = Accepting
    BY <1>12, AcceptsType DEF becomeLeader
  <2> DEFINE x == CountVote(n)[n]
             y == [x.main EXCEPT !.at = "leading"]
  <2>1a. x \in NodeStates
    BY <1>10
  <2>1b. x.main = node[n].main
    <3>1. [node[n] EXCEPT !.votes = @ + 1].main = node[n].main
      BY <1>0 DEF NodeStates
    <3> QED
      BY <3>1 DEF CountVote, TypeOK
  <2>1c. y \in MainStates
    BY <2>1, <2>1b DEF MainStates, Accepting
  <2>2. [x EXCEPT !.state = "Leader", !.main = y] \in NodeStates
    <3> HIDE DEF x, y
    <3> QED
      BY <2>1a, <2>1c DEF NodeStates
  <2>3. node' = [CountVote(n) EXCEPT ![n] = [x EXCEPT !.state = "Leader", !.main = y]]
    <3>1. node' = [CountVote(n) EXCEPT ![n].state = "Leader", ![n].main.at = "leading"]
      BY <1>12 DEF becomeLeader
    <3>2. [x EXCEPT !.state = "Leader"].main = x.main
      <4> HIDE DEF x
      <4> QED
        BY <2>1a DEF NodeStates
    <3> HIDE DEF x
    <3> QED
      BY <1>10, <3>1, <3>2 DEF x
  <2>4. node' \in [Nodes -> NodeStates]
    BY <1>10, <2>2, <2>3
  <2> QED
    BY <1>12, <2>1, <2>4 DEF becomeLeader, TypeOK, clientVars
<1>13. CASE nameLeader(n)
  <2> DEFINE y == [node[n].main EXCEPT !.at = "named"]
  <2>1. node' = [node EXCEPT ![n] = [node[n] EXCEPT !.leader = n, !.main = y]]
    <3>1. node' = [node EXCEPT ![n].leader = n, ![n].main.at = "named"]
      BY <1>13 DEF nameLeader
    <3>2. [node[n] EXCEPT !.leader = n].main = node[n].main
      BY <1>0 DEF NodeStates
    <3> QED
      BY <3>1, <3>2 DEF TypeOK
  <2>2. node[n].main \in [at : {"accept", "closing", "leading", "named"},
                          cmd : {NoCommand}, idx : {0}]
    BY <1>13, <1>0 DEF nameLeader, MainStates
  <2>3. y \in MainStates
    BY <2>2 DEF MainStates
  <2>4. [node[n] EXCEPT !.leader = n, !.main = y] \in NodeStates
    <3> HIDE DEF y
    <3> QED
      BY <1>0, <2>3 DEF NodeStates
  <2>5. node' \in [Nodes -> NodeStates]
    BY <2>1, <2>4 DEF TypeOK
  <2> QED
    BY <1>13, <2>5 DEF nameLeader, TypeOK, clientVars
<1>14. CASE startHeartBeat(n)
  <2>1. Accepting \in MainStates
    BY DEF Accepting, MainStates
  <2>2. [node[n] EXCEPT !.beats = TRUE, !.main = Accepting] \in NodeStates
    BY <1>0, <2>1 DEF NodeStates
  <2>3. node' = [node EXCEPT ![n] = [node[n] EXCEPT !.beats = TRUE, !.main = Accepting]]
    BY <1>14 DEF startHeartBeat, TypeOK
  <2>4. node' \in [Nodes -> NodeStates]
    BY <2>2, <2>3 DEF TypeOK
  <2> QED
    BY <1>14, <2>4 DEF startHeartBeat, TypeOK, clientVars
<1>15. CASE startHeartBeatAgain(n)
  BY <1>15, StopType DEF startHeartBeatAgain
<1> QED
  BY <1>1, <1>2, <1>3, <1>4, <1>5, <1>6, <1>7, <1>8, <1>9, <1>11, <1>12, <1>13, <1>14, <1>15
     DEF Accept

(* The steps of the other threads and of the client. *)
LEMMA TimerType ==
    ASSUME TypeOK, NEW n \in Nodes, NewPeriod(n) \/ Expire(n)
    PROVE  TypeOK'
<1>0. node[n] \in NodeStates
  BY DEF TypeOK
<1>1. node' \in [Nodes -> NodeStates]
  <2>1. CASE NewPeriod(n)
    <3> DEFINE t == IF node[n].state = "Follower" THEN "running" ELSE "ended"
    <3>1. node' = [node EXCEPT ![n] = [node[n] EXCEPT !.heard = FALSE, !.timer = t]]
      BY <2>1 DEF NewPeriod
    <3>2. [node[n] EXCEPT !.heard = FALSE, !.timer = t] \in NodeStates
      BY <1>0 DEF NodeStates
    <3> HIDE DEF t
    <3> QED
      BY <3>1, <3>2 DEF TypeOK
  <2>2. CASE Expire(n)
    <3>1. node' = [node EXCEPT ![n] = [node[n] EXCEPT !.timer = "expired"]]
      BY <2>2 DEF Expire
    <3>2. [node[n] EXCEPT !.timer = "expired"] \in NodeStates
      BY <1>0 DEF NodeStates
    <3> QED
      BY <3>1, <3>2 DEF TypeOK
  <2> QED
    BY <2>1, <2>2
<1>2. UNCHANGED <<kvdb, up, inbox, clientVars>>
  BY DEF NewPeriod, Expire
<1> QED
  BY <1>1, <1>2 DEF TypeOK, clientVars

(* So they are by the election thread. *)
LEMMA ElectionType ==
    ASSUME TypeOK, NEW n \in Nodes,
           becomeCandidate(n) \/ sendRequestVote(n) \/ LoseRequestVote(n)
    PROVE  TypeOK'
<1> USE NumNodesAssumption
<1>0. node[n] \in NodeStates
  BY DEF TypeOK
<1>1. node' \in [Nodes -> NodeStates]
  <2>1. CASE becomeCandidate(n)
    <3>1. node' = [node EXCEPT ![n] =
                     [node[n] EXCEPT !.state = "Candidate", !.votes = 1, !.asks = 0]]
      BY <2>1 DEF becomeCandidate
    <3>2. [node[n] EXCEPT !.state = "Candidate", !.votes = 1, !.asks = 0] \in NodeStates
      <4>1. 0 \in Waiting .. NumNodes
        BY DEF Waiting
      <4> QED
        BY <1>0, <4>1 DEF NodeStates
    <3> QED
      BY <3>1, <3>2 DEF TypeOK
  <2>2. CASE sendRequestVote(n) \/ LoseRequestVote(n)
    <3>1. node' = [node EXCEPT ![n] = [node[n] EXCEPT !.asks = node[n].asks + 1]]
      BY <2>2 DEF sendRequestVote, LoseRequestVote
    <3>2. node[n].asks \in Nodes
      BY <2>2 DEF sendRequestVote, LoseRequestVote
    <3>3. node[n].asks + 1 \in Waiting .. NumNodes
      BY <3>2 DEF Nodes, Waiting
    <3>4. [node[n] EXCEPT !.asks = node[n].asks + 1] \in NodeStates
      BY <1>0, <3>3 DEF NodeStates
    <3> QED
      BY <3>1, <3>4 DEF TypeOK
  <2> QED
    BY <2>1, <2>2
<1>2. inbox' \in [Nodes -> Seq(Messages)]
  <2>1. CASE sendRequestVote(n)
    <3>1. RequestVote(n) \in Messages /\ node[n].asks \in Nodes
      BY <2>1 DEF sendRequestVote, Messages
    <3>2. SentTo(node[n].asks, RequestVote(n), inbox) \in [Nodes -> Seq(Messages)]
      BY <3>1, SentToElements DEF TypeOK
    <3>3. inbox' = SentTo(node[n].asks, RequestVote(n), inbox) \/ inbox' = inbox
      BY <2>1, Zenon DEF sendRequestVote
    <3>4. inbox \in [Nodes -> Seq(Messages)]
      BY DEF TypeOK
    <3> QED
      BY <3>2, <3>3, <3>4
  <2>2. CASE becomeCandidate(n) \/ LoseRequestVote(n)
    BY <2>2 DEF becomeCandidate, LoseRequestVote, TypeOK
  <2> QED
    BY <2>1, <2>2
<1>3. UNCHANGED <<kvdb, up, clientVars>>
  BY DEF becomeCandidate, sendRequestVote, LoseRequestVote
<1> QED
  BY <1>1, <1>2, <1>3 DEF TypeOK, clientVars

(* So they are by heartbeats. *)
LEMMA HeartBeatType ==
    ASSUME TypeOK, NEW n \in Nodes, NEW m \in Nodes, SendHeartBeat(n, m)
    PROVE  TypeOK'
<1>1. HeartBeat \in Messages
  BY DEF Messages
<1>2. inbox' \in [Nodes -> Seq(Messages)]
  BY <1>1, SentToElements DEF SendHeartBeat, TypeOK
<1> QED
  BY <1>2 DEF SendHeartBeat, TypeOK, clientVars

(* So they are by a request of the client. *)
LEMMA SendRequestType ==
    ASSUME TypeOK, NEW c \in Commands, NEW n \in Nodes, SendRequest(c, n)
    PROVE  TypeOK'
<1>1. Request(c) \in Messages
  BY DEF Messages
<1>2. inbox' \in [Nodes -> Seq(Messages)]
  BY <1>1, SentToElements DEF SendRequest, TypeOK
<1>3. client' \in [cmd : Commands \cup {NoCommand}, to : Nodes, redirects : Nat]
  BY DEF SendRequest
<1>4. answer' \in Replies /\ reply' \in Replies
  BY DEF SendRequest, Replies
<1>5. UNCHANGED <<node, kvdb, up>>
  BY DEF SendRequest
<1> QED
  BY <1>2, <1>3, <1>4, <1>5 DEF TypeOK

(* The types of the answers tell them apart. *)
LEMMA AnswerKinds ==
    ASSUME TypeOK
    PROVE  /\ answer.type \in {OK.type, ERROR.type, "*", ":"} => answer \in Replies
           /\ answer.type = "leader" => answer.value \in Nodes
<1>1. \/ answer \in Replies \/ answer = ConnectionClosed
      \/ \E m \in Nodes : answer = LeaderInfo(m)
  BY DEF TypeOK
<1>2. CASE answer \in Replies
  BY <1>2 DEF Replies, OK, ERROR, NoReply, ValueReply, CountReply
<1>3. CASE answer = ConnectionClosed
  BY <1>3 DEF ConnectionClosed, OK, ERROR
<1>4. CASE \E m \in Nodes : answer = LeaderInfo(m)
  BY <1>4 DEF LeaderInfo, OK, ERROR
<1> QED
  BY <1>1, <1>2, <1>3, <1>4

(* So they are by whatever the client does next. *)
LEMMA ClientType ==
    ASSUME TypeOK, ClientStep
    PROVE  TypeOK'
<1> USE NumNodesAssumption
<1>0. NoRequestSent \in [cmd : Commands \cup {NoCommand}, to : Nodes, redirects : Nat]
  BY DEF NoRequestSent, Nodes
<1>1. CASE ReceiveAnswer
  <2>1. client' = NoRequestSent /\ answer' = NoReply /\ reply' = answer
    BY <1>1 DEF ReceiveAnswer
  <2>2. answer \in Replies /\ NoReply \in Replies
    BY <1>1, AnswerKinds DEF ReceiveAnswer, Replies
  <2> QED
    BY <1>0, <1>1, <2>1, <2>2 DEF ReceiveAnswer, TypeOK
<1>2. CASE FollowRedirect
  <2>1. answer.value \in Nodes /\ client.cmd \in Commands
    BY <1>2, AnswerKinds DEF FollowRedirect, TypeOK
  <2>2. Request(client.cmd) \in Messages
    BY <2>1 DEF Messages
  <2>3. inbox' \in [Nodes -> Seq(Messages)]
    BY <1>2, <2>1, <2>2, SentToElements DEF FollowRedirect, TypeOK
  <2>4. client' \in [cmd : Commands \cup {NoCommand}, to : Nodes, redirects : Nat]
    <3>1. client.redirects + 1 \in Nat
      BY DEF TypeOK
    <3>2. [client EXCEPT !.to = answer.value, !.redirects = client.redirects + 1]
              \in [cmd : Commands \cup {NoCommand}, to : Nodes, redirects : Nat]
      BY <2>1, <3>1 DEF TypeOK
    <3> QED
      BY <1>2, <3>2 DEF FollowRedirect
  <2>5. answer' \in Replies
    BY <1>2 DEF FollowRedirect, Replies
  <2> QED
    BY <1>2, <2>3, <2>4, <2>5 DEF FollowRedirect, TypeOK
<1>3. CASE NoAnswer
  <2>1. client' = NoRequestSent /\ answer' \in Replies
    BY <1>3 DEF NoAnswer, Replies
  <2> QED
    BY <1>0, <1>3, <2>1 DEF NoAnswer, TypeOK
<1> QED
  BY <1>1, <1>2, <1>3 DEF ClientStep

(* RaftTypeOK: every field keeps its type, for every number of nodes, every set
   of commands and every choice of crashes. *)
THEOREM RaftTypeOK == Spec => []TypeOK
<1>1. Init => TypeOK
  BY InitType
<1>2. TypeOK /\ [Next]_vars => TypeOK'
  <2> SUFFICES ASSUME TypeOK, [Next]_vars PROVE TypeOK'
    OBVIOUS
  <2>1. ASSUME NEW n \in Nodes, Accept(n) PROVE TypeOK'
    BY <2>1, AcceptType
  <2>2. ASSUME NEW n \in Nodes, Timer(n) \/ ExpireLate(n) PROVE TypeOK'
    BY <2>2, TimerType DEF Timer, ExpireQuiet, ExpireLate
  <2>3. ASSUME NEW n \in Nodes, Election(n) \/ LoseRequestVote(n) PROVE TypeOK'
    BY <2>3, ElectionType DEF Election
  <2>4. ASSUME NEW n \in Nodes, HeartBeats(n) PROVE TypeOK'
    BY <2>4, HeartBeatType DEF HeartBeats
  <2>5. ASSUME NEW n \in Nodes, Crash(n) PROVE TypeOK'
    BY <2>5, StopType DEF Crash
  <2>6. ASSUME NEW n \in Nodes, Restart(n) PROVE TypeOK'
    BY <2>6 DEF Restart, TypeOK, clientVars
  <2>7. ASSUME NEW c \in Commands, NEW n \in Contacts, SendRequest(c, n) PROVE TypeOK'
    BY <2>7, NodesAssumption, SendRequestType
  <2>8. CASE ClientStep
    BY <2>8, ClientType
  <2>9. CASE UNCHANGED vars
    BY <2>9 DEF vars, clientVars, TypeOK
  <2> QED
    BY <2>1, <2>2, <2>3, <2>4, <2>5, <2>6, <2>7, <2>8, <2>9 DEF Next
<1> QED
  BY <1>1, <1>2, PTL DEF Spec

-----------------------------------------------------------------------------
(* Roles.  ThreadsFitRole is not inductive: that a leader never becomes a
   candidate again depends on its election thread having run, and that depends
   on votes never reaching a node that has not asked for them. *)

(* Node 0, which stays what the constructor made it, and nodes that run as the
   process they first were. *)
Fresh(n) == n = 0 \/ (up[n] /\ n \notin spent.restarts)

NoVotesFor(n) ==
    /\ \A m \in Nodes : \A i \in DOMAIN inbox[m] : inbox[m][i] # RequestVote(n)
    /\ \A i \in DOMAIN inbox[n] : inbox[n][i] # AgreeVote

NoStaleVotes ==
    \A n \in Nodes : Fresh(n) /\ node[n].asks = Waiting => NoVotesFor(n)

FirstRole ==
    /\ node[0].state = "Leader" /\ node[0].leader = 0 /\ node[0].beats = TRUE
    /\ node[0].timer = "none" /\ node[0].asks = Waiting /\ ~Naming(0)

RoleFits(n) ==
    \/ /\ node[n].state = "Follower" /\ node[n].timer \in {"running", "expired"}
       /\ node[n].asks = Waiting /\ node[n].beats = FALSE /\ ~Naming(n)
    \/ /\ node[n].state = "Candidate" /\ node[n].timer = "expired"
       /\ node[n].asks # Waiting /\ node[n].beats = FALSE /\ ~Naming(n)
    \/ /\ node[n].state = "Leader" /\ node[n].timer = "expired" /\ node[n].asks # Waiting
       /\ \/ node[n].beats = TRUE /\ node[n].leader = n
          \/ node[n].beats = FALSE /\ node[n].main.at = "leading"
          \/ node[n].beats = FALSE /\ node[n].main.at = "named" /\ node[n].leader = n

OtherRoles == \A n \in Nodes \ {0} : Fresh(n) => RoleFits(n)

RestartsKnown == "restarts" \in DOMAIN spent

RoleInv == NoStaleVotes /\ FirstRole /\ OtherRoles /\ RestartsKnown

(* What most steps leave alone. *)
SameRole(n) ==
    /\ node[n].state' = node[n].state /\ node[n].leader' = node[n].leader
    /\ node[n].timer' = node[n].timer /\ node[n].asks' = node[n].asks
    /\ node[n].beats' = node[n].beats
    /\ Naming(n) \/ Naming(n)' => node[n].main.at' = node[n].main.at

NoNewVote ==
    \A m \in Nodes : \A i \in DOMAIN inbox'[m] :
        \/ \E j \in DOMAIN inbox[m] : inbox[m][j] = inbox'[m][i]
        \/ inbox'[m][i].type \notin {"RequestVote", "AgreeVote"}

SameRestarts == RestartsKnown' /\ spent'.restarts = spent.restarts

(* There is a node 0. *)
LEMMA ZeroIsANode == 0 \in Nodes
BY NumNodesAssumption DEF Nodes

(* Only Restart adds to the nodes that were started again. *)
LEMMA SpendKeepsRestarts ==
    ASSUME RestartsKnown, NEW kind \in {"txns", "crashes", "late", "lost"}, NEW max,
           Spend(kind, max)
    PROVE  SameRestarts
BY DEF RestartsKnown, SameRestarts, Spend

(* Nor does a step that spends nothing. *)
LEMMA UnspentKeepsRestarts ==
    ASSUME RestartsKnown, UNCHANGED spent PROVE SameRestarts
BY DEF RestartsKnown, SameRestarts

(* Only node 0 starts with a heartbeat thread. *)
LEMMA BeatsAtFirst ==
    /\ Constructed(0).beats = TRUE
    /\ \A n \in Nodes \ {0} : Constructed(n).beats = FALSE
<1>1. \A n \in Nodes : Constructed(n).beats = (n = 0)
  BY DEF Constructed
<1>2. \A n \in Nodes \ {0} : (n = 0) = FALSE
  OBVIOUS
<1>3. (0 = 0) = TRUE
  OBVIOUS
<1> QED
  BY <1>1, <1>2, <1>3, ZeroIsANode

(* Every accept loop starts by accepting. *)
LEMMA AcceptsAtFirst == \A n \in Nodes : Constructed(n).main.at = "accept"
BY Zenon DEF Constructed, Accepting

(* The roles fit when all processes have started. *)
LEMMA RoleInit == Init => RoleInv
<1> SUFFICES ASSUME Init PROVE RoleInv
  OBVIOUS
<1>1. \A n \in Nodes : node[n] = Constructed(n)
  BY DEF Init
<1>2. NoStaleVotes
  BY DEF Init, NoStaleVotes, NoVotesFor
<1>3. FirstRole
  <2>1. /\ node[0].state = "Leader" /\ node[0].leader = 0
        /\ node[0].timer = "none" /\ node[0].asks = Waiting
    <3>1. /\ Constructed(0).state = "Leader" /\ Constructed(0).leader = 0
          /\ Constructed(0).timer = "none" /\ Constructed(0).asks = Waiting
      BY Zenon DEF Constructed
    <3> QED
      BY <1>1, <3>1, ZeroIsANode
  <2>2. node[0].beats = TRUE
    BY <1>1, ZeroIsANode, BeatsAtFirst
  <2>3. ~Naming(0)
    BY <1>1, ZeroIsANode, AcceptsAtFirst DEF Naming
  <2> QED
    BY <2>1, <2>2, <2>3 DEF FirstRole
<1>4. OtherRoles
  <2> SUFFICES ASSUME NEW n \in Nodes \ {0} PROVE RoleFits(n)
    BY DEF OtherRoles
  <2>1. node[n].state = "Follower" /\ node[n].timer = "running" /\ node[n].asks = Waiting
    <3>1. /\ Constructed(n).state = "Follower" /\ Constructed(n).timer = "running"
          /\ Constructed(n).asks = Waiting
      BY Zenon DEF Constructed
    <3> QED
      BY <1>1, <3>1
  <2>2. node[n].beats = FALSE /\ ~Naming(n)
    BY <1>1, BeatsAtFirst, AcceptsAtFirst DEF Naming
  <2> QED
    BY <2>1, <2>2 DEF RoleFits
<1>5. RestartsKnown
  BY DEF Init, RestartsKnown
<1> QED
  BY <1>2, <1>3, <1>4, <1>5 DEF RoleInv

(* A node that gets no new vote and does not forget that it asked stays free of
   stale votes. *)
LEMMA VotesKept ==
    ASSUME NoStaleVotes, NoNewVote,
           \A n \in Nodes : Fresh(n)' /\ node'[n].asks = Waiting =>
                Fresh(n) /\ node[n].asks = Waiting
    PROVE  NoStaleVotes'
<1> SUFFICES ASSUME NEW n \in Nodes, Fresh(n)', node'[n].asks = Waiting
             PROVE  NoVotesFor(n)'
  BY DEF NoStaleVotes
<1>1. NoVotesFor(n)
  BY DEF NoStaleVotes
<1>2. RequestVote(n).type = "RequestVote" /\ AgreeVote.type = "AgreeVote"
  BY DEF RequestVote, AgreeVote
<1> QED
  BY <1>1, <1>2 DEF NoVotesFor, NoNewVote, RequestVote, AgreeVote

(* Only a restart makes a node run that did not. *)
LEMMA FreshKept ==
    ASSUME UNCHANGED up, SameRestarts
    PROVE  \A n \in Nodes : Fresh(n)' => Fresh(n)
BY DEF Fresh, SameRestarts

(* Steps that change no role and send no vote. *)
LEMMA RolesKept ==
    ASSUME RoleInv, \A n \in Nodes : SameRole(n), NoNewVote,
           \A n \in Nodes : Fresh(n)' => Fresh(n), RestartsKnown'
    PROVE  RoleInv'
<1>1. NoStaleVotes'
  BY VotesKept DEF RoleInv, SameRole
<1>2. FirstRole'
  BY ZeroIsANode DEF RoleInv, FirstRole, SameRole, Naming
<1>3. OtherRoles'
  BY DEF RoleInv, OtherRoles, RoleFits, SameRole, Naming
<1> QED
  BY <1>1, <1>2, <1>3 DEF RoleInv

(* What was heard and the votes are no part of a role, nor is where the accept loop is
   unless it makes its node the leader. *)
LEMMA FieldKeepsRoles ==
    ASSUME TypeOK, NEW n \in Nodes, NEW x,
           \/ node' = node
           \/ /\ node' = [node EXCEPT ![n].main = x]
              /\ ~Naming(n) /\ x.at \notin {"leading", "named"}
           \/ node' = [node EXCEPT ![n].heard = x]
           \/ node' = [node EXCEPT ![n].votes = x]
    PROVE  \A k \in Nodes : SameRole(k)
<1>0. node \in [Nodes -> NodeStates] /\ node[n] \in NodeStates
  BY DEF TypeOK
<1>1. CASE node' = node
  BY <1>1 DEF SameRole, Naming
<1>2. ASSUME NEW r, node' = [node EXCEPT ![n] = r],
             r.state = node[n].state, r.leader = node[n].leader, r.timer = node[n].timer,
             r.asks = node[n].asks, r.beats = node[n].beats,
             \/ r.main = node[n].main
             \/ ~Naming(n) /\ r.main.at \notin {"leading", "named"}
      PROVE  \A k \in Nodes : SameRole(k)
  BY <1>0, <1>2 DEF SameRole, Naming
<1>3. CASE /\ node' = [node EXCEPT ![n].main = x]
           /\ ~Naming(n) /\ x.at \notin {"leading", "named"}
  <2> DEFINE r == [node[n] EXCEPT !.main = x]
  <2>1. /\ r.state = node[n].state /\ r.leader = node[n].leader
        /\ r.timer = node[n].timer /\ r.asks = node[n].asks /\ r.beats = node[n].beats
        /\ r.main = x
    BY <1>0 DEF NodeStates
  <2>2. node' = [node EXCEPT ![n] = r]
    BY <1>3
  <2> HIDE DEF r
  <2> QED
    BY <1>2, <1>3, <2>1, <2>2
<1>4. CASE node' = [node EXCEPT ![n].heard = x]
  <2> DEFINE r == [node[n] EXCEPT !.heard = x]
  <2>1. /\ r.state = node[n].state /\ r.leader = node[n].leader
        /\ r.timer = node[n].timer /\ r.asks = node[n].asks /\ r.beats = node[n].beats
        /\ r.main = node[n].main
    BY <1>0 DEF NodeStates
  <2>2. node' = [node EXCEPT ![n] = r]
    BY <1>4
  <2> HIDE DEF r
  <2> QED
    BY <1>2, <2>1, <2>2
<1>5. CASE node' = [node EXCEPT ![n].votes = x]
  <2> DEFINE r == [node[n] EXCEPT !.votes = x]
  <2>1. /\ r.state = node[n].state /\ r.leader = node[n].leader
        /\ r.timer = node[n].timer /\ r.asks = node[n].asks /\ r.beats = node[n].beats
        /\ r.main = node[n].main
    BY <1>0 DEF NodeStates
  <2>2. node' = [node EXCEPT ![n] = r]
    BY <1>5
  <2> HIDE DEF r
  <2> QED
    BY <1>2, <2>1, <2>2
<1> QED
  BY <1>1, <1>3, <1>4, <1>5

(* What waits at the nodes after a message was sent. *)
LEMMA SendElements ==
    ASSUME TypeOK, NEW m \in Nodes, NEW msg \in Messages, inbox' = SentTo(m, msg, inbox)
    PROVE  \A k \in Nodes : \A i \in DOMAIN inbox'[k] :
             \/ \E j \in DOMAIN inbox[k] : inbox[k][j] = inbox'[k][i]
             \/ inbox'[k][i] = msg
<1>1. up \in [Nodes -> BOOLEAN] /\ inbox \in [Nodes -> Seq(Messages)]
  BY DEF TypeOK
<1>2. \A k \in Nodes : \A i \in DOMAIN SentTo(m, msg, inbox)[k] :
         \/ \E j \in DOMAIN inbox[k] : inbox[k][j] = SentTo(m, msg, inbox)[k][i]
         \/ k = m /\ up[m] /\ SentTo(m, msg, inbox)[k][i] = msg
  BY <1>1, SentToElements
<1> QED
  BY <1>2, Zenon

(* A message that is no vote and asks for none. *)
LEMMA PlainSend ==
    ASSUME TypeOK, NEW m \in Nodes, NEW msg \in Messages,
           msg.type \notin {"RequestVote", "AgreeVote"},
           inbox' = inbox \/ inbox' = SentTo(m, msg, inbox)
    PROVE  NoNewVote
<1>1. CASE inbox' = inbox
  BY <1>1 DEF NoNewVote
<1>2. CASE inbox' = SentTo(m, msg, inbox)
  BY <1>2, SendElements DEF NoNewVote
<1> QED
  BY <1>1, <1>2

(* A message that is taken from an inbox. *)
LEMMA ConsumeSendsNothing ==
    ASSUME TypeOK, NEW n \in Nodes, inbox[n] # <<>>, inbox' = Consumed(n)
    PROVE  NoNewVote
BY ConsumedElements DEF TypeOK, NoNewVote

(* What the accept loop writes to its node, elections apart. *)
LEMMA AcceptFields ==
    ASSUME TypeOK, NEW n \in Nodes,
           \/ sendLeaderInfo(n) \/ CloseAgain(n) \/ HandleGET(n) \/ HandleWrite(n)
           \/ sendCommitinfo(n) \/ Commit(n) \/ handleCommitRequest(n)
           \/ handleHeartBeat(n) \/ handleRequestVote(n) \/ handleRecvVote(n)
    PROVE  \E x : \/ node' = node
                  \/ /\ node' = [node EXCEPT ![n].main = x]
                     /\ ~Naming(n) /\ x.at \notin {"leading", "named"}
                  \/ node' = [node EXCEPT ![n].heard = x]
                  \/ handleRecvVote(n) /\ node' = [node EXCEPT ![n].votes = x]
<1>0. Accepting.at = "accept"
  BY DEF Accepting
<1>1. CASE sendLeaderInfo(n)
  <2> DEFINE x == [node[n].main EXCEPT !.at = "closing"]
  <2>1. node' = [node EXCEPT ![n].main = x] /\ node[n].main = Accepting
    BY <1>1 DEF sendLeaderInfo, Accepts
  <2>2. x.at = "closing" /\ ~Naming(n)
    BY <1>0, <2>1 DEF Accepting, Naming
  <2> HIDE DEF x
  <2> QED
    BY <2>1, <2>2
<1>2. CASE CloseAgain(n) \/ Commit(n)
  <2>1. node[n].main.at \in {"closing", "commit"}
    BY <1>2 DEF CloseAgain, Commit
  <2>2. node' = [node EXCEPT ![n].main = Accepting]
    BY <1>2 DEF CloseAgain, Commit
  <2> QED
    BY <1>0, <2>1, <2>2 DEF Naming
<1>3. CASE HandleGET(n) \/ handleCommitRequest(n)
  BY <1>3 DEF HandleGET, handleCommitRequest
<1>4. CASE HandleWrite(n)
  <2> DEFINE x == [at |-> "commit", cmd |-> Head(inbox[n]).cmd, idx |-> 0]
  <2>1. node' = [node EXCEPT ![n].main = x]
    BY <1>4, Zenon DEF HandleWrite
  <2>2. node[n].main = Accepting /\ x.at = "commit"
    BY <1>4 DEF HandleWrite, Accepts
  <2> HIDE DEF x
  <2> QED
    BY <1>0, <2>1, <2>2 DEF Naming
<1>5. CASE sendCommitinfo(n)
  <2> DEFINE x == [node[n].main EXCEPT !.idx = @ + 1]
  <2>1. node' = [node EXCEPT ![n].main = x] /\ node[n].main.at = "commit"
    BY <1>5 DEF sendCommitinfo
  <2>2. node[n].main \in MainStates
    BY DEF TypeOK, NodeStates
  <2>3. x.at = "commit"
    BY <2>1, <2>2 DEF MainStates
  <2> HIDE DEF x
  <2> QED
    BY <2>1, <2>3 DEF Naming
<1>6. CASE handleHeartBeat(n) \/ handleRequestVote(n)
  BY <1>6 DEF handleHeartBeat, handleRequestVote
<1>7. CASE handleRecvVote(n)
  <2>1. node' = node \/ node' = [node EXCEPT ![n].votes = node[n].votes + 1]
    BY <1>7 DEF handleRecvVote, CountVote
  <2> QED
    BY <1>7, <2>1
<1> QED
  BY <1>1, <1>2, <1>3, <1>4, <1>5, <1>6, <1>7

(* The role of a node is not what its accept loop writes, elections apart. *)
LEMMA AcceptRoles ==
    ASSUME TypeOK, NEW n \in Nodes,
           \/ sendLeaderInfo(n) \/ CloseAgain(n) \/ HandleGET(n) \/ HandleWrite(n)
           \/ sendCommitinfo(n) \/ Commit(n) \/ handleCommitRequest(n)
           \/ handleHeartBeat(n) \/ handleRequestVote(n) \/ handleRecvVote(n)
    PROVE  UNCHANGED <<up, spent>> /\ \A k \in Nodes : SameRole(k)
<1>1. UNCHANGED <<up, spent>>
  BY DEF sendLeaderInfo, CloseAgain, HandleGET, HandleWrite, sendCommitinfo, Commit,
         handleCommitRequest, handleHeartBeat, handleRequestVote, handleRecvVote
<1> QED
  BY <1>1, AcceptFields, FieldKeepsRoles

(* The messages of the client, the replication and the heartbeats. *)
LEMMA PlainAccept ==
    ASSUME TypeOK, RoleInv, NEW n \in Nodes,
           \/ sendLeaderInfo(n) \/ CloseAgain(n) \/ HandleGET(n) \/ HandleWrite(n)
           \/ sendCommitinfo(n) \/ Commit(n) \/ handleCommitRequest(n)
           \/ handleHeartBeat(n) \/ handleRecvVote(n)
    PROVE  RoleInv'
<1>1. UNCHANGED <<up, spent>> /\ \A k \in Nodes : SameRole(k)
  BY AcceptRoles
<1>2. NoNewVote
  <2>1. CASE sendCommitinfo(n)
    <3> DEFINE main == node[n].main
    <3>1. main \in MainStates /\ main.at = "commit"
      BY <2>1 DEF sendCommitinfo, TypeOK, NodeStates
    <3>2. main.cmd \in Commands /\ main.idx \in Nat
      BY <3>1, NumNodesAssumption DEF MainStates
    <3>3. main.idx < NumNodes
      BY <2>1 DEF sendCommitinfo, ReplicasAsked
    <3>4. main.idx \in Nodes /\ CommitMessage(main.cmd) \in Messages
      BY <3>2, <3>3, NumNodesAssumption DEF Nodes, Messages
    <3>5. CommitMessage(main.cmd).type = "COMMIT"
      BY DEF CommitMessage, COMMIT
    <3>6. inbox' = inbox \/ inbox' = SentTo(main.idx, CommitMessage(main.cmd), inbox)
      BY <2>1, Zenon DEF sendCommitinfo
    <3> QED
      BY <3>4, <3>5, <3>6, PlainSend
  <2>2. CASE UNCHANGED inbox
    BY <2>2 DEF NoNewVote
  <2>3. CASE inbox[n] # <<>> /\ inbox' = Consumed(n)
    BY <2>3, ConsumeSendsNothing
  <2> QED
    BY <2>1, <2>2, <2>3
       DEF Accepts, sendLeaderInfo, CloseAgain, HandleGET, HandleWrite, Commit,
           handleCommitRequest, handleHeartBeat, handleRecvVote
<1>3. SameRestarts
  BY <1>1, UnspentKeepsRestarts DEF RoleInv
<1> QED
  BY <1>1, <1>2, <1>3, FreshKept, RolesKept DEF SameRestarts

(* A step of one node's record leaves the others alone. *)
LEMMA OtherRecords ==
    ASSUME TypeOK, NEW n \in Nodes, NEW r, node' = [node EXCEPT ![n] = r]
    PROVE  node'[n] = r /\ \A k \in Nodes \ {n} : node'[k] = node[k]
BY DEF TypeOK

(* The vote goes to a node that has asked for it. *)
LEMMA VoteGranted ==
    ASSUME TypeOK, RoleInv, NEW n \in Nodes, handleRequestVote(n)
    PROVE  RoleInv'
<1>1. PICK m \in Nodes : Head(inbox[n]) = RequestVote(m)
  BY AcceptsType, MessageKinds DEF handleRequestVote
<1>2. inbox' = SentTo(m, AgreeVote, Consumed(n))
  BY <1>1 DEF handleRequestVote, RequestVote
<1>3. \A k \in Nodes : SameRole(k)
  BY FieldKeepsRoles DEF handleRequestVote
<1>4. SameRestarts /\ UNCHANGED up
  BY UnspentKeepsRestarts DEF handleRequestVote, RoleInv
<1>5. \A k \in Nodes : Fresh(k)' => Fresh(k)
  BY <1>4, FreshKept
<1>6. NoStaleVotes'
  <2> SUFFICES ASSUME NEW k \in Nodes, Fresh(k)', node'[k].asks = Waiting
               PROVE  NoVotesFor(k)'
    BY DEF NoStaleVotes
  <2>1. NoVotesFor(k)
    BY <1>3, <1>5 DEF SameRole, RoleInv, NoStaleVotes
  <2>2. /\ up \in [Nodes -> BOOLEAN] /\ inbox \in [Nodes -> Seq(Messages)]
        /\ inbox[n] # <<>> /\ AgreeVote \in Messages
    BY DEF TypeOK, handleRequestVote, Accepts, Messages
  <2>3. /\ Consumed(n) \in [Nodes -> Seq(Messages)]
        /\ \E j \in DOMAIN inbox[n] : inbox[n][j] = Head(inbox[n])
        /\ \A l \in Nodes : \A i \in DOMAIN Consumed(n)[l] :
              \E j \in DOMAIN inbox[l] : inbox[l][j] = Consumed(n)[l][i]
    BY <2>2, ConsumedElements
  <2>4. \A l \in Nodes : \A i \in DOMAIN inbox'[l] :
           \/ \E j \in DOMAIN Consumed(n)[l] : Consumed(n)[l][j] = inbox'[l][i]
           \/ l = m /\ inbox'[l][i] = AgreeVote
    <3>1. CASE up[m]
      <4>1. inbox' = [Consumed(n) EXCEPT ![m] = Append(Consumed(n)[m], AgreeVote)]
        BY <1>2, <3>1 DEF SentTo
      <4>2. Consumed(n)[m] \in Seq(Messages)
        BY <2>3
      <4>3. \A i \in DOMAIN inbox'[m] :
               \/ \E j \in DOMAIN Consumed(n)[m] : Consumed(n)[m][j] = inbox'[m][i]
               \/ inbox'[m][i] = AgreeVote
        BY <2>2, <2>3, <4>1, <4>2, AppendElements
      <4>4. \A l \in Nodes \ {m} : inbox'[l] = Consumed(n)[l]
        BY <2>3, <4>1
      <4> QED
        BY <4>3, <4>4
    <3>2. CASE ~up[m]
      BY <1>2, <3>2 DEF SentTo
    <3> QED
      BY <3>1, <3>2
  <2>5. k # m
    BY <1>1, <2>1, <2>3 DEF NoVotesFor
  <2>6. AgreeVote # RequestVote(k)
    BY DEF AgreeVote, RequestVote
  <2>7. \A l \in Nodes : \A i \in DOMAIN inbox'[l] : inbox'[l][i] # RequestVote(k)
    <3> SUFFICES ASSUME NEW l \in Nodes, NEW i \in DOMAIN inbox'[l],
                        inbox'[l][i] = RequestVote(k)
                 PROVE  FALSE
      OBVIOUS
    <3>1. PICK j \in DOMAIN Consumed(n)[l] : Consumed(n)[l][j] = inbox'[l][i]
      BY <2>4, <2>6
    <3>2. PICK h \in DOMAIN inbox[l] : inbox[l][h] = Consumed(n)[l][j]
      BY <2>3
    <3> QED
      BY <2>1, <3>1, <3>2 DEF NoVotesFor
  <2>8. \A i \in DOMAIN inbox'[k] : inbox'[k][i] # AgreeVote
    <3> SUFFICES ASSUME NEW i \in DOMAIN inbox'[k], inbox'[k][i] = AgreeVote
                 PROVE  FALSE
      OBVIOUS
    <3>1. PICK j \in DOMAIN Consumed(n)[k] : Consumed(n)[k][j] = inbox'[k][i]
      BY <2>4, <2>5
    <3>2. PICK h \in DOMAIN inbox[k] : inbox[k][h] = Consumed(n)[k][j]
      BY <2>3
    <3> QED
      BY <2>1, <3>1, <3>2 DEF NoVotesFor
  <2> QED
    BY <2>7, <2>8 DEF NoVotesFor
<1>7. FirstRole'
  BY <1>3, ZeroIsANode DEF RoleInv, FirstRole, SameRole, Naming
<1>8. OtherRoles'
  BY <1>3, <1>5 DEF RoleInv, OtherRoles, RoleFits, SameRole, Naming
<1> QED
  BY <1>4, <1>6, <1>7, <1>8 DEF RoleInv, SameRestarts

(* What becomeLeader writes. *)
LEMMA LeaderRecord ==
    ASSUME TypeOK, NEW n \in Nodes, becomeLeader(n)
    PROVE  \E r : /\ node' = [node EXCEPT ![n] = r]
                  /\ r.state = "Leader" /\ r.leader = node[n].leader
                  /\ r.beats = node[n].beats
                  /\ r.timer = node[n].timer /\ r.asks = node[n].asks
                  /\ r.main.at = "leading"
                  /\ r.votes = IF node[n].votes = Garbage THEN Garbage ELSE node[n].votes + 1
<1> DEFINE x == CountVote(n)[n]
           v == IF node[n].votes = Garbage THEN Garbage ELSE node[n].votes + 1
           y == [x.main EXCEPT !.at = "leading"]
           r == [x EXCEPT !.state = "Leader", !.main = y]
<1>0. node \in [Nodes -> NodeStates] /\ node[n] \in NodeStates
  BY DEF TypeOK
<1>1. /\ x \in NodeStates /\ x.timer = node[n].timer /\ x.asks = node[n].asks
      /\ x.leader = node[n].leader /\ x.beats = node[n].beats /\ x.votes = v
  <2>1. CASE CountVote(n) = node /\ node[n].votes = Garbage
    BY <1>0, <2>1
  <2>2. CASE CountVote(n) = [node EXCEPT ![n].votes = node[n].votes + 1] /\ node[n].votes # Garbage
    <3>1. x = [node[n] EXCEPT !.votes = node[n].votes + 1]
      BY <1>0, <2>2
    <3>2. [node[n] EXCEPT !.votes = node[n].votes + 1] \in NodeStates
      BY <1>0 DEF NodeStates
    <3>3. [node[n] EXCEPT !.votes = node[n].votes + 1].timer = node[n].timer
      BY <1>0 DEF NodeStates
    <3>4. /\ [node[n] EXCEPT !.votes = node[n].votes + 1].asks = node[n].asks
          /\ [node[n] EXCEPT !.votes = node[n].votes + 1].leader = node[n].leader
          /\ [node[n] EXCEPT !.votes = node[n].votes + 1].beats = node[n].beats
      BY <1>0 DEF NodeStates
    <3>5. [node[n] EXCEPT !.votes = node[n].votes + 1].votes = node[n].votes + 1
      BY <1>0 DEF NodeStates
    <3> QED
      BY <2>2, <3>1, <3>2, <3>3, <3>4, <3>5
  <2> QED
    BY <2>1, <2>2 DEF CountVote
<1>1a. y.at = "leading"
  <2>1. x.main \in MainStates
    <3> HIDE DEF x
    <3> QED
      BY <1>1 DEF NodeStates
  <2> HIDE DEF x
  <2> QED
    BY <2>1 DEF MainStates
<1>2. /\ r.state = "Leader" /\ r.leader = node[n].leader /\ r.beats = node[n].beats
      /\ r.timer = node[n].timer /\ r.asks = node[n].asks
      /\ r.main = y /\ r.votes = v
  <2> HIDE DEF x, v, y
  <2> QED
    BY <1>1 DEF NodeStates
<1>3. node' = [node EXCEPT ![n] = r]
  <2>1. node' = [CountVote(n) EXCEPT ![n] = r]
    <3>1. node' = [CountVote(n) EXCEPT ![n].state = "Leader", ![n].main.at = "leading"]
      BY Zenon DEF becomeLeader
    <3>2. [x EXCEPT !.state = "Leader"].main = x.main
      <4> HIDE DEF x
      <4> QED
        BY <1>1 DEF NodeStates
    <3>3. CountVote(n) = node \/ CountVote(n) = [node EXCEPT ![n] = x]
      BY <1>0 DEF CountVote
    <3> HIDE DEF x
    <3> QED
      BY <1>0, <3>1, <3>2, <3>3 DEF x
  <2>2. CountVote(n) = node \/ CountVote(n) = [node EXCEPT ![n] = x]
    BY <1>0 DEF CountVote
  <2> HIDE DEF r
  <2> QED
    BY <1>0, <2>1, <2>2
<1> HIDE DEF r, x, y
<1> QED
  BY <1>1a, <1>2, <1>3

(* Who gets a vote has asked for it. *)
LEMMA VoteReceived ==
    ASSUME TypeOK, RoleInv, NEW n \in Nodes, Accepts(n, "AgreeVote")
    PROVE  n # 0 /\ (Fresh(n) => node[n].asks # Waiting)
<1>1. Head(inbox[n]) = AgreeVote /\ inbox[n] # <<>>
  BY AcceptsType, MessageKinds DEF Accepts
<1>2. \E j \in DOMAIN inbox[n] : inbox[n][j] = AgreeVote
  BY <1>1, ConsumedElements DEF TypeOK
<1>3. Fresh(n) => node[n].asks # Waiting
  BY <1>2 DEF RoleInv, NoStaleVotes, NoVotesFor
<1> QED
  BY <1>3 DEF RoleInv, FirstRole, Fresh

(* Only a candidate becomes the leader: it got a vote, so it has asked. *)
LEMMA Elected ==
    ASSUME TypeOK, RoleInv, NEW n \in Nodes, becomeLeader(n)
    PROVE  RoleInv'
<1>1. Accepts(n, "AgreeVote") /\ node[n].main = Accepting
  BY DEF becomeLeader, Accepts
<1>2. PICK r : /\ node' = [node EXCEPT ![n] = r]
               /\ r.state = "Leader" /\ r.leader = node[n].leader
               /\ r.beats = node[n].beats
               /\ r.timer = node[n].timer /\ r.asks = node[n].asks
               /\ r.main.at = "leading"
  BY LeaderRecord
<1>3. node'[n] = r /\ \A k \in Nodes \ {n} : node'[k] = node[k]
  BY <1>2, OtherRecords
<1>6. n # 0 /\ (Fresh(n) => node[n].asks # Waiting)
  BY <1>1, VoteReceived
<1>7. node[n].main.at = "accept"
  BY <1>1 DEF Accepting
<1>8. Fresh(n) => /\ node[n].timer = "expired" /\ node[n].asks # Waiting
                  /\ \/ node[n].beats = FALSE
                     \/ node[n].beats = TRUE /\ node[n].leader = n
  BY <1>6, <1>7 DEF RoleInv, OtherRoles, RoleFits
<1>9. SameRestarts /\ UNCHANGED up
  BY UnspentKeepsRestarts DEF becomeLeader, RoleInv
<1>10. \A k \in Nodes : Fresh(k)' => Fresh(k)
  BY <1>9, FreshKept
<1>11. NoNewVote
  BY ConsumeSendsNothing DEF becomeLeader, Accepts
<1>12. NoStaleVotes'
  <2>1. \A k \in Nodes : node'[k].asks = node[k].asks
    BY <1>2, <1>3
  <2> QED
    BY <1>10, <1>11, <2>1, VotesKept DEF RoleInv
<1>13. FirstRole'
  BY <1>3, <1>6, ZeroIsANode DEF RoleInv, FirstRole, Naming
<1>14. OtherRoles'
  BY <1>2, <1>3, <1>8, <1>10 DEF RoleInv, OtherRoles, RoleFits, Naming
<1> QED
  BY <1>9, <1>12, <1>13, <1>14 DEF RoleInv, SameRestarts

(* What the next two steps of the new leader write. *)
LEMMA NamingRecord ==
    ASSUME TypeOK, NEW n \in Nodes, nameLeader(n) \/ startHeartBeat(n)
    PROVE  \E r : /\ node' = [node EXCEPT ![n] = r]
                  /\ r.state = node[n].state /\ r.timer = node[n].timer
                  /\ r.asks = node[n].asks /\ r.votes = node[n].votes
                  /\ \/ /\ nameLeader(n) /\ r.leader = n
                        /\ r.beats = node[n].beats /\ r.main.at = "named"
                     \/ /\ startHeartBeat(n) /\ r.leader = node[n].leader
                        /\ r.beats = TRUE /\ r.main = Accepting
<1>0. node \in [Nodes -> NodeStates] /\ node[n] \in NodeStates
  BY DEF TypeOK
<1>1. CASE nameLeader(n)
  <2> DEFINE y == [node[n].main EXCEPT !.at = "named"]
             r == [node[n] EXCEPT !.leader = n, !.main = y]
  <2>1. node' = [node EXCEPT ![n] = r]
    <3>1. node' = [node EXCEPT ![n].leader = n, ![n].main.at = "named"]
      BY <1>1 DEF nameLeader
    <3>2. [node[n] EXCEPT !.leader = n].main = node[n].main
      BY <1>0 DEF NodeStates
    <3> QED
      BY <1>0, <3>1, <3>2
  <2>2. y.at = "named"
    BY <1>0 DEF NodeStates, MainStates
  <2>3. /\ r.state = node[n].state /\ r.timer = node[n].timer
        /\ r.asks = node[n].asks /\ r.votes = node[n].votes
        /\ r.leader = n /\ r.beats = node[n].beats /\ r.main = y
    <3> HIDE DEF y
    <3> QED
      BY <1>0 DEF NodeStates
  <2> HIDE DEF r, y
  <2> QED
    BY <1>1, <2>1, <2>2, <2>3
<1>2. CASE startHeartBeat(n)
  <2> DEFINE r == [node[n] EXCEPT !.beats = TRUE, !.main = Accepting]
  <2>1. node' = [node EXCEPT ![n] = r]
    BY <1>0, <1>2 DEF startHeartBeat
  <2>2. /\ r.state = node[n].state /\ r.timer = node[n].timer
        /\ r.asks = node[n].asks /\ r.votes = node[n].votes
        /\ r.leader = node[n].leader /\ r.beats = TRUE /\ r.main = Accepting
    BY <1>0 DEF NodeStates
  <2> HIDE DEF r
  <2> QED
    BY <1>2, <2>1, <2>2
<1> QED
  BY <1>1, <1>2

(* The new leader names itself before it starts to beat. *)
LEMMA Named ==
    ASSUME TypeOK, RoleInv, NEW n \in Nodes, nameLeader(n) \/ startHeartBeat(n)
    PROVE  RoleInv'
<1>1. Naming(n) /\ n # 0
  BY DEF nameLeader, startHeartBeat, Naming, RoleInv, FirstRole
<1>2. PICK r : /\ node' = [node EXCEPT ![n] = r]
               /\ r.state = node[n].state /\ r.timer = node[n].timer
               /\ r.asks = node[n].asks
               /\ \/ /\ nameLeader(n) /\ r.leader = n
                     /\ r.beats = node[n].beats /\ r.main.at = "named"
                  \/ /\ startHeartBeat(n) /\ r.leader = node[n].leader
                     /\ r.beats = TRUE /\ r.main = Accepting
  BY NamingRecord
<1>3. node'[n] = r /\ \A k \in Nodes \ {n} : node'[k] = node[k]
  BY <1>2, OtherRecords
<1>4. SameRestarts /\ UNCHANGED <<up, inbox>>
  BY UnspentKeepsRestarts DEF nameLeader, startHeartBeat, RoleInv
<1>5. \A k \in Nodes : Fresh(k)' => Fresh(k)
  BY <1>4, FreshKept
<1>6. NoNewVote
  BY <1>4 DEF NoNewVote
<1>7. NoStaleVotes'
  <2>1. \A k \in Nodes : node'[k].asks = node[k].asks
    BY <1>2, <1>3
  <2> QED
    BY <1>5, <1>6, <2>1, VotesKept DEF RoleInv
<1>8. FirstRole'
  BY <1>1, <1>3, ZeroIsANode DEF RoleInv, FirstRole, Naming
<1>9. Fresh(n) => RoleFits(n)'
  <2> SUFFICES ASSUME Fresh(n) PROVE RoleFits(n)'
    OBVIOUS
  <2>1. /\ node[n].state = "Leader" /\ node[n].timer = "expired" /\ node[n].asks # Waiting
        /\ node[n].beats \in BOOLEAN
        /\ node[n].main.at = "named" => node[n].leader = n
    BY <1>1 DEF RoleInv, OtherRoles, RoleFits
  <2>2. CASE nameLeader(n)
    <3>1. node[n].main.at = "leading"
      BY <2>2 DEF nameLeader
    <3>2. r.leader = n /\ r.beats = node[n].beats /\ r.main.at = "named"
      BY <1>2, <3>1 DEF startHeartBeat
    <3> QED
      BY <1>2, <1>3, <2>1, <3>2 DEF RoleFits
  <2>3. CASE startHeartBeat(n)
    <3>1. node[n].main.at = "named"
      BY <2>3 DEF startHeartBeat
    <3>2. r.leader = n /\ r.beats = TRUE
      BY <1>2, <2>1, <3>1 DEF nameLeader
    <3> QED
      BY <1>2, <1>3, <2>1, <3>2 DEF RoleFits
  <2> QED
    BY <2>2, <2>3
<1>10. OtherRoles'
  BY <1>3, <1>5, <1>9 DEF RoleInv, OtherRoles, RoleFits, Naming
<1> QED
  BY <1>4, <1>7, <1>8, <1>10 DEF RoleInv, SameRestarts

(* A process that ends takes its votes with it, and node 0 starts as it was. *)
LEMMA Stopped ==
    ASSUME TypeOK, RoleInv, NEW n \in Nodes, Stop(n), SameRestarts
    PROVE  RoleInv'
<1>1. node' = [node EXCEPT ![n] = Constructed(n)] /\ up' = [up EXCEPT ![n] = FALSE]
  BY DEF Stop
<1>2. node'[n] = Constructed(n) /\ \A k \in Nodes \ {n} : node'[k] = node[k]
  BY <1>1, OtherRecords
<1>3. \A k \in Nodes : Fresh(k)' => Fresh(k) /\ (k # n \/ k = 0)
  BY <1>1 DEF Fresh, SameRestarts, TypeOK
<1>4. /\ Constructed(0).state = "Leader" /\ Constructed(0).leader = 0
      /\ Constructed(0).timer = "none" /\ Constructed(0).asks = Waiting
  BY Zenon DEF Constructed
<1>5. FirstRole'
  BY <1>2, <1>4, BeatsAtFirst, AcceptsAtFirst, ZeroIsANode DEF RoleInv, FirstRole, Naming
<1>6. NoNewVote
  <2>1. inbox' = [inbox EXCEPT ![n] = <<>>] /\ inbox \in [Nodes -> Seq(Messages)]
    BY DEF Stop, TypeOK
  <2> QED
    BY <2>1 DEF NoNewVote
<1>7. \A k \in Nodes : Fresh(k)' /\ node'[k].asks = Waiting =>
                           Fresh(k) /\ node[k].asks = Waiting
  BY <1>2, <1>3 DEF RoleInv, FirstRole
<1>8. NoStaleVotes'
  BY <1>6, <1>7, VotesKept DEF RoleInv
<1>9. OtherRoles'
  BY <1>2, <1>3 DEF RoleInv, OtherRoles, RoleFits, Naming
<1> QED
  BY <1>5, <1>8, <1>9 DEF RoleInv, SameRestarts

(* The timer runs only at followers, and leaves them followers. *)
LEMMA Timed ==
    ASSUME TypeOK, RoleInv, NEW n \in Nodes, NewPeriod(n) \/ Expire(n), SameRestarts
    PROVE  RoleInv'
<1>0. node \in [Nodes -> NodeStates] /\ node[n] \in NodeStates
  BY DEF TypeOK
<1>1. SameRestarts /\ UNCHANGED <<up, inbox>> /\ node[n].timer = "running"
  BY DEF NewPeriod, Expire
<1>2. n # 0
  BY <1>1 DEF RoleInv, FirstRole
<1>3. \A k \in Nodes : Fresh(k)' => Fresh(k)
  BY <1>1, FreshKept
<1>4. Fresh(n) => node[n].state = "Follower" /\ node[n].asks = Waiting /\ node[n].beats = FALSE
                /\ ~Naming(n)
  BY <1>1, <1>2 DEF RoleInv, OtherRoles, RoleFits
<1>5. PICK r : /\ node' = [node EXCEPT ![n] = r]
               /\ r.state = node[n].state /\ r.asks = node[n].asks /\ r.beats = node[n].beats
               /\ r.main = node[n].main
               /\ node[n].state = "Follower" => r.timer \in {"running", "expired"}
  <2>1. CASE NewPeriod(n)
    <3> DEFINE t == IF node[n].state = "Follower" THEN "running" ELSE "ended"
               r == [node[n] EXCEPT !.heard = FALSE, !.timer = t]
    <3>1. node' = [node EXCEPT ![n] = r]
      BY <2>1 DEF NewPeriod
    <3>2. node[n].state = "Follower" => t \in {"running", "expired"}
      OBVIOUS
    <3>3. r.timer = t /\ r.state = node[n].state /\ r.asks = node[n].asks /\ r.beats = node[n].beats
          /\ r.main = node[n].main
      <4> HIDE DEF t
      <4> QED
        BY <1>0 DEF NodeStates
    <3> HIDE DEF r
    <3> QED
      BY <3>1, <3>2, <3>3
  <2>2. CASE Expire(n)
    <3> DEFINE r == [node[n] EXCEPT !.timer = "expired"]
    <3>1. node' = [node EXCEPT ![n] = r]
      BY <2>2 DEF Expire
    <3>2. /\ r.timer = "expired" /\ r.state = node[n].state
          /\ r.asks = node[n].asks /\ r.beats = node[n].beats /\ r.main = node[n].main
      BY <1>0 DEF NodeStates
    <3> HIDE DEF r
    <3> QED
      BY <3>1, <3>2
  <2> QED
    BY <2>1, <2>2
<1>6. node'[n] = r /\ \A k \in Nodes \ {n} : node'[k] = node[k]
  BY <1>5, OtherRecords
<1>7. NoNewVote
  BY <1>1 DEF NoNewVote
<1>8. NoStaleVotes'
  <2>1. \A k \in Nodes : node'[k].asks = node[k].asks
    BY <1>5, <1>6
  <2> QED
    BY <1>3, <1>7, <2>1, VotesKept DEF RoleInv
<1>9. FirstRole'
  BY <1>2, <1>6, ZeroIsANode DEF RoleInv, FirstRole, Naming
<1>10. OtherRoles'
  BY <1>3, <1>4, <1>5, <1>6 DEF RoleInv, OtherRoles, RoleFits, Naming
<1> QED
  BY <1>1, <1>8, <1>9, <1>10 DEF RoleInv, SameRestarts

(* Only a follower becomes a candidate: whoever has led has asked before. *)
LEMMA Candidacy ==
    ASSUME TypeOK, RoleInv, NEW n \in Nodes, becomeCandidate(n)
    PROVE  RoleInv'
<1> DEFINE r == [node[n] EXCEPT !.state = "Candidate", !.votes = 1, !.asks = 0]
<1>0. node \in [Nodes -> NodeStates] /\ node[n] \in NodeStates
  BY DEF TypeOK
<1>1. /\ UNCHANGED <<up, inbox>> /\ node[n].timer = "expired" /\ node[n].asks = Waiting
      /\ node' = [node EXCEPT ![n] = r]
  BY DEF becomeCandidate
<1>2. /\ r.state = "Candidate" /\ r.asks = 0 /\ r.asks # Waiting
      /\ r.timer = node[n].timer /\ r.beats = node[n].beats /\ r.main = node[n].main
  BY <1>0 DEF NodeStates, Waiting
<1> HIDE DEF r
<1>3. node'[n] = r /\ \A k \in Nodes \ {n} : node'[k] = node[k]
  BY <1>1, OtherRecords
<1>4. n # 0
  BY <1>1 DEF RoleInv, FirstRole
<1>5. SameRestarts
  BY UnspentKeepsRestarts DEF becomeCandidate, RoleInv
<1>6. \A k \in Nodes : Fresh(k)' => Fresh(k)
  BY <1>1, <1>5, FreshKept
<1>7. Fresh(n) => node[n].beats = FALSE /\ ~Naming(n)
  BY <1>1, <1>4 DEF RoleInv, OtherRoles, RoleFits
<1>8. NoNewVote
  BY <1>1 DEF NoNewVote
<1>9. NoStaleVotes'
  BY <1>2, <1>3, <1>6, <1>8, VotesKept DEF RoleInv
<1>10. FirstRole'
  BY <1>3, <1>4, ZeroIsANode DEF RoleInv, FirstRole, Naming
<1>11. OtherRoles'
  BY <1>1, <1>2, <1>3, <1>6, <1>7 DEF RoleInv, OtherRoles, RoleFits, Naming
<1> QED
  BY <1>5, <1>9, <1>10, <1>11 DEF RoleInv, SameRestarts

(* A request for votes is sent by a node whose election thread is under way. *)
LEMMA VoteAsked ==
    ASSUME TypeOK, RoleInv, NEW n \in Nodes, sendRequestVote(n) \/ LoseRequestVote(n)
    PROVE  RoleInv'
<1> DEFINE r == [node[n] EXCEPT !.asks = node[n].asks + 1]
<1>0. node \in [Nodes -> NodeStates] /\ node[n] \in NodeStates
  BY DEF TypeOK
<1>1. UNCHANGED up /\ node[n].asks \in Nodes /\ node' = [node EXCEPT ![n] = r]
  BY DEF sendRequestVote, LoseRequestVote
<1>2. node[n].asks # Waiting /\ node[n].asks + 1 # Waiting
  BY <1>1, NumNodesAssumption DEF Nodes, Waiting
<1>3. /\ r.asks = node[n].asks + 1 /\ r.state = node[n].state /\ r.leader = node[n].leader
      /\ r.timer = node[n].timer /\ r.beats = node[n].beats /\ r.main = node[n].main
  BY <1>0 DEF NodeStates
<1> HIDE DEF r
<1>4. node'[n] = r /\ \A k \in Nodes \ {n} : node'[k] = node[k]
  BY <1>1, OtherRecords
<1>5. n # 0
  BY <1>2 DEF RoleInv, FirstRole
<1>6. SameRestarts
  BY UnspentKeepsRestarts, SpendKeepsRestarts DEF sendRequestVote, LoseRequestVote, RoleInv
<1>7. \A k \in Nodes : Fresh(k)' => Fresh(k)
  BY <1>1, <1>6, FreshKept
<1>8. \A l \in Nodes : \A i \in DOMAIN inbox'[l] :
         \/ \E j \in DOMAIN inbox[l] : inbox[l][j] = inbox'[l][i]
         \/ inbox'[l][i] = RequestVote(n)
  <2>1. CASE UNCHANGED inbox
    BY <2>1
  <2>2. CASE inbox' = SentTo(node[n].asks, RequestVote(n), inbox)
    <3>1. PICK m \in Nodes, msg \in Messages : m = node[n].asks /\ msg = RequestVote(n)
      BY <1>1 DEF Messages
    <3>2. inbox' = SentTo(m, msg, inbox)
      BY <2>2, <3>1
    <3>3. \A l \in Nodes : \A i \in DOMAIN inbox'[l] :
             \/ \E j \in DOMAIN inbox[l] : inbox[l][j] = inbox'[l][i]
             \/ inbox'[l][i] = msg
      BY <3>2, SendElements
    <3> QED
      BY <3>1, <3>3, Zenon
  <2> QED
    BY <2>1, <2>2, Zenon DEF sendRequestVote, LoseRequestVote
<1>9. NoStaleVotes'
  <2> SUFFICES ASSUME NEW k \in Nodes, Fresh(k)', node'[k].asks = Waiting
               PROVE  NoVotesFor(k)'
    BY DEF NoStaleVotes
  <2>1. k # n /\ node[k].asks = Waiting
    BY <1>2, <1>3, <1>4
  <2>2. NoVotesFor(k)
    BY <1>7, <2>1 DEF RoleInv, NoStaleVotes
  <2>3. RequestVote(n) # RequestVote(k) /\ RequestVote(n) # AgreeVote
    BY <2>1 DEF RequestVote, AgreeVote
  <2> QED
    BY <1>8, <2>2, <2>3 DEF NoVotesFor
<1>10. FirstRole'
  BY <1>4, <1>5, ZeroIsANode DEF RoleInv, FirstRole, Naming
<1>11. OtherRoles'
  BY <1>2, <1>3, <1>4, <1>7 DEF RoleInv, OtherRoles, RoleFits, Naming
<1> QED
  BY <1>6, <1>9, <1>10, <1>11 DEF RoleInv, SameRestarts

(* Heartbeats, the client and a restart. *)
LEMMA NobodyChanges ==
    ASSUME TypeOK, RoleInv, UNCHANGED node,
           \/ \E n, m \in Nodes : SendHeartBeat(n, m)
           \/ \E c \in Commands, n \in Contacts : SendRequest(c, n)
           \/ ClientStep
           \/ \E n \in Nodes : Restart(n)
           \/ UNCHANGED vars
    PROVE  RoleInv'
<1>1. \A k \in Nodes : SameRole(k)
  BY DEF SameRole, Naming
<1>2. ASSUME NoNewVote, UNCHANGED up, SameRestarts PROVE RoleInv'
  BY <1>1, <1>2, FreshKept, RolesKept DEF SameRestarts
<1>3. ASSUME NEW n \in Nodes, NEW m \in Nodes, SendHeartBeat(n, m) PROVE RoleInv'
  <2>1. HeartBeat \in Messages /\ HeartBeat.type = "HeartBeat"
    BY DEF Messages, HeartBeat
  <2>2. NoNewVote
    BY <1>3, <2>1, PlainSend DEF SendHeartBeat
  <2> QED
    BY <1>2, <1>3, <2>2, UnspentKeepsRestarts DEF SendHeartBeat, RoleInv
<1>4. ASSUME NEW c \in Commands, NEW n \in Contacts, SendRequest(c, n) PROVE RoleInv'
  <2>1. Request(c) \in Messages /\ Request(c).type = "$" /\ n \in Nodes
    BY NodesAssumption DEF Messages, Request
  <2>2. NoNewVote
    BY <1>4, <2>1, PlainSend DEF SendRequest
  <2> QED
    BY <1>2, <1>4, <2>2, SpendKeepsRestarts DEF SendRequest, RoleInv
<1>5. CASE ReceiveAnswer \/ NoAnswer \/ UNCHANGED vars
  <2>1. UNCHANGED <<up, inbox, spent>>
    BY <1>5 DEF ReceiveAnswer, NoAnswer, vars
  <2>2. NoNewVote
    BY <2>1 DEF NoNewVote
  <2> QED
    BY <1>2, <2>1, <2>2, UnspentKeepsRestarts DEF RoleInv
<1>6. CASE FollowRedirect
  <2>1. answer.value \in Nodes /\ client.cmd \in Commands
    BY <1>6, AnswerKinds DEF FollowRedirect, TypeOK
  <2>2. Request(client.cmd) \in Messages /\ Request(client.cmd).type = "$"
    BY <2>1 DEF Messages, Request
  <2>3. NoNewVote
    BY <1>6, <2>1, <2>2, PlainSend DEF FollowRedirect
  <2> QED
    BY <1>2, <1>6, <2>3, UnspentKeepsRestarts DEF FollowRedirect, RoleInv
<1>7. ASSUME NEW n \in Nodes, Restart(n) PROVE RoleInv'
  <2>1. /\ up' = [up EXCEPT ![n] = TRUE] /\ UNCHANGED inbox
        /\ spent' = [spent EXCEPT !.restarts = spent.restarts \cup {n}]
    BY <1>7 DEF Restart
  <2>2. RestartsKnown' /\ spent'.restarts = spent.restarts \cup {n}
    BY <2>1 DEF RoleInv, RestartsKnown
  <2>3. \A k \in Nodes : Fresh(k)' => Fresh(k)
    BY <2>1, <2>2 DEF Fresh, TypeOK
  <2>4. NoNewVote
    BY <2>1 DEF NoNewVote
  <2> QED
    BY <1>1, <2>2, <2>3, <2>4, RolesKept
<1> QED
  BY <1>3, <1>4, <1>5, <1>6, <1>7 DEF ClientStep

(* Every step keeps RoleInv. *)
LEMMA RolesInductive == TypeOK /\ RoleInv /\ [Next]_vars => RoleInv'
<1> SUFFICES ASSUME TypeOK, RoleInv, [Next]_vars PROVE RoleInv'
  OBVIOUS
<1>0. RestartsKnown
  BY DEF RoleInv
<1>1. ASSUME NEW n \in Nodes, Accept(n) PROVE RoleInv'
  <2>1. CASE startHeartBeatAgain(n)
    BY <1>0, <2>1, Stopped, UnspentKeepsRestarts DEF startHeartBeatAgain
  <2> QED
    BY <1>1, <2>1, PlainAccept, VoteGranted, Elected, Named DEF Accept
<1>2. ASSUME NEW n \in Nodes, Timer(n) \/ ExpireLate(n) PROVE RoleInv'
  <2>1. SameRestarts
    BY <1>0, <1>2, UnspentKeepsRestarts, SpendKeepsRestarts
       DEF Timer, NewPeriod, ExpireQuiet, ExpireLate
  <2> QED
    BY <1>2, <2>1, Timed DEF Timer, ExpireQuiet, ExpireLate
<1>3. ASSUME NEW n \in Nodes, Election(n) \/ LoseRequestVote(n) PROVE RoleInv'
  BY <1>3, Candidacy, VoteAsked DEF Election
<1>4. ASSUME NEW n \in Nodes, Crash(n) PROVE RoleInv'
  BY <1>0, <1>4, Stopped, SpendKeepsRestarts DEF Crash
<1>5. ASSUME NEW n \in Nodes, HeartBeats(n) \/ Restart(n) PROVE RoleInv'
  BY <1>5, NobodyChanges DEF HeartBeats, SendHeartBeat, Restart
<1>6. ASSUME NEW c \in Commands, NEW n \in Contacts, SendRequest(c, n) PROVE RoleInv'
  BY <1>6, NobodyChanges DEF SendRequest
<1>7. CASE ClientStep
  BY <1>7, NobodyChanges DEF ClientStep, ReceiveAnswer, FollowRedirect, NoAnswer
<1>8. CASE UNCHANGED vars
  BY <1>8, NobodyChanges DEF vars
<1> QED
  BY <1>1, <1>2, <1>3, <1>4, <1>5, <1>6, <1>7, <1>8 DEF Next

(* RoleInv is an invariant. *)
LEMMA RolesInvariant == Spec => []RoleInv
<1>1. Init => RoleInv
  BY RoleInit
<1>2. TypeOK /\ RoleInv /\ [Next]_vars => RoleInv'
  BY RolesInductive
<1> QED
  BY <1>1, <1>2, RaftTypeOK, PTL DEF Spec

(* RaftThreadsFitRole: whatever the timers, votes and crashes do, the threads of a
   node that was not started again agree about its role, and while its accept loop
   makes it the leader no other thread of it undoes or repeats that. *)
THEOREM RaftThreadsFitRole == Spec => []ThreadsFitRole
<1>1. RoleInv => ThreadsFitRole
  <2> SUFFICES ASSUME RoleInv, NEW n \in Nodes, NeverRestarted(n)
               PROVE /\ node[n].beats => node[n].leader = n
                     /\ CASE node[n].state = "Follower" ->
                               /\ node[n].timer \in {"running", "expired"}
                               /\ node[n].asks = Waiting
                               /\ ~Naming(n)
                          [] node[n].state = "Candidate" ->
                               /\ node[n].timer = "expired" /\ node[n].asks # Waiting
                               /\ ~node[n].beats /\ ~Naming(n)
                          [] node[n].state = "Leader" ->
                               /\ node[n].timer # "running"
                               /\ node[n].leader = n \/ node[n].main.at = "leading"
                               /\ node[n].beats \/ Naming(n)
    BY DEF ThreadsFitRole
  <2>1. CASE n = 0
    BY <2>1 DEF RoleInv, FirstRole
  <2>2. CASE n # 0
    <3>1. RoleFits(n)
      BY <2>2 DEF RoleInv, OtherRoles, Fresh, NeverRestarted
    <3>2. CASE node[n].state = "Follower"
      BY <3>1, <3>2 DEF RoleFits
    <3>3. CASE node[n].state = "Candidate"
      BY <3>1, <3>3 DEF RoleFits
    <3>4. CASE node[n].state = "Leader"
      BY <3>1, <3>4 DEF RoleFits, Naming
    <3> QED
      BY <3>1, <3>2, <3>3, <3>4 DEF RoleFits
  <2> QED
    BY <2>1, <2>2
<1> QED
  BY <1>1, RolesInvariant, PTL

-----------------------------------------------------------------------------
(* The client's request.  OneRedirectSuffices is not inductive: it needs that a
   request is in one place only, and what a node that redirects believes. *)

(* n replicates a write that it has still to answer. *)
Replicates(n) == node[n].main.at = "commit" /\ node[n].main.cmd.method # "other"

(* The request waits at the node it was sent to. *)
Waits ==
    \A n \in Nodes : \A i \in Pending("$", n) :
        /\ client.cmd # NoCommand /\ client.to = n /\ answer = NoReply
        /\ inbox[n][i].cmd = client.cmd

WaitsOnce == \A n \in Nodes : \A i, j \in Pending("$", n) : i = j

NothingWaits == \A n \in Nodes : Pending("$", n) = {}

(* Or that node is replicating it. *)
Replicated ==
    \A n \in Nodes : Replicates(n) =>
        /\ node[n].main.cmd = client.cmd /\ client.to = n /\ answer = NoReply
        /\ NothingWaits

(* Or it is answered. *)
Answered ==
    /\ client.cmd = NoCommand => answer = NoReply
    /\ client.cmd # NoCommand => reply = NoReply

Serving == Waits /\ WaitsOnce /\ Replicated /\ Answered

(* The requests in b are those in a, where an inbox may have lost its first message. *)
Carries(a, b) ==
    \A n \in Nodes : \E d \in {0, 1} : \A i \in DOMAIN b[n] :
        b[n][i].type = "$" => i + d \in DOMAIN a[n] /\ a[n][i + d] = b[n][i]

(* A command is not the absent one. *)
LEMMA CommandsAreSome == \A c \in Commands : c # NoCommand
BY CommandType DEF NoCommand

(* A message that is not the client's leaves the requests where they are. *)
LEMMA SendCarries ==
    ASSUME up \in [Nodes -> BOOLEAN], NEW a, NEW b \in [Nodes -> Seq(Messages)], Carries(a, b),
           NEW m \in Nodes, NEW msg \in Messages, msg.type # "$"
    PROVE  Carries(a, SentTo(m, msg, b))
<1>1. CASE up[m]
  <2>1. SentTo(m, msg, b) = [b EXCEPT ![m] = Append(b[m], msg)]
    BY <1>1 DEF SentTo
  <2>2. b[m] \in Seq(Messages)
    OBVIOUS
  <2>3. SentTo(m, msg, b)[m] = Append(b[m], msg)
    BY <2>1
  <2>4. \A k \in Nodes \ {m} : SentTo(m, msg, b)[k] = b[k]
    BY <2>1
  <2>5. \A i \in DOMAIN SentTo(m, msg, b)[m] : SentTo(m, msg, b)[m][i].type = "$" =>
            i \in DOMAIN b[m] /\ SentTo(m, msg, b)[m][i] = b[m][i]
    BY <2>2, <2>3
  <2> QED
    BY <2>4, <2>5 DEF Carries
<1>2. CASE ~up[m]
  BY <1>2 DEF SentTo
<1> QED
  BY <1>1, <1>2

(* So does a step that consumes a message or none. *)
LEMMA ConsumeCarries ==
    ASSUME TypeOK
    PROVE  /\ Carries(inbox, inbox)
           /\ \A n \in Nodes : inbox[n] # <<>> => Carries(inbox, Consumed(n))
<1>0. inbox \in [Nodes -> Seq(Messages)]
  BY DEF TypeOK
<1>1. Carries(inbox, inbox)
  <2>1. \A n \in Nodes : \A i \in DOMAIN inbox[n] : i + 0 \in DOMAIN inbox[n]
                            /\ inbox[n][i + 0] = inbox[n][i]
    BY <1>0
  <2> QED
    BY <2>1 DEF Carries
<1>2. ASSUME NEW n \in Nodes, inbox[n] # <<>> PROVE Carries(inbox, Consumed(n))
  <2>1. /\ Consumed(n)[n] = Tail(inbox[n])
        /\ \A k \in Nodes \ {n} : Consumed(n)[k] = inbox[k]
    BY <1>0 DEF Consumed
  <2>2. inbox[n] \in Seq(Messages)
    BY <1>0
  <2>3. \A i \in DOMAIN Consumed(n)[n] :
           i + 1 \in DOMAIN inbox[n] /\ inbox[n][i + 1] = Consumed(n)[n][i]
    BY <1>2, <2>1, <2>2
  <2> SUFFICES ASSUME NEW k \in Nodes
               PROVE  \E d \in {0, 1} : \A i \in DOMAIN Consumed(n)[k] :
                        Consumed(n)[k][i].type = "$" =>
                          i + d \in DOMAIN inbox[k] /\ inbox[k][i + d] = Consumed(n)[k][i]
    BY DEF Carries
  <2>4. CASE k = n
    BY <2>3, <2>4
  <2>5. CASE k # n
    BY <1>1, <2>1, <2>5 DEF Carries
  <2> QED
    BY <2>4, <2>5
<1> QED
  BY <1>1, <1>2

(* A step that leaves the client alone and puts no request anywhere. *)
LEMMA ServingKept ==
    ASSUME TypeOK, TypeOK', Serving, Carries(inbox, inbox'), UNCHANGED clientVars,
           \A n \in Nodes : Replicates(n)' =>
                Replicates(n) /\ node'[n].main.cmd = node[n].main.cmd
    PROVE  Serving'
<1>1. /\ Waits /\ WaitsOnce /\ Replicated /\ Answered
      /\ UNCHANGED <<client, answer, reply>>
  BY DEF Serving, clientVars
<1>2. ASSUME NEW n \in Nodes
      PROVE  \E d \in {0, 1} : \A i \in DOMAIN inbox'[n] : inbox'[n][i].type = "$" =>
                i + d \in Pending("$", n) /\ inbox[n][i + d] = inbox'[n][i]
  BY DEF Carries, Pending
<1>3. Waits'
  BY <1>1, <1>2 DEF Waits, Pending
<1>4. WaitsOnce'
  <2> SUFFICES ASSUME NEW n \in Nodes, NEW i \in Pending("$", n)', NEW j \in Pending("$", n)'
               PROVE  i = j
    BY DEF WaitsOnce
  <2>1. /\ i \in DOMAIN inbox'[n] /\ inbox'[n][i].type = "$"
        /\ j \in DOMAIN inbox'[n] /\ inbox'[n][j].type = "$"
    BY DEF Pending
  <2>2. i \in Int /\ j \in Int
    BY <2>1 DEF TypeOK
  <2>3. PICK d \in {0, 1} : i + d \in Pending("$", n) /\ j + d \in Pending("$", n)
    BY <1>2, <2>1
  <2>4. i + d = j + d
    BY <1>1, <2>3 DEF WaitsOnce
  <2> QED
    BY <2>2, <2>4
<1>5. NothingWaits => NothingWaits'
  BY <1>2 DEF NothingWaits, Pending
<1>6. Replicated'
  BY <1>1, <1>5 DEF Replicated
<1>7. Answered'
  BY <1>1 DEF Answered
<1> QED
  BY <1>3, <1>4, <1>6, <1>7 DEF Serving

(* A request that is answered is nowhere else. *)
LEMMA ServingOver ==
    ASSUME NothingWaits, \A n \in Nodes : ~Replicates(n), Answered
    PROVE  Serving
BY DEF NothingWaits, Waits, WaitsOnce, Replicated, Serving

(* The request that a node accepts was the only one, and nobody replicates. *)
LEMMA OnlyRequest ==
    ASSUME TypeOK, Serving, NEW n \in Nodes, Accepts(n, "$")
    PROVE  /\ client.cmd # NoCommand /\ client.to = n /\ answer = NoReply
           /\ Head(inbox[n]).cmd = client.cmd
           /\ \A k \in Nodes : \A i \in DOMAIN Consumed(n)[k] : Consumed(n)[k][i].type # "$"
           /\ \A k \in Nodes : ~Replicates(k)
<1>1. /\ Waits /\ WaitsOnce /\ Replicated /\ inbox \in [Nodes -> Seq(Messages)]
      /\ inbox[n] \in Seq(Messages) /\ inbox[n] # <<>> /\ Head(inbox[n]).type = "$"
  BY DEF Serving, TypeOK, Accepts
<1>2. 1 \in Pending("$", n) /\ inbox[n][1] = Head(inbox[n])
  BY <1>1 DEF Pending
<1>3. /\ client.cmd # NoCommand /\ client.to = n /\ answer = NoReply
      /\ Head(inbox[n]).cmd = client.cmd
  BY <1>1, <1>2 DEF Waits
<1>4. \A k \in Nodes : ~Replicates(k)
  BY <1>1, <1>2 DEF Replicated, NothingWaits
<1>5. /\ Consumed(n)[n] = Tail(inbox[n])
      /\ \A k \in Nodes \ {n} : Consumed(n)[k] = inbox[k]
  BY <1>1 DEF Consumed
<1>6. \A k \in Nodes \ {n} : \A i \in DOMAIN Consumed(n)[k] : Consumed(n)[k][i].type # "$"
  BY <1>1, <1>3, <1>5 DEF Waits, Pending
<1>7. \A i \in DOMAIN Consumed(n)[n] : Consumed(n)[n][i].type # "$"
  <2> SUFFICES ASSUME NEW i \in DOMAIN Tail(inbox[n]), Tail(inbox[n])[i].type = "$"
               PROVE  FALSE
    BY <1>5
  <2>1. i \in Nat \ {0} /\ i + 1 \in DOMAIN inbox[n] /\ inbox[n][i + 1] = Tail(inbox[n])[i]
    BY <1>1
  <2>2. i + 1 \in Pending("$", n)
    BY <2>1 DEF Pending
  <2>3. i + 1 = 1
    BY <1>1, <1>2, <2>2 DEF WaitsOnce
  <2> QED
    BY <2>1, <2>3
<1> QED
  BY <1>3, <1>4, <1>6, <1>7

(* While a node replicates the request, or once it is answered, it waits nowhere; and
   without a request nothing waits and nobody replicates. *)
LEMMA NothingElse ==
    ASSUME TypeOK, Serving, client.cmd = NoCommand \/ answer # NoReply
    PROVE  NothingWaits /\ \A n \in Nodes : ~Replicates(n)
<1>1. NothingWaits
  BY DEF Serving, Waits, NothingWaits
<1>2. ASSUME NEW n \in Nodes, Replicates(n) PROVE FALSE
  <2>1. node[n].main.cmd = client.cmd /\ answer = NoReply
    BY <1>2 DEF Serving, Replicated
  <2>2. node[n].main.cmd \in Commands
    BY <1>2 DEF Replicates, TypeOK, NodeStates, MainStates
  <2> QED
    BY <2>1, <2>2, CommandsAreSome
<1> QED
  BY <1>1, <1>2

(* A request that is sent when nothing waits is the only one. *)
LEMMA RequestSent ==
    ASSUME TypeOK, NothingWaits, NEW m \in Nodes, up[m], NEW c \in Commands,
           inbox' = SentTo(m, Request(c), inbox),
           client'.cmd = c, client'.to = m, answer' = NoReply
    PROVE  Waits' /\ WaitsOnce'
<1>1. inbox \in [Nodes -> Seq(Messages)] /\ inbox[m] \in Seq(Messages)
  BY DEF TypeOK
<1>2. inbox' = [inbox EXCEPT ![m] = Append(inbox[m], Request(c))]
  BY DEF SentTo
<1>3. /\ inbox'[m] = Append(inbox[m], Request(c))
      /\ \A k \in Nodes \ {m} : inbox'[k] = inbox[k]
  BY <1>1, <1>2
<1>4. \A k \in Nodes : \A i \in DOMAIN inbox[k] : inbox[k][i].type # "$"
  BY DEF NothingWaits, Pending
<1>5. Request(c).cmd = c /\ c # NoCommand
  BY CommandsAreSome DEF Request
<1>6. \A i \in DOMAIN inbox'[m] : inbox'[m][i].type = "$" =>
         i = Len(inbox[m]) + 1 /\ inbox'[m][i] = Request(c)
  BY <1>1, <1>3, <1>4
<1>7. \A k \in Nodes : \A i \in Pending("$", k)' :
         k = m /\ i = Len(inbox[m]) + 1 /\ inbox'[k][i] = Request(c)
  BY <1>3, <1>4, <1>6 DEF Pending
<1> QED
  BY <1>5, <1>7 DEF Waits, WaitsOnce

(* Nobody replicates after a step that leaves the nodes alone unless it did before. *)
LEMMA ClientServed ==
    ASSUME TypeOK, TypeOK', Serving,
           \/ \E c \in Commands, n \in Contacts : SendRequest(c, n)
           \/ ClientStep
    PROVE  Serving'
<1>1. client.cmd = NoCommand \/ answer # NoReply
  BY DEF SendRequest, ClientStep, ReceiveAnswer, FollowRedirect, NoAnswer,
         NoReply, OK, ERROR, ConnectionClosed
<1>2. NothingWaits /\ \A n \in Nodes : ~Replicates(n)
  BY <1>1, NothingElse
<1>3. UNCHANGED node
  BY DEF SendRequest, ClientStep, ReceiveAnswer, FollowRedirect, NoAnswer
<1>4. \A n \in Nodes : ~Replicates(n)'
  BY <1>2, <1>3 DEF Replicates
<1>5. Replicated'
  BY <1>4 DEF Replicated
<1>6. ASSUME NEW c \in Commands, NEW n \in Contacts, SendRequest(c, n) PROVE Serving'
  <2>1. client' = [cmd |-> c, to |-> n, redirects |-> 0] /\ answer' = NoReply /\ reply' = NoReply
    BY <1>6 DEF SendRequest
  <2>2. Answered'
    BY <2>1 DEF Answered
  <2>3. n \in Nodes /\ up[n] /\ inbox' = SentTo(n, Request(c), inbox)
    BY <1>6, NodesAssumption DEF SendRequest
  <2>4. client'.cmd = c /\ client'.to = n
    BY <2>1
  <2>5. Waits' /\ WaitsOnce'
    BY <1>2, <2>1, <2>3, <2>4, RequestSent
  <2> QED
    BY <1>5, <2>2, <2>5 DEF Serving
<1>7. CASE ReceiveAnswer \/ NoAnswer
  <2>1. UNCHANGED inbox /\ client' = NoRequestSent /\ answer' = NoReply
    BY <1>7 DEF ReceiveAnswer, NoAnswer
  <2>2. NothingWaits'
    BY <1>2, <2>1 DEF NothingWaits, Pending
  <2>3. Answered'
    BY <2>1 DEF Answered, NoRequestSent
  <2>4. Waits' /\ WaitsOnce'
    BY <2>2 DEF NothingWaits, Waits, WaitsOnce
  <2> QED
    BY <1>5, <2>3, <2>4 DEF Serving
<1>8. CASE FollowRedirect
  <2>1. answer.value \in Nodes /\ client.cmd \in Commands /\ up[answer.value]
    BY <1>8, AnswerKinds DEF FollowRedirect, TypeOK
  <2>2. /\ client' = [client EXCEPT !.to = answer.value, !.redirects = client.redirects + 1]
        /\ inbox' = SentTo(answer.value, Request(client.cmd), inbox)
        /\ answer' = NoReply /\ reply' = reply
    BY <1>8 DEF FollowRedirect
  <2>3. client'.cmd = client.cmd /\ client'.to = answer.value
    BY <2>2 DEF TypeOK
  <2>4. Waits' /\ WaitsOnce'
    BY <1>2, <2>1, <2>2, <2>3, RequestSent
  <2>5. Answered'
    BY <2>2, <2>3 DEF Answered, Serving
  <2> QED
    BY <1>5, <2>4, <2>5 DEF Serving
<1> QED
  BY <1>6, <1>7, <1>8 DEF ClientStep

(* The steps that handle a request. *)
LEMMA RequestServed ==
    ASSUME TypeOK, TypeOK', Serving, NEW n \in Nodes,
           sendLeaderInfo(n) \/ HandleGET(n) \/ HandleWrite(n)
    PROVE  Serving'
<1>1. Accepts(n, "$") /\ inbox' = Consumed(n) /\ UNCHANGED <<client, reply>>
  BY DEF sendLeaderInfo, HandleGET, HandleWrite
<1>2. /\ client.cmd # NoCommand /\ client.to = n /\ answer = NoReply /\ reply = NoReply
      /\ Head(inbox[n]).cmd = client.cmd
      /\ \A k \in Nodes : ~Replicates(k)
      /\ node[n].main = Accepting
  BY <1>1, OnlyRequest DEF Serving, Answered, Accepts
<1>3. NothingWaits'
  <2>1. \A k \in Nodes : \A i \in DOMAIN inbox'[k] : inbox'[k][i].type # "$"
    BY <1>1, OnlyRequest
  <2> QED
    BY <2>1 DEF NothingWaits, Pending
<1>4. Answered'
  BY <1>1, <1>2 DEF Answered
<1>5. CASE sendLeaderInfo(n)
  <2>1. node' = [node EXCEPT ![n] = [node[n] EXCEPT !.main = [Accepting EXCEPT !.at = "closing"]]]
    BY <1>2, <1>5 DEF sendLeaderInfo
  <2>2. [node[n] EXCEPT !.main = [Accepting EXCEPT !.at = "closing"]].main.at = "closing"
    BY DEF TypeOK, NodeStates, Accepting
  <2>3. node'[n].main.at = "closing" /\ \A k \in Nodes \ {n} : node'[k] = node[k]
    BY <2>1, <2>2, OtherRecords
  <2>4. \A k \in Nodes : ~Replicates(k)'
    BY <1>2, <2>3 DEF Replicates
  <2> QED
    BY <1>3, <1>4, <2>4 DEF Serving, Waits, WaitsOnce, Replicated, NothingWaits
<1>6. CASE HandleGET(n)
  <2>1. \A k \in Nodes : ~Replicates(k)'
    BY <1>2, <1>6 DEF Replicates, HandleGET
  <2> QED
    BY <1>3, <1>4, <2>1 DEF Serving, Waits, WaitsOnce, Replicated, NothingWaits
<1>7. CASE HandleWrite(n)
  <2> DEFINE x == [at |-> "commit", cmd |-> Head(inbox[n]).cmd, idx |-> 0]
  <2>1. node' = [node EXCEPT ![n].main = x]
    BY <1>7, Zenon DEF HandleWrite
  <2>2. answer' = IF Head(inbox[n]).cmd.method = "other" THEN ERROR ELSE answer
    BY <1>7, Zenon DEF HandleWrite
  <2>3. x.cmd = client.cmd
    BY <1>2
  <2> HIDE DEF x
  <2>4. node'[n].main = x /\ \A k \in Nodes \ {n} : node'[k] = node[k]
    BY <2>1 DEF TypeOK, NodeStates
  <2>5. \A k \in Nodes : Replicates(k)' =>
           k = n /\ node'[n].main.cmd = client.cmd /\ client.cmd.method # "other"
    BY <1>2, <2>3, <2>4 DEF Replicates
  <2>6. Replicated'
    BY <1>1, <1>2, <1>3, <2>2, <2>5 DEF Replicated
  <2> QED
    BY <1>3, <1>4, <2>6 DEF Serving, Waits, WaitsOnce, NothingWaits
<1> QED
  BY <1>5, <1>6, <1>7

(* The end of the replication. *)
LEMMA CommitServed ==
    ASSUME TypeOK, TypeOK', Serving, NEW n \in Nodes, Commit(n)
    PROVE  Serving'
<1>1. node'[n].main = Accepting /\ \A k \in Nodes \ {n} : node'[k] = node[k]
  BY DEF Commit, TypeOK, NodeStates
<1>2. ~Replicates(n)' /\ \A k \in Nodes \ {n} : Replicates(k)' => Replicates(k)
  BY <1>1 DEF Replicates, Accepting
<1>3. UNCHANGED <<inbox, client, reply>>
  BY DEF Commit
<1>4. node[n].main.at = "commit" /\ node[n].main.cmd \in Commands
  BY DEF Commit, TypeOK, NodeStates, MainStates
<1>5. CASE Replicates(n)
  <2>1. node[n].main.cmd = client.cmd /\ client.to = n /\ NothingWaits
    BY <1>5 DEF Serving, Replicated
  <2>2. \A k \in Nodes \ {n} : ~Replicates(k)
    BY <2>1 DEF Serving, Replicated
  <2>3. \A k \in Nodes : ~Replicates(k)'
    BY <1>2, <2>2
  <2>4. NothingWaits'
    BY <1>3, <2>1 DEF NothingWaits, Pending
  <2>5. Answered'
    BY <1>3, <1>4, <2>1, CommandsAreSome DEF Answered, Serving
  <2> QED
    BY <2>3, <2>4, <2>5 DEF Serving, Waits, WaitsOnce, Replicated, NothingWaits
<1>6. CASE ~Replicates(n)
  <2>1. UNCHANGED answer
    BY <1>4, <1>6 DEF Replicates, Commit
  <2>2. Carries(inbox, inbox') /\ UNCHANGED clientVars
    BY <1>3, <2>1, ConsumeCarries DEF clientVars
  <2>3. \A k \in Nodes : Replicates(k)' =>
           Replicates(k) /\ node'[k].main.cmd = node[k].main.cmd
    BY <1>1, <1>2
  <2> QED
    BY <2>2, <2>3, ServingKept
<1> QED
  BY <1>5, <1>6

(* A process that ends takes the request with it, and its client is told. *)
LEMMA StopServed ==
    ASSUME TypeOK, TypeOK', Serving, NEW n \in Nodes, Stop(n), UNCHANGED <<client, reply>>
    PROVE  Serving'
<1>1. node' = [node EXCEPT ![n] = Constructed(n)] /\ inbox' = [inbox EXCEPT ![n] = <<>>]
  BY DEF Stop
<1>2. node'[n].main = Accepting /\ \A k \in Nodes \ {n} : node'[k] = node[k]
  <2>1. Constructed(n).main = Accepting
    BY Zenon DEF Constructed
  <2> QED
    BY <1>1, <2>1, OtherRecords
<1>3. inbox'[n] = <<>> /\ \A k \in Nodes \ {n} : inbox'[k] = inbox[k]
  BY <1>1 DEF TypeOK
<1>4. ~Replicates(n)' /\ \A k \in Nodes \ {n} : Replicates(k)' => Replicates(k)
  BY <1>2 DEF Replicates, Accepting
<1>5. Pending("$", n)' = {} /\ \A k \in Nodes \ {n} : Pending("$", k)' = Pending("$", k)
  BY <1>3 DEF Pending
<1>6. client.to # n => answer' = answer
  BY DEF Stop
<1>7. Waits'
  BY <1>3, <1>5, <1>6 DEF Serving, Waits
<1>8. WaitsOnce'
  BY <1>5 DEF Serving, WaitsOnce
<1>9. Replicated'
  <2> SUFFICES ASSUME NEW k \in Nodes, Replicates(k)'
               PROVE  /\ node'[k].main.cmd = client'.cmd /\ client'.to = k
                      /\ answer' = NoReply /\ NothingWaits'
    BY DEF Replicated
  <2>1. k # n /\ Replicates(k)
    BY <1>4
  <2>2. node[k].main.cmd = client.cmd /\ client.to = k /\ answer = NoReply /\ NothingWaits
    BY <2>1 DEF Serving, Replicated
  <2>3. NothingWaits'
    BY <1>5, <2>2 DEF NothingWaits
  <2> QED
    BY <1>2, <1>6, <2>1, <2>2, <2>3
<1>10. Answered'
  BY DEF Stop, Serving, Answered
<1> QED
  BY <1>7, <1>8, <1>9, <1>10 DEF Serving

(* The messages of the other nodes and the replication put no request anywhere. *)
LEMMA AcceptCarries ==
    ASSUME TypeOK, NEW n \in Nodes,
           \/ CloseAgain(n) \/ sendCommitinfo(n) \/ handleCommitRequest(n)
           \/ handleHeartBeat(n) \/ handleRequestVote(n) \/ handleRecvVote(n)
           \/ becomeLeader(n) \/ nameLeader(n) \/ startHeartBeat(n)
    PROVE  Carries(inbox, inbox') /\ UNCHANGED clientVars
<1>0. up \in [Nodes -> BOOLEAN] /\ inbox \in [Nodes -> Seq(Messages)]
  BY DEF TypeOK
<1>1. UNCHANGED clientVars
  BY DEF CloseAgain, sendCommitinfo, handleCommitRequest, handleHeartBeat, handleRequestVote,
         handleRecvVote, becomeLeader, nameLeader, startHeartBeat
<1>2. CASE CloseAgain(n) \/ nameLeader(n) \/ startHeartBeat(n)
  BY <1>1, <1>2, ConsumeCarries DEF CloseAgain, nameLeader, startHeartBeat
<1>3. CASE sendCommitinfo(n)
  <2> DEFINE main == node[n].main
  <2>1. main \in MainStates /\ main.at = "commit"
    BY <1>3 DEF sendCommitinfo, TypeOK, NodeStates
  <2>2. main.cmd \in Commands /\ main.idx \in Nat
    BY <2>1, NumNodesAssumption DEF MainStates
  <2>3. main.idx < NumNodes
    BY <1>3 DEF sendCommitinfo, ReplicasAsked
  <2>4. main.idx \in Nodes /\ CommitMessage(main.cmd) \in Messages
    BY <2>2, <2>3, NumNodesAssumption DEF Nodes, Messages
  <2>5. CommitMessage(main.cmd).type # "$"
    BY DEF CommitMessage, COMMIT
  <2>6. inbox' = inbox \/ inbox' = SentTo(main.idx, CommitMessage(main.cmd), inbox)
    BY <1>3, Zenon DEF sendCommitinfo
  <2>7. Carries(inbox, SentTo(main.idx, CommitMessage(main.cmd), inbox))
    BY <1>0, <2>4, <2>5, ConsumeCarries, SendCarries
  <2> QED
    BY <1>1, <2>6, <2>7, ConsumeCarries
<1>4. CASE handleRequestVote(n)
  <2>1. PICK m \in Nodes : Head(inbox[n]) = RequestVote(m)
    BY <1>4, AcceptsType, MessageKinds DEF handleRequestVote
  <2>2. inbox' = SentTo(m, AgreeVote, Consumed(n))
    BY <1>4, <2>1 DEF handleRequestVote, RequestVote
  <2>3. /\ AgreeVote \in Messages /\ AgreeVote.type # "$"
        /\ Consumed(n) \in [Nodes -> Seq(Messages)]
    BY <1>4, AcceptsType DEF handleRequestVote, Messages, AgreeVote
  <2>4. Carries(inbox, Consumed(n))
    BY <1>4, ConsumeCarries DEF handleRequestVote, Accepts
  <2> QED
    BY <1>0, <1>1, <2>2, <2>3, <2>4, SendCarries
<1>5. CASE handleCommitRequest(n) \/ handleHeartBeat(n) \/ handleRecvVote(n) \/ becomeLeader(n)
  <2>1. inbox' = Consumed(n) /\ inbox[n] # <<>>
    BY <1>5 DEF handleCommitRequest, handleHeartBeat, handleRecvVote, becomeLeader, Accepts
  <2> QED
    BY <1>1, <2>1, ConsumeCarries
<1> QED
  BY <1>2, <1>3, <1>4, <1>5

(* Where the accept loops are: only these steps move one of them. *)
SameMain == \A k \in Nodes : node'[k].main = node[k].main

(* Changing another field of a record leaves the loop where it is. *)
LEMMA FieldKeepsMain ==
    ASSUME TypeOK, NEW n \in Nodes, NEW x,
           \/ node' = node
           \/ node' = [node EXCEPT ![n] = x] /\ x.main = node[n].main
    PROVE  SameMain
BY DEF TypeOK, SameMain

(* The replication does not forget what it replicates. *)
LEMMA AcceptAt ==
    ASSUME TypeOK, NEW n \in Nodes,
           \/ CloseAgain(n) \/ sendCommitinfo(n) \/ handleCommitRequest(n)
           \/ handleHeartBeat(n) \/ handleRequestVote(n) \/ handleRecvVote(n)
           \/ becomeLeader(n) \/ nameLeader(n) \/ startHeartBeat(n)
    PROVE  \A k \in Nodes : node'[k].main.at = "commit" =>
               node[k].main.at = "commit" /\ node'[k].main.cmd = node[k].main.cmd
<1>0. node \in [Nodes -> NodeStates] /\ node[n] \in NodeStates
  BY DEF TypeOK
<1>1. ASSUME SameMain
      PROVE  \A k \in Nodes : node'[k].main.at = "commit" =>
               node[k].main.at = "commit" /\ node'[k].main.cmd = node[k].main.cmd
  BY <1>1 DEF SameMain
<1>2. CASE CloseAgain(n)
  <2>1. node'[n].main = Accepting /\ \A k \in Nodes \ {n} : node'[k] = node[k]
    BY <1>0, <1>2 DEF CloseAgain, NodeStates
  <2> QED
    BY <2>1 DEF Accepting
<1>3. CASE sendCommitinfo(n)
  <2> DEFINE x == [node[n].main EXCEPT !.idx = node[n].main.idx + 1]
  <2>1. node' = [node EXCEPT ![n].main = x]
    BY <1>3 DEF sendCommitinfo
  <2>2. x.at = node[n].main.at /\ x.cmd = node[n].main.cmd
    BY <1>0 DEF NodeStates, MainStates
  <2> HIDE DEF x
  <2>3. node'[n].main = x /\ \A k \in Nodes \ {n} : node'[k] = node[k]
    BY <1>0, <2>1 DEF NodeStates
  <2> QED
    BY <2>2, <2>3
<1>4. CASE handleCommitRequest(n)
  BY <1>1, <1>4 DEF handleCommitRequest, SameMain
<1>5. CASE handleHeartBeat(n) \/ handleRequestVote(n)
  <2> DEFINE x == [node[n] EXCEPT !.heard = TRUE]
  <2>1. node' = [node EXCEPT ![n] = x] /\ x.main = node[n].main
    BY <1>0, <1>5 DEF handleHeartBeat, handleRequestVote, NodeStates
  <2> HIDE DEF x
  <2> QED
    BY <1>1, <2>1, FieldKeepsMain
<1>6. CASE handleRecvVote(n) \/ becomeLeader(n)
  <2>1. CASE handleRecvVote(n)
    <3> DEFINE x == [node[n] EXCEPT !.votes = node[n].votes + 1]
    <3>1. node' = node \/ (node' = [node EXCEPT ![n] = x] /\ x.main = node[n].main)
      BY <1>0, <2>1 DEF handleRecvVote, CountVote, NodeStates
    <3> HIDE DEF x
    <3> QED
      BY <1>1, <3>1, FieldKeepsMain
  <2>2. CASE becomeLeader(n)
    <3>1. PICK r : node' = [node EXCEPT ![n] = r] /\ r.main.at = "leading"
      BY <2>2, LeaderRecord
    <3>2. node'[n] = r /\ \A k \in Nodes \ {n} : node'[k] = node[k]
      BY <3>1, OtherRecords
    <3> QED
      BY <3>1, <3>2
  <2> QED
    BY <1>6, <2>1, <2>2
<1>7. CASE nameLeader(n) \/ startHeartBeat(n)
  <2>1. PICK r : node' = [node EXCEPT ![n] = r] /\ (r.main.at = "named" \/ r.main = Accepting)
    BY <1>7, NamingRecord
  <2>2. node'[n] = r /\ \A k \in Nodes \ {n} : node'[k] = node[k]
    BY <2>1, OtherRecords
  <2> QED
    BY <2>1, <2>2 DEF Accepting
<1> QED
  BY <1>2, <1>3, <1>4, <1>5, <1>6, <1>7

(* The other threads move no accept loop and put no request anywhere. *)
LEMMA ThreadsServe ==
    ASSUME TypeOK, NEW n \in Nodes,
           \/ NewPeriod(n) \/ Expire(n) \/ becomeCandidate(n) \/ sendRequestVote(n)
           \/ LoseRequestVote(n) \/ HeartBeats(n)
    PROVE  SameMain /\ Carries(inbox, inbox') /\ UNCHANGED clientVars
<1>0. /\ up \in [Nodes -> BOOLEAN] /\ inbox \in [Nodes -> Seq(Messages)]
      /\ node \in [Nodes -> NodeStates] /\ node[n] \in NodeStates
  BY DEF TypeOK
<1>1. SameMain
  <2>1. CASE NewPeriod(n)
    <3> DEFINE t == IF node[n].state = "Follower" THEN "running" ELSE "ended"
               x == [node[n] EXCEPT !.heard = FALSE, !.timer = t]
    <3>1. node' = [node EXCEPT ![n] = x]
      BY <2>1 DEF NewPeriod
    <3>2. x.main = node[n].main
      <4> HIDE DEF t
      <4> QED
        BY <1>0 DEF NodeStates
    <3> HIDE DEF x
    <3> QED
      BY <3>1, <3>2, FieldKeepsMain
  <2>2. CASE Expire(n)
    <3> DEFINE x == [node[n] EXCEPT !.timer = "expired"]
    <3>1. node' = [node EXCEPT ![n] = x] /\ x.main = node[n].main
      BY <1>0, <2>2 DEF Expire, NodeStates
    <3> HIDE DEF x
    <3> QED
      BY <3>1, FieldKeepsMain
  <2>3. CASE becomeCandidate(n)
    <3> DEFINE x == [node[n] EXCEPT !.state = "Candidate", !.votes = 1, !.asks = 0]
    <3>1. node' = [node EXCEPT ![n] = x] /\ x.main = node[n].main
      BY <1>0, <2>3 DEF becomeCandidate, NodeStates
    <3> HIDE DEF x
    <3> QED
      BY <3>1, FieldKeepsMain
  <2>4. CASE sendRequestVote(n) \/ LoseRequestVote(n)
    <3> DEFINE x == [node[n] EXCEPT !.asks = node[n].asks + 1]
    <3>1. node' = [node EXCEPT ![n] = x] /\ x.main = node[n].main
      BY <1>0, <2>4 DEF sendRequestVote, LoseRequestVote, NodeStates
    <3> HIDE DEF x
    <3> QED
      BY <3>1, FieldKeepsMain
  <2>5. CASE HeartBeats(n)
    BY <2>5 DEF HeartBeats, SendHeartBeat, SameMain
  <2> QED
    BY <2>1, <2>2, <2>3, <2>4, <2>5
<1>2. UNCHANGED clientVars
  BY DEF NewPeriod, Expire, becomeCandidate, sendRequestVote, LoseRequestVote, HeartBeats,
         SendHeartBeat
<1>3. Carries(inbox, inbox')
  <2>1. CASE sendRequestVote(n)
    <3>1. PICK m \in Nodes : m = node[n].asks
      BY <2>1 DEF sendRequestVote
    <3>2. inbox' = inbox \/ inbox' = SentTo(m, RequestVote(n), inbox)
      BY <2>1, <3>1, Zenon DEF sendRequestVote
    <3>3. RequestVote(n) \in Messages /\ RequestVote(n).type # "$"
      BY DEF Messages, RequestVote
    <3>4. Carries(inbox, SentTo(m, RequestVote(n), inbox))
      BY <1>0, <3>3, ConsumeCarries, SendCarries
    <3> QED
      BY <3>2, <3>4, ConsumeCarries
  <2>2. CASE HeartBeats(n)
    <3>1. PICK m \in Nodes : SendHeartBeat(n, m)
      BY <2>2 DEF HeartBeats
    <3>2. HeartBeat \in Messages /\ HeartBeat.type # "$"
      BY DEF Messages, HeartBeat
    <3>3. Carries(inbox, SentTo(m, HeartBeat, inbox))
      BY <1>0, <3>2, ConsumeCarries, SendCarries
    <3> QED
      BY <3>1, <3>3 DEF SendHeartBeat
  <2>3. CASE UNCHANGED inbox
    BY <2>3, ConsumeCarries
  <2> QED
    BY <2>1, <2>2, <2>3 DEF NewPeriod, Expire, becomeCandidate, LoseRequestVote
<1> QED
  BY <1>1, <1>2, <1>3

(* Every step keeps the request where the client waits for it. *)
LEMMA ServingInductive == TypeOK /\ Serving /\ [Next]_vars /\ TypeOK' => Serving'
<1> SUFFICES ASSUME TypeOK, Serving, [Next]_vars, TypeOK' PROVE Serving'
  OBVIOUS
<1>1. ASSUME NEW n \in Nodes, Accept(n) PROVE Serving'
  <2>1. CASE sendLeaderInfo(n) \/ HandleGET(n) \/ HandleWrite(n)
    BY <2>1, RequestServed
  <2>2. CASE Commit(n)
    BY <2>2, CommitServed
  <2>3. CASE startHeartBeatAgain(n)
    BY <2>3, StopServed DEF startHeartBeatAgain
  <2>4. CASE \/ CloseAgain(n) \/ sendCommitinfo(n) \/ handleCommitRequest(n)
             \/ handleHeartBeat(n) \/ handleRequestVote(n) \/ handleRecvVote(n)
             \/ becomeLeader(n) \/ nameLeader(n) \/ startHeartBeat(n)
    <3>1. \A k \in Nodes : Replicates(k)' =>
             Replicates(k) /\ node'[k].main.cmd = node[k].main.cmd
      BY <2>4, AcceptAt DEF Replicates
    <3> QED
      BY <2>4, <3>1, AcceptCarries, ServingKept
  <2> QED
    BY <1>1, <2>1, <2>2, <2>3, <2>4 DEF Accept
<1>2. ASSUME NEW n \in Nodes, \/ NewPeriod(n) \/ Expire(n) \/ becomeCandidate(n)
                              \/ sendRequestVote(n) \/ LoseRequestVote(n) \/ HeartBeats(n)
      PROVE  Serving'
  <2>1. SameMain /\ Carries(inbox, inbox') /\ UNCHANGED clientVars
    BY <1>2, ThreadsServe
  <2>2. \A k \in Nodes : Replicates(k)' =>
           Replicates(k) /\ node'[k].main.cmd = node[k].main.cmd
    BY <2>1 DEF SameMain, Replicates
  <2> QED
    BY <2>1, <2>2, ServingKept
<1>3. ASSUME NEW n \in Nodes, Crash(n) PROVE Serving'
  BY <1>3, StopServed DEF Crash
<1>4. CASE UNCHANGED <<node, inbox, clientVars>>
  <2>1. \A k \in Nodes : Replicates(k)' =>
           Replicates(k) /\ node'[k].main.cmd = node[k].main.cmd
    BY <1>4 DEF Replicates
  <2> QED
    BY <1>4, <2>1, ConsumeCarries, ServingKept
<1>5. CASE (\E c \in Commands, n \in Contacts : SendRequest(c, n)) \/ ClientStep
  BY <1>5, ClientServed
<1> QED
  BY <1>1, <1>2, <1>3, <1>4, <1>5
     DEF Next, Timer, ExpireQuiet, ExpireLate, Election, Restart, vars

-----------------------------------------------------------------------------
(* Redirections. *)

(* A node that was not started again believes that node 0 leads, or leads itself. *)
LeaderKnown ==
    \A n \in Nodes \ {0} : Fresh(n) =>
        node[n].leader = 0 \/ (node[n].leader = n /\ node[n].state = "Leader")

Redirected ==
    spent.restarts \subseteq {0} =>
        /\ client.redirects <= 1
        /\ client.redirects >= 1 => client.to = 0
        /\ answer.type = "leader" => answer.value = 0 /\ client.to # 0

RedirectInv == Serving /\ LeaderKnown /\ Redirected

(* What the nodes believe when a record keeps its belief, loses it with the process
   or becomes the one of a leader. *)
LEMMA LeaderKept ==
    ASSUME LeaderKnown, \A k \in Nodes : Fresh(k)' => Fresh(k),
           \A k \in Nodes \ {0} : Fresh(k)' =>
                \/ node'[k].leader = node[k].leader /\ node'[k].state = node[k].state
                \/ node'[k].leader = 0
                \/ node'[k].leader = k /\ node'[k].state = "Leader"
    PROVE  LeaderKnown'
BY DEF LeaderKnown

(* Restart makes nodes that were started again, no other step does. *)
LEMMA RestartsGrow ==
    ASSUME TypeOK, RoleInv, [Next]_vars
    PROVE  /\ spent.restarts \subseteq spent'.restarts
           /\ (\A n \in Nodes : ~Restart(n)) => SameRestarts
<1>0. RestartsKnown
  BY DEF RoleInv
<1>1. CASE \E n \in Nodes : Restart(n)
  BY <1>0, <1>1 DEF Restart, RestartsKnown
<1>2. CASE \E kind \in {"txns", "crashes", "late", "lost"}, max \in Nat : Spend(kind, max)
  BY <1>0, <1>2, SpendKeepsRestarts DEF SameRestarts
<1>3. CASE UNCHANGED spent
  BY <1>0, <1>3, UnspentKeepsRestarts DEF SameRestarts
<1>4. \/ \E n \in Nodes : Restart(n)
      \/ \E kind \in {"txns", "crashes", "late", "lost"}, max \in Nat : Spend(kind, max)
      \/ UNCHANGED spent
  <2>1. {MaxTxns, MaxCrashes, MaxLate, MaxLost} \subseteq Nat
    BY BoundsAssumption
  <2>2. ASSUME NEW n \in Nodes, Accept(n) PROVE UNCHANGED spent
    BY <2>2 DEF Accept, sendLeaderInfo, CloseAgain, HandleGET, HandleWrite, sendCommitinfo,
       Commit, handleCommitRequest, handleHeartBeat, handleRequestVote, handleRecvVote,
       becomeLeader, nameLeader, startHeartBeat, startHeartBeatAgain
  <2>3. ASSUME NEW n \in Nodes, Timer(n) \/ Election(n) \/ HeartBeats(n)
        PROVE  UNCHANGED spent
    BY <2>3 DEF Timer, NewPeriod, ExpireQuiet, Election, becomeCandidate, sendRequestVote,
       HeartBeats, SendHeartBeat
  <2>4. ASSUME NEW n \in Nodes, ExpireLate(n) \/ LoseRequestVote(n) \/ Crash(n)
        PROVE  \E kind \in {"txns", "crashes", "late", "lost"}, max \in Nat : Spend(kind, max)
    BY <2>1, <2>4 DEF ExpireLate, LoseRequestVote, Crash
  <2>5. ASSUME NEW c \in Commands, NEW n \in Contacts, SendRequest(c, n)
        PROVE  Spend("txns", MaxTxns)
    BY <2>5 DEF SendRequest
  <2>6. ClientStep \/ UNCHANGED vars => UNCHANGED spent
    BY DEF ClientStep, ReceiveAnswer, FollowRedirect, NoAnswer, vars
  <2> QED
    BY <2>1, <2>2, <2>3, <2>4, <2>5, <2>6 DEF Next
<1> QED
  BY <1>1, <1>2, <1>3, <1>4

(* A follower that was redirected to is believed; what it believes is node 0. *)
LEMMA LeaderInductive ==
    ASSUME TypeOK, RoleInv, LeaderKnown, [Next]_vars
    PROVE  LeaderKnown'
<1>0. /\ node \in [Nodes -> NodeStates] /\ up \in [Nodes -> BOOLEAN]
      /\ RestartsKnown /\ spent.restarts \subseteq spent'.restarts
  BY RestartsGrow DEF TypeOK, RoleInv
<1>1. ASSUME UNCHANGED up, \A k \in Nodes : SameRole(k) PROVE LeaderKnown'
  <2>1. \A k \in Nodes : Fresh(k)' => Fresh(k)
    BY <1>0, <1>1 DEF Fresh
  <2> QED
    BY <1>1, <2>1, LeaderKept DEF SameRole
<1>2. ASSUME NEW n \in Nodes, NEW r, UNCHANGED up, node' = [node EXCEPT ![n] = r],
             n # 0,
             Fresh(n) => \/ r.leader = node[n].leader /\ r.state = node[n].state
                         \/ r.leader = 0
                         \/ r.leader = n /\ r.state = "Leader"
      PROVE  LeaderKnown'
  <2>1. node'[n] = r /\ \A k \in Nodes \ {n} : node'[k] = node[k]
    BY <1>2, OtherRecords
  <2>2. \A k \in Nodes : Fresh(k)' => Fresh(k)
    BY <1>0, <1>2 DEF Fresh
  <2>3. \A k \in Nodes \ {0} : Fresh(k)' =>
           \/ node'[k].leader = node[k].leader /\ node'[k].state = node[k].state
           \/ node'[k].leader = 0
           \/ node'[k].leader = k /\ node'[k].state = "Leader"
    BY <1>2, <2>1, <2>2
  <2> QED
    BY <2>2, <2>3, LeaderKept
<1>3. ASSUME NEW n \in Nodes, Stop(n) PROVE LeaderKnown'
  <2>1. node' = [node EXCEPT ![n] = Constructed(n)] /\ up' = [up EXCEPT ![n] = FALSE]
    BY <1>3 DEF Stop
  <2>2. node'[n] = Constructed(n) /\ \A k \in Nodes \ {n} : node'[k] = node[k]
    BY <2>1, OtherRecords
  <2>3. \A k \in Nodes : Fresh(k)' => Fresh(k) /\ (k # n \/ k = 0)
    BY <1>0, <2>1 DEF Fresh
  <2> QED
    BY <2>2, <2>3, LeaderKept
<1>4. ASSUME NEW n \in Nodes, Restart(n) PROVE LeaderKnown'
  <2>1. up' = [up EXCEPT ![n] = TRUE] /\ UNCHANGED node
    BY <1>4 DEF Restart
  <2>2. n \in spent'.restarts
    BY <1>0, <1>4 DEF Restart, RestartsKnown
  <2>3. \A k \in Nodes : Fresh(k)' => Fresh(k)
    BY <1>0, <2>1, <2>2 DEF Fresh
  <2> QED
    BY <2>1, <2>3, LeaderKept
<1>5. ASSUME NEW n \in Nodes,
             \/ sendLeaderInfo(n) \/ CloseAgain(n) \/ HandleGET(n) \/ HandleWrite(n)
             \/ sendCommitinfo(n) \/ Commit(n) \/ handleCommitRequest(n)
             \/ handleHeartBeat(n) \/ handleRequestVote(n) \/ handleRecvVote(n)
      PROVE  LeaderKnown'
  <2>1. UNCHANGED up /\ \A k \in Nodes : SameRole(k)
    BY <1>5, AcceptRoles
  <2> QED
    BY <1>1, <2>1
<1>6. ASSUME NEW n \in Nodes, becomeLeader(n) PROVE LeaderKnown'
  <2>1. UNCHANGED up /\ n # 0
    BY <1>6, VoteReceived DEF becomeLeader
  <2>2. PICK r : /\ node' = [node EXCEPT ![n] = r]
                 /\ r.leader = node[n].leader /\ r.state = "Leader"
    BY <1>6, LeaderRecord
  <2>3. Fresh(n) => node[n].leader \in {0, n}
    BY <2>1 DEF LeaderKnown
  <2> QED
    BY <1>2, <2>1, <2>2, <2>3
<1>6a. ASSUME NEW n \in Nodes, nameLeader(n) \/ startHeartBeat(n) PROVE LeaderKnown'
  <2>1. UNCHANGED up /\ n # 0 /\ Naming(n)
    BY <1>6a DEF nameLeader, startHeartBeat, RoleInv, FirstRole, Naming
  <2>2. PICK r : /\ node' = [node EXCEPT ![n] = r] /\ r.state = node[n].state
                 /\ r.leader = n \/ r.leader = node[n].leader
    BY <1>6a, NamingRecord
  <2>3. Fresh(n) => node[n].state = "Leader"
    BY <2>1 DEF RoleInv, OtherRoles, RoleFits
  <2> QED
    BY <1>2, <2>1, <2>2, <2>3
<1>7. ASSUME NEW n \in Nodes, NewPeriod(n) \/ Expire(n) PROVE LeaderKnown'
  <2>1. UNCHANGED up /\ n # 0
    BY <1>7 DEF NewPeriod, Expire, RoleInv, FirstRole
  <2>2. PICK r : /\ node' = [node EXCEPT ![n] = r]
                 /\ r.leader = node[n].leader /\ r.state = node[n].state
    <3>1. CASE NewPeriod(n)
      <4> DEFINE t == IF node[n].state = "Follower" THEN "running" ELSE "ended"
                 x == [node[n] EXCEPT !.heard = FALSE, !.timer = t]
      <4>1. node' = [node EXCEPT ![n] = x]
        BY <3>1 DEF NewPeriod
      <4>2. x.leader = node[n].leader /\ x.state = node[n].state
        <5> HIDE DEF t
        <5> QED
          BY <1>0 DEF NodeStates
      <4> HIDE DEF x
      <4> QED
        BY <4>1, <4>2
    <3>2. CASE Expire(n)
      <4> DEFINE x == [node[n] EXCEPT !.timer = "expired"]
      <4>1. /\ node' = [node EXCEPT ![n] = x]
            /\ x.leader = node[n].leader /\ x.state = node[n].state
        BY <1>0, <3>2 DEF Expire, NodeStates
      <4> HIDE DEF x
      <4> QED
        BY <4>1
    <3> QED
      BY <1>7, <3>1, <3>2
  <2> QED
    BY <1>2, <2>1, <2>2
<1>8. ASSUME NEW n \in Nodes, becomeCandidate(n) PROVE LeaderKnown'
  <2>1. UNCHANGED up /\ n # 0 /\ node[n].timer = "expired" /\ node[n].asks = Waiting
    BY <1>8 DEF becomeCandidate, RoleInv, FirstRole
  <2> DEFINE x == [node[n] EXCEPT !.state = "Candidate", !.votes = 1, !.asks = 0]
  <2>2. node' = [node EXCEPT ![n] = x] /\ x.leader = node[n].leader
    BY <1>0, <1>8 DEF becomeCandidate, NodeStates
  <2>3. Fresh(n) => node[n].leader = 0
    BY <2>1 DEF RoleInv, OtherRoles, RoleFits, LeaderKnown
  <2> HIDE DEF x
  <2>4. Fresh(n) => x.leader = 0
    BY <2>2, <2>3
  <2> QED
    BY <1>2, <2>1, <2>2, <2>4
<1>9. ASSUME NEW n \in Nodes, sendRequestVote(n) \/ LoseRequestVote(n) PROVE LeaderKnown'
  <2>1. UNCHANGED up /\ n # 0
    BY <1>9, NumNodesAssumption
       DEF sendRequestVote, LoseRequestVote, RoleInv, FirstRole, Waiting, Nodes
  <2> DEFINE x == [node[n] EXCEPT !.asks = node[n].asks + 1]
  <2>2. /\ node' = [node EXCEPT ![n] = x]
        /\ x.leader = node[n].leader /\ x.state = node[n].state
    BY <1>0, <1>9 DEF sendRequestVote, LoseRequestVote, NodeStates
  <2> HIDE DEF x
  <2> QED
    BY <1>2, <2>1, <2>2
<1>10. CASE UNCHANGED <<node, up>>
  <2>1. \A k \in Nodes : SameRole(k)
    BY <1>10 DEF SameRole, Naming
  <2> QED
    BY <1>1, <1>10, <2>1
<1>11. ASSUME NEW n \in Nodes, Accept(n) PROVE LeaderKnown'
  BY <1>3, <1>5, <1>6, <1>6a, <1>11 DEF Accept, startHeartBeatAgain
<1>12. ASSUME NEW n \in Nodes, \/ Timer(n) \/ Election(n) \/ HeartBeats(n) \/ ExpireLate(n)
                               \/ LoseRequestVote(n) \/ Crash(n) \/ Restart(n)
       PROVE  LeaderKnown'
  BY <1>3, <1>4, <1>7, <1>8, <1>9, <1>10, <1>12
     DEF Timer, ExpireQuiet, ExpireLate, Election, HeartBeats, SendHeartBeat, Crash
<1> QED
  BY <1>10, <1>11, <1>12 DEF Next, SendRequest, ClientStep, ReceiveAnswer, FollowRedirect,
     NoAnswer, vars

(* The client is redirected by nodes that believe in node 0, and node 0 answers. *)
LEMMA RedirectedInductive ==
    ASSUME TypeOK, RoleInv, Serving, LeaderKnown, Redirected, [Next]_vars
    PROVE  Redirected'
<1> SUFFICES ASSUME spent'.restarts \subseteq {0}
             PROVE  /\ client'.redirects <= 1
                    /\ client'.redirects >= 1 => client'.to = 0
                    /\ answer'.type = "leader" => answer'.value = 0 /\ client'.to # 0
  BY DEF Redirected
<1>0. spent.restarts \subseteq {0}
  BY RestartsGrow
<1>1. /\ client.redirects <= 1
      /\ client.redirects >= 1 => client.to = 0
      /\ answer.type = "leader" => answer.value = 0 /\ client.to # 0
      /\ client.redirects \in Nat
  BY <1>0 DEF Redirected, TypeOK
<1>2. CASE UNCHANGED client /\ (answer' = answer \/ answer'.type # "leader")
  BY <1>1, <1>2
<1>3. ASSUME NEW n \in Nodes, sendLeaderInfo(n) PROVE Redirected'
  <2>1. /\ Accepts(n, "$") /\ node[n].state # "Leader" /\ up[n]
        /\ answer' = LeaderInfo(node[n].leader) /\ UNCHANGED client
    BY <1>3 DEF sendLeaderInfo, Accepts
  <2>2. n # 0
    BY <2>1 DEF RoleInv, FirstRole
  <2>3. Fresh(n)
    BY <1>0, <2>1, <2>2 DEF Fresh
  <2>4. node[n].leader = 0
    BY <2>1, <2>2, <2>3 DEF LeaderKnown
  <2>5. client.to = n
    BY <2>1, OnlyRequest
  <2>6. answer'.value = 0
    BY <2>1, <2>4 DEF LeaderInfo
  <2> QED
    BY <1>1, <2>1, <2>2, <2>5, <2>6 DEF Redirected
<1>4. ASSUME NEW n \in Nodes, Stop(n), UNCHANGED client
      PROVE  UNCHANGED client /\ (answer' = answer \/ answer'.type # "leader")
  BY <1>4 DEF Stop, ConnectionClosed
<1>5. ASSUME NEW n \in Nodes, HandleGET(n) \/ HandleWrite(n)
      PROVE  UNCHANGED client /\ (answer' = answer \/ answer'.type # "leader")
  <2>1. UNCHANGED client
    BY <1>5 DEF HandleGET, HandleWrite
  <2>2. answer' = answer \/ answer' = ERROR \/ \E v : answer' = ValueReply(v)
    BY <1>5, Zenon DEF HandleGET, HandleWrite
  <2> QED
    BY <2>1, <2>2 DEF ERROR, ValueReply
<1>6. ASSUME NEW n \in Nodes, Commit(n)
      PROVE  UNCHANGED client /\ (answer' = answer \/ answer'.type # "leader")
  <2>1. UNCHANGED client
    BY <1>6 DEF Commit
  <2>2. answer' = answer \/ answer' = OK \/ \E i : answer' = CountReply(i)
    <3> DEFINE method == node[n].main.cmd.method
    <3>1. CASE method = "SET"
      BY <1>6, <3>1 DEF Commit
    <3>2. CASE method = "DEL"
      BY <1>6, <3>2 DEF Commit
    <3>3. CASE method \notin {"SET", "DEL"}
      BY <1>6, <3>3 DEF Commit
    <3> QED
      BY <3>1, <3>2, <3>3
  <2> QED
    BY <2>1, <2>2 DEF OK, CountReply
<1>7. ASSUME NEW n \in Nodes, Accept(n) PROVE Redirected'
  <2>1. CASE startHeartBeatAgain(n)
    BY <1>2, <1>4, <2>1 DEF startHeartBeatAgain, Redirected
  <2>2. CASE HandleGET(n) \/ HandleWrite(n) \/ Commit(n)
    BY <1>2, <1>5, <1>6, <2>2 DEF Redirected
  <2>3. CASE UNCHANGED clientVars
    BY <1>2, <2>3 DEF clientVars, Redirected
  <2>4. CASE \/ CloseAgain(n) \/ sendCommitinfo(n) \/ handleCommitRequest(n)
             \/ handleHeartBeat(n) \/ handleRequestVote(n) \/ handleRecvVote(n)
             \/ becomeLeader(n) \/ nameLeader(n) \/ startHeartBeat(n)
    BY <2>3, <2>4, AcceptCarries
  <2> QED
    BY <1>3, <1>7, <2>1, <2>2, <2>4 DEF Accept
<1>8. ASSUME NEW n \in Nodes, \/ NewPeriod(n) \/ Expire(n) \/ becomeCandidate(n)
                              \/ sendRequestVote(n) \/ LoseRequestVote(n) \/ HeartBeats(n)
      PROVE  Redirected'
  <2>1. UNCHANGED clientVars
    BY <1>8, ThreadsServe
  <2> QED
    BY <1>2, <2>1 DEF clientVars, Redirected
<1>9. ASSUME NEW n \in Nodes, Crash(n) PROVE Redirected'
  BY <1>2, <1>4, <1>9 DEF Crash, Redirected
<1>10. ASSUME NEW n \in Nodes, Restart(n) PROVE Redirected'
  BY <1>2, <1>10 DEF Restart, clientVars, Redirected
<1>11. ASSUME NEW c \in Commands, NEW n \in Contacts, SendRequest(c, n) PROVE Redirected'
  <2>1. client' = [cmd |-> c, to |-> n, redirects |-> 0] /\ answer' = NoReply
    BY <1>11 DEF SendRequest
  <2>2. client'.redirects = 0 /\ answer'.type # "leader"
    BY <2>1 DEF NoReply
  <2> QED
    BY <2>2 DEF Redirected
<1>12. CASE ReceiveAnswer \/ NoAnswer
  <2>1. client' = NoRequestSent /\ answer' = NoReply
    BY <1>12 DEF ReceiveAnswer, NoAnswer
  <2>2. client'.redirects = 0 /\ answer'.type # "leader"
    BY <2>1 DEF NoReply, NoRequestSent
  <2> QED
    BY <2>2 DEF Redirected
<1>13. CASE FollowRedirect
  <2>1. answer.value = 0 /\ client.redirects = 0
    BY <1>1, <1>13 DEF FollowRedirect
  <2>2. client' = [client EXCEPT !.to = 0, !.redirects = 0 + 1] /\ answer' = NoReply
    BY <1>13, <2>1 DEF FollowRedirect
  <2>3. client'.to = 0 /\ client'.redirects = 1
    BY <2>2 DEF TypeOK
  <2>4. answer'.type # "leader"
    BY <2>2 DEF NoReply
  <2> QED
    BY <2>3, <2>4 DEF Redirected
<1>14. CASE UNCHANGED vars
  BY <1>2, <1>14 DEF vars, clientVars, Redirected
<1>15. ASSUME NEW n \in Nodes, \/ Timer(n) \/ Election(n) \/ HeartBeats(n) \/ ExpireLate(n)
                               \/ LoseRequestVote(n) \/ Crash(n) \/ Restart(n)
       PROVE  Redirected'
  BY <1>8, <1>9, <1>10, <1>15 DEF Timer, ExpireQuiet, ExpireLate, Election
<1>16. CASE ClientStep
  BY <1>12, <1>13, <1>16 DEF ClientStep
<1> QED
  BY <1>7, <1>11, <1>14, <1>15, <1>16 DEF Next, Redirected

(* There is no request at first, and every node believes in node 0. *)
LEMMA RedirectInit == Init => RedirectInv
<1> SUFFICES ASSUME Init PROVE RedirectInv
  OBVIOUS
<1>1. \A n \in Nodes : inbox[n] = <<>> /\ node[n] = Constructed(n)
  BY DEF Init
<1>2. \A n \in Nodes : Constructed(n).main = Accepting /\ Constructed(n).leader = 0
  BY Zenon DEF Constructed
<1>3. NothingWaits
  BY <1>1 DEF NothingWaits, Pending
<1>4. \A n \in Nodes : ~Replicates(n)
  BY <1>1, <1>2 DEF Replicates, Accepting
<1>5. Answered
  BY DEF Init, Answered, NoRequestSent
<1>6. LeaderKnown
  BY <1>1, <1>2 DEF LeaderKnown
<1>7. client.redirects = 0 /\ answer.type # "leader"
  BY DEF Init, NoRequestSent, NoReply
<1>8. Redirected
  BY <1>7 DEF Redirected
<1> QED
  BY <1>3, <1>4, <1>5, <1>6, <1>8, ServingOver DEF RedirectInv

(* RaftOneRedirectSuffices: unless a node other than node 0 was started again, no
   client is redirected twice, whatever elections and crashes happen meanwhile. *)
THEOREM RaftOneRedirectSuffices == Spec => []OneRedirectSuffices
<1>1. Init => RedirectInv
  BY RedirectInit
<1>2. TypeOK /\ RoleInv /\ TypeOK' /\ RedirectInv /\ [Next]_vars => RedirectInv'
  <2> SUFFICES ASSUME TypeOK, RoleInv, TypeOK', RedirectInv, [Next]_vars PROVE RedirectInv'
    OBVIOUS
  <2> QED
    BY ServingInductive, LeaderInductive, RedirectedInductive DEF RedirectInv
<1>3. RedirectInv => OneRedirectSuffices
  BY DEF RedirectInv, Redirected, OneRedirectSuffices
<1> QED
  BY <1>1, <1>2, <1>3, RaftTypeOK, RolesInvariant, PTL DEF Spec

-----------------------------------------------------------------------------
(* One store.  While node 0 is not killed and no timer expires too early, nobody asks
   for votes, the other nodes stay followers and only node 0 replicates. *)

(* Of a step: node 0 runs after it. *)
FirstNodeStays == MaxLate = 0 /\ up'[0]

(* No message of an election, and no COMMIT for the node that sends them. *)
Calm(boxes) ==
    \A n \in Nodes : \A i \in DOMAIN boxes[n] :
        /\ boxes[n][i].type \notin {"RequestVote", "AgreeVote"}
        /\ boxes[n][i].type = "COMMIT" => n # 0

Follows(n) ==
    /\ node[n].state = "Follower" /\ node[n].timer = "running" /\ node[n].asks = Waiting
    /\ node[n].main.at # "commit" /\ ~Naming(n)

NothingLate == "late" \in DOMAIN spent /\ spent["late"] = 0

Steady ==
    /\ up[0]
    /\ Calm(inbox)
    /\ \A n \in Nodes \ {0} : Follows(n)
    /\ NothingLate

(* Messages that keep the calm. *)
LEMMA SendCalm ==
    ASSUME up \in [Nodes -> BOOLEAN], NEW b \in [Nodes -> Seq(Messages)], Calm(b),
           NEW m \in Nodes, NEW msg \in Messages,
           msg.type \notin {"RequestVote", "AgreeVote"}, msg.type = "COMMIT" => m # 0
    PROVE  Calm(SentTo(m, msg, b))
<1> DEFINE s == SentTo(m, msg, b)
<1>1. \A k \in Nodes : \A i \in DOMAIN s[k] :
         \/ \E j \in DOMAIN b[k] : b[k][j] = s[k][i]
         \/ k = m /\ up[m] /\ s[k][i] = msg
  BY SentToElements
<1> HIDE DEF s
<1>2. Calm(s)
  <2> SUFFICES ASSUME NEW k \in Nodes, NEW i \in DOMAIN s[k]
               PROVE  /\ s[k][i].type \notin {"RequestVote", "AgreeVote"}
                      /\ s[k][i].type = "COMMIT" => k # 0
    BY DEF Calm
  <2>1. CASE \E j \in DOMAIN b[k] : b[k][j] = s[k][i]
    BY <2>1 DEF Calm
  <2>2. CASE k = m /\ s[k][i] = msg
    BY <2>2
  <2> QED
    BY <1>1, <2>1, <2>2
<1> QED
  BY <1>2 DEF s

(* Consuming a message does, and what is consumed is what the calm allows. *)
LEMMA ConsumeCalm ==
    ASSUME TypeOK, Calm(inbox), NEW n \in Nodes, inbox[n] # <<>>
    PROVE  /\ Calm(Consumed(n))
           /\ Head(inbox[n]).type \notin {"RequestVote", "AgreeVote"}
           /\ Head(inbox[n]).type = "COMMIT" => n # 0
<1>1. inbox \in [Nodes -> Seq(Messages)]
  BY DEF TypeOK
<1>2. /\ \E j \in DOMAIN inbox[n] : inbox[n][j] = Head(inbox[n])
      /\ \A k \in Nodes : \A i \in DOMAIN Consumed(n)[k] :
            \E j \in DOMAIN inbox[k] : inbox[k][j] = Consumed(n)[k][i]
  BY <1>1, ConsumedElements
<1> QED
  BY <1>2 DEF Calm

(* A new process of another node is a follower. *)
LEMMA ConstructedFollows ==
    ASSUME NEW n \in Nodes \ {0}
    PROVE  /\ Constructed(n).state = "Follower" /\ Constructed(n).timer = "running"
           /\ Constructed(n).asks = Waiting /\ Constructed(n).main = Accepting
           /\ Constructed(n).main.at \notin {"commit", "leading", "named"}
<1>1. /\ Constructed(n).state = "Follower" /\ Constructed(n).timer = "running"
      /\ Constructed(n).asks = Waiting /\ Constructed(n).main = Accepting
  BY Zenon DEF Constructed
<1> QED
  BY <1>1 DEF Accepting

(* Only timers that expire late count as such. *)
LEMMA NothingLateKept ==
    ASSUME NothingLate,
           \/ \E kind \in {"txns", "crashes", "lost"}, max \in Nat : Spend(kind, max)
           \/ \E n \in Nodes : Restart(n)
           \/ UNCHANGED spent
    PROVE  NothingLate'
BY DEF NothingLate, Spend, Restart

(* What the steps do that the calm allows: node 0 alone answers and replicates. *)
LEMMA CalmSteps ==
    ASSUME TypeOK, RoleInv, Steady, FirstNodeStays, NEW n \in Nodes
    PROVE  /\ HandleGET(n) \/ HandleWrite(n) \/ sendCommitinfo(n) \/ Commit(n) => n = 0
           /\ sendLeaderInfo(n) \/ handleCommitRequest(n) \/ NewPeriod(n) \/ Crash(n) => n # 0
           /\ ~handleRequestVote(n) /\ ~handleRecvVote(n)
           /\ ~becomeLeader(n)
           /\ ~nameLeader(n) /\ ~startHeartBeat(n) /\ ~startHeartBeatAgain(n)
           /\ ~ExpireQuiet(n) /\ ~ExpireLate(n)
           /\ ~becomeCandidate(n) /\ ~sendRequestVote(n) /\ ~LoseRequestVote(n)
<1>1. FirstRole /\ 0 \in Nodes /\ up[0] /\ Calm(inbox) /\ NothingLate
      /\ (n # 0 => Follows(n))
  BY ZeroIsANode DEF RoleInv, Steady
<1>2. HandleGET(n) \/ HandleWrite(n) \/ sendCommitinfo(n) \/ Commit(n) => n = 0
  BY <1>1 DEF Follows, HandleGET, HandleWrite, sendCommitinfo, Commit
<1>3. sendLeaderInfo(n) \/ NewPeriod(n) \/ Crash(n) => n # 0
  <2>1. sendLeaderInfo(n) \/ NewPeriod(n) => n # 0
    BY <1>1 DEF FirstRole, sendLeaderInfo, NewPeriod
  <2>2. ASSUME Crash(n) PROVE n # 0
    <3>1. up' = [up EXCEPT ![n] = FALSE] /\ up \in [Nodes -> BOOLEAN]
      BY <2>2 DEF Crash, Stop, TypeOK
    <3> QED
      BY <3>1 DEF FirstNodeStays
  <2> QED
    BY <2>1, <2>2
<1>4. handleCommitRequest(n) => n # 0
  BY <1>1, ConsumeCalm DEF handleCommitRequest, Accepts
<1>5. ~handleRequestVote(n) /\ ~handleRecvVote(n) /\ ~becomeLeader(n)
  BY <1>1, ConsumeCalm DEF handleRequestVote, handleRecvVote, becomeLeader, Accepts
<1>10. ~nameLeader(n) /\ ~startHeartBeat(n) /\ ~startHeartBeatAgain(n)
  <2>1. ~Naming(n)
    BY <1>1 DEF FirstRole, Follows
  <2> QED
    BY <2>1 DEF Naming, nameLeader, startHeartBeat, startHeartBeatAgain
<1>6. ~ExpireQuiet(n)
  BY <1>1 DEF FirstRole, ExpireQuiet, Expire, Quiet
<1>7. ~ExpireLate(n)
  BY <1>1 DEF FirstNodeStays, NothingLate, ExpireLate, Spend
<1>8. ~becomeCandidate(n)
  BY <1>1 DEF FirstRole, Follows, becomeCandidate
<1>9. ~sendRequestVote(n) /\ ~LoseRequestVote(n)
  <2>1. node[n].asks = Waiting
    BY <1>1 DEF FirstRole, Follows
  <2>2. Waiting \notin Nodes
    BY NumNodesAssumption DEF Waiting, Nodes
  <2> QED
    BY <2>1, <2>2 DEF sendRequestVote, LoseRequestVote
<1> QED
  BY <1>2, <1>3, <1>4, <1>5, <1>6, <1>7, <1>8, <1>9, <1>10

(* Messages of the client and of node 0, and the answers, keep the calm. *)
LEMMA SteadyKept ==
    ASSUME TypeOK, Steady, UNCHANGED up, Calm(inbox'), NothingLate',
           \A k \in Nodes \ {0} : Follows(k)'
    PROVE  Steady'
BY DEF Steady

LEMMA AcceptSteady ==
    ASSUME TypeOK, RoleInv, Steady, FirstNodeStays, NEW n \in Nodes, Accept(n)
    PROVE  Steady'
<1>0. /\ node \in [Nodes -> NodeStates] /\ up \in [Nodes -> BOOLEAN]
      /\ inbox \in [Nodes -> Seq(Messages)] /\ node[n] \in NodeStates
      /\ Calm(inbox) /\ NothingLate
      /\ \A k \in Nodes \ {0} : Follows(k)
  BY DEF TypeOK, Steady
<1>1. \/ sendLeaderInfo(n) \/ CloseAgain(n) \/ HandleGET(n) \/ HandleWrite(n)
      \/ sendCommitinfo(n) \/ Commit(n) \/ handleCommitRequest(n) \/ handleHeartBeat(n)
  BY CalmSteps DEF Accept
<1>2. UNCHANGED <<up, spent>> /\ \A k \in Nodes : SameRole(k)
  BY <1>1, AcceptRoles
<1>3. NothingLate'
  BY <1>0, <1>2 DEF NothingLate
<1>4. Calm(inbox')
  <2>1. CASE sendCommitinfo(n)
    <3> DEFINE main == node[n].main
    <3>1. main \in MainStates /\ main.at = "commit" /\ n = 0
      BY <1>0, <2>1, CalmSteps DEF sendCommitinfo, NodeStates
    <3>2. main.cmd \in Commands /\ main.idx \in Nat
      BY <3>1, NumNodesAssumption DEF MainStates
    <3>3. main.idx < NumNodes
      BY <2>1 DEF sendCommitinfo, ReplicasAsked
    <3>4. main.idx \in Nodes /\ CommitMessage(main.cmd) \in Messages
      BY <3>2, <3>3, NumNodesAssumption DEF Nodes, Messages
    <3>5. CommitMessage(main.cmd).type = "COMMIT"
      BY DEF CommitMessage, COMMIT
    <3>6. \/ inbox' = inbox
          \/ main.idx # 0 /\ inbox' = SentTo(main.idx, CommitMessage(main.cmd), inbox)
      BY <2>1, <3>1, Zenon DEF sendCommitinfo
    <3>7. main.idx # 0 => Calm(SentTo(main.idx, CommitMessage(main.cmd), inbox))
      BY <1>0, <3>4, <3>5, SendCalm
    <3> QED
      BY <1>0, <3>6, <3>7
  <2>2. CASE UNCHANGED inbox
    BY <1>0, <2>2
  <2>3. CASE inbox[n] # <<>> /\ inbox' = Consumed(n)
    BY <1>0, <2>3, ConsumeCalm
  <2> QED
    BY <1>1, <2>1, <2>2, <2>3
       DEF Accepts, sendLeaderInfo, CloseAgain, HandleGET, HandleWrite, Commit,
           handleCommitRequest, handleHeartBeat
<1>5. ASSUME NEW k \in Nodes \ {0} PROVE node'[k].main.at # "commit"
  <2>1. node[k].main.at # "commit"
    BY <1>0 DEF Follows
  <2>2. CASE HandleWrite(n)
    <3>1. n = 0
      BY <2>2, CalmSteps
    <3>2. node' = [node EXCEPT
             ![n].main = [at |-> "commit", cmd |-> Head(inbox[n]).cmd, idx |-> 0]]
      BY <2>2, Zenon DEF HandleWrite
    <3>3. node'[k] = node[k]
      BY <1>0, <3>1, <3>2
    <3> QED
      BY <2>1, <3>3
  <2>3. CASE sendLeaderInfo(n)
    <3>1. node' = [node EXCEPT ![n] = [node[n] EXCEPT !.main = [Accepting EXCEPT !.at = "closing"]]]
      BY <2>3 DEF sendLeaderInfo, Accepts
    <3>2. [node[n] EXCEPT !.main = [Accepting EXCEPT !.at = "closing"]].main.at = "closing"
      BY <1>0 DEF NodeStates, Accepting
    <3>3. node'[n].main.at = "closing" /\ \A l \in Nodes \ {n} : node'[l] = node[l]
      BY <3>1, <3>2, OtherRecords
    <3> QED
      BY <2>1, <3>3
  <2>4. CASE \/ CloseAgain(n) \/ sendCommitinfo(n) \/ handleCommitRequest(n)
             \/ handleHeartBeat(n)
    <3>1. node'[k].main.at = "commit" => node[k].main.at = "commit"
      BY <2>4, AcceptAt
    <3> QED
      BY <2>1, <3>1
  <2>5. CASE HandleGET(n)
    BY <2>1, <2>5 DEF HandleGET
  <2>6. CASE Commit(n)
    BY <1>0, <2>1, <2>6 DEF Commit, NodeStates, Accepting
  <2> QED
    BY <1>1, <2>2, <2>3, <2>4, <2>5, <2>6
<1>6. \A k \in Nodes \ {0} : Follows(k)'
  BY <1>0, <1>2, <1>5 DEF Follows, SameRole, Naming
<1> QED
  BY <1>2, <1>3, <1>4, <1>6, SteadyKept

(* So do all the other steps. *)
LEMMA OthersSteady ==
    ASSUME TypeOK, RoleInv, Steady, FirstNodeStays,
           \/ \E n \in Nodes : Timer(n) \/ Election(n) \/ HeartBeats(n)
           \/ \E n \in Nodes : ExpireLate(n) \/ LoseRequestVote(n) \/ Crash(n) \/ Restart(n)
           \/ \E c \in Commands, n \in Contacts : SendRequest(c, n)
           \/ ClientStep
           \/ UNCHANGED vars
    PROVE  Steady'
<1>0. /\ node \in [Nodes -> NodeStates] /\ up \in [Nodes -> BOOLEAN]
      /\ inbox \in [Nodes -> Seq(Messages)]
      /\ Calm(inbox) /\ NothingLate /\ up[0] /\ 0 \in Nodes
      /\ \A k \in Nodes \ {0} : Follows(k)
  BY ZeroIsANode DEF TypeOK, Steady
<1>1. ASSUME NEW n \in Nodes, NewPeriod(n) PROVE Steady'
  <2> DEFINE t == IF node[n].state = "Follower" THEN "running" ELSE "ended"
             x == [node[n] EXCEPT !.heard = FALSE, !.timer = t]
  <2>1. n # 0 /\ node[n] \in NodeStates /\ UNCHANGED <<up, inbox, spent>>
    BY <1>0, <1>1, CalmSteps DEF NewPeriod
  <2>2. node' = [node EXCEPT ![n] = x]
    BY <1>1 DEF NewPeriod
  <2>3. t = "running"
    BY <1>0, <2>1 DEF Follows
  <2>4. /\ x.timer = t /\ x.state = node[n].state /\ x.asks = node[n].asks
        /\ x.main = node[n].main
    <3> HIDE DEF t
    <3> QED
      BY <2>1 DEF NodeStates
  <2> HIDE DEF x, t
  <2>5. node'[n] = x /\ \A k \in Nodes \ {n} : node'[k] = node[k]
    BY <2>2, OtherRecords
  <2>6. ASSUME NEW k \in Nodes \ {0} PROVE Follows(k)'
    <3>1. Follows(k)
      BY <1>0
    <3>2. CASE k = n
      BY <2>3, <2>4, <2>5, <3>1, <3>2 DEF Follows, Naming
    <3>3. CASE k # n
      BY <2>5, <3>1, <3>3 DEF Follows, Naming
    <3> QED
      BY <3>2, <3>3
  <2>7. NothingLate' /\ Calm(inbox')
    BY <1>0, <2>1 DEF NothingLate
  <2> QED
    BY <2>1, <2>6, <2>7, SteadyKept
<1>2. ASSUME NEW n \in Nodes, NEW m \in Nodes, SendHeartBeat(n, m) PROVE Steady'
  <2>1. HeartBeat \in Messages /\ HeartBeat.type = "HeartBeat"
    BY DEF Messages, HeartBeat
  <2>2. Calm(SentTo(m, HeartBeat, inbox))
    BY <1>0, <2>1, SendCalm
  <2>3. Calm(inbox') /\ NothingLate' /\ UNCHANGED <<node, up>>
    BY <1>0, <1>2, <2>2 DEF SendHeartBeat, NothingLate
  <2> QED
    BY <1>0, <2>3, SteadyKept DEF Follows, Naming
<1>3. ASSUME NEW n \in Nodes, Crash(n) PROVE Steady'
  <2>1. /\ n # 0 /\ node' = [node EXCEPT ![n] = Constructed(n)]
        /\ up' = [up EXCEPT ![n] = FALSE] /\ inbox' = [inbox EXCEPT ![n] = <<>>]
    BY <1>3, CalmSteps DEF Crash, Stop
  <2>2. node'[n] = Constructed(n) /\ \A k \in Nodes \ {n} : node'[k] = node[k]
    BY <2>1, OtherRecords
  <2>3. \A k \in Nodes \ {0} : Follows(k)'
    BY <1>0, <2>1, <2>2, ConstructedFollows DEF Follows, Naming
  <2>4. inbox'[n] = <<>> /\ \A k \in Nodes \ {n} : inbox'[k] = inbox[k]
    BY <1>0, <2>1
  <2>5. Calm(inbox')
    BY <1>0, <2>4 DEF Calm
  <2>6. NothingLate'
    BY <1>0, <1>3, BoundsAssumption, NothingLateKept DEF Crash
  <2>7. up'[0]
    BY <1>0, <2>1
  <2> QED
    BY <2>3, <2>5, <2>6, <2>7 DEF Steady
<1>4. ASSUME NEW n \in Nodes, Restart(n) PROVE Steady'
  <2>1. up' = [up EXCEPT ![n] = TRUE] /\ UNCHANGED <<node, inbox>>
    BY <1>4 DEF Restart
  <2>2. up'[0]
    BY <1>0, <2>1
  <2>3. NothingLate' /\ Calm(inbox')
    BY <1>0, <1>4, <2>1, NothingLateKept
  <2> QED
    BY <1>0, <2>1, <2>2, <2>3 DEF Steady, Follows, Naming
<1>5. ASSUME NEW c \in Commands, NEW m \in Nodes, inbox' = SentTo(m, Request(c), inbox)
      PROVE  Calm(inbox')
  <2>1. Request(c) \in Messages /\ Request(c).type = "$"
    BY DEF Messages, Request
  <2>2. Calm(SentTo(m, Request(c), inbox))
    BY <1>0, <2>1, SendCalm
  <2> QED
    BY <1>5, <2>2
<1>6. ASSUME NEW c \in Commands, NEW n \in Contacts, SendRequest(c, n) PROVE Steady'
  <2>1. UNCHANGED <<node, up>> /\ inbox' = SentTo(n, Request(c), inbox) /\ n \in Nodes
    BY <1>6, NodesAssumption DEF SendRequest
  <2>2. Calm(inbox')
    BY <1>5, <2>1
  <2>3. NothingLate'
    BY <1>0, <1>6, BoundsAssumption, NothingLateKept DEF SendRequest
  <2> QED
    BY <1>0, <2>1, <2>2, <2>3, SteadyKept DEF Follows, Naming
<1>7. CASE FollowRedirect
  <2>1. /\ UNCHANGED <<node, up, spent>> /\ client.cmd \in Commands /\ answer.value \in Nodes
        /\ inbox' = SentTo(answer.value, Request(client.cmd), inbox)
    BY <1>7, AnswerKinds DEF FollowRedirect, TypeOK
  <2>2. Calm(inbox')
    BY <1>5, <2>1
  <2>3. NothingLate'
    BY <1>0, <2>1, NothingLateKept
  <2> QED
    BY <1>0, <2>1, <2>2, <2>3, SteadyKept DEF Follows, Naming
<1>8. CASE ReceiveAnswer \/ NoAnswer \/ UNCHANGED vars
  <2>1. UNCHANGED <<node, up, inbox, spent>>
    BY <1>8 DEF ReceiveAnswer, NoAnswer, vars
  <2>2. NothingLate' /\ Calm(inbox')
    BY <1>0, <2>1, NothingLateKept
  <2> QED
    BY <1>0, <2>1, <2>2, SteadyKept DEF Follows, Naming
<1>9. ASSUME NEW n \in Nodes, \/ Timer(n) \/ Election(n) \/ HeartBeats(n)
                              \/ ExpireLate(n) \/ LoseRequestVote(n) \/ Crash(n) \/ Restart(n)
      PROVE  Steady'
  BY <1>1, <1>2, <1>3, <1>4, <1>9, CalmSteps DEF Timer, Election, HeartBeats
<1> QED
  BY <1>6, <1>7, <1>8, <1>9 DEF ClientStep

(* A read that was answered is still what node 0 holds. *)
ReadIsCurrent ==
    client.cmd.method = "GET" /\ answer \in Replies /\ answer # NoReply =>
        answer = ValueReply(kvdb[0][client.cmd.words[1]])

(* Node 0 understands every command. *)
Understood == \A c \in Commands : c.method # "other"

(* What holds while node 0 runs: it does not return once it was killed. *)
WhileFirstRuns == Steady /\ ReadIsCurrent

OneStoreInv == Serving /\ (up[0] => WhileFirstRuns)

(* Most steps the client does not see. *)
Unseen == UNCHANGED clientVars /\ kvdb'[0] = kvdb[0]

(* The others redirect, read, write, stop another node or are the client's. *)
LEMMA SeenSteps ==
    ASSUME TypeOK, RoleInv, Steady, FirstNodeStays, [Next]_vars
    PROVE  \/ Unseen
           \/ \E n \in Nodes : sendLeaderInfo(n)
           \/ HandleGET(0) \/ HandleWrite(0) \/ Commit(0)
           \/ \E n \in Nodes \ {0} : Stop(n) /\ UNCHANGED <<client, reply>>
           \/ \E c \in Commands, n \in Contacts : SendRequest(c, n)
           \/ ClientStep
<1>0. kvdb \in [Nodes -> Stores] /\ 0 \in Nodes
  BY ZeroIsANode DEF TypeOK
<1>1. ASSUME NEW n \in Nodes, Accept(n)
      PROVE  \/ Unseen
             \/ sendLeaderInfo(n)
             \/ HandleGET(0) \/ HandleWrite(0) \/ Commit(0)
  <2>1. CASE sendLeaderInfo(n) \/ HandleGET(n) \/ HandleWrite(n) \/ Commit(n)
    BY <2>1, CalmSteps
  <2>2. CASE CloseAgain(n) \/ sendCommitinfo(n) \/ handleHeartBeat(n)
    BY <2>2 DEF CloseAgain, sendCommitinfo, handleHeartBeat, Unseen
  <2>3. CASE handleCommitRequest(n)
    <3>1. n # 0 /\ UNCHANGED clientVars
      BY <2>3, CalmSteps DEF handleCommitRequest
    <3>2. \E s : kvdb' = [kvdb EXCEPT ![n] = s]
      <4> DEFINE msg == Head(inbox[n])
                 s == [kvdb[n] EXCEPT ![msg.words[1]] = Tail(msg.words)]
                 t == Erase(kvdb[n], WordsOf(msg.words))
      <4>1. kvdb' = IF msg.method = "SET" THEN [kvdb EXCEPT ![n] = s] ELSE [kvdb EXCEPT ![n] = t]
        BY <2>3 DEF handleCommitRequest
      <4> HIDE DEF s, t
      <4> QED
        BY <4>1
    <3>3. kvdb'[0] = kvdb[0]
      BY <1>0, <3>1, <3>2
    <3> QED
      BY <3>1, <3>3 DEF Unseen
  <2> QED
    BY <1>1, <2>1, <2>2, <2>3, CalmSteps DEF Accept
<1>2. ASSUME NEW n \in Nodes, Timer(n) \/ Election(n) \/ HeartBeats(n) \/ Restart(n)
      PROVE  Unseen
  BY <1>2, CalmSteps
     DEF Timer, NewPeriod, Election, HeartBeats, SendHeartBeat, Restart, Unseen
<1>3. ASSUME NEW n \in Nodes, Crash(n)
      PROVE  n \in Nodes \ {0} /\ Stop(n) /\ UNCHANGED <<client, reply>>
  BY <1>3, CalmSteps DEF Crash
<1>4. \A n \in Nodes : ~ExpireLate(n) /\ ~LoseRequestVote(n)
  BY CalmSteps
<1>5. CASE UNCHANGED vars
  BY <1>5 DEF vars, clientVars, Unseen
<1> QED
  BY <1>1, <1>2, <1>3, <1>4, <1>5 DEF Next

(* The request that a node accepts is the client's, and one of the commands. *)
LEMMA AcceptedRequest ==
    ASSUME TypeOK, Serving, NEW n \in Nodes, Accepts(n, "$")
    PROVE  /\ client.cmd \in Commands /\ answer = NoReply
           /\ Head(inbox[n]).cmd = client.cmd
BY OnlyRequest DEF TypeOK

(* The answer of the replication. *)
LEMMA CommitAnswers ==
    ASSUME TypeOK, Serving, Commit(0), Understood
    PROVE  \/ Unseen
           \/ /\ client.cmd \in Commands /\ client.cmd.method \in {"SET", "DEL"}
              /\ answer = NoReply /\ UNCHANGED <<client, reply>>
              /\ client.cmd.method = "SET" =>
                    /\ kvdb'[0] =
                         [kvdb[0] EXCEPT ![client.cmd.words[1]] = Tail(client.cmd.words)]
                    /\ answer' = OK
              /\ client.cmd.method = "DEL" =>
                    /\ kvdb'[0] = Erase(kvdb[0], WordsOf(client.cmd.words))
                    /\ answer' = CountReply(successDelCnt(client.cmd, kvdb[0]))
<1>0. 0 \in Nodes /\ kvdb \in [Nodes -> Stores]
  BY ZeroIsANode DEF TypeOK
<1>1. /\ node[0].main.at = "commit" /\ node[0].main.cmd \in Commands
      /\ UNCHANGED <<client, reply>>
  BY <1>0 DEF Commit, TypeOK, NodeStates, MainStates
<1>2. node[0].main.cmd.method \in {"SET", "GET", "DEL"}
  BY <1>1, CommandType DEF Understood
<1>3. Replicates(0)
  BY <1>1, <1>2 DEF Replicates
<1>4. node[0].main.cmd = client.cmd /\ answer = NoReply
  BY <1>0, <1>3 DEF Serving, Replicated
<1>5. CASE client.cmd.method = "GET"
  BY <1>1, <1>4, <1>5 DEF Commit, Unseen, clientVars
<1>6. CASE client.cmd.method = "SET"
  <2>1. /\ kvdb' = [kvdb EXCEPT ![0] =
                      [kvdb[0] EXCEPT ![client.cmd.words[1]] = Tail(client.cmd.words)]]
        /\ answer' = OK
    BY <1>4, <1>6 DEF Commit
  <2> QED
    BY <1>0, <1>1, <1>4, <1>6, <2>1
<1>7. CASE client.cmd.method = "DEL"
  <2>1. /\ kvdb' = [kvdb EXCEPT ![0] = Erase(kvdb[0], WordsOf(client.cmd.words))]
        /\ answer' = CountReply(successDelCnt(client.cmd, kvdb[0]))
    BY <1>4, <1>7 DEF Commit
  <2> QED
    BY <1>0, <1>1, <1>4, <1>7, <2>1
<1> QED
  BY <1>2, <1>4, <1>5, <1>6, <1>7

(* Reads stay current: while one is answered, nothing is written. *)
LEMMA ReadStaysCurrent ==
    ASSUME TypeOK, RoleInv, Serving, Steady, ReadIsCurrent, FirstNodeStays, Understood,
           [Next]_vars
    PROVE  ReadIsCurrent'
<1>0. /\ 0 \in Nodes /\ ConnectionClosed \notin Replies
      /\ \A m \in Nodes : LeaderInfo(m) \notin Replies
  BY ZeroIsANode DEF ConnectionClosed, LeaderInfo, Replies, OK, ERROR, NoReply, ValueReply,
     CountReply
<1>1. CASE Unseen
  BY <1>1 DEF Unseen, clientVars, ReadIsCurrent
<1>2. ASSUME NEW n \in Nodes, sendLeaderInfo(n) PROVE ReadIsCurrent'
  <2>1. answer' = LeaderInfo(node[n].leader) /\ node[n].leader \in Nodes
    BY <1>2 DEF sendLeaderInfo, TypeOK, NodeStates
  <2> QED
    BY <1>0, <2>1 DEF ReadIsCurrent
<1>3. CASE HandleGET(0)
  <2>1. /\ answer' = ValueReply(kvdb[0][client.cmd.words[1]])
        /\ UNCHANGED <<client, kvdb>>
    BY <1>0, <1>3, AcceptedRequest DEF HandleGET
  <2> QED
    BY <2>1 DEF ReadIsCurrent
<1>4. CASE HandleWrite(0)
  <2>1. client.cmd \in Commands /\ Head(inbox[0]).cmd = client.cmd /\ answer = NoReply
    BY <1>0, <1>4, AcceptedRequest DEF HandleWrite
  <2>2. answer' = IF Head(inbox[0]).cmd.method = "other" THEN ERROR ELSE answer
    BY <1>4, Zenon DEF HandleWrite
  <2>3. answer' = NoReply
    BY <2>1, <2>2 DEF Understood
  <2> QED
    BY <2>3 DEF ReadIsCurrent
<1>5. CASE Commit(0)
  BY <1>1, <1>5, CommitAnswers DEF ReadIsCurrent
<1>6. ASSUME NEW n \in Nodes \ {0}, Stop(n), UNCHANGED <<client, reply>> PROVE ReadIsCurrent'
  <2>1. kvdb'[0] = kvdb[0]
    BY <1>0, <1>6 DEF Stop, TypeOK
  <2>2. answer' = answer \/ answer' = ConnectionClosed
    BY <1>6 DEF Stop
  <2> QED
    BY <1>0, <1>6, <2>1, <2>2 DEF ReadIsCurrent
<1>7. ASSUME NEW c \in Commands, NEW n \in Contacts, SendRequest(c, n) PROVE ReadIsCurrent'
  BY <1>7 DEF SendRequest, ReadIsCurrent
<1>8. CASE ClientStep
  BY <1>8 DEF ClientStep, ReceiveAnswer, FollowRedirect, NoAnswer, ReadIsCurrent
<1> QED
  BY <1>1, <1>2, <1>3, <1>4, <1>5, <1>6, <1>7, <1>8, SeenSteps

(* The words of AtomicStore are those of RaftStore. *)
LEMMA SameWords ==
    /\ OneStore!NoRequest = NoRequest
    /\ OneStore!NoReply = NoReply
    /\ OneStore!EmptyStore = EmptyStore
    /\ OneStore!Writes = Writes
    /\ OneStore!GetRequests = GetRequests
    /\ OneStore!Requests = Requests
    /\ \A o, s : OneStore!Apply(o, s) = Apply(o, s)
    /\ \A o, s : OneStore!Result(o, s) = Result(o, s)
<1>1. OneStore!NoRequest = NoRequest /\ OneStore!NoReply = NoReply
  BY DEF OneStore!NoRequest, NoRequest, OneStore!NoReply, NoReply
<1>2. OneStore!EmptyStore = EmptyStore
  BY DEF OneStore!EmptyStore, EmptyStore
<1>3. OneStore!Writes = Writes
  BY DEF OneStore!Writes, Writes, OneStore!SetRequests, SetRequests,
         OneStore!DelRequests, DelRequests
<1>4. OneStore!GetRequests = GetRequests
  BY DEF OneStore!GetRequests, GetRequests
<1>5. OneStore!Requests = Requests
  BY <1>3, <1>4 DEF OneStore!Requests, Requests
<1>6. \A o, s : OneStore!Apply(o, s) = Apply(o, s)
  BY DEF OneStore!Apply, Apply
<1>7. \A o, s : OneStore!Result(o, s) = Result(o, s)
  <2>1. \A o : OneStore!KeyOf(o) = KeyOf(o)
    BY DEF OneStore!KeyOf, KeyOf
  <2>2. \A o, s : OneStore!Present(o, s) = Present(o, s)
    BY DEF OneStore!Present, Present
  <2>3. \A S : OneStore!Cardinality(S) = Cardinality(S)
    BY DEF OneStore!Cardinality, Cardinality
  <2>4. /\ OneStore!OK = OK
        /\ \A v : OneStore!ValueReply(v) = ValueReply(v) /\ OneStore!CountReply(v) = CountReply(v)
    BY DEF OneStore!OK, OK, OneStore!ValueReply, ValueReply, OneStore!CountReply, CountReply
  <2> QED
    BY <2>1, <2>2, <2>3, <2>4 DEF OneStore!Result, Result
<1> QED
  BY <1>1, <1>2, <1>3, <1>4, <1>5, <1>6, <1>7

(* What each command means to one store. *)
LEMMA OperationMeaning ==
    ASSUME NEW c \in Commands, c.method # "other", NEW store \in Stores
    PROVE  /\ Operation(c) \in Requests /\ Operation(c) # NoRequest
           /\ c.method = "GET" =>
                /\ Operation(c) \in GetRequests
                /\ Result(Operation(c), store) = ValueReply(store[c.words[1]])
           /\ c.method = "SET" =>
                /\ Operation(c) \in Writes
                /\ Result(Operation(c), store) = OK
                /\ Apply(Operation(c), store) =
                      [store EXCEPT ![c.words[1]] = Tail(c.words)]
           /\ c.method = "DEL" =>
                /\ Operation(c) \in Writes
                /\ Result(Operation(c), store) = CountReply(successDelCnt(c, store))
                /\ Apply(Operation(c), store) = Erase(store, WordsOf(c.words))
<1> DEFINE op == Operation(c)
<1>1. /\ c.method \in {"SET", "GET", "DEL"} /\ c.words[1] \in Keys
      /\ c.words \in Seq(Keys) /\ c.words # <<>>
      /\ c.method = "SET" => Tail(c.words) \in Values
  BY CommandType
<1>2. op.method = c.method
  BY DEF Operation
<1>3. CASE c.method = "GET"
  <2>1. op = [method |-> "GET", keys |-> {c.words[1]}, value |-> Nil]
    BY <1>3 DEF Operation
  <2>2. op \in GetRequests
    BY <1>1, <2>1 DEF GetRequests
  <2>3. KeyOf(op) = c.words[1]
    BY <2>1 DEF KeyOf
  <2>4. Result(op, store) = ValueReply(store[c.words[1]])
    BY <2>1, <2>3 DEF Result
  <2> QED
    BY <1>3, <2>1, <2>2, <2>4 DEF Requests, NoRequest
<1>4. CASE c.method = "SET"
  <2>1. op = [method |-> "SET", keys |-> {c.words[1]}, value |-> Tail(c.words)]
    BY <1>4 DEF Operation
  <2>2. op \in SetRequests
    BY <1>1, <1>4, <2>1 DEF SetRequests
  <2>3. Result(op, store) = OK
    BY <2>1 DEF Result
  <2>4. Apply(op, store) = [store EXCEPT ![c.words[1]] = Tail(c.words)]
    <3>1. op.method = "SET" /\ op.keys = {c.words[1]} /\ op.value = Tail(c.words)
      BY <2>1
    <3> HIDE DEF op
    <3> QED
      BY <1>1, <3>1 DEF Apply, Stores
  <2>5. op \in Writes /\ op \in Requests /\ op # NoRequest
    BY <2>1, <2>2 DEF Requests, Writes, NoRequest
  <2>6. c.method # "GET" /\ c.method # "DEL"
    BY <1>4
  <2> QED
    BY <2>3, <2>4, <2>5, <2>6, Zenon
<1>5. CASE c.method = "DEL"
  <2>1. op = [method |-> "DEL", keys |-> WordsOf(c.words), value |-> Nil]
    BY <1>5 DEF Operation
  <2>2. WordsOf(c.words) \in (SUBSET Keys) \ {{}}
    <3> DEFINE w == c.words
    <3>1. w \in Seq(Keys) /\ w # <<>>
      BY <1>1
    <3> HIDE DEF w
    <3>2. DOMAIN w = 1..Len(w) /\ \A i \in 1..Len(w) : w[i] \in Keys
      BY <3>1
    <3>3. Len(w) \in Nat /\ Len(w) # 0
      BY <3>1
    <3>4. 1 \in DOMAIN w
      BY <3>2, <3>3
    <3>5. w[1] \in WordsOf(w)
      BY <3>4 DEF WordsOf
    <3>6. WordsOf(w) \subseteq Keys
      BY <3>2 DEF WordsOf
    <3> QED
      BY <3>5, <3>6 DEF w
  <2>3. op \in DelRequests
    BY <2>1, <2>2 DEF DelRequests
  <2>4. Present(op, store) = {k \in WordsOf(c.words) : store[k] # Nil}
    BY <2>1 DEF Present
  <2>5. Result(op, store) = CountReply(successDelCnt(c, store))
    BY <2>1, <2>4 DEF Result, successDelCnt
  <2>6. Apply(op, store) = Erase(store, WordsOf(c.words))
    BY <2>1 DEF Apply, Erase
  <2> QED
    BY <1>5, <2>1, <2>3, <2>5, <2>6 DEF Requests, Writes, NoRequest
<1> QED
  BY <1>1, <1>3, <1>4, <1>5

(* What the client has been answered, in the words of AtomicStore. *)
TheRequest == IF client.cmd = NoCommand THEN NoRequest ELSE Operation(client.cmd)
TheOutcome == IF client.cmd.method \in {"SET", "DEL"} /\ answer \in Replies
              THEN answer ELSE NoReply

(* A redirection or the end of a connection is no outcome. *)
LEMMA NoOutcome ==
    /\ NoReply \in Replies /\ ConnectionClosed \notin Replies
    /\ \A v : LeaderInfo(v) \notin Replies
    /\ NoCommand.method \notin {"SET", "GET", "DEL"}
BY DEF Replies, ConnectionClosed, LeaderInfo, OK, ERROR, NoReply, ValueReply, CountReply, NoCommand

(* Every step is one of the one store, or unseen. *)
LEMMA StepOfOneStore ==
    ASSUME TypeOK, TypeOK', RoleInv, Serving, WhileFirstRuns, FirstNodeStays, Understood,
           [Next]_vars
    PROVE  [OneStore!Next]_(OneStore!vars)
<1>0. /\ Serving /\ Steady /\ ReadIsCurrent /\ 0 \in Nodes
      /\ kvdb \in [Nodes -> Stores] /\ kvdb[0] \in Stores
      /\ client.cmd \in Commands \cup {NoCommand}
  BY ZeroIsANode DEF WhileFirstRuns, TypeOK
<1>1. ASSUME kvdb'[0] = kvdb[0], UNCHANGED reply, TheRequest' = TheRequest,
             TheOutcome' = TheOutcome
      PROVE  UNCHANGED OneStore!vars
  BY <1>1 DEF OneStore!vars, TheRequest, TheOutcome
<1>2. CASE Unseen
  <2>1. UNCHANGED <<client, answer, reply>> /\ kvdb'[0] = kvdb[0]
    BY <1>2 DEF Unseen, clientVars
  <2>2. TheRequest' = TheRequest /\ TheOutcome' = TheOutcome
    BY <2>1 DEF TheRequest, TheOutcome
  <2> QED
    BY <1>1, <2>1, <2>2
<1>3. ASSUME NEW n \in Nodes, sendLeaderInfo(n) PROVE UNCHANGED OneStore!vars
  <2>1. /\ UNCHANGED <<kvdb, client, reply>> /\ answer = NoReply
        /\ answer' = LeaderInfo(node[n].leader)
    BY <1>0, <1>3, AcceptedRequest DEF sendLeaderInfo
  <2>2. TheRequest' = TheRequest /\ TheOutcome' = TheOutcome
    BY <2>1, NoOutcome DEF TheRequest, TheOutcome
  <2> QED
    BY <1>1, <2>1, <2>2
<1>4. CASE HandleGET(0)
  <2>1. UNCHANGED <<kvdb, client, reply>> /\ client.cmd.method = "GET"
    BY <1>0, <1>4, AcceptedRequest DEF HandleGET
  <2>2. TheRequest' = TheRequest /\ TheOutcome' = TheOutcome
    BY <2>1 DEF TheRequest, TheOutcome
  <2> QED
    BY <1>1, <2>1, <2>2
<1>5. CASE HandleWrite(0)
  <2>1. /\ UNCHANGED <<kvdb, client, reply>>
        /\ client.cmd \in Commands /\ Head(inbox[0]).cmd = client.cmd
    BY <1>0, <1>5, AcceptedRequest DEF HandleWrite
  <2>2. answer' = IF Head(inbox[0]).cmd.method = "other" THEN ERROR ELSE answer
    BY <1>5, Zenon DEF HandleWrite
  <2>3. answer' = answer
    BY <2>1, <2>2 DEF Understood
  <2>4. TheRequest' = TheRequest /\ TheOutcome' = TheOutcome
    BY <2>1, <2>3 DEF TheRequest, TheOutcome
  <2> QED
    BY <1>1, <2>1, <2>4
<1>6. ASSUME ~Unseen, Commit(0) PROVE OneStore!TakeEffect
  <2> DEFINE c == client.cmd
  <2>1. /\ c \in Commands /\ c.method \in {"SET", "DEL"}
        /\ answer = NoReply /\ UNCHANGED <<client, reply>>
    BY <1>0, <1>6, CommitAnswers
  <2>2. /\ Operation(c) \in Writes /\ Operation(c) # NoRequest
        /\ kvdb'[0] = Apply(Operation(c), kvdb[0])
        /\ answer' = Result(Operation(c), kvdb[0])
    <3>1. CASE c.method = "SET"
      BY <1>0, <1>6, <2>1, <3>1, CommitAnswers, OperationMeaning
    <3>2. CASE c.method = "DEL"
      BY <1>0, <1>6, <2>1, <3>2, CommitAnswers, OperationMeaning
    <3> QED
      BY <2>1, <3>1, <3>2
  <2>3. answer' \in Replies
    <3>1. successDelCnt(c, kvdb[0]) \in 0 .. Cardinality(Keys)
      BY <1>0, <2>1, CountType
    <3>2. answer' = OK \/ answer' = CountReply(successDelCnt(c, kvdb[0]))
      BY <1>0, <1>6, <2>1, CommitAnswers
    <3> QED
      BY <3>1, <3>2 DEF Replies
  <2>4. /\ TheRequest = Operation(c) /\ TheRequest' = Operation(c)
        /\ TheOutcome = NoReply /\ TheOutcome' = answer'
    BY <2>1, <2>3, CommandsAreSome, NoOutcome DEF TheRequest, TheOutcome
  <2> QED
    BY <2>1, <2>2, <2>4, SameWords DEF OneStore!TakeEffect, TheRequest, TheOutcome
<1>7. ASSUME NEW n \in Nodes \ {0}, Stop(n), UNCHANGED <<client, reply>>
      PROVE  UNCHANGED OneStore!vars
  <2>1. kvdb'[0] = kvdb[0]
    BY <1>0, <1>7 DEF Stop
  <2>2. answer' = answer \/ (answer = NoReply /\ answer' = ConnectionClosed)
    BY <1>7 DEF Stop
  <2>3. TheRequest' = TheRequest /\ TheOutcome' = TheOutcome
    BY <1>7, <2>2, NoOutcome DEF TheRequest, TheOutcome
  <2> QED
    BY <1>1, <1>7, <2>1, <2>3
<1>8. ASSUME NEW c \in Commands, NEW n \in Contacts, SendRequest(c, n) PROVE OneStore!Next
  <2>1. /\ client.cmd = NoCommand /\ client' = [cmd |-> c, to |-> n, redirects |-> 0]
        /\ answer' = NoReply /\ reply' = NoReply /\ UNCHANGED kvdb
    BY <1>8 DEF SendRequest
  <2>2. client'.cmd = c /\ c # NoCommand /\ Operation(c) \in Requests
    BY <1>0, <2>1, CommandsAreSome, OperationMeaning DEF Understood
  <2>3. TheRequest = NoRequest /\ TheRequest' = Operation(c) /\ TheOutcome' = NoReply
    BY <2>1, <2>2 DEF TheRequest, TheOutcome
  <2>4. OneStore!Submit(Operation(c))
    BY <2>1, <2>3, SameWords DEF OneStore!Submit, TheRequest, TheOutcome
  <2> QED
    BY <2>2, <2>4, SameWords DEF OneStore!Next
<1>9. ASSUME NEW r, client.cmd # NoCommand, client' = NoRequestSent, answer' = NoReply,
             reply' = r, UNCHANGED kvdb
      PROVE  /\ OneStore!AnswerWith(r)
             /\ TheRequest = Operation(client.cmd)
             /\ OneStore!Requests = Requests
  <2>1. TheRequest' = NoRequest /\ TheOutcome' = NoReply
    BY <1>9 DEF TheRequest, TheOutcome, NoRequestSent
  <2>2. TheRequest = Operation(client.cmd) /\ TheRequest # NoRequest
    BY <1>0, <1>9, OperationMeaning DEF TheRequest, Understood
  <2> QED
    BY <1>9, <2>1, <2>2, SameWords DEF OneStore!AnswerWith, TheRequest, TheOutcome
<1>10. CASE ReceiveAnswer
  <2>1. /\ client.cmd # NoCommand /\ client.cmd \in Commands /\ reply' = answer
        /\ answer \in Replies /\ answer # NoReply
    BY <1>0, <1>10, AnswerKinds DEF ReceiveAnswer, NoReply, OK, ERROR
  <2>2. OneStore!AnswerWith(answer) /\ TheRequest = Operation(client.cmd)
    BY <1>9, <1>10, <2>1 DEF ReceiveAnswer
  <2>3. client.cmd.method \in {"SET", "GET", "DEL"}
    BY <2>1, CommandType DEF Understood
  <2>4. CASE client.cmd.method \in {"SET", "DEL"}
    <3>1. TheOutcome = answer
      BY <2>1, <2>4 DEF TheOutcome
    <3> QED
      BY <2>1, <2>2, <3>1, SameWords DEF OneStore!Next, OneStore!AnswerWrite, TheOutcome
  <2>5. CASE client.cmd.method = "GET"
    <3>1. answer = ValueReply(kvdb[0][client.cmd.words[1]])
      BY <1>0, <2>1, <2>5 DEF ReadIsCurrent
    <3>2. TheRequest \in GetRequests /\ answer = Result(TheRequest, kvdb[0])
      BY <1>0, <2>1, <2>2, <2>5, <3>1, OperationMeaning
    <3> QED
      BY <2>2, <3>2, SameWords DEF OneStore!Next, OneStore!AnswerRead, TheRequest
  <2> QED
    BY <2>3, <2>4, <2>5
<1>11. CASE FollowRedirect
  <2>1. /\ UNCHANGED <<kvdb, reply>> /\ answer \notin Replies /\ answer' = NoReply
        /\ client'.cmd = client.cmd
    <3>1. answer.type = "leader"
      BY <1>11 DEF FollowRedirect
    <3>2. answer \notin Replies
      BY <3>1 DEF Replies, OK, ERROR, NoReply, ValueReply, CountReply
    <3> QED
      BY <1>11, <3>2 DEF FollowRedirect, TypeOK
  <2>2. TheRequest' = TheRequest /\ TheOutcome' = TheOutcome
    BY <2>1 DEF TheRequest, TheOutcome
  <2> QED
    BY <1>1, <2>1, <2>2
<1>12. CASE NoAnswer
  <2>1. client.cmd # NoCommand /\ reply' = NoReply
    BY <1>0, <1>12 DEF NoAnswer, Serving, Answered
  <2>2. OneStore!AnswerWith(NoReply)
    BY <1>9, <1>12, <2>1 DEF NoAnswer
  <2> QED
    BY <2>2, SameWords DEF OneStore!Next, OneStore!NoAnswer
<1>13. CASE Commit(0)
  BY <1>2, <1>6, <1>13 DEF OneStore!Next
<1> QED
  BY <1>2, <1>3, <1>4, <1>5, <1>7, <1>8, <1>10, <1>11, <1>12, <1>13, <1>0, SeenSteps
     DEF ClientStep

(* Only Restart starts a process. *)
LEMMA StartedAgain ==
    ASSUME TypeOK, NEW n \in Nodes, [Next]_vars, ~up[n], up'[n]
    PROVE  n \in MayRestart
<1>0. up \in [Nodes -> BOOLEAN]
  BY DEF TypeOK
<1>1. \A m \in Nodes : ~Stop(m)
  BY <1>0 DEF Stop
<1>2. \A m \in Nodes : ~Accept(m)
  BY <1>1 DEF Accept, sendLeaderInfo, CloseAgain, HandleGET, HandleWrite, sendCommitinfo,
     Commit, handleCommitRequest, handleHeartBeat, handleRequestVote, handleRecvVote,
     becomeLeader, nameLeader, startHeartBeat, startHeartBeatAgain
<1>3. \A m \in Nodes :
         ~Timer(m) /\ ~Election(m) /\ ~HeartBeats(m) /\ ~ExpireLate(m) /\ ~LoseRequestVote(m)
  BY DEF Timer, NewPeriod, ExpireQuiet, Expire, Election, becomeCandidate, sendRequestVote,
     HeartBeats, SendHeartBeat, ExpireLate, LoseRequestVote
<1>4. ~ClientStep /\ \A c \in Commands, m \in Contacts : ~SendRequest(c, m)
  BY DEF ClientStep, ReceiveAnswer, FollowRedirect, NoAnswer, SendRequest
<1>5. \A m \in Nodes : ~Crash(m)
  BY <1>1 DEF Crash
<1>6. PICK m \in Nodes : Restart(m)
  BY <1>2, <1>3, <1>4, <1>5 DEF Next, vars
<1>7. m \in MayRestart /\ up' = [up EXCEPT ![m] = TRUE]
  BY <1>6 DEF Restart
<1> QED
  BY <1>0, <1>7

(* The parts of OneStoreInv are kept together. *)
LEMMA OneStoreInductive ==
    ASSUME TypeOK, TypeOK', RoleInv, OneStoreInv, 0 \notin MayRestart, MaxLate = 0,
           Understood, [Next]_vars
    PROVE  OneStoreInv' /\ (up'[0] => WhileFirstRuns /\ FirstNodeStays)
<1>1. Serving'
  BY ServingInductive DEF OneStoreInv
<1>2. ASSUME up'[0] PROVE WhileFirstRuns /\ FirstNodeStays /\ WhileFirstRuns'
  <2>1. WhileFirstRuns /\ FirstNodeStays
    BY <1>2, StartedAgain, ZeroIsANode DEF OneStoreInv, FirstNodeStays
  <2>2. Steady'
    BY <2>1, AcceptSteady, OthersSteady DEF WhileFirstRuns, Next
  <2>3. ReadIsCurrent'
    BY <2>1, ReadStaysCurrent DEF OneStoreInv, WhileFirstRuns
  <2> QED
    BY <2>1, <2>2, <2>3 DEF WhileFirstRuns
<1> QED
  BY <1>1, <1>2 DEF OneStoreInv

(* RaftImplementsOneStore: while followers hear node 0 in time and until it is killed,
   clients of any node see one store, whatever happens to the other nodes. *)
THEOREM RaftImplementsOneStore ==
    ASSUME 0 \notin MayRestart, MaxLate = 0, \A c \in Commands : c.method # "other"
    PROVE  Spec => ClientSeesOneStore
<1>1. Understood
  BY DEF Understood
<1>2. Init => OneStoreInv
  <2> SUFFICES ASSUME Init PROVE OneStoreInv
    OBVIOUS
  <2>1. RedirectInv
    BY RedirectInit
  <2>2. Calm(inbox) /\ NothingLate /\ up[0]
    BY ZeroIsANode DEF Init, Calm, NothingLate
  <2>3. \A n \in Nodes \ {0} : Follows(n)
    BY ConstructedFollows DEF Init, Follows, Naming
  <2>4. ReadIsCurrent
    BY DEF Init, ReadIsCurrent
  <2> QED
    BY <2>1, <2>2, <2>3, <2>4 DEF OneStoreInv, WhileFirstRuns, RedirectInv, Steady
<1>3. TypeOK /\ TypeOK' /\ RoleInv /\ OneStoreInv /\ [Next]_vars => OneStoreInv'
  BY <1>1, OneStoreInductive
<1>4. Init => OneStore!Init
  <2> SUFFICES ASSUME Init PROVE OneStore!Init
    OBVIOUS
  <2>1. /\ kvdb[0] = EmptyStore /\ client.cmd = NoCommand /\ answer = NoReply
        /\ reply = NoReply
    BY ZeroIsANode DEF Init, NoRequestSent
  <2>2. TheRequest = NoRequest /\ TheOutcome = NoReply
    BY <2>1 DEF TheRequest, TheOutcome
  <2> QED
    BY <2>1, <2>2, SameWords DEF OneStore!Init, TheRequest, TheOutcome
<1>5. TypeOK /\ TypeOK' /\ RoleInv /\ OneStoreInv /\ [Next]_vars
        => [up'[0] => OneStore!Next]_(OneStore!vars)
  BY <1>1, OneStoreInductive, StepOfOneStore DEF OneStoreInv
<1> QED
  BY <1>2, <1>3, <1>4, <1>5, RaftTypeOK, RolesInvariant, PTL
     DEF Spec, ClientSeesOneStore

-----------------------------------------------------------------------------
(* Votes.  A ballot of n is a request of n on its way or a vote for n that waits. *)

IsBallot(n, m, msg) == msg = RequestVote(n) \/ (m = n /\ msg = AgreeVote)

Ballots(boxes, n) ==
    {w \in Nodes \X Nat :
        w[2] \in DOMAIN boxes[w[1]] /\ IsBallot(n, w[1], boxes[w[1]][w[2]])}

LEMMA BallotsFinite ==
    ASSUME NEW boxes \in [Nodes -> Seq(Messages)], NEW n \in Nodes
    PROVE  /\ IsFiniteSet(Ballots(boxes, n))
           /\ Cardinality(Ballots(boxes, n)) \in Nat
<1> DEFINE places == [m \in Nodes |-> {m} \X (1 .. Len(boxes[m]))]
           All == {places[m] : m \in Nodes}
<1>1. IsFiniteSet(Nodes)
  BY FS_Interval, NumNodesAssumption DEF Nodes
<1>2. places \in Surjection(Nodes, All)
  BY DEF Surjection
<1>3. IsFiniteSet(All)
  BY <1>1, <1>2, FS_Surjection
<1>4. \A m \in Nodes : boxes[m] \in Seq(Messages) /\ Len(boxes[m]) \in Nat
  OBVIOUS
<1>5. ASSUME NEW m \in Nodes PROVE IsFiniteSet(places[m])
  <2>1. IsFiniteSet(1 .. Len(boxes[m]))
    BY <1>4, FS_Interval
  <2>2. IsFiniteSet({m})
    BY FS_Singleton
  <2>3. IsFiniteSet({m} \X (1 .. Len(boxes[m])))
    BY <2>1, <2>2, FS_Product, Zenon
  <2> QED
    BY <2>3
<1>6. IsFiniteSet(UNION All)
  BY <1>3, <1>5, FS_UNION
<1>7. Ballots(boxes, n) \subseteq UNION All
  <2> SUFFICES ASSUME NEW m \in Nodes, NEW i \in DOMAIN boxes[m]
               PROVE  <<m, i>> \in places[m]
    BY DEF Ballots
  <2> QED
    BY <1>4
<1> QED
  BY <1>6, <1>7, FS_Subset, FS_CardinalityType

(* The votes that wait at n and its requests are its ballots. *)
LEMMA BallotsSplit ==
    ASSUME TypeOK, NEW n \in Nodes
    PROVE  /\ Cardinality(Pending("AgreeVote", n)) + Cardinality(VoteRequests(n))
                = Cardinality(Ballots(inbox, n))
           /\ Cardinality(Pending("AgreeVote", n)) \in Nat
           /\ Cardinality(VoteRequests(n)) \in Nat
<1> DEFINE A == {n} \X Pending("AgreeVote", n)
           B == VoteRequests(n)
<1>1. inbox \in [Nodes -> Seq(Messages)]
  BY DEF TypeOK
<1>2. \A m \in Nodes : inbox[m] \in Seq(Messages) /\ DOMAIN inbox[m] = 1 .. Len(inbox[m])
                      /\ Len(inbox[m]) \in Nat
  BY <1>1
<1>3. IsFiniteSet(Pending("AgreeVote", n)) /\ Cardinality(Pending("AgreeVote", n)) \in Nat
  <2>1. Pending("AgreeVote", n) \subseteq 1 .. Len(inbox[n])
    BY <1>2 DEF Pending
  <2>2. IsFiniteSet(1 .. Len(inbox[n]))
    BY <1>2, FS_Interval
  <2> QED
    BY <2>1, <2>2, FS_Subset, FS_CardinalityType, Zenon
<1>4. IsFiniteSet(A) /\ Cardinality(A) = Cardinality(Pending("AgreeVote", n))
  <2> DEFINE P == Pending("AgreeVote", n)
  <2>1. IsFiniteSet({n}) /\ Cardinality({n}) = 1
    BY FS_Singleton
  <2>2. IsFiniteSet({n} \X P) /\ Cardinality({n} \X P) = Cardinality({n}) * Cardinality(P)
    BY <1>3, <2>1, FS_Product, Zenon
  <2> QED
    BY <1>3, <2>1, <2>2
<1>5. \A i \in DOMAIN inbox[n] : inbox[n][i].type = "AgreeVote" <=> inbox[n][i] = AgreeVote
  BY <1>2, MessageKinds DEF AgreeVote
<1>6. A \cup B = Ballots(inbox, n)
  <2>1. ASSUME NEW w \in A PROVE w \in Ballots(inbox, n)
    BY <1>2, <1>5 DEF Pending, Ballots, IsBallot
  <2>2. ASSUME NEW w \in B PROVE w \in Ballots(inbox, n)
    BY <1>2 DEF VoteRequests, Ballots, IsBallot
  <2>3. ASSUME NEW w \in Ballots(inbox, n) PROVE w \in A \cup B
    <3>1. w = <<w[1], w[2]>> /\ w[1] \in Nodes /\ w[2] \in DOMAIN inbox[w[1]]
          /\ IsBallot(n, w[1], inbox[w[1]][w[2]])
      BY DEF Ballots
    <3>2. CASE w[1] = n /\ inbox[w[1]][w[2]] = AgreeVote
      BY <1>5, <3>1, <3>2 DEF Pending
    <3>3. CASE inbox[w[1]][w[2]] = RequestVote(n)
      BY <3>1, <3>3 DEF VoteRequests
    <3> QED
      BY <3>1, <3>2, <3>3 DEF IsBallot
  <2> QED
    BY <2>1, <2>2, <2>3
<1>7. A \cap B = {}
  <2>1. \A i \in DOMAIN inbox[n] : inbox[n][i] = RequestVote(n) => inbox[n][i].type # "AgreeVote"
    BY DEF RequestVote
  <2> QED
    BY <2>1 DEF Pending, VoteRequests
<1>8. IsFiniteSet(B) /\ Cardinality(B) \in Nat
  BY <1>1, <1>6, BallotsFinite, FS_Subset, FS_CardinalityType
<1> HIDE DEF A, B
<1>9. Cardinality(A \cup B) = Cardinality(A) + Cardinality(B)
  <2>1. Cardinality(A \cup B) = Cardinality(A) + Cardinality(B) - Cardinality(A \cap B)
    BY <1>4, <1>8, FS_Union, Zenon
  <2>2. Cardinality(A \cap B) = 0
    BY <1>7, FS_EmptySet
  <2> QED
    BY <1>3, <1>4, <1>8, <2>1, <2>2
<1> QED
  BY <1>3, <1>4, <1>6, <1>8, <1>9 DEF B

(* Consuming a message makes no ballot, and a ballot less if it was one. *)
LEMMA ConsumeBallots ==
    ASSUME TypeOK, NEW k \in Nodes, inbox[k] # <<>>, NEW n \in Nodes
    PROVE  /\ Cardinality(Ballots(Consumed(k), n)) <= Cardinality(Ballots(inbox, n))
           /\ IsBallot(n, k, Head(inbox[k])) =>
                Cardinality(Ballots(Consumed(k), n)) + 1 <= Cardinality(Ballots(inbox, n))
<1> DEFINE C == Ballots(Consumed(k), n)
           D == Ballots(inbox, n) \ {<<k, 1>>}
           f == [w \in C |-> IF w[1] = k THEN <<k, w[2] + 1>> ELSE w]
<1>1. inbox \in [Nodes -> Seq(Messages)] /\ inbox[k] \in Seq(Messages)
  BY DEF TypeOK
<1>2. Consumed(k) \in [Nodes -> Seq(Messages)]
  BY <1>1, ConsumedElements
<1>3. /\ IsFiniteSet(Ballots(inbox, n)) /\ Cardinality(Ballots(inbox, n)) \in Nat
      /\ IsFiniteSet(C) /\ Cardinality(C) \in Nat
  BY <1>1, <1>2, BallotsFinite
<1>4. /\ Consumed(k)[k] = Tail(inbox[k])
      /\ \A m \in Nodes \ {k} : Consumed(k)[m] = inbox[m]
  BY <1>1 DEF Consumed
<1>5. \A i \in DOMAIN Tail(inbox[k]) :
         i \in Nat \ {0} /\ i + 1 \in DOMAIN inbox[k] /\ Tail(inbox[k])[i] = inbox[k][i + 1]
  BY <1>1
<1>6. ASSUME NEW w \in C
      PROVE  /\ w = <<w[1], w[2]>> /\ w[1] \in Nodes /\ w[2] \in Nat
             /\ w[2] \in DOMAIN Consumed(k)[w[1]]
             /\ IsBallot(n, w[1], Consumed(k)[w[1]][w[2]])
  BY DEF Ballots
<1>7. ASSUME NEW w \in C PROVE f[w] \in D
  <2>1. CASE w[1] = k
    <3>1. w[2] \in Nat \ {0} /\ w[2] + 1 \in DOMAIN inbox[k]
          /\ IsBallot(n, k, inbox[k][w[2] + 1])
      BY <1>4, <1>5, <1>6, <2>1
    <3>2. <<k, w[2] + 1>> \in Ballots(inbox, n)
      BY <3>1 DEF Ballots
    <3>3. <<k, w[2] + 1>> # <<k, 1>>
      BY <3>1
    <3> QED
      BY <2>1, <3>2, <3>3
  <2>2. CASE w[1] # k
    <3>1. w[2] \in DOMAIN inbox[w[1]] /\ IsBallot(n, w[1], inbox[w[1]][w[2]])
      BY <1>4, <1>6, <2>2
    <3>2. w \in Ballots(inbox, n)
      BY <1>6, <3>1 DEF Ballots
    <3>3. w # <<k, 1>>
      BY <2>2
    <3> QED
      BY <2>2, <3>2, <3>3
  <2> QED
    BY <2>1, <2>2
<1>8. ASSUME NEW v \in C, NEW w \in C, f[v] = f[w] PROVE v = w
  <2>1. /\ v = <<v[1], v[2]>> /\ w = <<w[1], w[2]>>
        /\ v[1] \in Nodes /\ w[1] \in Nodes /\ v[2] \in Nat /\ w[2] \in Nat
    BY <1>6
  <2>2. CASE v[1] = k /\ w[1] = k
    <3>1. <<k, v[2] + 1>> = <<k, w[2] + 1>>
      BY <1>8, <2>2
    <3>2. v[2] = w[2]
      BY <2>1, <3>1
    <3> QED
      BY <2>1, <2>2, <3>2
  <2>3. CASE v[1] # k /\ w[1] # k
    BY <1>8, <2>3
  <2>4. CASE v[1] = k /\ w[1] # k
    <3>1. <<k, v[2] + 1>> = <<w[1], w[2]>>
      BY <1>8, <2>1, <2>4
    <3> QED
      BY <2>4, <3>1
  <2>5. CASE v[1] # k /\ w[1] = k
    <3>1. <<k, w[2] + 1>> = <<v[1], v[2]>>
      BY <1>8, <2>1, <2>5
    <3> QED
      BY <2>5, <3>1
  <2> QED
    BY <2>2, <2>3, <2>4, <2>5
<1>9. f \in Injection(C, D)
  <2>1. f \in [C -> D]
    BY <1>7
  <2> HIDE DEF C, D, f
  <2> QED
    BY <1>8, <2>1 DEF Injection, IsInjective
<1>10. /\ IsFiniteSet(D)
       /\ Cardinality(D) = IF <<k, 1>> \in Ballots(inbox, n) THEN Cardinality(Ballots(inbox, n)) - 1
                           ELSE Cardinality(Ballots(inbox, n))
  BY <1>3, FS_RemoveElement
<1>11. Cardinality(C) <= Cardinality(D)
  <2> HIDE DEF C, D, f
  <2> QED
    BY <1>9, <1>10, FS_Injection
<1>12. IsBallot(n, k, Head(inbox[k])) => <<k, 1>> \in Ballots(inbox, n)
  BY <1>1 DEF Ballots
<1> QED
  BY <1>3, <1>10, <1>11, <1>12

(* Sending a ballot makes one more. *)
LEMMA SendBallots ==
    ASSUME up \in [Nodes -> BOOLEAN], NEW b \in [Nodes -> Seq(Messages)],
           NEW m \in Nodes, NEW msg \in Messages, NEW n \in Nodes
    PROVE  /\ Cardinality(Ballots(SentTo(m, msg, b), n)) <= Cardinality(Ballots(b, n)) + 1
           /\ ~IsBallot(n, m, msg) =>
                Cardinality(Ballots(SentTo(m, msg, b), n)) <= Cardinality(Ballots(b, n))
<1>1. IsFiniteSet(Ballots(b, n)) /\ Cardinality(Ballots(b, n)) \in Nat
  BY BallotsFinite
<1>2. CASE up[m]
  <2> DEFINE s == SentTo(m, msg, b)
             last == Len(b[m]) + 1
  <2>1. s = [b EXCEPT ![m] = Append(b[m], msg)]
    BY <1>2 DEF SentTo
  <2>2. b[m] \in Seq(Messages)
    OBVIOUS
  <2>3. /\ s[m] = Append(b[m], msg) /\ \A k \in Nodes \ {m} : s[k] = b[k]
    BY <2>1
  <2>4. \A i \in DOMAIN s[m] : \/ i = last /\ s[m][i] = msg
                               \/ i \in DOMAIN b[m] /\ s[m][i] = b[m][i]
    BY <2>2, <2>3
  <2> HIDE DEF s, last
  <2>5. ASSUME NEW w \in Ballots(s, n)
        PROVE  \/ w \in Ballots(b, n)
               \/ w = <<m, last>> /\ IsBallot(n, m, msg)
    <3>1. /\ w = <<w[1], w[2]>> /\ w[1] \in Nodes /\ w[2] \in Nat
          /\ w[2] \in DOMAIN s[w[1]] /\ IsBallot(n, w[1], s[w[1]][w[2]])
      BY DEF Ballots
    <3>2. CASE w[1] = m /\ w[2] = last /\ s[m][w[2]] = msg
      BY <3>1, <3>2
    <3>3. CASE w[2] \in DOMAIN b[w[1]] /\ s[w[1]][w[2]] = b[w[1]][w[2]]
      BY <3>1, <3>3 DEF Ballots
    <3> QED
      BY <2>3, <2>4, <3>1, <3>2, <3>3
  <2>6. IsFiniteSet(Ballots(b, n) \cup {<<m, last>>})
        /\ Cardinality(Ballots(b, n) \cup {<<m, last>>}) <= Cardinality(Ballots(b, n)) + 1
    <3> DEFINE B == Ballots(b, n)
               w == <<m, last>>
    <3> HIDE DEF B, w
    <3>1. IsFiniteSet(B) /\ Cardinality(B) \in Nat
      BY <1>1 DEF B
    <3>2. IsFiniteSet(B \cup {w}) /\ Cardinality(B \cup {w}) <= Cardinality(B) + 1
      <4>1. /\ IsFiniteSet(B \cup {w})
            /\ Cardinality(B \cup {w}) = IF w \in B THEN Cardinality(B) ELSE Cardinality(B) + 1
        BY <3>1, FS_AddElement, Zenon
      <4> QED
        BY <3>1, <4>1
    <3> QED
      BY <3>2 DEF B, w
  <2>7. Ballots(s, n) \subseteq Ballots(b, n) \cup {<<m, last>>}
    BY <2>5
  <2>8. ~IsBallot(n, m, msg) => Ballots(s, n) \subseteq Ballots(b, n)
    BY <2>5
  <2>9. Cardinality(Ballots(s, n)) <= Cardinality(Ballots(b, n) \cup {<<m, last>>})
        /\ Cardinality(Ballots(s, n)) \in Nat
        /\ Cardinality(Ballots(b, n) \cup {<<m, last>>}) \in Nat
    BY <2>6, <2>7, FS_Subset, FS_CardinalityType
  <2>10. ~IsBallot(n, m, msg) => Cardinality(Ballots(s, n)) <= Cardinality(Ballots(b, n))
    BY <1>1, <2>8, FS_Subset
  <2> QED
    BY <1>1, <2>6, <2>9, <2>10 DEF s
<1>3. CASE ~up[m]
  <2>1. SentTo(m, msg, b) = b
    BY <1>3 DEF SentTo
  <2> QED
    BY <1>1, <2>1
<1> QED
  BY <1>2, <1>3

(* Steps of the client, the replication and the heartbeats. *)
LEMMA PlainBallots ==
    ASSUME TypeOK, NEW n \in Nodes,
           \/ UNCHANGED inbox
           \/ \E k \in Nodes : inbox[k] # <<>> /\ inbox' = Consumed(k)
           \/ \E k \in Nodes : inbox' = [inbox EXCEPT ![k] = <<>>]
           \/ \E m \in Nodes, msg \in Messages :
                msg.type \notin {"RequestVote", "AgreeVote"} /\ inbox' = SentTo(m, msg, inbox)
    PROVE  Cardinality(Ballots(inbox', n)) <= Cardinality(Ballots(inbox, n))
<1>1. inbox \in [Nodes -> Seq(Messages)] /\ up \in [Nodes -> BOOLEAN]
  BY DEF TypeOK
<1>2. IsFiniteSet(Ballots(inbox, n)) /\ Cardinality(Ballots(inbox, n)) \in Nat
  BY <1>1, BallotsFinite
<1>3. CASE UNCHANGED inbox
  BY <1>2, <1>3
<1>4. ASSUME NEW k \in Nodes, inbox[k] # <<>>, inbox' = Consumed(k)
      PROVE  Cardinality(Ballots(inbox', n)) <= Cardinality(Ballots(inbox, n))
  BY <1>4, ConsumeBallots
<1>5. ASSUME NEW k \in Nodes, inbox' = [inbox EXCEPT ![k] = <<>>]
      PROVE  Cardinality(Ballots(inbox', n)) <= Cardinality(Ballots(inbox, n))
  <2>1. inbox'[k] = <<>> /\ \A m \in Nodes \ {k} : inbox'[m] = inbox[m]
    BY <1>1, <1>5
  <2>2. Ballots(inbox', n) \subseteq Ballots(inbox, n)
    BY <2>1 DEF Ballots
  <2> QED
    BY <1>2, <2>2, FS_Subset
<1>6. ASSUME NEW m \in Nodes, NEW msg \in Messages,
             msg.type \notin {"RequestVote", "AgreeVote"}, inbox' = SentTo(m, msg, inbox)
      PROVE  Cardinality(Ballots(inbox', n)) <= Cardinality(Ballots(inbox, n))
  <2>1. ~IsBallot(n, m, msg)
    BY <1>6 DEF IsBallot, RequestVote, AgreeVote
  <2> QED
    BY <1>1, <1>6, <2>1, SendBallots
<1> QED
  BY <1>3, <1>4, <1>5, <1>6

(* The nodes that n has come to while it asks, but for those in Z, which do not run. *)
AskedBy(n, Z) == {m \in Nodes \ ({n} \cup Z) : m < node[n].asks}

Accounted(n, Z) ==
    node[n].votes # Garbage =>
        node[n].votes - 1 + Cardinality(Ballots(inbox, n)) <= Cardinality(AskedBy(n, Z))

AllAccounted(Z) == \A n \in Nodes : Fresh(n) => Accounted(n, Z)

AskedInVain(Z) == \A n \in Nodes : up[n] /\ node[n].asks \in Z => ~up[node[n].asks]

SameTally(n) == node'[n].votes = node[n].votes /\ node'[n].asks = node[n].asks

FewerBallots(n) == Cardinality(Ballots(inbox', n)) <= Cardinality(Ballots(inbox, n))

(* What the counts are. *)
LEMMA TallyTypes ==
    ASSUME TypeOK, NEW n \in Nodes, NEW Z
    PROVE  /\ node[n] \in NodeStates /\ node[n].votes \in Nat
           /\ node[n].asks \in Int /\ Waiting <= node[n].asks
           /\ IsFiniteSet(Ballots(inbox, n)) /\ Cardinality(Ballots(inbox, n)) \in Nat
           /\ IsFiniteSet(AskedBy(n, Z)) /\ Cardinality(AskedBy(n, Z)) \in Nat
<1>1. node[n] \in NodeStates /\ inbox \in [Nodes -> Seq(Messages)]
  BY DEF TypeOK
<1>2. AskedBy(n, Z) \subseteq Nodes /\ IsFiniteSet(Nodes)
  BY FS_Interval, NumNodesAssumption DEF AskedBy, Nodes
<1>3. node[n].votes \in Nat /\ node[n].asks \in Waiting .. NumNodes
  BY <1>1 DEF NodeStates
<1> QED
  BY <1>1, <1>2, <1>3, NumNodesAssumption, BallotsFinite, FS_Subset, FS_CardinalityType
     DEF Waiting

(* A node whose counts stay and that gets no new ballot. *)
LEMMA AccountedKept ==
    ASSUME TypeOK, TypeOK', NEW n \in Nodes, NEW Z, Accounted(n, Z), SameTally(n),
           FewerBallots(n)
    PROVE  Accounted(n, Z)'
<1>1. AskedBy(n, Z)' = AskedBy(n, Z)
  BY DEF SameTally, AskedBy
<1>2. /\ node[n].votes \in Nat /\ Cardinality(Ballots(inbox, n)) \in Nat
      /\ Cardinality(AskedBy(n, Z)) \in Nat /\ Cardinality(Ballots(inbox', n)) \in Nat
  <2>1. inbox' \in [Nodes -> Seq(Messages)]
    BY DEF TypeOK
  <2> QED
    BY <2>1, TallyTypes, BallotsFinite
<1>3. CASE node[n].votes = Garbage
  BY <1>3 DEF Accounted, SameTally
<1>4. CASE node[n].votes # Garbage
  <2>1. node[n].votes - 1 + Cardinality(Ballots(inbox', n)) <= Cardinality(AskedBy(n, Z))
    BY <1>2, <1>4 DEF Accounted, FewerBallots
  <2> QED
    BY <1>1, <2>1 DEF Accounted, SameTally
<1> QED
  BY <1>3, <1>4

(* Steps that only change other things. *)
LEMMA AllAccountedKept ==
    ASSUME TypeOK, TypeOK', NEW Z, AllAccounted(Z),
           \A n \in Nodes : Fresh(n)' => Fresh(n) /\ SameTally(n) /\ FewerBallots(n)
    PROVE  AllAccounted(Z)'
<1> SUFFICES ASSUME NEW n \in Nodes, Fresh(n)' PROVE Accounted(n, Z)'
  BY DEF AllAccounted
<1>1. Accounted(n, Z) /\ SameTally(n) /\ FewerBallots(n)
  BY DEF AllAccounted
<1> QED
  BY <1>1, AccountedKept

(* Fields that are no counts. *)
LEMMA FieldKeepsTally ==
    ASSUME TypeOK, NEW n \in Nodes, NEW x,
           \/ node' = node
           \/ node' = [node EXCEPT ![n].main = x]
           \/ node' = [node EXCEPT ![n].heard = x]
    PROVE  \A k \in Nodes : SameTally(k)
<1>0. node \in [Nodes -> NodeStates] /\ node[n] \in NodeStates
  BY DEF TypeOK
<1>1. CASE node' = node
  BY <1>1 DEF SameTally
<1>2. CASE node' = [node EXCEPT ![n].main = x]
  <2> DEFINE r == [node[n] EXCEPT !.main = x]
  <2>1. node' = [node EXCEPT ![n] = r] /\ r.votes = node[n].votes /\ r.asks = node[n].asks
    BY <1>0, <1>2 DEF NodeStates
  <2> HIDE DEF r
  <2> QED
    BY <2>1, OtherRecords DEF SameTally
<1>3. CASE node' = [node EXCEPT ![n].heard = x]
  <2> DEFINE r == [node[n] EXCEPT !.heard = x]
  <2>1. node' = [node EXCEPT ![n] = r] /\ r.votes = node[n].votes /\ r.asks = node[n].asks
    BY <1>0, <1>3 DEF NodeStates
  <2> HIDE DEF r
  <2> QED
    BY <2>1, OtherRecords DEF SameTally
<1> QED
  BY <1>1, <1>2, <1>3

(* The accept loop, elections apart. *)
LEMMA AcceptAccounted ==
    ASSUME TypeOK, TypeOK', RoleInv, NEW Z, AllAccounted(Z), NEW n \in Nodes,
           \/ sendLeaderInfo(n) \/ CloseAgain(n) \/ HandleGET(n) \/ HandleWrite(n)
           \/ sendCommitinfo(n) \/ Commit(n) \/ handleCommitRequest(n) \/ handleHeartBeat(n)
    PROVE  AllAccounted(Z)'
<1>0. node \in [Nodes -> NodeStates] /\ inbox \in [Nodes -> Seq(Messages)]
  BY DEF TypeOK
<1>1. ~handleRecvVote(n)
  <2>1. \A type \in {"$", "COMMIT", "HeartBeat"} : Accepts(n, type) => ~Accepts(n, "AgreeVote")
    BY DEF Accepts
  <2>2. node[n].main.at \in {"closing", "commit"} => ~Accepts(n, "AgreeVote")
    BY DEF Accepts, Accepting
  <2> QED
    BY <2>1, <2>2 DEF sendLeaderInfo, CloseAgain, HandleGET, HandleWrite, sendCommitinfo, Commit,
       handleCommitRequest, handleHeartBeat, handleRecvVote
<1>2. \A k \in Nodes : SameTally(k)
  BY <1>1, AcceptFields, FieldKeepsTally
<1>3. UNCHANGED <<up, spent>>
  BY AcceptRoles
<1>4. \A k \in Nodes : Fresh(k)' => Fresh(k)
  BY <1>3, UnspentKeepsRestarts, FreshKept DEF RoleInv
<1>5. \/ UNCHANGED inbox
      \/ inbox[n] # <<>> /\ inbox' = Consumed(n)
      \/ \E m \in Nodes, msg \in Messages :
           msg.type \notin {"RequestVote", "AgreeVote"} /\ inbox' = SentTo(m, msg, inbox)
  <2>1. CASE sendCommitinfo(n)
    <3> DEFINE main == node[n].main
    <3>1. main \in MainStates /\ main.at = "commit"
      BY <1>0, <2>1 DEF sendCommitinfo, NodeStates
    <3>2. main.cmd \in Commands /\ main.idx \in Nat
      BY <3>1, NumNodesAssumption DEF MainStates
    <3>3. main.idx < NumNodes
      BY <2>1 DEF sendCommitinfo, ReplicasAsked
    <3>4. main.idx \in Nodes /\ CommitMessage(main.cmd) \in Messages
      BY <3>2, <3>3, NumNodesAssumption DEF Nodes, Messages
    <3>5. CommitMessage(main.cmd).type = "COMMIT"
      BY DEF CommitMessage, COMMIT
    <3>6. inbox' = inbox \/ inbox' = SentTo(main.idx, CommitMessage(main.cmd), inbox)
      BY <2>1, Zenon DEF sendCommitinfo
    <3> HIDE DEF main
    <3> QED
      BY <3>4, <3>5, <3>6
  <2>2. CASE CloseAgain(n) \/ Commit(n)
    BY <2>2 DEF CloseAgain, Commit
  <2>3. CASE \/ sendLeaderInfo(n) \/ HandleGET(n) \/ HandleWrite(n)
             \/ handleCommitRequest(n) \/ handleHeartBeat(n)
    BY <2>3 DEF Accepts, sendLeaderInfo, HandleGET, HandleWrite, handleCommitRequest,
       handleHeartBeat
  <2> QED
    BY <2>1, <2>2, <2>3
<1>6. \A k \in Nodes : FewerBallots(k)
  BY <1>5, PlainBallots DEF FewerBallots
<1> QED
  BY <1>2, <1>4, <1>6, AllAccountedKept

(* The request becomes a vote. *)
LEMMA GrantAccounted ==
    ASSUME TypeOK, TypeOK', RoleInv, NEW Z, AllAccounted(Z), NEW n \in Nodes, handleRequestVote(n)
    PROVE  AllAccounted(Z)'
<1>1. PICK m \in Nodes : Head(inbox[n]) = RequestVote(m)
  BY AcceptsType, MessageKinds DEF handleRequestVote
<1>2. inbox' = SentTo(m, AgreeVote, Consumed(n)) /\ inbox[n] # <<>>
  BY <1>1 DEF handleRequestVote, RequestVote, Accepts
<1>3. /\ up \in [Nodes -> BOOLEAN] /\ AgreeVote \in Messages
      /\ inbox \in [Nodes -> Seq(Messages)] /\ Consumed(n) \in [Nodes -> Seq(Messages)]
  BY <1>2, ConsumedElements DEF TypeOK, Messages
<1>4. \A k \in Nodes : SameTally(k)
  BY FieldKeepsTally DEF handleRequestVote
<1>5. \A k \in Nodes : Fresh(k)' => Fresh(k)
  BY UnspentKeepsRestarts, FreshKept DEF handleRequestVote, RoleInv
<1>6. ASSUME NEW k \in Nodes PROVE FewerBallots(k)
  <2>1. /\ Cardinality(Ballots(inbox, k)) \in Nat /\ Cardinality(Ballots(inbox', k)) \in Nat
        /\ Cardinality(Ballots(Consumed(n), k)) \in Nat
    <3>1. inbox' \in [Nodes -> Seq(Messages)]
      BY DEF TypeOK
    <3> QED
      BY <1>3, <3>1, BallotsFinite
  <2>2. CASE k = m
    <3>1. IsBallot(k, n, Head(inbox[n]))
      BY <1>1, <2>2 DEF IsBallot
    <3>2. Cardinality(Ballots(Consumed(n), k)) + 1 <= Cardinality(Ballots(inbox, k))
      BY <1>2, <3>1, ConsumeBallots
    <3>3. Cardinality(Ballots(inbox', k)) <= Cardinality(Ballots(Consumed(n), k)) + 1
      BY <1>2, <1>3, SendBallots
    <3> QED
      BY <2>1, <3>2, <3>3 DEF FewerBallots
  <2>3. CASE k # m
    <3>1. ~IsBallot(k, m, AgreeVote)
      BY <2>3 DEF IsBallot, RequestVote, AgreeVote
    <3>2. Cardinality(Ballots(Consumed(n), k)) <= Cardinality(Ballots(inbox, k))
      BY <1>2, ConsumeBallots
    <3>3. Cardinality(Ballots(inbox', k)) <= Cardinality(Ballots(Consumed(n), k))
      BY <1>2, <1>3, <3>1, SendBallots
    <3> QED
      BY <2>1, <3>2, <3>3 DEF FewerBallots
  <2> QED
    BY <2>2, <2>3
<1> QED
  BY <1>4, <1>5, <1>6, AllAccountedKept

(* The vote is counted. *)
LEMMA CountAccounted ==
    ASSUME TypeOK, TypeOK', RoleInv, NEW Z, AllAccounted(Z), NEW n \in Nodes,
           handleRecvVote(n) \/ becomeLeader(n)
    PROVE  AllAccounted(Z)'
<1>1. Head(inbox[n]) = AgreeVote /\ inbox[n] # <<>> /\ inbox' = Consumed(n)
  <2>1. Accepts(n, "AgreeVote") /\ inbox' = Consumed(n)
    BY DEF handleRecvVote, becomeLeader
  <2> QED
    BY <2>1, AcceptsType, MessageKinds DEF Accepts
<1>2. \A k \in Nodes : Fresh(k)' => Fresh(k)
  BY UnspentKeepsRestarts, FreshKept DEF handleRecvVote, becomeLeader, RoleInv
<1>3. PICK r : /\ node' = [node EXCEPT ![n] = r] /\ r.asks = node[n].asks
               /\ r.votes = IF node[n].votes = Garbage THEN Garbage ELSE node[n].votes + 1
  <2>0. node \in [Nodes -> NodeStates] /\ node[n] \in NodeStates
    BY DEF TypeOK
  <2>1. CASE becomeLeader(n)
    BY <2>1, LeaderRecord
  <2>2. CASE handleRecvVote(n)
    <3>1. CASE node[n].votes = Garbage
      <4>1. node' = node
        BY <2>2, <3>1 DEF handleRecvVote, CountVote
      <4> QED
        BY <2>0, <3>1, <4>1
    <3>2. CASE node[n].votes # Garbage
      <4> DEFINE x == [node[n] EXCEPT !.votes = node[n].votes + 1]
      <4>1. node' = [node EXCEPT ![n] = x]
        BY <2>2, <3>2 DEF handleRecvVote, CountVote
      <4>2. x.asks = node[n].asks /\ x.votes = node[n].votes + 1
        BY <2>0 DEF NodeStates
      <4> HIDE DEF x
      <4> QED
        BY <3>2, <4>1, <4>2
    <3> QED
      BY <3>1, <3>2
  <2> QED
    BY <2>1, <2>2
<1>4. node'[n] = r /\ \A k \in Nodes \ {n} : node'[k] = node[k]
  BY <1>3, OtherRecords
<1>5. \A k \in Nodes : FewerBallots(k)
  BY <1>1, ConsumeBallots DEF FewerBallots
<1> SUFFICES ASSUME NEW k \in Nodes, Fresh(k)' PROVE Accounted(k, Z)'
  BY DEF AllAccounted
<1>6. Accounted(k, Z)
  BY <1>2 DEF AllAccounted
<1>7. CASE k # n
  <2>1. SameTally(k)
    BY <1>4, <1>7 DEF SameTally
  <2> QED
    BY <1>5, <1>6, <2>1, AccountedKept
<1>8. CASE k = n /\ node[n].votes = Garbage
  <2>1. node'[k].votes = Garbage
    BY <1>3, <1>4, <1>8
  <2> QED
    BY <2>1 DEF Accounted
<1>9. CASE k = n /\ node[n].votes # Garbage
  <2>1. IsBallot(n, n, Head(inbox[n]))
    BY <1>1 DEF IsBallot
  <2>2. Cardinality(Ballots(inbox', n)) + 1 <= Cardinality(Ballots(inbox, n))
    BY <1>1, <2>1, ConsumeBallots
  <2>3. AskedBy(n, Z)' = AskedBy(n, Z)
    BY <1>3, <1>4 DEF AskedBy
  <2>4. node[n].votes - 1 + Cardinality(Ballots(inbox, n)) <= Cardinality(AskedBy(n, Z))
    BY <1>6, <1>9 DEF Accounted
  <2>5. /\ node[n].votes \in Nat /\ Cardinality(Ballots(inbox, n)) \in Nat
        /\ Cardinality(AskedBy(n, Z)) \in Nat /\ Cardinality(Ballots(inbox', n)) \in Nat
    <3>1. inbox' \in [Nodes -> Seq(Messages)]
      BY DEF TypeOK
    <3> QED
      BY <3>1, TallyTypes, BallotsFinite
  <2>6. node'[n].votes = node[n].votes + 1
    BY <1>3, <1>4, <1>9
  <2>7. node[n].votes + 1 - 1 + Cardinality(Ballots(inbox', n)) <= Cardinality(AskedBy(n, Z))
    BY <2>2, <2>4, <2>5
  <2>8. node'[n].votes - 1 + Cardinality(Ballots(inbox', n)) <= Cardinality(AskedBy(n, Z))
    BY <2>5, <2>6, <2>7
  <2>9. Accounted(n, Z)'
    BY <2>3, <2>8 DEF Accounted
  <2> QED
    BY <1>9, <2>9
<1> QED
  BY <1>7, <1>8, <1>9

(* The process ends, and its counts with it. *)
LEMMA StopAccounted ==
    ASSUME TypeOK, TypeOK', RoleInv, NEW Z, AllAccounted(Z), NEW n \in Nodes, Stop(n), SameRestarts
    PROVE  AllAccounted(Z)'
<1>1. /\ node'[n] = Constructed(n) /\ \A k \in Nodes \ {n} : node'[k] = node[k]
  BY OtherRecords DEF Stop
<1>2. \A k \in Nodes \ {n} : Fresh(k)' => Fresh(k)
  BY DEF Stop, Fresh, SameRestarts, TypeOK
<1>3. \A k \in Nodes : FewerBallots(k)
  BY PlainBallots DEF Stop, FewerBallots
<1>4. Constructed(n).votes = Garbage
  BY Zenon DEF Constructed
<1> SUFFICES ASSUME NEW k \in Nodes, Fresh(k)' PROVE Accounted(k, Z)'
  BY DEF AllAccounted
<1>5. CASE k = n
  BY <1>1, <1>4, <1>5 DEF Accounted
<1>6. CASE k # n
  <2>1. Accounted(k, Z) /\ SameTally(k)
    BY <1>1, <1>2, <1>6 DEF AllAccounted, SameTally
  <2> QED
    BY <1>3, <2>1, AccountedKept
<1> QED
  BY <1>5, <1>6

(* A candidacy starts from nothing: no vote and no request is left of an earlier one. *)
LEMMA CandidacyAccounted ==
    ASSUME TypeOK, TypeOK', RoleInv, NEW Z, AllAccounted(Z), NEW n \in Nodes, becomeCandidate(n)
    PROVE  AllAccounted(Z)'
<1>0. node[n] \in NodeStates
  BY DEF TypeOK
<1> DEFINE r == [node[n] EXCEPT !.state = "Candidate", !.votes = 1, !.asks = 0]
<1>1. /\ node' = [node EXCEPT ![n] = r] /\ UNCHANGED <<up, inbox, spent>>
      /\ node[n].asks = Waiting
  BY DEF becomeCandidate
<1>2. r.votes = 1 /\ r.asks = 0
  BY <1>0 DEF NodeStates
<1> HIDE DEF r
<1>3. node'[n] = r /\ \A k \in Nodes \ {n} : node'[k] = node[k]
  BY <1>1, OtherRecords
<1>4. \A k \in Nodes : Fresh(k)' => Fresh(k)
  BY <1>1, UnspentKeepsRestarts, FreshKept DEF RoleInv
<1> SUFFICES ASSUME NEW k \in Nodes, Fresh(k)' PROVE Accounted(k, Z)'
  BY DEF AllAccounted
<1>5. CASE k # n
  <2>1. Accounted(k, Z) /\ SameTally(k)
    BY <1>3, <1>4, <1>5 DEF AllAccounted, SameTally
  <2>2. FewerBallots(k)
    BY <1>1, PlainBallots DEF FewerBallots
  <2> QED
    BY <2>1, <2>2, AccountedKept
<1>6. CASE k = n
  <2>1. NoVotesFor(n)
    BY <1>1, <1>4, <1>6 DEF RoleInv, NoStaleVotes
  <2>2. Ballots(inbox, n) = {}
    BY <2>1 DEF NoVotesFor, Ballots, IsBallot
  <2>3. Cardinality(Ballots(inbox', n)) = 0
    BY <1>1, <2>2, FS_EmptySet
  <2>4. Cardinality(AskedBy(n, Z)') \in Nat
    <3>1. AskedBy(n, Z)' \subseteq Nodes /\ IsFiniteSet(Nodes)
      BY FS_Interval, NumNodesAssumption DEF AskedBy, Nodes
    <3> QED
      BY <3>1, FS_Subset, FS_CardinalityType
  <2>5. 1 - 1 + 0 <= Cardinality(AskedBy(n, Z)')
    BY <2>4
  <2> QED
    BY <1>2, <1>3, <1>6, <2>3, <2>5 DEF Accounted
<1> QED
  BY <1>5, <1>6

(* A request more, from a node that has come to one node more. *)
LEMMA AskAccounted ==
    ASSUME TypeOK, TypeOK', RoleInv, NEW Z, AllAccounted(Z), NEW n \in Nodes,
           sendRequestVote(n) \/ LoseRequestVote(n), AskedInVain(Z)
    PROVE  AllAccounted(Z)'
<1>0. /\ node[n] \in NodeStates /\ node \in [Nodes -> NodeStates]
      /\ inbox \in [Nodes -> Seq(Messages)] /\ up \in [Nodes -> BOOLEAN]
      /\ inbox' \in [Nodes -> Seq(Messages)]
  BY DEF TypeOK
<1> DEFINE m == node[n].asks
           r == [node[n] EXCEPT !.asks = node[n].asks + 1]
<1>1. /\ node' = [node EXCEPT ![n] = r] /\ UNCHANGED up /\ m \in Nodes
  BY DEF sendRequestVote, LoseRequestVote
<1>2. r.asks = m + 1 /\ r.votes = node[n].votes
  BY <1>0 DEF NodeStates
<1>3. \/ inbox' = inbox
      \/ m \notin Z \cup {n} /\ inbox' = SentTo(m, RequestVote(n), inbox)
  BY DEF sendRequestVote, LoseRequestVote, NotItself, AskedInVain, SentTo
<1>4. SameRestarts
  BY UnspentKeepsRestarts, SpendKeepsRestarts DEF sendRequestVote, LoseRequestVote, RoleInv
<1> HIDE DEF r
<1>5. node'[n] = r /\ \A k \in Nodes \ {n} : node'[k] = node[k]
  BY <1>1, OtherRecords
<1>6. \A k \in Nodes : Fresh(k)' => Fresh(k)
  BY <1>1, <1>4, FreshKept
<1>7. RequestVote(n) \in Messages
  BY DEF Messages
<1> SUFFICES ASSUME NEW k \in Nodes, Fresh(k)' PROVE Accounted(k, Z)'
  BY DEF AllAccounted
<1>8. Accounted(k, Z)
  BY <1>6 DEF AllAccounted
<1>9. /\ Cardinality(Ballots(inbox, k)) \in Nat /\ Cardinality(Ballots(inbox', k)) \in Nat
  BY <1>0, BallotsFinite
<1>10. CASE k # n
  <2>1. SameTally(k)
    BY <1>5, <1>10 DEF SameTally
  <2>2. ~IsBallot(k, m, RequestVote(n))
    BY <1>10 DEF IsBallot, RequestVote, AgreeVote
  <2>3. FewerBallots(k)
    <3>1. CASE inbox' = inbox
      BY <1>9, <3>1 DEF FewerBallots
    <3>2. CASE inbox' = SentTo(m, RequestVote(n), inbox)
      BY <1>0, <1>1, <1>7, <2>2, <3>2, SendBallots DEF FewerBallots
    <3> QED
      BY <1>3, <3>1, <3>2
  <2> QED
    BY <1>8, <2>1, <2>3, AccountedKept
<1>11. CASE k = n
  <2>1. /\ IsFiniteSet(AskedBy(n, Z)) /\ Cardinality(AskedBy(n, Z)) \in Nat
        /\ node[n].votes \in Nat
    BY TallyTypes
  <2>2. m \in Int /\ Nodes \subseteq Int
    BY <1>1, NumNodesAssumption DEF Nodes
  <2>3. AskedBy(n, Z)' = {l \in Nodes \ ({n} \cup Z) : l < m + 1}
    BY <1>2, <1>5 DEF AskedBy
  <2>4. CASE inbox' = inbox
    <3>1. IsFiniteSet(AskedBy(n, Z)') /\ AskedBy(n, Z) \subseteq AskedBy(n, Z)'
      <4>1. IsFiniteSet(Nodes) /\ AskedBy(n, Z)' \subseteq Nodes
        BY <2>3, FS_Interval, NumNodesAssumption DEF Nodes
      <4>2. ASSUME NEW l \in AskedBy(n, Z) PROVE l \in AskedBy(n, Z)'
        <5>1. l \in Nodes \ ({n} \cup Z) /\ l < m
          BY DEF AskedBy
        <5>2. l < m + 1
          BY <2>2, <5>1
        <5> QED
          BY <2>3, <5>1, <5>2
      <4> QED
        BY <4>1, <4>2, FS_Subset
    <3>2. /\ Cardinality(AskedBy(n, Z)) <= Cardinality(AskedBy(n, Z)')
          /\ Cardinality(AskedBy(n, Z)') \in Nat
      BY <3>1, FS_Subset, FS_CardinalityType
    <3>3. node[n].votes # Garbage =>
            node[n].votes - 1 + Cardinality(Ballots(inbox', n)) <= Cardinality(AskedBy(n, Z)')
      BY <1>8, <1>9, <1>11, <2>1, <2>4, <3>2 DEF Accounted
    <3> QED
      BY <1>2, <1>5, <1>11, <3>3 DEF Accounted
  <2>5. CASE m \notin Z \cup {n} /\ inbox' = SentTo(m, RequestVote(n), inbox)
    <3>1. Cardinality(Ballots(inbox', n)) <= Cardinality(Ballots(inbox, n)) + 1
      BY <1>0, <1>1, <1>7, <2>5, SendBallots
    <3>2. AskedBy(n, Z)' = AskedBy(n, Z) \cup {m} /\ m \notin AskedBy(n, Z)
      <4>1. AskedBy(n, Z) = {l \in Nodes \ ({n} \cup Z) : l < m}
        BY DEF AskedBy
      <4>2. \A l \in Nodes : (l < m + 1 <=> (l < m \/ l = m)) /\ ~(m < m)
        BY <2>2
      <4> HIDE DEF m
      <4> QED
        BY <1>1, <2>3, <2>5, <4>1, <4>2
    <3>3. Cardinality(AskedBy(n, Z)') = Cardinality(AskedBy(n, Z)) + 1
      BY <2>1, <3>2, FS_AddElement
    <3>4. node[n].votes # Garbage =>
            node[n].votes - 1 + Cardinality(Ballots(inbox', n)) <= Cardinality(AskedBy(n, Z)')
      BY <1>8, <1>9, <1>11, <2>1, <3>1, <3>3 DEF Accounted
    <3> QED
      BY <1>2, <1>5, <1>11, <3>4 DEF Accounted
  <2> QED
    BY <1>3, <2>4, <2>5
<1> QED
  BY <1>10, <1>11

(* Timers, heartbeats, the client and new processes count nothing. *)
LEMMA OthersAccounted ==
    ASSUME TypeOK, TypeOK', RoleInv, NEW Z, AllAccounted(Z),
           \/ \E n \in Nodes : NewPeriod(n) \/ Expire(n)
           \/ \E n, m \in Nodes : SendHeartBeat(n, m)
           \/ \E c \in Commands, n \in Contacts : SendRequest(c, n)
           \/ \E n \in Nodes : Restart(n)
           \/ ClientStep
           \/ UNCHANGED vars,
           SameRestarts \/ \E n \in Nodes : Restart(n)
    PROVE  AllAccounted(Z)'
<1>0. node \in [Nodes -> NodeStates]
  BY DEF TypeOK
<1>1. \A k \in Nodes : Fresh(k)' => Fresh(k)
  <2>1. CASE \E n \in Nodes : Restart(n)
    <3>1. PICK n \in Nodes : Restart(n)
      BY <2>1
    <3>2. /\ up' = [up EXCEPT ![n] = TRUE]
          /\ spent'.restarts = spent.restarts \cup {n}
      BY <3>1 DEF Restart, RoleInv, RestartsKnown
    <3> QED
      BY <3>2 DEF Fresh, TypeOK
  <2>2. CASE SameRestarts /\ UNCHANGED up
    BY <2>2, FreshKept
  <2> QED
    BY <2>1, <2>2 DEF NewPeriod, Expire, SendHeartBeat, SendRequest, ClientStep, ReceiveAnswer,
       FollowRedirect, NoAnswer, vars
<1>2. \A k \in Nodes : SameTally(k)
  <2>1. ASSUME NEW n \in Nodes, NewPeriod(n) PROVE \A k \in Nodes : SameTally(k)
    <3> DEFINE t == IF node[n].state = "Follower" THEN "running" ELSE "ended"
               r == [node[n] EXCEPT !.heard = FALSE, !.timer = t]
    <3>1. node' = [node EXCEPT ![n] = r]
      BY <2>1 DEF NewPeriod
    <3>2. r.votes = node[n].votes /\ r.asks = node[n].asks
      <4> HIDE DEF t
      <4> QED
        BY <1>0 DEF NodeStates
    <3> HIDE DEF r
    <3> QED
      BY <3>1, <3>2, OtherRecords DEF SameTally
  <2>2. ASSUME NEW n \in Nodes, Expire(n) PROVE \A k \in Nodes : SameTally(k)
    <3> DEFINE r == [node[n] EXCEPT !.timer = "expired"]
    <3>1. node' = [node EXCEPT ![n] = r]
      BY <2>2 DEF Expire
    <3>2. r.votes = node[n].votes /\ r.asks = node[n].asks
      BY <1>0 DEF NodeStates
    <3> HIDE DEF r
    <3> QED
      BY <3>1, <3>2, OtherRecords DEF SameTally
  <2>3. CASE UNCHANGED node
    BY <2>3 DEF SameTally
  <2> QED
    BY <2>1, <2>2, <2>3 DEF SendHeartBeat, SendRequest, Restart, ClientStep, ReceiveAnswer,
       FollowRedirect, NoAnswer, vars
<1>3. \/ UNCHANGED inbox
      \/ \E m \in Nodes, msg \in Messages :
           msg.type \notin {"RequestVote", "AgreeVote"} /\ inbox' = SentTo(m, msg, inbox)
  <2>1. ASSUME NEW n \in Nodes, NEW m \in Nodes, SendHeartBeat(n, m)
        PROVE  HeartBeat \in Messages /\ HeartBeat.type = "HeartBeat"
               /\ inbox' = SentTo(m, HeartBeat, inbox)
    BY <2>1 DEF SendHeartBeat, Messages, HeartBeat
  <2>2. ASSUME NEW c \in Commands, NEW n \in Contacts, SendRequest(c, n)
        PROVE  Request(c) \in Messages /\ Request(c).type = "$" /\ n \in Nodes
               /\ inbox' = SentTo(n, Request(c), inbox)
    BY <2>2, NodesAssumption DEF SendRequest, Messages, Request
  <2>3. CASE FollowRedirect
    <3>1. /\ Request(client.cmd) \in Messages /\ Request(client.cmd).type = "$"
          /\ answer.value \in Nodes /\ inbox' = SentTo(answer.value, Request(client.cmd), inbox)
      BY <2>3, AnswerKinds DEF FollowRedirect, TypeOK, Messages, Request
    <3> QED
      BY <3>1
  <2>4. CASE ReceiveAnswer \/ NoAnswer \/ UNCHANGED vars \/ \E n \in Nodes : Restart(n)
    BY <2>4 DEF ReceiveAnswer, NoAnswer, vars, Restart
  <2>5. CASE \E n \in Nodes : NewPeriod(n) \/ Expire(n)
    BY <2>5 DEF NewPeriod, Expire
  <2> QED
    BY <2>1, <2>2, <2>3, <2>4, <2>5 DEF ClientStep
<1>4. \A k \in Nodes : FewerBallots(k)
  BY <1>3, PlainBallots DEF FewerBallots
<1> QED
  BY <1>1, <1>2, <1>4, AllAccountedKept

(* The leader names itself and starts to beat. *)
LEMMA NamingAccounted ==
    ASSUME TypeOK, TypeOK', RoleInv, NEW Z, AllAccounted(Z), NEW n \in Nodes,
           nameLeader(n) \/ startHeartBeat(n)
    PROVE  AllAccounted(Z)'
<1>1. PICK r : node' = [node EXCEPT ![n] = r] /\ r.votes = node[n].votes /\ r.asks = node[n].asks
  BY NamingRecord
<1>2. \A k \in Nodes : SameTally(k)
  BY <1>1, OtherRecords DEF SameTally
<1>3. UNCHANGED inbox
  BY DEF nameLeader, startHeartBeat
<1>4. \A k \in Nodes : FewerBallots(k)
  BY <1>3, PlainBallots DEF FewerBallots
<1>5. \A k \in Nodes : Fresh(k)' => Fresh(k)
  BY UnspentKeepsRestarts, FreshKept DEF nameLeader, startHeartBeat, RoleInv
<1> QED
  BY <1>2, <1>4, <1>5, AllAccountedKept

(* Every step keeps the accounts. *)
LEMMA AccountedInductive ==
    ASSUME TypeOK, TypeOK', RoleInv, NEW Z, AllAccounted(Z), AskedInVain(Z),
           [Next]_vars
    PROVE  AllAccounted(Z)'
<1>0. SameRestarts \/ \E n \in Nodes : Restart(n)
  BY RestartsGrow
<1>1. ASSUME NEW n \in Nodes, Accept(n) PROVE AllAccounted(Z)'
  <2>1. CASE startHeartBeatAgain(n)
    BY <2>1, StopAccounted, UnspentKeepsRestarts DEF startHeartBeatAgain, RoleInv
  <2> QED
    BY <1>1, <2>1, AcceptAccounted, GrantAccounted, CountAccounted, NamingAccounted DEF Accept
<1>2. ASSUME NEW n \in Nodes, Election(n) \/ LoseRequestVote(n) PROVE AllAccounted(Z)'
  BY <1>2, CandidacyAccounted, AskAccounted DEF Election
<1>3. ASSUME NEW n \in Nodes, Crash(n) PROVE AllAccounted(Z)'
  BY <1>3, StopAccounted, SpendKeepsRestarts DEF Crash, RoleInv
<1>4. CASE \/ \E n \in Nodes : Timer(n) \/ ExpireLate(n) \/ HeartBeats(n) \/ Restart(n)
           \/ \E c \in Commands, n \in Contacts : SendRequest(c, n)
           \/ ClientStep
           \/ UNCHANGED vars
  BY <1>0, <1>4, OthersAccounted DEF Timer, ExpireQuiet, ExpireLate, HeartBeats
<1> QED
  BY <1>1, <1>2, <1>3, <1>4 DEF Next

LEMMA AccountedInit == \A Z : Init => AllAccounted(Z)
<1> SUFFICES ASSUME Init, NEW n \in Nodes PROVE node[n].votes = Garbage
  BY DEF AllAccounted, Accounted
<1>1. Constructed(n).votes = Garbage
  BY Zenon DEF Constructed
<1> QED
  BY <1>1 DEF Init

(* RaftVotesAreAccounted: a candidate never counts a vote that nobody cast or counts one
   twice, whatever is lost, killed or late, unless it is a later process of a node. *)
THEOREM RaftVotesAreAccounted == Spec => []VotesAreAccounted
<1>1. Init => AllAccounted({})
  BY AccountedInit
<1>2. TypeOK /\ TypeOK' /\ RoleInv /\ AllAccounted({}) /\ [Next]_vars => AllAccounted({})'
  BY AccountedInductive DEF AskedInVain
<1>3. TypeOK /\ AllAccounted({}) => VotesAreAccounted
  <2> SUFFICES ASSUME TypeOK, AllAccounted({}), NEW n \in Nodes,
                      NeverRestarted(n), node[n].votes # Garbage
               PROVE  node[n].votes - 1 + Cardinality(Pending("AgreeVote", n))
                        + Cardinality(VoteRequests(n))
                          <= Cardinality({m \in Nodes \ {n} : m < node[n].asks})
    BY DEF VotesAreAccounted
  <2>1. node[n].votes - 1 + Cardinality(Ballots(inbox, n)) <= Cardinality(AskedBy(n, {}))
    BY DEF NeverRestarted, Fresh, AllAccounted, Accounted
  <2>2. /\ node[n].votes \in Nat /\ Cardinality(AskedBy(n, {})) \in Nat
        /\ Cardinality(Ballots(inbox, n)) \in Nat
    BY TallyTypes
  <2> QED
    BY <2>1, <2>2, BallotsSplit DEF AskedBy
<1> QED
  BY <1>1, <1>2, <1>3, RaftTypeOK, RolesInvariant, PTL DEF Spec

-----------------------------------------------------------------------------
(* No process stops by itself.  The thread of heartbeats is assigned twice, and the process
   ends, when a node gets a vote after the one that made it the leader.  With three nodes
   at most that takes the votes of both others; but as long as node 0 runs and no timer
   expires late nobody asks for votes, so that one of those who are asked is dead. *)

FewAndPunctual == NumNodes <= 3 /\ MaxLate = 0 /\ MayRestart = {}

(* Whoever asks has its own vote, and whoever leads the one that made it the leader, which
   named itself before it beat. *)
Backed(n) ==
    /\ up[0] => node[n].timer = "running"
    /\ node[n].asks # Waiting => node[n].votes >= 1
    /\ node[n].state = "Leader" => node[n].votes >= 2
    /\ Naming(n) => node[n].beats = FALSE

(* Of the bounds, only those of kills, requests and losses are touched. *)
InBounds == spent.restarts = {} /\ NothingLate /\ "crashes" \in DOMAIN spent

Unopposed ==
    /\ InBounds
    /\ \A n \in Nodes \ {0} : up[n] => Backed(n)

(* What follows of a node that runs. *)
LEMMA RunsFresh ==
    ASSUME TypeOK, RoleInv, Unopposed, NEW n \in Nodes, up[n]
    PROVE  /\ Fresh(n) /\ node[n] \in NodeStates /\ node[n].votes \in Nat
           /\ n # 0 => RoleFits(n) /\ Backed(n)
           /\ Accepts(n, "AgreeVote") => n # 0 /\ node[n].asks # Waiting /\ node[n].votes >= 1
           /\ node[n].asks \in Nodes => n # 0 /\ ~up[0]
<1>1. Fresh(n)
  BY DEF Unopposed, InBounds, Fresh
<1>2. node[n] \in NodeStates /\ node[n].votes \in Nat
  BY DEF TypeOK, NodeStates
<1>3. n # 0 => RoleFits(n) /\ Backed(n)
  BY <1>1 DEF RoleInv, OtherRoles, Unopposed
<1>4. n = 0 => node[n].asks = Waiting
  BY DEF RoleInv, FirstRole
<1>5. ASSUME Accepts(n, "AgreeVote")
      PROVE  n # 0 /\ node[n].asks # Waiting /\ node[n].votes >= 1
  <2>1. Head(inbox[n]) = AgreeVote /\ inbox[n] # <<>> /\ inbox[n] \in Seq(Messages)
    BY <1>5, AcceptsType, MessageKinds DEF Accepts, TypeOK
  <2>2. ~NoVotesFor(n)
    <3>1. 1 \in DOMAIN inbox[n] /\ inbox[n][1] = AgreeVote
      BY <2>1
    <3> QED
      BY <3>1 DEF NoVotesFor
  <2>3. node[n].asks # Waiting
    BY <1>1, <2>2 DEF RoleInv, NoStaleVotes
  <2> QED
    BY <1>3, <1>4, <2>3 DEF Backed
<1>6. ASSUME node[n].asks \in Nodes PROVE n # 0 /\ ~up[0]
  <2>1. node[n].asks # Waiting
    BY <1>6, NumNodesAssumption DEF Nodes, Waiting
  <2>2. node[n].timer # "running"
    BY <1>3, <1>4, <2>1 DEF RoleFits
  <2> QED
    BY <1>3, <1>4, <2>1, <2>2 DEF Backed
<1> QED
  BY <1>1, <1>2, <1>3, <1>5, <1>6

(* Nobody asks node 0 and is heard. *)
LEMMA FirstAskedInVain ==
    ASSUME TypeOK, RoleInv, Unopposed
    PROVE  AskedInVain({0})
<1> SUFFICES ASSUME NEW n \in Nodes, up[n], node[n].asks = 0 PROVE ~up[0]
  BY DEF AskedInVain
<1> QED
  BY RunsFresh, ZeroIsANode

(* So a leader gets no other vote. *)
LEMMA NoVoteTooMany ==
    ASSUME TypeOK, RoleInv, Unopposed, AllAccounted({0}), NumNodes <= 3, NEW n \in Nodes
    PROVE  Accepts(n, "AgreeVote") => node[n].state # "Leader"
<1> SUFFICES ASSUME Accepts(n, "AgreeVote"), node[n].state = "Leader" PROVE FALSE
  OBVIOUS
<1>1. up[n]
  BY DEF Accepts
<1>2. n # 0 /\ Fresh(n) /\ node[n].votes >= 2 /\ node[n].votes \in Nat
  BY <1>1, RunsFresh DEF Backed
<1>3. node[n].votes - 1 + Cardinality(Ballots(inbox, n)) <= Cardinality(AskedBy(n, {0}))
  BY <1>2 DEF AllAccounted, Accounted, Garbage
<1>4. /\ Cardinality(Ballots(inbox, n)) \in Nat /\ Cardinality(AskedBy(n, {0})) \in Nat
  BY TallyTypes
<1>5. Cardinality(Ballots(inbox, n)) >= 1
  <2>1. IsBallot(n, n, Head(inbox[n])) /\ inbox[n] # <<>>
    BY <1>1, AcceptsType, MessageKinds DEF IsBallot, Accepts
  <2>2. Cardinality(Ballots(Consumed(n), n)) + 1 <= Cardinality(Ballots(inbox, n))
    BY <2>1, ConsumeBallots
  <2>3. Cardinality(Ballots(Consumed(n), n)) \in Nat
    BY <1>1, AcceptsType, BallotsFinite
  <2> QED
    BY <1>4, <2>2, <2>3
<1>6. Cardinality(AskedBy(n, {0})) <= 1
  <2> DEFINE other == 3 - n
  <2>1. n \in {1, 2} /\ \A m \in Nodes \ ({n} \cup {0}) : m = other
    BY <1>2, NumNodesAssumption DEF Nodes
  <2>2. AskedBy(n, {0}) \subseteq {other}
    BY <2>1 DEF AskedBy
  <2>3. IsFiniteSet({other}) /\ Cardinality({other}) = 1
    BY FS_Singleton
  <2> QED
    BY <2>2, <2>3, FS_Subset
<1> QED
  BY <1>2, <1>3, <1>4, <1>5, <1>6

(* And starts its heartbeats once. *)
LEMMA BeatsOnce ==
    ASSUME TypeOK, RoleInv, Unopposed, NEW n \in Nodes
    PROVE  ~startHeartBeatAgain(n)
<1> SUFFICES ASSUME startHeartBeatAgain(n) PROVE FALSE
  OBVIOUS
<1>1. up[n] /\ Naming(n) /\ node[n].beats
  BY DEF startHeartBeatAgain, Naming
<1>2. n # 0
  BY <1>1 DEF RoleInv, FirstRole
<1>3. node[n].beats = FALSE
  BY <1>1, <1>2 DEF Unopposed, Backed
<1> QED
  BY <1>1, <1>3

(* Steps that change no role, no vote and no process. *)
LEMMA UnopposedKept ==
    ASSUME TypeOK, Unopposed, InBounds', UNCHANGED up,
           \A k \in Nodes : SameRole(k) /\ SameTally(k)
    PROVE  Unopposed'
<1> SUFFICES ASSUME NEW k \in Nodes \ {0}, up[k] PROVE Backed(k)'
  BY DEF Unopposed
<1>1. Backed(k) /\ SameRole(k) /\ SameTally(k)
  BY DEF Unopposed
<1> QED
  BY <1>1 DEF Backed, SameRole, SameTally, Naming

(* Steps that change one node. *)
LEMMA UnopposedAfter ==
    ASSUME TypeOK, Unopposed, InBounds', NEW n \in Nodes,
           \A k \in Nodes \ {n} : node'[k] = node[k], \A k \in Nodes : up'[k] => up[k],
           n # 0 /\ up'[n] => Backed(n)'
    PROVE  Unopposed'
<1> SUFFICES ASSUME NEW k \in Nodes \ {0}, k # n, up'[k] PROVE Backed(k)'
  BY DEF Unopposed
<1>1. Backed(k) /\ node'[k] = node[k] /\ (up'[0] => up[0])
  BY ZeroIsANode DEF Unopposed
<1> QED
  BY <1>1 DEF Backed, Naming

(* Nothing is started again and no timer is late. *)
LEMMA BoundsKept ==
    ASSUME TypeOK, RoleInv, Unopposed, FewAndPunctual, [Next]_vars
    PROVE  InBounds' /\ \A n \in Nodes : ~Restart(n) /\ ~ExpireLate(n)
<1>1. \A n \in Nodes : ~Restart(n)
  BY DEF FewAndPunctual, Restart
<1>2. spent'.restarts = {}
  BY <1>1, RestartsGrow DEF Unopposed, InBounds, SameRestarts
<1>3. \A n \in Nodes : ~ExpireLate(n)
  BY DEF FewAndPunctual, Unopposed, InBounds, NothingLate, ExpireLate, Spend
<1>4. \/ \E kind \in {"txns", "crashes", "lost"}, max \in Nat : Spend(kind, max)
      \/ UNCHANGED spent
  <2>1. {MaxTxns, MaxCrashes, MaxLost} \subseteq Nat
    BY BoundsAssumption
  <2>2. ASSUME NEW n \in Nodes, Accept(n) PROVE UNCHANGED spent
    BY <2>2 DEF Accept, sendLeaderInfo, CloseAgain, HandleGET, HandleWrite, sendCommitinfo,
       Commit, handleCommitRequest, handleHeartBeat, handleRequestVote, handleRecvVote,
       becomeLeader, nameLeader, startHeartBeat, startHeartBeatAgain
  <2>3. ASSUME NEW n \in Nodes, Timer(n) \/ Election(n) \/ HeartBeats(n)
        PROVE  UNCHANGED spent
    BY <2>3 DEF Timer, NewPeriod, ExpireQuiet, Election, becomeCandidate, sendRequestVote,
       HeartBeats, SendHeartBeat
  <2>4. ASSUME NEW n \in Nodes, LoseRequestVote(n) \/ Crash(n)
        PROVE  \E kind \in {"txns", "crashes", "lost"}, max \in Nat : Spend(kind, max)
    BY <2>1, <2>4 DEF LoseRequestVote, Crash
  <2>5. ASSUME NEW c \in Commands, NEW n \in Contacts, SendRequest(c, n)
        PROVE  Spend("txns", MaxTxns)
    BY <2>5 DEF SendRequest
  <2>6. ClientStep \/ UNCHANGED vars => UNCHANGED spent
    BY DEF ClientStep, ReceiveAnswer, FollowRedirect, NoAnswer, vars
  <2> QED
    BY <1>1, <1>3, <2>1, <2>2, <2>3, <2>4, <2>5, <2>6 DEF Next
<1>5. NothingLate'
  BY <1>4, NothingLateKept DEF Unopposed, InBounds
<1>6. "crashes" \in DOMAIN spent'
  BY <1>4 DEF Unopposed, InBounds, Spend
<1> QED
  BY <1>1, <1>2, <1>3, <1>5, <1>6 DEF InBounds

(* Votes that are counted back whoever counts them: no leader does. *)
LEMMA CountUnopposed ==
    ASSUME TypeOK, RoleInv, Unopposed, InBounds', AllAccounted({0}), NumNodes <= 3,
           NEW n \in Nodes, handleRecvVote(n) \/ becomeLeader(n)
    PROVE  Unopposed'
<1>1. Accepts(n, "AgreeVote") /\ up[n] /\ UNCHANGED up /\ node[n].main.at = "accept"
  <2>1. Accepts(n, "AgreeVote") /\ UNCHANGED up
    BY DEF handleRecvVote, becomeLeader
  <2>2. up[n] /\ node[n].main = Accepting
    BY <2>1 DEF Accepts
  <2> QED
    BY <2>1, <2>2 DEF Accepting
<1>2. /\ n # 0 /\ node[n].asks # Waiting /\ node[n].votes >= 1 /\ node[n].votes \in Nat
      /\ Backed(n) /\ RoleFits(n) /\ node[n] \in NodeStates
  BY <1>1, RunsFresh
<1>3. node[n].votes # Garbage
  BY <1>2 DEF Garbage
<1>4. node[n].state # "Leader" /\ node[n].beats = FALSE
  BY <1>1, <1>2, NoVoteTooMany DEF RoleFits
<1>5. PICK r : /\ node' = [node EXCEPT ![n] = r] /\ r.votes = node[n].votes + 1
               /\ r.timer = node[n].timer /\ r.beats = node[n].beats
  <2>1. CASE becomeLeader(n)
    BY <1>3, <2>1, LeaderRecord
  <2>2. CASE handleRecvVote(n)
    <3> DEFINE x == [node[n] EXCEPT !.votes = node[n].votes + 1]
    <3>1. node' = [node EXCEPT ![n] = x]
      BY <1>3, <2>2 DEF handleRecvVote, CountVote
    <3>2. x.votes = node[n].votes + 1 /\ x.timer = node[n].timer /\ x.beats = node[n].beats
      BY <1>2 DEF NodeStates
    <3> HIDE DEF x
    <3> QED
      BY <3>1, <3>2
  <2> QED
    BY <2>1, <2>2
<1>6. node'[n] = r /\ \A k \in Nodes \ {n} : node'[k] = node[k]
  BY <1>5, OtherRecords
<1>7. Backed(n)'
  BY <1>1, <1>2, <1>4, <1>5, <1>6, ZeroIsANode DEF Backed
<1> QED
  BY <1>1, <1>6, <1>7, UnopposedAfter

(* The new leader starts to beat. *)
LEMMA NamingUnopposed ==
    ASSUME TypeOK, RoleInv, Unopposed, InBounds',
           NEW n \in Nodes, nameLeader(n) \/ startHeartBeat(n)
    PROVE  Unopposed'
<1>1. up[n] /\ UNCHANGED up /\ Naming(n) /\ n # 0
  BY DEF nameLeader, startHeartBeat, Naming, RoleInv, FirstRole
<1>2. Backed(n)
  BY <1>1 DEF Unopposed
<1>3. PICK r : /\ node' = [node EXCEPT ![n] = r]
               /\ r.state = node[n].state /\ r.timer = node[n].timer
               /\ r.asks = node[n].asks /\ r.votes = node[n].votes
               /\ r.beats = node[n].beats \/ r.main = Accepting
  BY NamingRecord
<1>4. node'[n] = r /\ \A k \in Nodes \ {n} : node'[k] = node[k]
  BY <1>3, OtherRecords
<1>5. Backed(n)'
  BY <1>1, <1>2, <1>3, <1>4, ZeroIsANode DEF Backed, Naming, Accepting
<1> QED
  BY <1>1, <1>4, <1>5, UnopposedAfter

(* The timer of a node expires when node 0 has died. *)
LEMMA TimedUnopposed ==
    ASSUME TypeOK, RoleInv, Unopposed, InBounds',
           NEW n \in Nodes, NewPeriod(n) \/ ExpireQuiet(n)
    PROVE  Unopposed'
<1>1. up[n] /\ UNCHANGED up /\ node[n].timer = "running"
  BY DEF NewPeriod, ExpireQuiet, Expire
<1>2. n # 0
  BY <1>1 DEF RoleInv, FirstRole
<1>3. Backed(n) /\ RoleFits(n) /\ node[n] \in NodeStates
  BY <1>1, <1>2, RunsFresh
<1>4. node[n].state = "Follower" /\ node[n].asks = Waiting /\ ~Naming(n)
  BY <1>1, <1>3 DEF RoleFits
<1>5. PICK r : /\ node' = [node EXCEPT ![n] = r] /\ r.asks = node[n].asks
               /\ r.state = node[n].state /\ r.main = node[n].main
               /\ (up[0] => r.timer = "running")
  <2>1. CASE NewPeriod(n)
    <3> DEFINE x == [node[n] EXCEPT !.heard = FALSE, !.timer = "running"]
    <3>1. node' = [node EXCEPT ![n] = x]
      BY <1>4, <2>1 DEF NewPeriod
    <3>2. /\ x.timer = "running" /\ x.asks = node[n].asks
          /\ x.state = node[n].state /\ x.main = node[n].main
      BY <1>3 DEF NodeStates
    <3> HIDE DEF x
    <3> QED
      BY <3>1, <3>2
  <2>2. CASE ExpireQuiet(n)
    <3> DEFINE x == [node[n] EXCEPT !.timer = "expired"]
    <3>1. node' = [node EXCEPT ![n] = x]
      BY <2>2 DEF ExpireQuiet, Expire
    <3>2. x.asks = node[n].asks /\ x.state = node[n].state /\ x.main = node[n].main
      BY <1>3 DEF NodeStates
    <3>3. ~up[0]
      BY <1>2, <2>2, ZeroIsANode DEF ExpireQuiet, Quiet, RoleInv, FirstRole
    <3> HIDE DEF x
    <3> QED
      BY <3>1, <3>2, <3>3
  <2> QED
    BY <2>1, <2>2
<1>6. node'[n] = r /\ \A k \in Nodes \ {n} : node'[k] = node[k]
  BY <1>5, OtherRecords
<1>7. Backed(n)'
  BY <1>1, <1>4, <1>5, <1>6, ZeroIsANode DEF Backed, Naming
<1> QED
  BY <1>1, <1>6, <1>7, UnopposedAfter

(* A candidate votes for itself, and asks. *)
LEMMA ElectionUnopposed ==
    ASSUME TypeOK, RoleInv, Unopposed, InBounds',
           NEW n \in Nodes, becomeCandidate(n) \/ sendRequestVote(n) \/ LoseRequestVote(n)
    PROVE  Unopposed'
<1>1. up[n] /\ UNCHANGED up
  BY DEF becomeCandidate, sendRequestVote, LoseRequestVote
<1>2. node[n] \in NodeStates /\ (n # 0 => RoleFits(n) /\ Backed(n))
  BY <1>1, RunsFresh
<1>3. PICK r : /\ node' = [node EXCEPT ![n] = r]
               /\ n # 0 => /\ up[0] => r.timer = "running"
                           /\ r.votes >= 1
                           /\ r.state = "Leader" => r.votes >= 2
                           /\ r.main = node[n].main
                           /\ Naming(n) => r.beats = FALSE
  <2>1. CASE becomeCandidate(n)
    <3> DEFINE x == [node[n] EXCEPT !.state = "Candidate", !.votes = 1, !.asks = 0]
    <3>1. node' = [node EXCEPT ![n] = x] /\ node[n].asks = Waiting
      BY <2>1 DEF becomeCandidate
    <3>2. /\ x.timer = node[n].timer /\ x.votes = 1 /\ x.state = "Candidate"
          /\ x.main = node[n].main
      BY <1>2 DEF NodeStates
    <3>3. n # 0 => ~Naming(n) /\ (up[0] => node[n].timer = "running")
      BY <1>2, <3>1 DEF RoleFits, Backed
    <3> HIDE DEF x
    <3>4. x.votes >= 1 /\ x.state # "Leader"
      BY <3>2
    <3> QED
      BY <3>1, <3>2, <3>3, <3>4, Zenon
  <2>2. CASE sendRequestVote(n) \/ LoseRequestVote(n)
    <3> DEFINE x == [node[n] EXCEPT !.asks = node[n].asks + 1]
    <3>1. node' = [node EXCEPT ![n] = x] /\ node[n].asks \in Nodes
      BY <2>2 DEF sendRequestVote, LoseRequestVote
    <3>2. /\ x.timer = node[n].timer /\ x.votes = node[n].votes
          /\ x.beats = node[n].beats /\ x.state = node[n].state /\ x.main = node[n].main
      BY <1>2 DEF NodeStates
    <3>3. node[n].asks # Waiting
      BY <3>1, NumNodesAssumption DEF Nodes, Waiting
    <3> HIDE DEF x
    <3> QED
      BY <1>2, <3>1, <3>2, <3>3 DEF Backed
  <2> QED
    BY <2>1, <2>2
<1>4. node'[n] = r /\ \A k \in Nodes \ {n} : node'[k] = node[k]
  BY <1>3, OtherRecords
<1>5. n # 0 => Backed(n)'
  BY <1>1, <1>3, <1>4, ZeroIsANode DEF Backed, Naming
<1> QED
  BY <1>1, <1>4, <1>5, UnopposedAfter

(* Every step keeps the elections unopposed. *)
LEMMA UnopposedInductive ==
    ASSUME TypeOK, RoleInv, Unopposed, AllAccounted({0}), FewAndPunctual, [Next]_vars
    PROVE  Unopposed'
<1>1. InBounds' /\ \A n \in Nodes : ~Restart(n) /\ ~ExpireLate(n)
  BY BoundsKept
<1>2. ASSUME NEW n \in Nodes, Accept(n) PROVE Unopposed'
  <2>1. ~startHeartBeatAgain(n)
    BY BeatsOnce
  <2>2. CASE handleRecvVote(n) \/ becomeLeader(n)
    BY <1>1, <2>2, CountUnopposed DEF FewAndPunctual
  <2>4. CASE nameLeader(n) \/ startHeartBeat(n)
    BY <1>1, <2>4, NamingUnopposed
  <2>3. CASE \/ sendLeaderInfo(n) \/ CloseAgain(n) \/ HandleGET(n) \/ HandleWrite(n)
             \/ sendCommitinfo(n) \/ Commit(n) \/ handleCommitRequest(n)
             \/ handleHeartBeat(n) \/ handleRequestVote(n)
    <3>1. CASE handleRecvVote(n)
      BY <2>2, <3>1
    <3>2. CASE ~handleRecvVote(n)
      <4>1. UNCHANGED up /\ \A k \in Nodes : SameRole(k)
        BY <2>3, AcceptRoles
      <4>2. \A k \in Nodes : SameTally(k)
        BY <2>3, <3>2, AcceptFields, FieldKeepsTally
      <4> QED
        BY <1>1, <4>1, <4>2, UnopposedKept
    <3> QED
      BY <3>1, <3>2
  <2> QED
    BY <1>2, <2>1, <2>2, <2>3, <2>4 DEF Accept
<1>3. ASSUME NEW n \in Nodes, Timer(n) PROVE Unopposed'
  BY <1>1, <1>3, TimedUnopposed DEF Timer
<1>4. ASSUME NEW n \in Nodes, Election(n) \/ LoseRequestVote(n) PROVE Unopposed'
  BY <1>1, <1>4, ElectionUnopposed DEF Election
<1>5. ASSUME NEW n \in Nodes, Crash(n) PROVE Unopposed'
  <2>1. node' = [node EXCEPT ![n] = Constructed(n)] /\ up' = [up EXCEPT ![n] = FALSE]
    BY <1>5 DEF Crash, Stop
  <2>2. ~up'[n] /\ \A k \in Nodes : up'[k] => up[k]
    BY <2>1 DEF TypeOK
  <2>3. \A k \in Nodes \ {n} : node'[k] = node[k]
    BY <2>1, OtherRecords
  <2> QED
    BY <1>1, <2>2, <2>3, UnopposedAfter
<1>6. CASE \/ \E n \in Nodes : HeartBeats(n)
           \/ \E c \in Commands, n \in Contacts : SendRequest(c, n)
           \/ ClientStep
           \/ UNCHANGED vars
  <2>1. UNCHANGED <<node, up>>
    BY <1>6 DEF HeartBeats, SendHeartBeat, SendRequest, ClientStep, ReceiveAnswer,
       FollowRedirect, NoAnswer, vars
  <2>2. \A k \in Nodes : SameRole(k) /\ SameTally(k)
    BY <2>1 DEF SameRole, SameTally
  <2> QED
    BY <1>1, <2>1, <2>2, UnopposedKept
<1> QED
  BY <1>1, <1>2, <1>3, <1>4, <1>5, <1>6 DEF Next

(* Only Crash and startHeartBeatAgain stop a process. *)
LEMMA WhoStops ==
    ASSUME TypeOK, [Next]_vars, NEW n \in Nodes, up[n], ~up'[n]
    PROVE  (\E k \in Nodes : Crash(k)) \/ (\E k \in Nodes : startHeartBeatAgain(k))
<1>1. ASSUME NEW k \in Nodes, Accept(k) PROVE startHeartBeatAgain(k) \/ UNCHANGED up
  BY <1>1 DEF Accept, sendLeaderInfo, CloseAgain, HandleGET, HandleWrite, sendCommitinfo,
     Commit, handleCommitRequest, handleHeartBeat, handleRequestVote, handleRecvVote,
     becomeLeader, nameLeader, startHeartBeat
<1>2. ASSUME NEW k \in Nodes, Timer(k) \/ Election(k) \/ HeartBeats(k)
                              \/ ExpireLate(k) \/ LoseRequestVote(k)
      PROVE  UNCHANGED up
  BY <1>2 DEF Timer, NewPeriod, ExpireQuiet, ExpireLate, Expire, Election, becomeCandidate,
     sendRequestVote, LoseRequestVote, HeartBeats, SendHeartBeat
<1>3. ASSUME NEW k \in Nodes, Restart(k) PROVE FALSE
  BY <1>3 DEF Restart, TypeOK
<1>4. CASE \/ \E c \in Commands, k \in Contacts : SendRequest(c, k)
           \/ ClientStep
           \/ UNCHANGED vars
  BY <1>4 DEF SendRequest, ClientStep, ReceiveAnswer, FollowRedirect, NoAnswer, vars
<1> QED
  BY <1>1, <1>2, <1>3, <1>4 DEF Next

(* NodesStopOnlyWhenKilled: with three nodes or fewer, none of them started again, and
   timers that expire only in silence, no election ends a process, whatever is killed and
   whichever requests for votes are lost.  (With four nodes a leader gets votes after the
   one that made it one; a late timer lets both others answer a candidate.) *)
THEOREM RaftNodesStopOnlyWhenKilled ==
    ASSUME NumNodes <= 3, MaxLate = 0, MayRestart = {}
    PROVE  Spec => NodesStopOnlyWhenKilled
<1>1. FewAndPunctual
  BY DEF FewAndPunctual
<1>2. Init => Unopposed /\ AllAccounted({0})
  <2> SUFFICES ASSUME Init PROVE Unopposed
    BY AccountedInit
  <2>1. InBounds
    BY DEF Init, InBounds, NothingLate
  <2>2. ASSUME NEW n \in Nodes \ {0} PROVE Backed(n)
    <3>1. node[n] = Constructed(n)
      BY DEF Init
    <3> QED
      BY <3>1, ConstructedFollows DEF Backed, Naming
  <2> QED
    BY <2>1, <2>2 DEF Unopposed
<1>3. TypeOK /\ TypeOK' /\ RoleInv /\ Unopposed /\ AllAccounted({0}) /\ [Next]_vars
        => Unopposed' /\ AllAccounted({0})'
  BY <1>1, UnopposedInductive, FirstAskedInVain, AccountedInductive
<1>4. TypeOK /\ RoleInv /\ Unopposed /\ AllAccounted({0}) /\ [Next]_vars
        => [\A n \in Nodes : up[n] /\ ~up'[n] => spent'.crashes = spent.crashes + 1]_vars
  <2> SUFFICES ASSUME TypeOK, RoleInv, Unopposed, AllAccounted({0}), [Next]_vars,
                      NEW n \in Nodes, up[n], ~up'[n]
               PROVE  spent'.crashes = spent.crashes + 1
    OBVIOUS
  <2>1. PICK k \in Nodes : Crash(k)
    BY WhoStops, BeatsOnce
  <2> QED
    BY <2>1 DEF Crash, Spend, Unopposed, InBounds
<1> QED
  BY <1>2, <1>3, <1>4, RaftTypeOK, RolesInvariant, PTL DEF Spec, NodesStopOnlyWhenKilled

-----------------------------------------------------------------------------
(* The followers.  What a node will hold when it has handled what waits at it is
   given by the course of its map. *)

(* What handleCommitRequest makes of a map, and every other message leaves of it. *)
After(msg, db) ==
    IF msg.type # "COMMIT" THEN db
    ELSE IF msg.method = "SET" THEN [db EXCEPT ![msg.words[1]] = Tail(msg.words)]
    ELSE Erase(db, WordsOf(msg.words))

(* course[i] is the map after the first i messages of box. *)
IsCourse(course, box, db, end) ==
    /\ DOMAIN course = 0 .. Len(box)
    /\ course[0] = db /\ course[Len(box)] = end
    /\ \A i \in 1 .. Len(box) : course[i] = After(box[i], course[i - 1])

(* Where n arrives, if data is where everybody arrives whom node 0 has not yet
   sent the write that it replicates. *)
Replicating == node[0].main.at = "commit"
Arrival(n, data) ==
    IF Replicating /\ n < node[0].main.idx
    THEN After(CommitMessage(node[0].main.cmd), data) ELSE data

ArrivesAt(n, data) == \E course : IsCourse(course, inbox[n], kvdb[n], Arrival(n, data))

Converging == \E data : \A n \in Nodes \ {0} : up[n] => ArrivesAt(n, data)

(* Induction on the natural numbers, as a fact about sets. *)
LEMMA NatSetInduction ==
    ASSUME NEW S, 0 \in S, \A n \in Nat : n \in S => n + 1 \in S
    PROVE  Nat \subseteq S
<1> SUFFICES ASSUME NEW k \in Nat \ S PROVE FALSE
  OBVIOUS
<1>1. PICK m \in Nat \ S : \A n \in Nat \ S : ~(<<n, m>> \in OpToRel(<, Nat))
  BY NatLessThanWellFounded, WFMin
<1>2. m # 0 /\ m - 1 \in Nat /\ m - 1 < m
  OBVIOUS
<1>3. <<m - 1, m>> \in OpToRel(<, Nat) /\ m - 1 \notin S
  BY <1>2 DEF OpToRel
<1> QED
  BY <1>1, <1>2, <1>3

(* Without a COMMIT nothing happens. *)
LEMMA CourseStands ==
    ASSUME NEW course, NEW box \in Seq(Messages), NEW db, NEW end,
           IsCourse(course, box, db, end), \A i \in DOMAIN box : box[i].type # "COMMIT"
    PROVE  end = db
<1> DEFINE S == {i \in Nat : i <= Len(box) => course[i] = db}
<1>1. Len(box) \in Nat /\ DOMAIN box = 1 .. Len(box)
  OBVIOUS
<1>2. 0 \in S
  BY DEF IsCourse
<1>3. ASSUME NEW i \in Nat, i \in S, i + 1 <= Len(box) PROVE course[i + 1] = db
  <2>1. i + 1 \in 1 .. Len(box) /\ course[i] = db /\ i + 1 - 1 = i
    BY <1>1, <1>3
  <2>2. course[i + 1] = After(box[i + 1], course[i])
    BY <2>1 DEF IsCourse
  <2> QED
    BY <1>1, <2>1, <2>2 DEF After
<1>4. \A i \in Nat : i \in S => i + 1 \in S
  BY <1>3
<1>5. Nat \subseteq S
  <2> HIDE DEF S
  <2> QED
    BY <1>2, <1>4, NatSetInduction
<1> QED
  BY <1>1, <1>5 DEF IsCourse

(* A message more. *)
LEMMA CourseGrows ==
    ASSUME NEW course, NEW box \in Seq(Messages), NEW db, NEW end, NEW msg \in Messages,
           IsCourse(course, box, db, end)
    PROVE  \E longer : IsCourse(longer, Append(box, msg), db, After(msg, end))
<1> DEFINE l == Len(box)
           longer == [i \in 0 .. (l + 1) |-> IF i = l + 1 THEN After(msg, end) ELSE course[i]]
<1>1. /\ l \in Nat /\ Len(Append(box, msg)) = l + 1 /\ Append(box, msg)[l + 1] = msg
      /\ \A i \in 1 .. l : Append(box, msg)[i] = box[i]
  OBVIOUS
<1>2. /\ course[0] = db /\ course[l] = end
      /\ \A i \in 1 .. l : course[i] = After(box[i], course[i - 1])
  BY DEF IsCourse
<1> HIDE DEF l
<1>3. DOMAIN longer = 0 .. (l + 1) /\ longer[0] = db /\ longer[l + 1] = After(msg, end)
  BY <1>1, <1>2
<1>4. ASSUME NEW i \in 1 .. (l + 1)
      PROVE  longer[i] = After(Append(box, msg)[i], longer[i - 1])
  <2>1. CASE i = l + 1
    <3>1. longer[i] = After(msg, end) /\ longer[i - 1] = end
      BY <1>1, <1>2, <2>1
    <3> QED
      BY <1>1, <2>1, <3>1
  <2>2. CASE i \in 1 .. l
    <3>1. longer[i] = course[i] /\ longer[i - 1] = course[i - 1]
      BY <1>1, <2>2
    <3> QED
      BY <1>1, <1>2, <2>2, <3>1
  <2> QED
    BY <1>1, <2>1, <2>2
<1> HIDE DEF longer
<1>5. IsCourse(longer, Append(box, msg), db, After(msg, end))
  BY <1>1, <1>3, <1>4 DEF IsCourse
<1> QED
  BY <1>5

(* The first message is handled. *)
LEMMA CourseStarts ==
    ASSUME NEW course, NEW box \in Seq(Messages), NEW db, NEW end, box # <<>>,
           IsCourse(course, box, db, end)
    PROVE  \E rest : IsCourse(rest, Tail(box), After(Head(box), db), end)
<1> DEFINE l == Len(box)
           rest == [i \in 0 .. (l - 1) |-> course[i + 1]]
<1>1. /\ l \in Nat \ {0} /\ Len(Tail(box)) = l - 1 /\ Head(box) = box[1]
      /\ \A i \in 1 .. (l - 1) : Tail(box)[i] = box[i + 1]
  OBVIOUS
<1>2. /\ course[0] = db /\ course[l] = end
      /\ \A i \in 1 .. l : course[i] = After(box[i], course[i - 1])
  BY DEF IsCourse
<1> HIDE DEF l
<1>3. course[1] = After(box[1], course[0])
  BY <1>1, <1>2
<1>4. /\ DOMAIN rest = 0 .. (l - 1) /\ rest[0] = After(Head(box), db)
      /\ rest[l - 1] = end
  BY <1>1, <1>2, <1>3
<1>5. ASSUME NEW i \in 1 .. (l - 1) PROVE rest[i] = After(Tail(box)[i], rest[i - 1])
  <2>1. i + 1 \in 1 .. l /\ i + 1 - 1 = i /\ rest[i] = course[i + 1] /\ rest[i - 1] = course[i]
    BY <1>1
  <2>2. course[i + 1] = After(box[i + 1], course[i])
    BY <1>2, <2>1
  <2> QED
    BY <1>1, <2>1, <2>2
<1> HIDE DEF rest
<1>6. IsCourse(rest, Tail(box), After(Head(box), db), end)
  BY <1>1, <1>4, <1>5 DEF IsCourse
<1> QED
  BY <1>6

(* Nothing waits and nothing has been written. *)
LEMMA CourseEmpty ==
    ASSUME NEW db PROVE \E course : IsCourse(course, <<>>, db, db)
<1>1. IsCourse([i \in {0} |-> db], <<>>, db, db)
  BY DEF IsCourse
<1> QED
  BY <1>1

(* n stays on its course: it is as it was, has got a message that is no COMMIT or
   has handled the first of those that waited. *)
OnCourse(n) ==
    \/ inbox'[n] = inbox[n] /\ kvdb'[n] = kvdb[n]
    \/ /\ kvdb'[n] = kvdb[n]
       /\ \E msg \in Messages : msg.type # "COMMIT" /\ inbox'[n] = Append(inbox[n], msg)
    \/ /\ inbox[n] # <<>> /\ inbox'[n] = Tail(inbox[n])
       /\ kvdb'[n] = After(Head(inbox[n]), kvdb[n])

LEMMA CourseKept ==
    ASSUME TypeOK, NEW n \in Nodes, NEW end,
           \E course : IsCourse(course, inbox[n], kvdb[n], end), OnCourse(n)
    PROVE  \E course : IsCourse(course, inbox'[n], kvdb'[n], end)
<1>1. PICK course : IsCourse(course, inbox[n], kvdb[n], end)
  OBVIOUS
<1>2. inbox[n] \in Seq(Messages)
  BY DEF TypeOK
<1>3. CASE inbox'[n] = inbox[n] /\ kvdb'[n] = kvdb[n]
  BY <1>1, <1>3
<1>4. ASSUME NEW msg \in Messages, msg.type # "COMMIT", inbox'[n] = Append(inbox[n], msg),
             kvdb'[n] = kvdb[n]
      PROVE  \E c : IsCourse(c, inbox'[n], kvdb'[n], end)
  <2>1. After(msg, end) = end
    BY <1>4 DEF After
  <2>2. \E c : IsCourse(c, Append(inbox[n], msg), kvdb[n], After(msg, end))
    BY <1>1, <1>2, CourseGrows
  <2> QED
    BY <1>4, <2>1, <2>2
<1>5. CASE /\ inbox[n] # <<>> /\ inbox'[n] = Tail(inbox[n])
           /\ kvdb'[n] = After(Head(inbox[n]), kvdb[n])
  BY <1>1, <1>2, <1>5, CourseStarts
<1> QED
  BY <1>3, <1>4, <1>5 DEF OnCourse

(* Where node 0 is in its replication matters only while it is in one. *)
SameReplication ==
    \/ node'[0].main = node[0].main
    \/ ~Replicating /\ (node'[0].main.at = "commit" => node'[0].main.idx = 0)

LEMMA ConvergingKept ==
    ASSUME TypeOK, Converging, SameReplication,
           \A n \in Nodes \ {0} : up'[n] => up[n] /\ OnCourse(n)
    PROVE  Converging'
<1>1. PICK data : \A n \in Nodes \ {0} : up[n] => ArrivesAt(n, data)
  BY DEF Converging
<1>2. ASSUME NEW n \in Nodes \ {0}, up'[n] PROVE ArrivesAt(n, data)'
  <2>1. \E course : IsCourse(course, inbox[n], kvdb[n], Arrival(n, data))
    BY <1>1, <1>2 DEF ArrivesAt
  <2>2. \E course : IsCourse(course, inbox'[n], kvdb'[n], Arrival(n, data))
    BY <1>2, <2>1, CourseKept
  <2>3. Arrival(n, data)' = Arrival(n, data)
    <3>1. CASE node'[0].main = node[0].main
      BY <3>1 DEF Arrival, Replicating
    <3>2. CASE ~Replicating /\ (node'[0].main.at = "commit" => node'[0].main.idx = 0)
      <4>1. ~(n < 0)
        BY NumNodesAssumption DEF Nodes
      <4> QED
        BY <3>2, <4>1 DEF Arrival, Replicating
    <3> QED
      BY <3>1, <3>2 DEF SameReplication
  <2> QED
    BY <2>2, <2>3 DEF ArrivesAt
<1> QED
  BY <1>2 DEF Converging

(* A message that is no COMMIT is sent. *)
LEMMA SentOnCourse ==
    ASSUME TypeOK, NEW m \in Nodes, NEW msg \in Messages, msg.type # "COMMIT",
           inbox' = SentTo(m, msg, inbox), UNCHANGED kvdb
    PROVE  \A k \in Nodes : OnCourse(k)
<1>1. inbox \in [Nodes -> Seq(Messages)]
  BY DEF TypeOK
<1>2. \A k \in Nodes : inbox'[k] = inbox[k] \/ inbox'[k] = Append(inbox[k], msg)
  BY <1>1 DEF SentTo
<1> QED
  BY <1>2 DEF OnCourse

(* Node 0 sends the write that it replicates to the next node. *)
LEMMA SendingConverges ==
    ASSUME TypeOK, Converging, sendCommitinfo(0)
    PROVE  Converging'
<1> DEFINE m == node[0].main.idx
           cmd == node[0].main.cmd
           msg == CommitMessage(cmd)
<1>0. /\ inbox \in [Nodes -> Seq(Messages)] /\ 0 \in Nodes /\ node[0] \in NodeStates
      /\ node[0].main \in MainStates /\ Replicating
      /\ UNCHANGED <<up, kvdb>>
  BY ZeroIsANode DEF TypeOK, NodeStates, sendCommitinfo, Replicating
<1>1. cmd \in Commands /\ m \in Nodes
  <2>1. cmd \in Commands /\ m \in Nat
    BY <1>0, NumNodesAssumption DEF MainStates, Replicating
  <2>2. m < NumNodes
    BY DEF sendCommitinfo, ReplicasAsked
  <2> QED
    BY <2>1, <2>2, NumNodesAssumption DEF Nodes
<1>2. msg \in Messages
  BY <1>1 DEF Messages
<1>3. /\ node'[0].main.at = "commit" /\ node'[0].main.cmd = cmd /\ node'[0].main.idx = m + 1
  <2> DEFINE x == [node[0].main EXCEPT !.idx = @ + 1]
             r == [node[0] EXCEPT !.main = x]
  <2>1. x.at = "commit" /\ x.cmd = cmd /\ x.idx = m + 1
    BY <1>0 DEF MainStates, Replicating
  <2>2. node' = [node EXCEPT ![0] = r]
    BY DEF sendCommitinfo
  <2>3. r.main = x
    BY <1>0 DEF NodeStates
  <2> HIDE DEF x, r
  <2>4. node'[0] = r
    BY <1>0, <2>2, OtherRecords
  <2> QED
    BY <2>1, <2>3, <2>4
<1>4. inbox' = IF m = 0 THEN inbox ELSE SentTo(m, msg, inbox)
  BY DEF sendCommitinfo
<1>5. PICK data : \A n \in Nodes \ {0} : up[n] => ArrivesAt(n, data)
  BY DEF Converging
<1> HIDE DEF m, cmd, msg
<1>6. ASSUME NEW n \in Nodes \ {0}, up'[n] PROVE ArrivesAt(n, data)'
  <2>1. PICK course : IsCourse(course, inbox[n], kvdb[n], Arrival(n, data))
    BY <1>0, <1>5, <1>6 DEF ArrivesAt
  <2>2. n \in Int /\ m \in Int
    BY <1>1, NumNodesAssumption DEF Nodes
  <2>3. Arrival(n, data) = IF n < m THEN After(msg, data) ELSE data
    BY <1>0 DEF Arrival, m, msg, cmd
  <2>4. Arrival(n, data)' = IF n < m + 1 THEN After(msg, data) ELSE data
    BY <1>3 DEF Arrival, Replicating, msg
  <2>5. CASE n = m
    <3>1. inbox'[n] = Append(inbox[n], msg) /\ inbox[n] \in Seq(Messages)
      BY <1>0, <1>4, <1>6, <2>5 DEF SentTo
    <3>2. Arrival(n, data) = data /\ Arrival(n, data)' = After(msg, data)
      BY <2>2, <2>3, <2>4, <2>5
    <3>3. \E longer : IsCourse(longer, Append(inbox[n], msg), kvdb[n], After(msg, data))
      BY <1>2, <2>1, <3>1, <3>2, CourseGrows
    <3> QED
      BY <1>0, <3>1, <3>2, <3>3 DEF ArrivesAt
  <2>6. CASE n # m
    <3>1. inbox'[n] = inbox[n]
      BY <1>0, <1>1, <1>4, <2>6 DEF SentTo
    <3>2. n < m + 1 <=> n < m
      BY <2>2, <2>6
    <3>3. Arrival(n, data)' = Arrival(n, data)
      BY <2>3, <2>4, <3>2
    <3> QED
      BY <1>0, <2>1, <3>1, <3>3 DEF ArrivesAt
  <2> QED
    BY <2>5, <2>6
<1> QED
  BY <1>6 DEF Converging

(* Node 0 has sent the write to everybody and makes it itself. *)
LEMMA CommitConverges ==
    ASSUME TypeOK, Converging, Commit(0)
    PROVE  Converging'
<1> DEFINE msg == CommitMessage(node[0].main.cmd)
<1>0. /\ 0 \in Nodes /\ node \in [Nodes -> NodeStates] /\ kvdb \in [Nodes -> Stores]
      /\ Replicating /\ node[0].main.idx = NumNodes
      /\ UNCHANGED <<up, inbox>>
  BY ZeroIsANode DEF TypeOK, Commit, Replicating, ReplicasAsked
<1>1. PICK data : \A n \in Nodes \ {0} : up[n] => ArrivesAt(n, data)
  BY DEF Converging
<1>2. \A n \in Nodes \ {0} : kvdb'[n] = kvdb[n]
  BY <1>0 DEF Commit
<1>3. node'[0].main = Accepting
  BY <1>0 DEF Commit, NodeStates
<1> PICK d : d = After(msg, data)
  OBVIOUS
<1>4. ASSUME NEW n \in Nodes \ {0}, up'[n] PROVE ArrivesAt(n, d)'
  <2>1. n < NumNodes
    BY NumNodesAssumption DEF Nodes
  <2>2. Arrival(n, data) = After(msg, data)
    BY <1>0, <2>1 DEF Arrival
  <2>3. \E course : IsCourse(course, inbox[n], kvdb[n], After(msg, data))
    BY <1>0, <1>1, <1>4, <2>2 DEF ArrivesAt
  <2>4. node'[0].main.at # "commit"
    BY <1>3 DEF Accepting
  <2> HIDE DEF msg
  <2> QED
    BY <1>0, <1>2, <2>3, <2>4 DEF ArrivesAt, Arrival, Replicating
<1> QED
  BY <1>4 DEF Converging

(* Everything else that the accept loops do. *)
LEMMA AcceptConverges ==
    ASSUME TypeOK, RoleInv, Steady, FirstNodeStays, Converging, NEW n \in Nodes, Accept(n)
    PROVE  Converging'
<1>0. /\ node \in [Nodes -> NodeStates] /\ inbox \in [Nodes -> Seq(Messages)]
      /\ kvdb \in [Nodes -> Stores] /\ 0 \in Nodes
  BY ZeroIsANode DEF TypeOK
<1>1. \/ n # 0 /\ sendLeaderInfo(n)
      \/ CloseAgain(n)
      \/ n = 0 /\ HandleGET(n)
      \/ n = 0 /\ HandleWrite(n)
      \/ n = 0 /\ sendCommitinfo(n)
      \/ n = 0 /\ Commit(n)
      \/ n # 0 /\ handleCommitRequest(n)
      \/ handleHeartBeat(n)
  BY CalmSteps DEF Accept
<1>2. UNCHANGED up
  BY <1>1, AcceptRoles
<1>3. CASE n = 0 /\ (sendCommitinfo(n) \/ Commit(n))
  BY <1>3, SendingConverges, CommitConverges
<1>4. CASE \/ n # 0 /\ sendLeaderInfo(n)
           \/ CloseAgain(n)
           \/ n = 0 /\ (HandleGET(n) \/ HandleWrite(n))
           \/ n # 0 /\ handleCommitRequest(n)
           \/ handleHeartBeat(n)
  <2>1. SameReplication
    <3>1. CASE n # 0
      <4>1. node'[0] = node[0]
        <5>1. \E r : node' = node \/ node' = [node EXCEPT ![n] = r]
          BY <1>4, AcceptFields
        <5> QED
          BY <1>0, <3>1, <5>1
      <4> QED
        BY <4>1 DEF SameReplication
    <3>2. CASE n = 0 /\ CloseAgain(n)
      <4>1. node'[0].main = Accepting /\ node[0].main.at = "closing"
        BY <1>0, <3>2 DEF CloseAgain, NodeStates
      <4> QED
        BY <4>1 DEF SameReplication, Replicating, Accepting
    <3>3. CASE n = 0 /\ HandleWrite(n)
      <4> DEFINE x == [at |-> "commit", cmd |-> Head(inbox[n]).cmd, idx |-> 0]
      <4>1. node' = [node EXCEPT ![n].main = x] /\ node[n].main = Accepting
        BY <3>3, Zenon DEF HandleWrite, Accepts
      <4>2. x.idx = 0
        OBVIOUS
      <4> HIDE DEF x
      <4>3. node'[n].main = x
        BY <1>0, <4>1 DEF NodeStates
      <4> QED
        BY <3>3, <4>1, <4>2, <4>3 DEF SameReplication, Replicating, Accepting
    <3>4. CASE n = 0 /\ HandleGET(n)
      BY <3>4 DEF HandleGET, SameReplication
    <3>5. CASE n = 0 /\ handleHeartBeat(n)
      <4>1. node'[0].main = node[0].main
        BY <1>0, <3>5 DEF handleHeartBeat, NodeStates
      <4> QED
        BY <4>1 DEF SameReplication
    <3> QED
      BY <1>4, <3>1, <3>2, <3>3, <3>4, <3>5
  <2>2. ASSUME NEW k \in Nodes \ {0} PROVE OnCourse(k)
    <3>1. CASE CloseAgain(n)
      BY <3>1 DEF CloseAgain, OnCourse
    <3>2. CASE k # n
      <4>1. UNCHANGED inbox \/ inbox' = Consumed(n)
        BY <1>4 DEF sendLeaderInfo, CloseAgain, HandleGET, HandleWrite, handleCommitRequest,
                    handleHeartBeat
      <4>2. inbox'[k] = inbox[k]
        BY <1>0, <3>2, <4>1 DEF Consumed
      <4>3. kvdb'[k] = kvdb[k]
        BY <1>0, <1>4, <3>2 DEF sendLeaderInfo, CloseAgain, HandleGET, HandleWrite,
                                handleCommitRequest, handleHeartBeat
      <4> QED
        BY <4>2, <4>3 DEF OnCourse
    <3>3. CASE k = n /\ (sendLeaderInfo(n) \/ handleHeartBeat(n))
      <4>1. /\ inbox[n] # <<>> /\ Head(inbox[n]).type # "COMMIT"
            /\ inbox' = Consumed(n) /\ UNCHANGED kvdb
        BY <3>3 DEF sendLeaderInfo, handleHeartBeat, Accepts
      <4>2. After(Head(inbox[n]), kvdb[n]) = kvdb[n]
        BY <4>1 DEF After
      <4>3. inbox'[n] = Tail(inbox[n])
        BY <1>0, <4>1 DEF Consumed
      <4> QED
        BY <3>3, <4>1, <4>2, <4>3 DEF OnCourse
    <3>4. CASE k = n /\ handleCommitRequest(n)
      <4> DEFINE msg == Head(inbox[n])
                 written == [kvdb[n] EXCEPT ![msg.words[1]] = Tail(msg.words)]
                 erased == Erase(kvdb[n], WordsOf(msg.words))
      <4>1. /\ inbox[n] # <<>> /\ msg.type = "COMMIT" /\ inbox' = Consumed(n)
            /\ kvdb' = IF msg.method = "SET" THEN [kvdb EXCEPT ![n] = written]
                       ELSE [kvdb EXCEPT ![n] = erased]
        BY <3>4 DEF handleCommitRequest, Accepts
      <4>2. After(msg, kvdb[n]) = IF msg.method = "SET" THEN written ELSE erased
        BY <4>1 DEF After
      <4> HIDE DEF msg, written, erased
      <4>3. kvdb'[n] = IF msg.method = "SET" THEN written ELSE erased
        BY <1>0, <4>1
      <4>4. inbox'[n] = Tail(inbox[n])
        BY <1>0, <4>1 DEF Consumed
      <4> QED
        BY <3>4, <4>1, <4>2, <4>3, <4>4 DEF OnCourse, msg
    <3> QED
      BY <1>4, <3>1, <3>2, <3>3, <3>4
  <2> QED
    BY <1>2, <2>1, <2>2, ConvergingKept
<1> QED
  BY <1>1, <1>3, <1>4

(* And the other threads, the client and kill. *)
LEMMA OthersConverge ==
    ASSUME TypeOK, RoleInv, Steady, FirstNodeStays, MayRestart = {}, Converging,
           \/ \E n \in Nodes : Timer(n) \/ Election(n) \/ HeartBeats(n)
           \/ \E n \in Nodes : ExpireLate(n) \/ LoseRequestVote(n) \/ Crash(n) \/ Restart(n)
           \/ \E c \in Commands, n \in Contacts : SendRequest(c, n)
           \/ ClientStep
           \/ UNCHANGED vars
    PROVE  Converging'
<1>0. /\ node \in [Nodes -> NodeStates] /\ inbox \in [Nodes -> Seq(Messages)]
      /\ kvdb \in [Nodes -> Stores] /\ up \in [Nodes -> BOOLEAN] /\ 0 \in Nodes
  BY ZeroIsANode DEF TypeOK
<1>1. ASSUME NEW m \in Nodes, NEW msg \in Messages, msg.type # "COMMIT",
             inbox' = SentTo(m, msg, inbox), UNCHANGED <<node, kvdb, up>>
      PROVE  Converging'
  <2>1. SameReplication
    BY <1>1 DEF SameReplication
  <2> QED
    BY <1>1, <2>1, SentOnCourse, ConvergingKept
<1>2. ASSUME UNCHANGED <<inbox, kvdb, up>>, node'[0].main = node[0].main
      PROVE  Converging'
  BY <1>2, ConvergingKept DEF SameReplication, OnCourse
<1>3. ASSUME NEW n \in Nodes, NewPeriod(n) PROVE Converging'
  <2>1. n # 0 /\ UNCHANGED <<inbox, kvdb, up>>
    BY <1>3, CalmSteps DEF NewPeriod
  <2>2. \E r : node' = [node EXCEPT ![n] = r]
    BY <1>3 DEF NewPeriod
  <2>3. node'[0] = node[0]
    BY <1>0, <2>1, <2>2
  <2> QED
    BY <1>2, <2>1, <2>3
<1>4. ASSUME NEW n \in Nodes, NEW m \in Nodes, SendHeartBeat(n, m) PROVE Converging'
  <2>1. HeartBeat \in Messages /\ HeartBeat.type # "COMMIT"
    BY DEF Messages, HeartBeat
  <2> QED
    BY <1>1, <1>4, <2>1 DEF SendHeartBeat
<1>5. ASSUME NEW n \in Nodes, Crash(n) PROVE Converging'
  <2>1. /\ n # 0 /\ node' = [node EXCEPT ![n] = Constructed(n)]
        /\ up' = [up EXCEPT ![n] = FALSE] /\ inbox' = [inbox EXCEPT ![n] = <<>>]
        /\ kvdb' = [kvdb EXCEPT ![n] = EmptyStore]
    BY <1>5, CalmSteps DEF Crash, Stop
  <2>2. SameReplication
    BY <1>0, <2>1 DEF SameReplication
  <2>3. ASSUME NEW k \in Nodes \ {0}, up'[k] PROVE up[k] /\ OnCourse(k)
    <3>1. k # n /\ up[k]
      BY <1>0, <2>1, <2>3
    <3> QED
      BY <1>0, <2>1, <3>1 DEF OnCourse
  <2> QED
    BY <2>2, <2>3, ConvergingKept
<1>6. ASSUME NEW c \in Commands PROVE Request(c) \in Messages /\ Request(c).type # "COMMIT"
  BY DEF Messages, Request
<1>7. ASSUME NEW c \in Commands, NEW n \in Contacts, SendRequest(c, n) PROVE Converging'
  BY <1>1, <1>6, <1>7, NodesAssumption DEF SendRequest
<1>8. CASE FollowRedirect
  <2>1. client.cmd \in Commands /\ answer.value \in Nodes
    BY <1>8, AnswerKinds DEF FollowRedirect, TypeOK
  <2> QED
    BY <1>1, <1>6, <1>8, <2>1 DEF FollowRedirect
<1>9. CASE ReceiveAnswer \/ NoAnswer \/ UNCHANGED vars
  BY <1>2, <1>9 DEF ReceiveAnswer, NoAnswer, vars
<1>10. ASSUME NEW n \in Nodes, \/ Timer(n) \/ Election(n) \/ HeartBeats(n)
                               \/ ExpireLate(n) \/ LoseRequestVote(n) \/ Crash(n) \/ Restart(n)
       PROVE  Converging'
  <2>1. ~Restart(n)
    BY DEF Restart
  <2> QED
    BY <1>3, <1>4, <1>5, <1>10, <2>1, CalmSteps DEF Timer, Election, HeartBeats
<1> QED
  BY <1>7, <1>8, <1>9, <1>10 DEF ClientStep

(* RaftFollowersAgree: while node 0 runs, followers hear it in time and nobody is started
   again, two followers that run hold the same once they have handled what waits, although
   each write is sent to one after the other and any of them may be killed. *)
THEOREM RaftFollowersAgree ==
    ASSUME MaxLate = 0, MayRestart = {}
    PROVE  Spec => []FollowersAgree
<1>2. Init => (up[0] => Steady /\ Converging)
  <2> SUFFICES ASSUME Init PROVE Steady /\ Converging
    OBVIOUS
  <2>1. Calm(inbox) /\ NothingLate /\ up[0]
    BY ZeroIsANode DEF Init, Calm, NothingLate
  <2>2. \A n \in Nodes \ {0} : Follows(n)
    BY ConstructedFollows DEF Init, Follows, Naming
  <2>3. ~Replicating
    <3>1. Constructed(0).main = Accepting
      BY Zenon DEF Constructed
    <3> QED
      BY <3>1, ZeroIsANode DEF Init, Replicating, Accepting
  <2>4. \A n \in Nodes : ArrivesAt(n, EmptyStore)
    BY <2>3, CourseEmpty DEF Init, ArrivesAt, Arrival
  <2> QED
    BY <2>1, <2>2, <2>4 DEF Steady, Converging
<1>3. TypeOK /\ RoleInv /\ (up[0] => Steady /\ Converging) /\ [Next]_vars
        => (up[0] => Steady /\ Converging)'
  <2> SUFFICES ASSUME TypeOK, RoleInv, up[0] => Steady /\ Converging, [Next]_vars, up'[0]
               PROVE  Steady' /\ Converging'
    OBVIOUS
  <2>1. Steady /\ Converging /\ FirstNodeStays
    BY StartedAgain, ZeroIsANode DEF FirstNodeStays
  <2> QED
    BY <2>1, AcceptSteady, OthersSteady, AcceptConverges, OthersConverge DEF Next
<1>4. TypeOK /\ (up[0] => Steady /\ Converging) => FollowersAgree
  <2> SUFFICES ASSUME TypeOK, Converging, NEW a \in Nodes \ {0}, NEW b \in Nodes \ {0},
                      up[a], up[b], node[0].main.at # "commit",
                      Pending("COMMIT", a) \cup Pending("COMMIT", b) = {}
               PROVE  kvdb[a] = kvdb[b]
    BY DEF FollowersAgree
  <2>1. PICK data : \A n \in Nodes \ {0} : up[n] => ArrivesAt(n, data)
    BY DEF Converging
  <2>2. ASSUME NEW n \in {a, b} PROVE kvdb[n] = data
    <3>1. Arrival(n, data) = data
      BY DEF Arrival, Replicating
    <3>2. PICK course : IsCourse(course, inbox[n], kvdb[n], data)
      BY <2>1, <3>1 DEF ArrivesAt
    <3>3. inbox[n] \in Seq(Messages) /\ \A i \in DOMAIN inbox[n] : inbox[n][i].type # "COMMIT"
      BY DEF TypeOK, Pending
    <3> QED
      BY <3>2, <3>3, CourseStands
  <2> QED
    BY <2>2
<1> QED
  BY <1>2, <1>3, <1>4, RaftTypeOK, RolesInvariant, PTL DEF Spec
=============================================================================
