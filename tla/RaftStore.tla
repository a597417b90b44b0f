------------------------------ MODULE RaftStore ------------------------------
(***************************************************************************)
(* The key-value store of lab3/src_raft: nodes that elect a leader by      *)
(* timeouts and votes, without terms or logs (Node.cpp).  A node runs four *)
(* threads: the accept loop, which handles one message at a time, the      *)
(* timer of a follower, the thread that waits for its expiry and then asks *)
(* for votes, and the heartbeats of a leader.                              *)
(***************************************************************************)
EXTENDS StoreRequests, Sequences

CONSTANTS
    NumNodes,      \* numNodes
    Commands,      \* what clients send
    Contacts,      \* nodes that clients send their requests to
    MayCrash,      \* nodes that may be killed
    MayRestart,    \* nodes that may be started again
    MaxTxns,       \* bound: requests of the client
    MaxCrashes,    \* bound: nodes killed
    MaxRestarts,   \* bound: nodes that are started again, each once
    MaxLate,       \* bound: timers that expire although the node would hear in time
    MaxLost        \* bound: vote requests lost to the second close of a descriptor

Nodes == 0 .. NumNodes - 1

(* Keys are the words of the protocol; a value is the sequence of its words, as
   kvdb keeps them, each followed by a space. *)
ASSUME NumNodesAssumption == NumNodes \in Nat \ {0}
ASSUME ValuesAssumption == Values \subseteq Seq(Keys)
ASSUME CommandsAssumption ==
    \A c \in Commands :
        /\ DOMAIN c = {"method", "words"}
        /\ c.method \in {"SET", "GET", "DEL", "other"}
        /\ c.words \in Seq(Keys) \ {<<>>}
        /\ c.method = "SET" =>
              Len(c.words) > 1 /\ {Tail(c.words), Tail(Tail(c.words))} \subseteq Values
ASSUME NodesAssumption ==
    Contacts \subseteq Nodes /\ MayCrash \subseteq Nodes /\ MayRestart \subseteq Nodes
ASSUME BoundsAssumption ==
    {MaxTxns, MaxCrashes, MaxRestarts, MaxLate, MaxLost} \subseteq Nat

(* Definitions marked "mutant" are plausible mistakes in the definition that
   follows them; no specification uses them. *)

VARIABLES
    node,     \* node[n]: the fields of the Node object and where its threads are
    kvdb,     \* kvdb[n]
    up,       \* the process runs
    inbox,    \* connections n has still to accept, each with its message
    client,   \* the request of the client, the node it was sent to, its redirections
    answer,   \* what that node sent back, not yet read by the client
    reply,    \* the answer to the last request, or NoReply
    spent     \* counters of the bounds, and the set of the nodes started again

clientVars == <<client, answer, reply>>
vars == <<node, kvdb, up, inbox, clientVars, spent>>

-----------------------------------------------------------------------------
(* Messages.  A connection carries one message, sent right after connect. *)

Request(c) == [type |-> "$", cmd |-> c]
COMMIT(method, words) == [type |-> "COMMIT", method |-> method, words |-> words]
HeartBeat == [type |-> "HeartBeat"]
RequestVote(n) == [type |-> "RequestVote", from |-> n]
AgreeVote == [type |-> "AgreeVote"]

NoCommand == [method |-> "none", words |-> <<>>]
NoRequestSent == [cmd |-> NoCommand, to |-> 0, redirects |-> 0]
LeaderInfo(n) == [type |-> "leader", value |-> n]
ConnectionClosed == [type |-> "closed", value |-> Nil]

Pending(type, n) == {i \in DOMAIN inbox[n] : inbox[n][i].type = type}

(* connect succeeds while the process runs; otherwise nothing is sent. *)
SentTo(m, msg, boxes) == IF up[m] THEN [boxes EXCEPT ![m] = Append(@, msg)] ELSE boxes

-----------------------------------------------------------------------------
(* The Node object. *)

Garbage == 0        \* candidateVotenum before the first candidacy: not initialised
Waiting == -1       \* the election thread while the timer has not expired
Accepting == [at |-> "accept", cmd |-> NoCommand, idx |-> 0]

(* mutant: every node starts as a follower *)
ConstructedAsFollower(n) ==
    [state |-> "Follower", leader |-> 0, votes |-> Garbage, heard |-> FALSE,
     timer |-> "running", asks |-> Waiting, beats |-> FALSE, main |-> Accepting]

(* mutant: no leader is known at first *)
ConstructedWithoutLeader(n) ==
    [state |-> IF n = 0 THEN "Leader" ELSE "Follower", leader |-> -1, votes |-> Garbage,
     heard |-> FALSE, timer |-> IF n = 0 THEN "none" ELSE "running", asks |-> Waiting,
     beats |-> n = 0, main |-> Accepting]

(* The constructor.  Node 0 starts as the leader, whoever leads by then; every
   node believes that node 0 leads. *)
Constructed(n) ==
    [state |-> IF n = 0 THEN "Leader" ELSE "Follower",
     leader |-> 0,                                        \* currentLeader
     votes |-> Garbage,                                   \* candidateVotenum
     heard |-> FALSE,                                     \* electionTimeout
     timer |-> IF n = 0 THEN "none" ELSE "running",       \* FollowerTimerThread
     asks |-> Waiting,                                    \* HandleTimeout, its loop index
     beats |-> n = 0,                                     \* heartbeatThread was started
     main |-> Accepting]                                  \* the accept loop

Init ==
    /\ node = [n \in Nodes |-> Constructed(n)]
    /\ kvdb = [n \in Nodes |-> EmptyStore]
    /\ up = [n \in Nodes |-> TRUE]
    /\ inbox = [n \in Nodes |-> <<>>]
    /\ client = NoRequestSent /\ answer = NoReply /\ reply = NoReply
    /\ spent = [txns |-> 0, crashes |-> 0, restarts |-> {}, late |-> 0, lost |-> 0]

Spend(kind, max) == spent[kind] < max /\ spent' = [spent EXCEPT ![kind] = @ + 1]

(* The process ends: its memory, the connections it has not served and the one
   of the client, unless it was answered, are gone. *)
Stop(n) ==
    /\ up' = [up EXCEPT ![n] = FALSE]
    /\ node' = [node EXCEPT ![n] = Constructed(n)]
    /\ kvdb' = [kvdb EXCEPT ![n] = EmptyStore]
    /\ inbox' = [inbox EXCEPT ![n] = <<>>]
    /\ answer' = IF client.cmd # NoCommand /\ client.to = n /\ answer = NoReply
                 THEN ConnectionClosed ELSE answer

-----------------------------------------------------------------------------
(* The accept loop: requests of the client. *)

Accepts(n, type) ==
    /\ up[n]
    /\ node[n].main = Accepting
    /\ inbox[n] # <<>> /\ Head(inbox[n]).type = type

Consumed(n) == [inbox EXCEPT ![n] = Tail(@)]

sendLeaderInfo(n) ==
    /\ Accepts(n, "$")
    /\ node[n].state # "Leader"
    /\ answer' = LeaderInfo(node[n].leader)
    /\ inbox' = Consumed(n)
    /\ node' = [node EXCEPT ![n].main.at = "closing"]
    /\ UNCHANGED <<kvdb, up, client, reply, spent>>

(* start() closes the descriptor that sendLeaderInfo has closed before. *)
CloseAgain(n) ==
    /\ up[n]
    /\ node[n].main.at = "closing"
    /\ node' = [node EXCEPT ![n].main = Accepting]
    /\ UNCHANGED <<kvdb, up, inbox, clientVars, spent>>

HandleGET(n) ==
    /\ Accepts(n, "$")
    /\ node[n].state = "Leader"
    /\ Head(inbox[n]).cmd.method = "GET"
    /\ answer' = ValueReply(kvdb[n][Head(inbox[n]).cmd.words[1]])
    /\ inbox' = Consumed(n)
    /\ UNCHANGED <<node, kvdb, up, client, reply, spent>>

(* Anything else is replicated first; a command that is neither SET nor DEL is
   answered with an error and replicated all the same. *)
HandleWrite(n) ==
    /\ Accepts(n, "$")
    /\ node[n].state = "Leader"
    /\ LET cmd == Head(inbox[n]).cmd IN
        /\ cmd.method # "GET"
        /\ node' = [node EXCEPT ![n].main = [at |-> "commit", cmd |-> cmd, idx |-> 0]]
        /\ answer' = IF cmd.method = "other" THEN ERROR ELSE answer
    /\ inbox' = Consumed(n)
    /\ UNCHANGED <<kvdb, up, client, reply, spent>>

(* The words after the command, without the first of them: the loop that writes
   the message starts at parse_msg[2]. *)
CommitMessage(cmd) == COMMIT(cmd.method, Tail(cmd.words))

ReplicasAskedButLast == NumNodes - 1                               \* mutant

(* The nodes that the loop over nodeid reaches. *)
ReplicasAsked == NumNodes

(* mutant: a node that cannot be reached is waited for *)
sendCommitinfoInsistently(n) ==
    /\ up[n]
    /\ node[n].main.at = "commit"
    /\ LET m == node[n].main.idx IN
        /\ m < ReplicasAsked /\ up[m]
        /\ inbox' = IF m = n THEN inbox ELSE SentTo(m, CommitMessage(node[n].main.cmd), inbox)
    /\ node' = [node EXCEPT ![n].main.idx = @ + 1]
    /\ UNCHANGED <<kvdb, up, clientVars, spent>>

sendCommitinfo(n) ==
    /\ up[n]
    /\ node[n].main.at = "commit"
    /\ LET m == node[n].main.idx IN
        /\ m < ReplicasAsked
        /\ inbox' = IF m = n THEN inbox ELSE SentTo(m, CommitMessage(node[n].main.cmd), inbox)
    /\ node' = [node EXCEPT ![n].main.idx = @ + 1]
    /\ UNCHANGED <<kvdb, up, clientVars, spent>>

Erase(store, keys) == [k \in Keys |-> IF k \in keys THEN Nil ELSE store[k]]
WordsOf(words) == {words[i] : i \in DOMAIN words}

(* mutant: absent keys are counted *)
successDelCntOfAll(cmd, store) == Cardinality(WordsOf(cmd.words))

successDelCnt(cmd, store) == Cardinality({k \in WordsOf(cmd.words) : store[k] # Nil})

Commit(n) ==
    /\ up[n]
    /\ node[n].main.at = "commit"
    /\ node[n].main.idx = ReplicasAsked
    /\ LET cmd == node[n].main.cmd IN
        CASE cmd.method = "SET" ->
               /\ kvdb' = [kvdb EXCEPT ![n][cmd.words[1]] = Tail(cmd.words)]
               /\ answer' = OK
          [] cmd.method = "DEL" ->
               /\ kvdb' = [kvdb EXCEPT ![n] = Erase(@, WordsOf(cmd.words))]
               /\ answer' = CountReply(successDelCnt(cmd, kvdb[n]))
          [] OTHER -> UNCHANGED <<kvdb, answer>>
    /\ node' = [node EXCEPT ![n].main = Accepting]
    /\ UNCHANGED <<up, inbox, client, reply, spent>>

-----------------------------------------------------------------------------
(* The accept loop: messages of the other nodes. *)

handleCommitRequest(n) ==
    /\ Accepts(n, "COMMIT")
    /\ LET msg == Head(inbox[n]) IN
        kvdb' = IF msg.method = "SET"
                THEN [kvdb EXCEPT ![n][msg.words[1]] = Tail(msg.words)]
                ELSE [kvdb EXCEPT ![n] = Erase(@, WordsOf(msg.words))]
    /\ inbox' = Consumed(n)
    /\ UNCHANGED <<node, up, clientVars, spent>>

handleHeartBeat(n) ==
    /\ Accepts(n, "HeartBeat")
    /\ node' = [node EXCEPT ![n].heard = TRUE]
    /\ inbox' = Consumed(n)
    /\ UNCHANGED <<kvdb, up, clientVars, spent>>

(* Every node agrees with every candidate, in whatever state it is. *)
handleRequestVote(n) ==
    /\ Accepts(n, "RequestVote")
    /\ node' = [node EXCEPT ![n].heard = TRUE]
    /\ inbox' = SentTo(Head(inbox[n]).from, AgreeVote, Consumed(n))
    /\ UNCHANGED <<kvdb, up, clientVars, spent>>

(* mutant: everybody has to vote *)
EnoughVotesOfAll(votes) == votes >= NumNodes

EnoughVotes(votes) == votes >= NumNodes \div 2

(* A vote that is meant for an earlier process of this node finds
   candidateVotenum uninitialised. *)
Counts(n) ==
    IF node[n].votes = Garbage THEN BOOLEAN ELSE {EnoughVotes(node[n].votes + 1)}

CountVote(n) ==
    IF node[n].votes = Garbage THEN node
    ELSE [node EXCEPT ![n].votes = @ + 1]

handleRecvVote(n) ==
    /\ Accepts(n, "AgreeVote")
    /\ FALSE \in Counts(n)
    /\ node' = CountVote(n)
    /\ inbox' = Consumed(n)
    /\ UNCHANGED <<kvdb, up, clientVars, spent>>

(* The role, currentLeader and the heartbeat thread are set one after the other,
   while the other threads of the node run. *)
Naming(n) == node[n].main.at \in {"leading", "named"}

becomeLeader(n) ==
    /\ Accepts(n, "AgreeVote")
    /\ TRUE \in Counts(n)
    /\ node' = [CountVote(n) EXCEPT ![n].state = "Leader", ![n].main.at = "leading"]
    /\ inbox' = Consumed(n)
    /\ UNCHANGED <<kvdb, up, clientVars, spent>>

(* mutant: the leader does not set currentLeader *)
nameLeaderUnset(n) ==
    /\ up[n]
    /\ node[n].main.at = "leading"
    /\ node' = [node EXCEPT ![n].main.at = "named"]
    /\ UNCHANGED <<kvdb, up, inbox, clientVars, spent>>

nameLeader(n) ==
    /\ up[n]
    /\ node[n].main.at = "leading"
    /\ node' = [node EXCEPT ![n].leader = n, ![n].main.at = "named"]
    /\ UNCHANGED <<kvdb, up, inbox, clientVars, spent>>

startHeartBeat(n) ==
    /\ up[n]
    /\ node[n].main.at = "named"
    /\ ~node[n].beats
    /\ node' = [node EXCEPT ![n].beats = TRUE, ![n].main = Accepting]
    /\ UNCHANGED <<kvdb, up, inbox, clientVars, spent>>

(* It assigns to a joinable thread: std::terminate. *)
startHeartBeatAgain(n) ==
    /\ up[n]
    /\ node[n].main.at = "named"
    /\ node[n].beats
    /\ Stop(n)
    /\ UNCHANGED <<client, reply, spent>>

-----------------------------------------------------------------------------
(* The timer.  Nobody notifies cv_election, so a period ends when it has elapsed
   and looks at electionTimeout, which a heartbeat or a vote request has set. *)

NewPeriod(n) ==
    /\ up[n]
    /\ node[n].timer = "running"
    /\ node[n].heard
    /\ node' = [node EXCEPT
          ![n].heard = FALSE,
          ![n].timer = IF node[n].state = "Follower" THEN "running" ELSE "ended"]
    /\ UNCHANGED <<kvdb, up, inbox, clientVars, spent>>

(* Nothing that is sent or on its way would reach n within its period: no leader
   beats or is about to, no message that restarts the period waits at n, no vote
   that makes a leader waits anywhere. *)
Quiet(n) ==
    /\ \A m \in Nodes \ {n} : ~(up[m] /\ (node[m].beats \/ Naming(m)))
    /\ Pending("HeartBeat", n) \cup Pending("RequestVote", n) = {}
    /\ \A m \in Nodes : Pending("AgreeVote", m) = {}

Expire(n) ==
    /\ up[n]
    /\ node[n].timer = "running"
    /\ ~node[n].heard
    /\ node' = [node EXCEPT ![n].timer = "expired"]
    /\ UNCHANGED <<kvdb, up, inbox, clientVars>>

ExpireQuiet(n) == Quiet(n) /\ Expire(n) /\ UNCHANGED spent
ExpireLate(n) == ~Quiet(n) /\ Expire(n) /\ Spend("late", MaxLate)

-----------------------------------------------------------------------------
(* The thread that waits for the expiry. *)

becomeCandidate(n) ==
    /\ up[n]
    /\ node[n].timer = "expired"
    /\ node[n].asks = Waiting
    /\ node' = [node EXCEPT ![n].state = "Candidate", ![n].votes = 1, ![n].asks = 0]
    /\ UNCHANGED <<kvdb, up, inbox, clientVars, spent>>

(* mutant: the loop does not skip the candidate *)
EvenItself(n, m) == TRUE

NotItself(n, m) == m # n

sendRequestVote(n) ==
    /\ up[n]
    /\ node[n].asks \in Nodes
    /\ LET m == node[n].asks IN
        inbox' = IF NotItself(n, m) THEN SentTo(m, RequestVote(n), inbox) ELSE inbox
    /\ node' = [node EXCEPT ![n].asks = @ + 1]
    /\ UNCHANGED <<kvdb, up, clientVars, spent>>

(* The socket of the vote request may get the descriptor that the accept loop
   has closed once and is about to close again. *)
LoseRequestVote(n) ==
    /\ up[n]
    /\ node[n].asks \in Nodes \ {n}
    /\ node[n].main.at = "closing"
    /\ Spend("lost", MaxLost)
    /\ node' = [node EXCEPT ![n].asks = @ + 1]
    /\ UNCHANGED <<kvdb, up, inbox, clientVars>>

-----------------------------------------------------------------------------
(* Heartbeats, sent while currentLeader is the node itself.  At most one waits
   at a node: a second one sets the same flag. *)

SendHeartBeat(n, m) ==
    /\ up[n] /\ up[m] /\ m # n
    /\ node[n].beats /\ node[n].leader = n
    /\ Pending("HeartBeat", m) = {}
    /\ inbox' = SentTo(m, HeartBeat, inbox)
    /\ UNCHANGED <<node, kvdb, up, clientVars, spent>>

-----------------------------------------------------------------------------
(* The client: one request at a time, following redirections. *)

SendRequest(cmd, n) ==
    /\ client.cmd = NoCommand
    /\ up[n]
    /\ Spend("txns", MaxTxns)
    /\ client' = [cmd |-> cmd, to |-> n, redirects |-> 0]
    /\ inbox' = SentTo(n, Request(cmd), inbox)
    /\ answer' = NoReply /\ reply' = NoReply
    /\ UNCHANGED <<node, kvdb, up>>

ReceiveAnswer ==
    /\ client.cmd # NoCommand
    /\ answer.type \in {OK.type, ERROR.type, "*", ":"}
    /\ client' = NoRequestSent /\ answer' = NoReply
    /\ reply' = answer
    /\ UNCHANGED <<node, kvdb, up, inbox, spent>>

FollowRedirect ==
    /\ client.cmd # NoCommand
    /\ answer.type = "leader" /\ up[answer.value]
    /\ client' = [client EXCEPT !.to = answer.value, !.redirects = @ + 1]
    /\ inbox' = SentTo(answer.value, Request(client.cmd), inbox)
    /\ answer' = NoReply
    /\ UNCHANGED <<node, kvdb, up, reply, spent>>

NoAnswer ==
    /\ client.cmd # NoCommand
    /\ \/ answer = ConnectionClosed
       \/ answer.type = "leader" /\ ~up[answer.value]
    /\ client' = NoRequestSent /\ answer' = NoReply
    /\ UNCHANGED <<node, kvdb, up, inbox, reply, spent>>

-----------------------------------------------------------------------------
(* kill -9 and a new process. *)

Crash(n) ==
    /\ n \in MayCrash /\ up[n]
    /\ Spend("crashes", MaxCrashes)
    /\ Stop(n)
    /\ UNCHANGED <<client, reply>>

Restart(n) ==
    /\ n \in MayRestart \ spent.restarts /\ ~up[n]
    /\ Cardinality(spent.restarts) < MaxRestarts
    /\ spent' = [spent EXCEPT !.restarts = @ \cup {n}]
    /\ up' = [up EXCEPT ![n] = TRUE]
    /\ UNCHANGED <<node, kvdb, inbox, clientVars>>

-----------------------------------------------------------------------------
Accept(n) ==
    \/ sendLeaderInfo(n) \/ CloseAgain(n)
    \/ HandleGET(n) \/ HandleWrite(n) \/ sendCommitinfo(n) \/ Commit(n)
    \/ handleCommitRequest(n) \/ handleHeartBeat(n) \/ handleRequestVote(n)
    \/ handleRecvVote(n) \/ becomeLeader(n)
    \/ nameLeader(n) \/ startHeartBeat(n) \/ startHeartBeatAgain(n)

Timer(n) == NewPeriod(n) \/ ExpireQuiet(n)
Election(n) == becomeCandidate(n) \/ sendRequestVote(n)
HeartBeats(n) == \E m \in Nodes : SendHeartBeat(n, m)
ClientStep == ReceiveAnswer \/ FollowRedirect \/ NoAnswer

Next ==
    \/ \E n \in Nodes : Accept(n) \/ Timer(n) \/ Election(n) \/ HeartBeats(n)
    \/ \E n \in Nodes : ExpireLate(n) \/ LoseRequestVote(n) \/ Crash(n) \/ Restart(n)
    \/ \E c \in Commands, n \in Contacts : SendRequest(c, n)
    \/ ClientStep

Spec == Init /\ [][Next]_vars

(* The threads of a running process are scheduled, and clients read. *)
Fairness ==
    /\ \A n \in Nodes :
        /\ WF_vars(Accept(n)) /\ WF_vars(Timer(n)) /\ WF_vars(Election(n))
        /\ \A m \in Nodes : WF_vars(SendHeartBeat(n, m))
    /\ WF_vars(ClientStep)

FairSpec == Spec /\ Fairness

-----------------------------------------------------------------------------
(* Properties. *)

Messages ==
    {Request(c) : c \in Commands} \cup {HeartBeat, AgreeVote}
        \cup {CommitMessage(c) : c \in Commands} \cup {RequestVote(n) : n \in Nodes}

MainStates ==
    [at : {"accept", "closing", "leading", "named"}, cmd : {NoCommand}, idx : {0}]
        \cup [at : {"commit"}, cmd : Commands, idx : 0 .. NumNodes]

NodeStates ==
    [state : {"Follower", "Candidate", "Leader"}, leader : Nodes, votes : Nat,
     heard : BOOLEAN, timer : {"none", "running", "expired", "ended"},
     asks : Waiting .. NumNodes, beats : BOOLEAN, main : MainStates]

Replies ==
    {OK, ERROR, NoReply} \cup {ValueReply(v) : v \in Values \cup {Nil}}
        \cup {CountReply(i) : i \in 0 .. Cardinality(Keys)}

(* Every field keeps its type. *)
TypeOK ==
    /\ node \in [Nodes -> NodeStates]
    /\ kvdb \in [Nodes -> Stores]
    /\ up \in [Nodes -> BOOLEAN]
    /\ inbox \in [Nodes -> Seq(Messages)]
    /\ client \in [cmd : Commands \cup {NoCommand}, to : Nodes, redirects : Nat]
    /\ answer \in Replies \cup {ConnectionClosed} \cup {LeaderInfo(n) : n \in Nodes}
    /\ reply \in Replies

Leads(n) == up[n] /\ node[n].state = "Leader"

(* What a command means to the client. *)
Operation(cmd) ==
    [method |-> cmd.method,
     keys |-> IF cmd.method = "DEL" THEN WordsOf(cmd.words) ELSE {cmd.words[1]},
     value |-> IF cmd.method = "SET" THEN Tail(cmd.words) ELSE Nil]

(* Until node 0 is killed, clients of any node see one store, the one of node 0,
   whatever happens to the other nodes: a write takes effect once, and answers are
   those of that store.  (No timer expires between heartbeats.) *)
OneStore == INSTANCE AtomicStore WITH
    store <- kvdb[0],
    request <- IF client.cmd = NoCommand THEN NoRequest ELSE Operation(client.cmd),
    outcome <- IF client.cmd.method \in {"SET", "DEL"} /\ answer \in Replies
               THEN answer ELSE NoReply
ClientSeesOneStore == OneStore!Init /\ [][up'[0] => OneStore!Next]_(OneStore!vars)

(* While node 0 runs, two followers that never stopped hold the same data once what
   it sent them is handled, although it sends each write to one after the other. *)
FollowersAgree ==
    \A a, b \in Nodes \ {0} :
        (/\ up[0] /\ up[a] /\ up[b]
         /\ node[0].main.at # "commit"
         /\ Pending("COMMIT", a) \cup Pending("COMMIT", b) = {}) => kvdb[a] = kvdb[b]

(* A node that runs as the process it first was.  Node 0 is never asked for, so
   its second process is no different. *)
NeverRestarted(n) == up[n] /\ (n = 0 \/ n \notin spent.restarts)

(* The threads of a node that was not started again agree about its role, although
   three of them write it: a follower is timed, a candidate has asked or is asking,
   and a leader is the one who beats and whom it announces itself, except that its
   accept loop may be about to name it and to start the heartbeats.  Nobody beats
   without having named itself: the heartbeat thread would end at once.  (A process
   that gets a vote meant for the one before it may lead with its timer running.) *)
ThreadsFitRole ==
    \A n \in Nodes : NeverRestarted(n) =>
        /\ node[n].beats => node[n].leader = n
        /\ CASE node[n].state = "Follower" ->
                  /\ node[n].timer \in {"running", "expired"} /\ node[n].asks = Waiting
                  /\ ~Naming(n)
             [] node[n].state = "Candidate" ->
                  /\ node[n].timer = "expired" /\ node[n].asks # Waiting
                  /\ ~node[n].beats /\ ~Naming(n)
             [] node[n].state = "Leader" ->
                  /\ node[n].timer # "running"
                  /\ node[n].leader = n \/ node[n].main.at = "leading"
                  /\ node[n].beats \/ Naming(n)

VoteRequests(n) ==
    UNION {{m} \X {i \in DOMAIN inbox[m] : inbox[m][i] = RequestVote(n)} : m \in Nodes}

(* Votes are never made up: unless a candidate was started again, its votes, the
   answers that wait at it and its requests that wait elsewhere come to no more
   than the nodes it has asked (and its own vote). *)
VotesAreAccounted ==
    \A n \in Nodes : NeverRestarted(n) /\ node[n].votes # Garbage =>
        node[n].votes - 1 + Cardinality(Pending("AgreeVote", n)) + Cardinality(VoteRequests(n))
            <= Cardinality({m \in Nodes \ {n} : m < node[n].asks})

(* An election stops no process: with three nodes of which one was killed, no
   candidate gets a vote after it became the leader. *)
NodesStopOnlyWhenKilled ==
    [][\A n \in Nodes : up[n] /\ ~up'[n] => spent'.crashes = spent.crashes + 1]_vars

(* At most one running node leads: "normally there is only one leader server that deal
   with all the clients' requests" (labDescription/README.md).  The constructor of node 0
   leads at once, whoever was elected while it was dead. *)
OneLeader == \A n, m \in Nodes : Leads(n) /\ Leads(m) => n = m

(* A client that follows one redirection reaches a leader or a dead node, never a
   node that redirects it again, unless that node was started again during an
   election; sendRequest.py follows one. *)
OneRedirectSuffices == spent.restarts \subseteq {0} => client.redirects <= 1

(* After node 0 was killed somebody beats again, whatever the timers do; and who
   becomes a candidate becomes the leader (raftlog.md: it certainly will), unless it is
   killed or there is nobody to vote. *)
LeaderIsElected ==
    /\ (\A n \in Nodes : ~Leads(n)) ~> (\E n \in Nodes : Leads(n) /\ node[n].beats)
    /\ \A n \in Nodes :
          (up[n] /\ node[n].state = "Candidate") ~>
              (~up[n] \/ Leads(n) \/ \A m \in Nodes \ {n} : ~up[m])

(* Every request ends: with an answer, or because the node that had it stopped. *)
EveryRequestEnds == client.cmd # NoCommand ~> client.cmd = NoCommand

(* When the system is at rest, whoever runs holds what node 0 holds. *)
ReplicasHoldTheWrite ==
    \A n \in Nodes :
        (/\ up[n] /\ up[0]
         /\ node[0].main.at # "commit"
         /\ Pending("COMMIT", n) = {}) => kvdb[n] = kvdb[0]
=============================================================================
