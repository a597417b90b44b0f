------------------------ MODULE TwoPhaseCommit_proofs ------------------------
(***************************************************************************)
(* The coordinator's books, the types of the whole two-phase commit and     *)
(* what it does to the data, for every number of participants, all sets of  *)
(* keys, values and ids, and all bounds on requests and failures.  Then the *)
(* two-phase commit keeps the participants in service together and shows    *)
(* its client one store, as long as no timeout comes before an answer that  *)
(* is on its way and nobody is started again after a crash.  Participants   *)
(* may die or be cut off and connections may break; the coordinator may die *)
(* too if no two transactions draw the same id.                             *)
(***************************************************************************)
EXTENDS TwoPhaseCommit, ParticipantHandlers_proofs

-----------------------------------------------------------------------------
(* The inductive invariant. *)

Open == {p \in P : sock[p]}

CoordinatorTypes ==
    /\ pc \in {"idle", "connect", "prepare", "waitPrepared", "decide", "waitDone", "get"}
    /\ op \in Requests \cup {NoRequest}
    /\ reply \in ClientReplies
    /\ valid \in [P -> BOOLEAN]
    /\ tid \in Ids \cup {-1}
    /\ idx \in 0..NumParticipants
    /\ sock \in [P -> BOOLEAN]
    /\ watch \in SUBSET P
    /\ alive \in 0..NumParticipants
    /\ replied \in 0..NumParticipants
    /\ timeout \in 0..ResendLimit
    /\ response \in [P -> {-1, 0, 1}]
    /\ decision \in {-1, 0, 1}
    /\ first \in [msg : FittingReplies \cup {NoMsg}, alone : BOOLEAN]

NetworkTypes ==
    /\ toC \in [P -> Seq(FittingReplies)]
    /\ eof \in [P -> BOOLEAN]
    /\ link \in [P -> Seq(Connections)]
    /\ linkUp \in [P -> BOOLEAN]

ParticipantTypes ==
    /\ part \in [P -> SoundStates]
    /\ up \in [P -> BOOLEAN]

HistoryTypes ==
    /\ store \in Stores
    /\ outcome \in ClientReplies
    /\ committed \in SUBSET Ids

(* What the handler that is running knows of its request. *)
Phases ==
    /\ pc \in {"connect", "prepare", "waitPrepared", "decide"} => op \in Writes
    /\ pc = "get" => op \in GetRequests
    /\ pc = "waitDone" => op \in Requests
    /\ pc = "waitDone" /\ op.method = "GET" => idx < NumParticipants
    /\ pc \notin {"idle", "connect"} => tid \in Ids

(* aliveParticipantCount is the number of open sockets as long as none is closed
   by an answer, and afterwards the sum of the answers and the watched sockets. *)
Books ==
    /\ pc = "idle" => alive = 0
    /\ pc \in {"idle", "get"} => Open = {}
    /\ pc = "connect" => \A p \in Open : p < idx
    /\ pc \in {"connect", "prepare", "waitPrepared", "decide"} => alive = Cardinality(Open)
    /\ pc \in {"waitPrepared", "waitDone"} => replied + Cardinality(watch) = alive
    /\ pc = "waitPrepared" => watch \subseteq Open
    /\ pc = "waitDone" => watch = Open
    /\ \A p \in Open : valid[p]

IInv ==
    /\ CoordinatorTypes /\ NetworkTypes /\ ParticipantTypes /\ HistoryTypes
    /\ Phases /\ Books

-----------------------------------------------------------------------------
(* Sets of participants, and sequences. *)

LEMMA PartFinite ==
    /\ IsFiniteSet(P) /\ Cardinality(P) = NumParticipants
    /\ \A S \in SUBSET P : IsFiniteSet(S) /\ Cardinality(S) \in 0..NumParticipants
<1>1. IsFiniteSet(P) /\ Cardinality(P) = NumParticipants
  BY SizesAssumption, FS_Interval DEF P
<1> QED
  BY <1>1, SizesAssumption, FS_Subset, FS_CardinalityType

LEMMA CountOfParts ==
    ASSUME NEW S \in SUBSET P
    PROVE  /\ Cardinality(S) \in Nat
           /\ Cardinality(S) = 0 <=> S = {}
           /\ \A p \in S : Cardinality(S \ {p}) = Cardinality(S) - 1
           /\ \A p \in P \ S : Cardinality(S \cup {p}) = Cardinality(S) + 1
BY PartFinite, FS_EmptySet, FS_RemoveElement, FS_AddElement, FS_CardinalityType

LEMMA AfterType ==
    ASSUME NEW S, NEW s \in Seq(S), NEW n \in 1..Len(s)
    PROVE  After(s, n) \in Seq(S)
BY DEF After

LEMMA NoneOpen == ASSUME sock \in [P -> BOOLEAN] PROVE Open = {} <=> sock = None
<1>1. ASSUME Open = {} PROVE sock = None
  <2>1. \A p \in P : sock[p] = FALSE
    BY <1>1 DEF Open
  <2> QED
    BY <2>1 DEF None
<1>2. ASSUME sock = None PROVE Open = {}
  BY <1>2 DEF Open, None
<1> QED
  BY <1>1, <1>2

-----------------------------------------------------------------------------
(* Messages and connections. *)

LEMMA MsgType ==
    ASSUME NEW i \in Ids
    PROVE  /\ \A r \in Requests : PrepareRequest(i, r) \in CoordinatorMsgs
           /\ Commit(i) \in CoordinatorMsgs
           /\ Abort(i) \in CoordinatorMsgs
BY DEF CoordinatorMsgs

(* The message that the coordinator sends or resends is one. *)
LEMMA CurrentMsgType ==
    ASSUME CoordinatorTypes, Phases,
           pc \in {"prepare", "waitPrepared", "decide", "waitDone"}
    PROVE  CurrentMsg \in CoordinatorMsgs
<1>1. tid \in Ids /\ op \in Requests
  BY DEF Phases, Requests
<1> QED
  BY <1>1, MsgType DEF CurrentMsg

LEMMA ConnectionType ==
    ASSUME NEW c \in Connections
    PROVE  /\ [c EXCEPT !.live = FALSE] \in Connections
           /\ \A m \in CoordinatorMsgs : [c EXCEPT !.toP = Append(@, m)] \in Connections
           /\ \A s \in Seq(CoordinatorMsgs) : [c EXCEPT !.toP = s] \in Connections
<1>1. c.toP \in Seq(CoordinatorMsgs)
  BY DEF Connections
<1>2. \A m \in CoordinatorMsgs : Append(c.toP, m) \in Seq(CoordinatorMsgs)
  BY <1>1
<1> QED
  BY <1>2 DEF Connections

LEMMA ClosedType ==
    ASSUME NetworkTypes, NEW p \in P
    PROVE  Closed(p) \in Seq(Connections)
<1>1. link[p] \in Seq(Connections)
  BY DEF NetworkTypes
<1>2. CASE Live(p)
  <2>1. Len(link[p]) \in 1..Len(link[p])
    BY <1>1, <1>2 DEF Live
  <2>2. [link[p][Len(link[p])] EXCEPT !.live = FALSE] \in Connections
    BY <1>1, <2>1, ConnectionType
  <2> QED
    BY <1>1, <1>2, <2>1, <2>2 DEF Closed
<1>3. CASE ~Live(p)
  BY <1>1, <1>3 DEF Closed
<1> QED
  BY <1>2, <1>3

LEMMA SentType ==
    ASSUME NetworkTypes, NEW p \in P, NEW m \in CoordinatorMsgs
    PROVE  Sent(p, m) \in Seq(Connections)
<1>1. link[p] \in Seq(Connections)
  BY DEF NetworkTypes
<1>2. CASE Live(p) /\ linkUp[p]
  <2>1. Len(link[p]) \in 1..Len(link[p])
    BY <1>1, <1>2 DEF Live
  <2>2. link[p][Len(link[p])] \in Connections
    BY <1>1, <2>1
  <2>3. [link[p][Len(link[p])] EXCEPT !.toP = Append(@, m)] \in Connections
    BY <2>2, ConnectionType, Zenon
  <2> QED
    BY <1>1, <1>2, <2>1, <2>3 DEF Sent
<1>3. CASE ~(Live(p) /\ linkUp[p])
  BY <1>1, <1>3 DEF Sent
<1> QED
  BY <1>2, <1>3

LEMMA NewConnectionType ==
    ASSUME NEW m \in CoordinatorMsgs
    PROVE  /\ NewConnection(<<>>) \in Connections
           /\ NewConnection(<<m>>) \in Connections
BY DEF NewConnection, Connections

(* connect: the queues of p start anew. *)
LEMMA ConnectedType ==
    ASSUME CoordinatorTypes, NetworkTypes, NEW p \in P, NEW msgs,
           NewConnection(msgs) \in Connections, Connected(p, msgs)
    PROVE  /\ NetworkTypes'
           /\ sock' \in [P -> BOOLEAN]
           /\ valid' = valid
           /\ Open' = Open \cup {p}
<1>1. Closed(p) \in Seq(Connections)
  BY ClosedType
<1>2. Append(Closed(p), NewConnection(msgs)) \in Seq(Connections)
  BY <1>1
<1>3. link' \in [P -> Seq(Connections)]
  BY <1>2 DEF Connected, NetworkTypes
<1>4. toC' \in [P -> Seq(FittingReplies)]
  BY DEF Connected, NetworkTypes
<1>5. eof' \in [P -> BOOLEAN] /\ linkUp' \in [P -> BOOLEAN]
  BY DEF Connected, NetworkTypes
<1>6. sock' \in [P -> BOOLEAN] /\ valid' = valid
  BY DEF Connected, CoordinatorTypes
<1>7. Open' = Open \cup {p}
  BY DEF Connected, CoordinatorTypes, Open
<1> QED
  BY <1>3, <1>4, <1>5, <1>6, <1>7 DEF NetworkTypes

(* A handler returns. *)
LEMMA AnswerKeeps ==
    ASSUME CoordinatorTypes, HistoryTypes, NEW r \in ClientReplies, Answer(r),
           sock' \in [P -> BOOLEAN], Open' = {}, valid' \in [P -> BOOLEAN]
    PROVE  CoordinatorTypes' /\ HistoryTypes' /\ Phases' /\ Books'
<1>1. /\ pc' = "idle" /\ op' = op /\ reply' = r /\ tid' = -1 /\ idx' = 0 /\ watch' = {}
      /\ alive' = 0 /\ replied' = 0 /\ timeout' = 0 /\ response' = NoResponse
      /\ decision' = -1 /\ first' = NoFirst /\ outcome' = NoReply
      /\ store' = store /\ committed' = committed
  BY DEF Answer
<1>2. NoResponse \in [P -> {-1, 0, 1}] /\ NoFirst \in [msg : FittingReplies \cup {NoMsg}, alone : BOOLEAN]
  BY DEF NoResponse, NoFirst
<1>3. CoordinatorTypes'
  BY <1>1, <1>2, SizesAssumption DEF CoordinatorTypes
<1>4. HistoryTypes'
  BY <1>1 DEF HistoryTypes, ClientReplies
<1>5. Phases'
  BY <1>1 DEF Phases
<1>6. Books'
  BY <1>1 DEF Books
<1> QED
  BY <1>3, <1>4, <1>5, <1>6

LEMMA ErrorType == ERROR \in ClientReplies /\ OK \in ClientReplies /\ NoReply \in ClientReplies
BY DEF ClientReplies

-----------------------------------------------------------------------------
(* The coordinator. *)

(* A request of the client. *)
LEMMA RequestKeeps ==
    ASSUME IInv, NEW r \in Requests, Request(r)
    PROVE  IInv'
<1>1. /\ CoordinatorTypes /\ NetworkTypes /\ ParticipantTypes /\ HistoryTypes
      /\ Phases /\ Books
  BY DEF IInv
<1>2. /\ pc = "idle" /\ op' = r /\ reply' = NoReply /\ idx' = 0
      /\ \/ r.method = "GET" /\ pc' = "get" /\ tid' \in Ids
         \/ r.method # "GET" /\ pc' = "connect" /\ tid' = tid
  BY DEF Request, DrawId
<1>3. CoordinatorTypes'
  BY <1>1, <1>2, ErrorType, SizesAssumption DEF Request, CoordinatorTypes
<1>4. NetworkTypes' /\ ParticipantTypes' /\ HistoryTypes'
  BY <1>1 DEF Request, network, participants, history, NetworkTypes, ParticipantTypes, HistoryTypes
<1>5. Phases'
  BY <1>2, RequestType DEF Phases
<1>6. Books'
  <2>1. sock' = sock /\ valid' = valid /\ alive' = alive /\ Open = {} /\ alive = 0
    BY <1>1, <1>2 DEF Request, Books
  <2>2. Open' = {}
    BY <2>1 DEF Open
  <2> QED
    BY <1>2, <2>1, <2>2, CountOfParts, FS_EmptySet DEF Books
<1> QED
  BY <1>3, <1>4, <1>5, <1>6 DEF IInv

(* One turn of connectAllParticipants. *)
LEMMA ConnectNextKeeps ==
    ASSUME IInv, ConnectNext
    PROVE  IInv'
<1>1. /\ CoordinatorTypes /\ NetworkTypes /\ ParticipantTypes /\ HistoryTypes
      /\ Phases /\ Books
  BY DEF IInv
<1>2. /\ idx \in P /\ pc = "connect" /\ pc' = pc /\ idx' = idx + 1 /\ idx' \in 0..NumParticipants
      /\ idx \notin Open
  BY <1>1, SizesAssumption DEF ConnectNext, CoordinatorTypes, P, Books
<1>3. ParticipantTypes' /\ HistoryTypes' /\ Phases'
  BY <1>1 DEF ConnectNext, participants, history, ParticipantTypes, HistoryTypes, Phases
<1>4. /\ op' = op /\ reply' = reply /\ tid' = tid /\ watch' = watch /\ replied' = replied
      /\ timeout' = timeout /\ response' = response /\ decision' = decision /\ first' = first
  BY DEF ConnectNext
<1>5. ASSUME sock' = sock, alive' = alive, UNCHANGED network,
             valid' \in [P -> BOOLEAN], \A p \in Open : valid'[p]
      PROVE  IInv'
  <2>1. CoordinatorTypes'
    BY <1>1, <1>2, <1>4, <1>5 DEF CoordinatorTypes
  <2>2. NetworkTypes'
    BY <1>1, <1>5 DEF network, NetworkTypes
  <2>3. Open' = Open
    BY <1>5 DEF Open
  <2>4. Books'
    BY <1>1, <1>2, <1>5, <2>3, SizesAssumption DEF Books, P, Open
  <2> QED
    BY <1>3, <2>1, <2>2, <2>4 DEF IInv
<1>6. CASE ~valid[idx] /\ UNCHANGED <<valid, sock, alive, network>>
  BY <1>1, <1>5, <1>6 DEF Books, CoordinatorTypes
<1>7. CASE valid[idx] /\ ~Reachable(idx) /\ Unreachable(idx) /\ UNCHANGED alive
  BY <1>1, <1>2, <1>5, <1>7 DEF Books, CoordinatorTypes, Unreachable
<1>8. CASE valid[idx] /\ Reachable(idx) /\ Connected(idx, <<>>) /\ alive' = alive + 1
  <2>1. /\ NetworkTypes' /\ sock' \in [P -> BOOLEAN] /\ valid' = valid
        /\ Open' = Open \cup {idx}
    <3>1. NewConnection(<<>>) \in Connections
      BY DEF NewConnection, Connections
    <3> QED
      BY <1>1, <1>2, <1>8, <3>1, ConnectedType
  <2>2. Open \in SUBSET P /\ Open' \in SUBSET P
    BY <1>2, <2>1 DEF Open
  <2>3. alive' = Cardinality(Open')
    BY <1>1, <1>2, <1>8, <2>1, <2>2, CountOfParts DEF Books
  <2>4. alive' \in 0..NumParticipants
    BY <2>2, <2>3, PartFinite
  <2>5. CoordinatorTypes'
    BY <1>1, <1>2, <1>4, <2>1, <2>4 DEF CoordinatorTypes
  <2>6. Books'
    BY <1>1, <1>2, <1>8, <2>1, <2>2, <2>3, SizesAssumption DEF Books, P
  <2> QED
    BY <1>3, <2>1, <2>5, <2>6 DEF IInv
<1> QED
  BY <1>6, <1>7, <1>8 DEF ConnectNext

(* No participant can be reached. *)
LEMMA NobodyConnectedKeeps ==
    ASSUME IInv, NobodyConnected
    PROVE  IInv'
<1>1. /\ CoordinatorTypes /\ NetworkTypes /\ ParticipantTypes /\ HistoryTypes
      /\ Phases /\ Books
  BY DEF IInv
<1>2. NetworkTypes' /\ ParticipantTypes'
  BY <1>1 DEF NobodyConnected, network, participants, NetworkTypes, ParticipantTypes
<1>3. Open = {}
  <2>1. Open \in SUBSET P
    BY DEF Open
  <2> QED
    BY <1>1, <2>1, CountOfParts DEF NobodyConnected, Books
<1>4. sock' = sock /\ valid' = valid
  BY DEF NobodyConnected
<1>5. Open' = {} /\ sock' \in [P -> BOOLEAN] /\ valid' \in [P -> BOOLEAN]
  BY <1>1, <1>3, <1>4 DEF Open, CoordinatorTypes
<1>6. ERROR \in ClientReplies /\ Answer(ERROR)
  BY ErrorType DEF NobodyConnected
<1>7. CoordinatorTypes' /\ HistoryTypes' /\ Phases' /\ Books'
  BY <1>1, <1>5, <1>6, AnswerKeeps
<1> QED
  BY <1>2, <1>7 DEF IInv

(* All participants were lost in phase 1. *)
LEMMA AllLostInPhaseOneKeeps ==
    ASSUME IInv, AllLostInPhaseOne
    PROVE  IInv'
<1>1. /\ CoordinatorTypes /\ NetworkTypes /\ ParticipantTypes /\ HistoryTypes
      /\ Phases /\ Books
  BY DEF IInv
<1>2. NetworkTypes' /\ ParticipantTypes'
  BY <1>1 DEF AllLostInPhaseOne, network, participants, NetworkTypes, ParticipantTypes
<1>3. Open = {}
  <2>1. Open \in SUBSET P
    BY DEF Open
  <2>2. alive = 0
    BY <1>1 DEF AllLostInPhaseOne, WaitOver, CoordinatorTypes
  <2> QED
    BY <1>1, <2>1, <2>2, CountOfParts DEF AllLostInPhaseOne, Books
<1>4. sock' = sock /\ valid' = valid
  BY DEF AllLostInPhaseOne
<1>5. Open' = {} /\ sock' \in [P -> BOOLEAN] /\ valid' \in [P -> BOOLEAN]
  BY <1>1, <1>3, <1>4 DEF Open, CoordinatorTypes
<1>6. ERROR \in ClientReplies /\ Answer(ERROR)
  BY ErrorType DEF AllLostInPhaseOne
<1>7. CoordinatorTypes' /\ HistoryTypes' /\ Phases' /\ Books'
  BY <1>1, <1>5, <1>6, AnswerKeeps
<1> QED
  BY <1>2, <1>7 DEF IInv

(* handleGET has asked everyone. *)
LEMMA NobodyAnsweredKeeps ==
    ASSUME IInv, NobodyAnswered
    PROVE  IInv'
<1>1. /\ CoordinatorTypes /\ NetworkTypes /\ ParticipantTypes /\ HistoryTypes
      /\ Phases /\ Books
  BY DEF IInv
<1>2. NetworkTypes' /\ ParticipantTypes'
  BY <1>1 DEF NobodyAnswered, network, participants, NetworkTypes, ParticipantTypes
<1>3. Open = {}
  BY <1>1 DEF NobodyAnswered, Books
<1>4. sock' = sock /\ valid' = valid
  BY DEF NobodyAnswered
<1>5. Open' = {} /\ sock' \in [P -> BOOLEAN] /\ valid' \in [P -> BOOLEAN]
  BY <1>1, <1>3, <1>4 DEF Open, CoordinatorTypes
<1>6. ERROR \in ClientReplies /\ Answer(ERROR)
  BY ErrorType DEF NobodyAnswered
<1>7. CoordinatorTypes' /\ HistoryTypes' /\ Phases' /\ Books'
  BY <1>1, <1>5, <1>6, AnswerKeeps
<1> QED
  BY <1>2, <1>7 DEF IInv

(* When a wait loop ends, everybody who is counted alive has answered. *)
LEMMA NobodyWatched ==
    ASSUME CoordinatorTypes, Books, WaitOver
    PROVE  watch = {} /\ replied = alive
<1>1. /\ watch \in SUBSET P /\ alive \in Nat /\ replied \in Nat
      /\ replied + Cardinality(watch) = alive
      /\ alive = 0 \/ replied >= alive
  BY DEF CoordinatorTypes, Books, WaitOver, Waiting
<1>2. Cardinality(watch) \in Nat /\ (Cardinality(watch) = 0 <=> watch = {})
  BY <1>1, CountOfParts
<1> QED
  BY <1>1, <1>2

(* The lines of DONE that are passed on to the client. *)
LEMMA DoneAnswerType ==
    ASSUME CoordinatorTypes
    PROVE  getClientGetOrDelMsg \in ClientReplies
<1>1. first.msg \in FittingReplies \cup {NoMsg}
  BY DEF CoordinatorTypes
<1>2. CASE ~first.alone \/ first.msg.addition = NoAddition
  BY <1>2, ErrorType DEF getClientGetOrDelMsg
<1>3. CASE ~(~first.alone \/ first.msg.addition = NoAddition)
  <2>1. first.msg \in FittingReplies
    BY <1>1, <1>3 DEF NoMsg
  <2>2. /\ first.msg.method = "GET" => first.msg.addition \in Values \cup {Nil}
        /\ first.msg.method = "DEL" => first.msg.addition \in 0..Cardinality(Keys)
    BY <1>3, <2>1 DEF FittingReplies
  <2> QED
    BY <1>3, <2>2, ErrorType DEF getClientGetOrDelMsg, ClientReplies
<1> QED
  BY <1>2, <1>3

(* handleSET and handleDEL end. *)
LEMMA FinishWriteKeeps ==
    ASSUME IInv, FinishWrite
    PROVE  IInv'
<1>1. /\ CoordinatorTypes /\ NetworkTypes /\ ParticipantTypes /\ HistoryTypes
      /\ Phases /\ Books
  BY DEF IInv
<1>2. NetworkTypes' /\ ParticipantTypes'
  BY <1>1 DEF FinishWrite, network, participants, NetworkTypes, ParticipantTypes
<1>3. Open = {}
  BY <1>1, NobodyWatched DEF FinishWrite, Books
<1>4. sock' = sock /\ valid' = valid
  BY DEF FinishWrite
<1>5. Open' = {} /\ sock' \in [P -> BOOLEAN] /\ valid' \in [P -> BOOLEAN]
  BY <1>1, <1>3, <1>4 DEF Open, CoordinatorTypes
<1>6. /\ (IF replied > 0 /\ decision = 1
          THEN IF op.method = "SET" THEN OK ELSE getClientGetOrDelMsg
          ELSE ERROR) \in ClientReplies
      /\ Answer(IF replied > 0 /\ decision = 1
                THEN IF op.method = "SET" THEN OK ELSE getClientGetOrDelMsg
                ELSE ERROR)
  BY <1>1, DoneAnswerType, ErrorType DEF FinishWrite
<1>7. CoordinatorTypes' /\ HistoryTypes' /\ Phases' /\ Books'
  BY <1>1, <1>5, <1>6, AnswerKeeps
<1> QED
  BY <1>2, <1>7 DEF IInv

(* handleGET ends. *)
LEMMA FinishReadKeeps ==
    ASSUME IInv, FinishRead
    PROVE  IInv'
<1>1. /\ CoordinatorTypes /\ NetworkTypes /\ ParticipantTypes /\ HistoryTypes
      /\ Phases /\ Books
  BY DEF IInv
<1>2. NetworkTypes' /\ ParticipantTypes'
  BY <1>1 DEF FinishRead, network, participants, NetworkTypes, ParticipantTypes
<1>3. Open = {}
  BY <1>1, NobodyWatched DEF FinishRead, Books
<1>4. sock' = sock /\ valid' = valid
  BY DEF FinishRead
<1>5. Open' = {} /\ sock' \in [P -> BOOLEAN] /\ valid' \in [P -> BOOLEAN]
  BY <1>1, <1>3, <1>4 DEF Open, CoordinatorTypes
<1>6. getClientGetOrDelMsg \in ClientReplies /\ Answer(getClientGetOrDelMsg)
  BY <1>1, DoneAnswerType DEF FinishRead
<1>7. CoordinatorTypes' /\ HistoryTypes' /\ Phases' /\ Books'
  BY <1>1, <1>5, <1>6, AnswerKeeps
<1> QED
  BY <1>2, <1>7 DEF IInv

(* The id of a write is drawn. *)
LEMMA BeginPrepareKeeps ==
    ASSUME IInv, BeginPrepare
    PROVE  IInv'
<1>1. /\ CoordinatorTypes /\ NetworkTypes /\ ParticipantTypes /\ HistoryTypes
      /\ Phases /\ Books
  BY DEF IInv
<1>2. CoordinatorTypes'
  BY <1>1, SizesAssumption DEF BeginPrepare, CoordinatorTypes, DrawId
<1>3. NetworkTypes'
  BY <1>1 DEF BeginPrepare, network, NetworkTypes
<1>4. ParticipantTypes'
  BY <1>1 DEF BeginPrepare, participants, ParticipantTypes
<1>5. HistoryTypes'
  BY <1>1 DEF BeginPrepare, history, HistoryTypes
<1>6. Phases'
  BY <1>1 DEF BeginPrepare, Phases, DrawId
<1>7. Books'
  BY <1>1 DEF BeginPrepare, Books, Open
<1> QED
  BY <1>2, <1>3, <1>4, <1>5, <1>6, <1>7 DEF IInv

(* A message of the protocol is sent. *)
LEMMA SendNextKeeps ==
    ASSUME IInv, SendNext
    PROVE  IInv'
<1>1. /\ CoordinatorTypes /\ NetworkTypes /\ ParticipantTypes /\ HistoryTypes
      /\ Phases /\ Books
  BY DEF IInv
<1>2. CoordinatorTypes'
  BY <1>1, SizesAssumption DEF SendNext, CoordinatorTypes, P
<1>3. NetworkTypes'
  <2>1. idx \in P
    BY <1>1, SizesAssumption DEF SendNext, CoordinatorTypes, P
  <2>2. Sent(idx, CurrentMsg) \in Seq(Connections)
    BY <1>1, <2>1, CurrentMsgType, SentType DEF SendNext
  <2> QED
    BY <1>1, <2>1, <2>2 DEF SendNext, NetworkTypes
<1>4. ParticipantTypes'
  BY <1>1 DEF SendNext, participants, ParticipantTypes
<1>5. HistoryTypes'
  BY <1>1 DEF SendNext, history, HistoryTypes
<1>6. Phases'
  BY <1>1 DEF SendNext, Phases
<1>7. Books'
  BY <1>1 DEF SendNext, Books, Open, P
<1> QED
  BY <1>2, <1>3, <1>4, <1>5, <1>6, <1>7 DEF IInv

(* A wait loop starts. *)
LEMMA BeginWaitKeeps ==
    ASSUME IInv, BeginWait
    PROVE  IInv'
<1>1. /\ CoordinatorTypes /\ NetworkTypes /\ ParticipantTypes /\ HistoryTypes
      /\ Phases /\ Books
  BY DEF IInv
<1>2. CoordinatorTypes'
  BY <1>1, SizesAssumption DEF BeginWait, CoordinatorTypes, Open
<1>3. NetworkTypes'
  BY <1>1 DEF BeginWait, network, NetworkTypes
<1>4. ParticipantTypes'
  BY <1>1 DEF BeginWait, participants, ParticipantTypes
<1>5. HistoryTypes'
  BY <1>1 DEF BeginWait, history, HistoryTypes
<1>6. Phases'
  BY <1>1 DEF BeginWait, Phases, Writes, SetRequests, DelRequests, Requests
<1>7. Books'
  BY <1>1, PartFinite, SizesAssumption DEF BeginWait, Books, Open, CoordinatorTypes
<1> QED
  BY <1>2, <1>3, <1>4, <1>5, <1>6, <1>7 DEF IInv

(* A participant has answered, or was given up: it is not watched any more. *)
LEMMA UnwatchedCount ==
    ASSUME CoordinatorTypes, NEW p \in watch
    PROVE  /\ Cardinality(watch \ {p}) = Cardinality(watch) - 1
           /\ Cardinality(watch) \in 1..NumParticipants
           /\ p \in P
<1>1. watch \in SUBSET P /\ p \in P
  BY DEF CoordinatorTypes
<1>2. Cardinality(watch) \in 0..NumParticipants /\ Cardinality(watch) # 0
  BY <1>1, CountOfParts, PartFinite
<1> QED
  BY <1>1, <1>2, CountOfParts

(* A vote of phase 1. *)
LEMMA ReceivePreparedKeeps ==
    ASSUME IInv, NEW p \in P, ReceivePrepared(p)
    PROVE  IInv'
<1>1. /\ CoordinatorTypes /\ NetworkTypes /\ ParticipantTypes /\ HistoryTypes
      /\ Phases /\ Books
  BY DEF IInv
<1>2. PICK n \in 1..Len(toC[p]) :
        /\ toC' = [toC EXCEPT ![p] = After(@, n)]
        /\ response' = [response EXCEPT ![p] = IF toC[p][1].type = "PREPARED" THEN 1 ELSE 0]
  BY DEF ReceivePrepared
<1>3. /\ p \in watch /\ pc = "waitPrepared" /\ pc' = pc /\ watch' = watch \ {p}
      /\ replied' = replied + 1 /\ timeout' = 0
      /\ op' = op /\ reply' = reply /\ valid' = valid /\ tid' = tid /\ idx' = idx
      /\ sock' = sock /\ alive' = alive /\ decision' = decision /\ first' = first
      /\ eof' = eof /\ link' = link /\ linkUp' = linkUp
  BY DEF ReceivePrepared
<1>4. /\ Cardinality(watch') = Cardinality(watch) - 1 /\ Cardinality(watch) \in 1..NumParticipants
      /\ replied + Cardinality(watch) = alive
      /\ alive \in 0..NumParticipants /\ replied \in 0..NumParticipants
  BY <1>1, <1>3, UnwatchedCount DEF Books, CoordinatorTypes
<1>5. replied' \in 0..NumParticipants /\ replied' + Cardinality(watch') = alive'
  BY <1>3, <1>4, SizesAssumption
<1>6. response' \in [P -> {-1, 0, 1}]
  BY <1>1, <1>2 DEF CoordinatorTypes
<1>7. CoordinatorTypes'
  BY <1>1, <1>3, <1>5, <1>6, SizesAssumption DEF CoordinatorTypes
<1>8. NetworkTypes'
  <2>1. After(toC[p], n) \in Seq(FittingReplies)
    BY <1>1, AfterType DEF NetworkTypes
  <2> QED
    BY <1>1, <1>2, <1>3, <2>1 DEF NetworkTypes
<1>9. ParticipantTypes' /\ HistoryTypes'
  BY <1>1 DEF ReceivePrepared, participants, history, ParticipantTypes, HistoryTypes
<1>10. Phases'
  BY <1>1, <1>3 DEF Phases
<1>11. Books'
  BY <1>1, <1>3, <1>5 DEF Books, Open
<1> QED
  BY <1>7, <1>8, <1>9, <1>10, <1>11 DEF IInv

(* An answer of phase 2 or to a GET; the socket is closed. *)
LEMMA ReceiveDoneKeeps ==
    ASSUME IInv, NEW p \in P, ReceiveDone(p)
    PROVE  IInv'
<1>1. /\ CoordinatorTypes /\ NetworkTypes /\ ParticipantTypes /\ HistoryTypes
      /\ Phases /\ Books
  BY DEF IInv
<1>2. PICK n \in 1..Len(toC[p]) :
        first' = IF replied = 0 THEN [msg |-> toC[p][1], alone |-> n = 1] ELSE first
  BY DEF ReceiveDone
<1>3. /\ p \in watch /\ pc = "waitDone" /\ pc' = pc /\ watch' = watch \ {p}
      /\ replied' = replied + 1 /\ timeout' = 0
      /\ op' = op /\ reply' = reply /\ valid' = valid /\ tid' = tid /\ idx' = idx
      /\ sock' = [sock EXCEPT ![p] = FALSE] /\ alive' = alive /\ decision' = decision
      /\ response' = response /\ linkUp' = linkUp
      /\ toC' = [toC EXCEPT ![p] = <<>>] /\ eof' = [eof EXCEPT ![p] = FALSE]
      /\ link' = [link EXCEPT ![p] = Closed(p)]
  BY DEF ReceiveDone
<1>4. /\ Cardinality(watch') = Cardinality(watch) - 1 /\ Cardinality(watch) \in 1..NumParticipants
      /\ replied + Cardinality(watch) = alive
      /\ alive \in 0..NumParticipants /\ replied \in 0..NumParticipants
  BY <1>1, <1>3, UnwatchedCount DEF Books, CoordinatorTypes
<1>5. replied' \in 0..NumParticipants /\ replied' + Cardinality(watch') = alive'
  BY <1>3, <1>4, SizesAssumption
<1>6. first' \in [msg : FittingReplies \cup {NoMsg}, alone : BOOLEAN]
  <2>1. toC[p] \in Seq(FittingReplies)
    BY <1>1 DEF NetworkTypes
  <2>2. toC[p][1] \in FittingReplies
    BY <2>1
  <2>3. (n = 1) \in BOOLEAN
    OBVIOUS
  <2> QED
    BY <1>1, <1>2, <2>2, <2>3 DEF CoordinatorTypes
<1>7. sock' \in [P -> BOOLEAN] /\ Open' = Open \ {p}
  BY <1>1, <1>3 DEF CoordinatorTypes, Open
<1>8. CoordinatorTypes'
  BY <1>1, <1>3, <1>5, <1>6, <1>7, SizesAssumption DEF CoordinatorTypes
<1>9. NetworkTypes'
  <2>1. Closed(p) \in Seq(Connections)
    BY <1>1, ClosedType
  <2> QED
    BY <1>1, <1>3, <2>1 DEF NetworkTypes
<1>10. ParticipantTypes' /\ HistoryTypes'
  BY <1>1 DEF ReceiveDone, participants, history, ParticipantTypes, HistoryTypes
<1>11. Phases'
  BY <1>1, <1>3 DEF Phases
<1>12. Books'
  BY <1>1, <1>3, <1>5, <1>7 DEF Books
<1> QED
  BY <1>8, <1>9, <1>10, <1>11, <1>12 DEF IInv

(* A connection was lost: it is opened again, or the participant given up. *)
LEMMA ConnectionLostKeeps ==
    ASSUME IInv, NEW p \in P, ConnectionLost(p)
    PROVE  IInv'
<1>1. /\ CoordinatorTypes /\ NetworkTypes /\ ParticipantTypes /\ HistoryTypes
      /\ Phases /\ Books
  BY DEF IInv
<1>2. /\ pc \in {"waitPrepared", "waitDone"} /\ p \in watch /\ p \in Open
      /\ pc' = pc /\ op' = op /\ reply' = reply /\ tid' = tid /\ idx' = idx
      /\ replied' = replied /\ response' = response /\ decision' = decision /\ first' = first
      /\ timeout' = 0
  BY <1>1 DEF ConnectionLost, Waiting, Books
<1>3. ParticipantTypes' /\ HistoryTypes' /\ Phases'
  BY <1>1, <1>2 DEF ConnectionLost, participants, history, ParticipantTypes, HistoryTypes, Phases
<1>4. CASE Connected(p, <<CurrentMsg>>) /\ UNCHANGED <<watch, alive>>
  <2>1. NewConnection(<<CurrentMsg>>) \in Connections
    BY <1>1, <1>2, CurrentMsgType, NewConnectionType
  <2>2. /\ NetworkTypes' /\ sock' \in [P -> BOOLEAN] /\ valid' = valid
        /\ Open' = Open \cup {p}
    BY <1>1, <1>4, <2>1, ConnectedType
  <2>3. Open' = Open
    BY <1>2, <2>2
  <2>4. CoordinatorTypes'
    BY <1>1, <1>2, <1>4, <2>2, SizesAssumption DEF CoordinatorTypes
  <2>5. Books'
    BY <1>1, <1>2, <1>4, <2>2, <2>3 DEF Books
  <2> QED
    BY <1>3, <2>2, <2>4, <2>5 DEF IInv
<1>5. CASE GiveUp(p)
  <2>1. /\ valid' = [valid EXCEPT ![p] = FALSE] /\ sock' = [sock EXCEPT ![p] = FALSE]
        /\ watch' = watch \ {p} /\ alive' = alive - 1
        /\ eof' = [eof EXCEPT ![p] = FALSE] /\ toC' = toC /\ link' = link /\ linkUp' = linkUp
    BY <1>5 DEF GiveUp
  <2>2. /\ valid' \in [P -> BOOLEAN] /\ sock' \in [P -> BOOLEAN] /\ Open' = Open \ {p}
        /\ \A q \in Open' : valid'[q]
    BY <1>1, <2>1 DEF CoordinatorTypes, Books, Open
  <2>3. /\ Cardinality(watch') = Cardinality(watch) - 1 /\ Cardinality(watch) \in 1..NumParticipants
        /\ replied + Cardinality(watch) = alive
        /\ alive \in 0..NumParticipants /\ replied \in 0..NumParticipants
    BY <1>1, <1>2, <2>1, UnwatchedCount DEF Books, CoordinatorTypes
  <2>4. alive' \in 0..NumParticipants /\ replied' + Cardinality(watch') = alive'
    BY <1>2, <2>1, <2>3, SizesAssumption
  <2>5. pc = "waitPrepared" => alive' = Cardinality(Open')
    <3>1. Open \in SUBSET P
      BY DEF Open
    <3>2. Cardinality(Open') = Cardinality(Open) - 1
      BY <1>2, <2>2, <3>1, CountOfParts
    <3> QED
      BY <1>1, <2>1, <3>2 DEF Books
  <2>6. CoordinatorTypes'
    BY <1>1, <1>2, <2>1, <2>2, <2>4, SizesAssumption DEF CoordinatorTypes
  <2>7. NetworkTypes'
    BY <1>1, <2>1 DEF NetworkTypes
  <2>8. Books'
    BY <1>1, <1>2, <2>1, <2>2, <2>4, <2>5 DEF Books
  <2> QED
    BY <1>3, <2>6, <2>7, <2>8 DEF IInv
<1> QED
  BY <1>4, <1>5 DEF ConnectionLost

(* select has timed out: resend, or give up whoever is watched. *)
LEMMA ExpireKeeps ==
    ASSUME IInv, Expire
    PROVE  IInv'
<1>1. /\ CoordinatorTypes /\ NetworkTypes /\ ParticipantTypes /\ HistoryTypes
      /\ Phases /\ Books
  BY DEF IInv
<1>2. /\ pc \in {"waitPrepared", "waitDone"} /\ watch \in SUBSET P /\ watch \in SUBSET Open
      /\ pc' = pc /\ op' = op /\ reply' = reply /\ tid' = tid /\ idx' = idx
      /\ replied' = replied /\ response' = response /\ decision' = decision /\ first' = first
      /\ linkUp' = linkUp
  BY <1>1 DEF Expire, Waiting, Books, CoordinatorTypes
<1>3. ParticipantTypes' /\ HistoryTypes' /\ Phases'
  BY <1>1, <1>2 DEF Expire, participants, history, ParticipantTypes, HistoryTypes, Phases
<1>4. CASE LastTimeout /\ EvictWatched
  <2>1. /\ timeout' = 0 /\ watch' = {} /\ alive' = alive - Cardinality(watch)
        /\ valid' = [p \in P |-> valid[p] /\ p \notin watch]
        /\ sock' = [p \in P |-> sock[p] /\ p \notin watch]
        /\ toC' = [p \in P |-> IF p \in watch THEN <<>> ELSE toC[p]]
        /\ eof' = [p \in P |-> eof[p] /\ p \notin watch]
        /\ link' = [p \in P |-> IF p \in watch THEN Closed(p) ELSE link[p]]
    BY <1>4 DEF EvictWatched, EvictedCount
  <2>2. /\ valid' \in [P -> BOOLEAN] /\ sock' \in [P -> BOOLEAN] /\ Open' = Open \ watch
        /\ \A q \in Open' : valid'[q]
    BY <1>1, <2>1 DEF CoordinatorTypes, Books, Open
  <2>3. /\ Cardinality(watch) \in Nat /\ Cardinality(watch') = 0
        /\ replied + Cardinality(watch) = alive
        /\ alive \in 0..NumParticipants /\ replied \in 0..NumParticipants
    BY <1>1, <1>2, <2>1, CountOfParts, FS_EmptySet DEF Books, CoordinatorTypes
  <2>4. alive' = replied
    BY <2>1, <2>3, SizesAssumption
  <2>5. pc = "waitPrepared" => alive' = Cardinality(Open')
    <3>1. Open \in SUBSET P /\ Open \cap watch = watch
      BY <1>2 DEF Open
    <3>2. IsFiniteSet(Open) /\ IsFiniteSet(watch)
      BY <1>2, <3>1, PartFinite
    <3>3. Cardinality(Open \ watch) = Cardinality(Open) - Cardinality(watch)
      BY <3>1, <3>2, FS_Difference
    <3> QED
      BY <1>1, <2>1, <2>2, <3>3 DEF Books
  <2>6. CoordinatorTypes'
    BY <1>1, <1>2, <2>1, <2>2, <2>3, <2>4, SizesAssumption DEF CoordinatorTypes
  <2>7. NetworkTypes'
    <3>1. \A p \in P : Closed(p) \in Seq(Connections)
      BY <1>1, ClosedType
    <3>2. link' \in [P -> Seq(Connections)]
      BY <1>1, <2>1, <3>1 DEF NetworkTypes
    <3>3. toC' \in [P -> Seq(FittingReplies)]
      BY <1>1, <2>1 DEF NetworkTypes
    <3>4. eof' \in [P -> BOOLEAN] /\ linkUp' \in [P -> BOOLEAN]
      BY <1>1, <1>2, <2>1 DEF NetworkTypes
    <3> QED
      BY <3>2, <3>3, <3>4 DEF NetworkTypes
  <2>8. pc = "waitDone" => watch' = Open'
    BY <1>1, <2>1, <2>2 DEF Books
  <2>9. Books'
    BY <1>2, <2>1, <2>2, <2>3, <2>4, <2>5, <2>8 DEF Books
  <2> QED
    BY <1>3, <2>6, <2>7, <2>9 DEF IInv
<1>5. CASE ~LastTimeout /\ ResendToWatched
  <2>1. /\ timeout' = timeout + 1
        /\ link' = [p \in P |-> IF p \in watch THEN Sent(p, CurrentMsg) ELSE link[p]]
        /\ watch' = watch /\ alive' = alive /\ valid' = valid /\ sock' = sock
        /\ toC' = toC /\ eof' = eof
    BY <1>5 DEF ResendToWatched
  <2>2. timeout' \in 0..ResendLimit
    BY <1>1, <1>5, <2>1, SizesAssumption DEF CoordinatorTypes, LastTimeout
  <2>3. CoordinatorTypes'
    BY <1>1, <1>2, <2>1, <2>2 DEF CoordinatorTypes
  <2>4. NetworkTypes'
    <3>1. CurrentMsg \in CoordinatorMsgs
      BY <1>1, <1>2, CurrentMsgType
    <3>2. \A p \in P : Sent(p, CurrentMsg) \in Seq(Connections)
      BY <1>1, <3>1, SentType
    <3> QED
      BY <1>1, <1>2, <2>1, <3>2 DEF NetworkTypes
  <2>5. Books'
    BY <1>1, <1>2, <2>1 DEF Books, Open
  <2> QED
    BY <1>3, <2>3, <2>4, <2>5 DEF IInv
<1> QED
  BY <1>4, <1>5 DEF Expire

(* The answer that a decided write owes is one of those a client may get. *)
LEMMA ResultType ==
    ASSUME NEW w \in Writes, NEW s \in Stores
    PROVE  Result(w, s) \in ClientReplies
<1>1. w \in Requests /\ w.method \in {"SET", "DEL"}
  BY DEF Writes, Requests, SetRequests, DelRequests
<1>2. Present(w, s) \in SUBSET Keys
  BY <1>1, RequestType DEF Present
<1>3. Cardinality(Present(w, s)) \in 0..Cardinality(Keys)
  BY <1>2, CountType
<1>4. CASE w.method = "SET"
  BY <1>4, ErrorType DEF Result
<1>5. CASE w.method = "DEL"
  BY <1>3, <1>5 DEF Result, ClientReplies
<1> QED
  BY <1>1, <1>4, <1>5

(* The decision. *)
LEMMA DecideKeeps ==
    ASSUME IInv, Decide
    PROVE  IInv'
<1>1. /\ CoordinatorTypes /\ NetworkTypes /\ ParticipantTypes /\ HistoryTypes
      /\ Phases /\ Books
  BY DEF IInv
<1>2. CoordinatorTypes'
  BY <1>1, SizesAssumption DEF Decide, CoordinatorTypes
<1>3. NetworkTypes'
  BY <1>1 DEF Decide, network, NetworkTypes
<1>4. ParticipantTypes'
  BY <1>1 DEF Decide, participants, ParticipantTypes
<1>5. HistoryTypes'
  <2>1. op \in Writes /\ tid \in Ids
    BY <1>1 DEF Decide, Phases
  <2>2. Apply(op, store) \in Stores /\ Result(op, store) \in ClientReplies
    BY <1>1, <2>1, ApplyType, ResultType DEF HistoryTypes, Requests
  <2> QED
    BY <1>1, <2>1, <2>2 DEF Decide, history, HistoryTypes
<1>6. Phases'
  BY <1>1 DEF Decide, Phases
<1>7. Books'
  BY <1>1 DEF Decide, Books, Open
<1> QED
  BY <1>2, <1>3, <1>4, <1>5, <1>6, <1>7 DEF IInv

(* One turn of the loop of handleGET: a participant is asked. *)
LEMMA AskNextKeeps ==
    ASSUME IInv, AskNext
    PROVE  IInv'
<1>1. /\ CoordinatorTypes /\ NetworkTypes /\ ParticipantTypes /\ HistoryTypes
      /\ Phases /\ Books
  BY DEF IInv
<1>2. /\ idx \in P /\ pc = "get" /\ valid[idx] /\ op \in GetRequests /\ tid \in Ids /\ Open = {}
      /\ pc' = "waitDone" /\ watch' = {idx} /\ alive' = 1 /\ replied' = 0 /\ timeout' = 0
      /\ first' = NoFirst /\ op' = op /\ reply' = reply /\ tid' = tid /\ idx' = idx
      /\ response' = response /\ decision' = decision
  BY <1>1, SizesAssumption DEF AskNext, CoordinatorTypes, P, Phases, Books
<1>3. NewConnection(<<PrepareRequest(tid, op)>>) \in Connections
  BY <1>2, MsgType, NewConnectionType DEF Requests
<1>4. Connected(idx, <<PrepareRequest(tid, op)>>)
  BY DEF AskNext
<1>5. /\ NetworkTypes' /\ sock' \in [P -> BOOLEAN] /\ valid' = valid
      /\ Open' = Open \cup {idx}
  BY <1>1, <1>2, <1>3, <1>4, ConnectedType
<1>6. NoFirst \in [msg : FittingReplies \cup {NoMsg}, alone : BOOLEAN]
  BY DEF NoFirst
<1>7. CoordinatorTypes'
  BY <1>1, <1>2, <1>5, <1>6, SizesAssumption DEF CoordinatorTypes
<1>8. ParticipantTypes' /\ HistoryTypes'
  BY <1>1 DEF AskNext, participants, history, ParticipantTypes, HistoryTypes
<1>9. Phases'
  BY <1>2, SizesAssumption DEF Phases, P, Requests
<1>10. Books'
  BY <1>2, <1>5, FS_Singleton DEF Books
<1> QED
  BY <1>5, <1>7, <1>8, <1>9, <1>10 DEF IInv

(* A participant is passed over. *)
LEMMA SkipNextKeeps ==
    ASSUME IInv, SkipNext
    PROVE  IInv'
<1>1. /\ CoordinatorTypes /\ NetworkTypes /\ ParticipantTypes /\ HistoryTypes
      /\ Phases /\ Books
  BY DEF IInv
<1>2. valid' \in [P -> BOOLEAN] /\ idx' \in 0..NumParticipants
  BY <1>1, SizesAssumption DEF SkipNext, CoordinatorTypes, P
<1>3. CoordinatorTypes'
  BY <1>1, <1>2, SizesAssumption DEF SkipNext, CoordinatorTypes
<1>4. NetworkTypes'
  BY <1>1 DEF SkipNext, network, NetworkTypes
<1>5. ParticipantTypes'
  BY <1>1 DEF SkipNext, participants, ParticipantTypes
<1>6. HistoryTypes'
  BY <1>1 DEF SkipNext, history, HistoryTypes
<1>7. Phases'
  BY <1>1 DEF SkipNext, Phases
<1>8. Books'
  BY <1>1 DEF SkipNext, Books, Open
<1> QED
  BY <1>2, <1>3, <1>4, <1>5, <1>6, <1>7, <1>8 DEF IInv

(* The participant that was asked is lost. *)
LEMMA ReadFailedKeeps ==
    ASSUME IInv, ReadFailed
    PROVE  IInv'
<1>1. /\ CoordinatorTypes /\ NetworkTypes /\ ParticipantTypes /\ HistoryTypes
      /\ Phases /\ Books
  BY DEF IInv
<1>2. CoordinatorTypes'
  BY <1>1, SizesAssumption DEF ReadFailed, CoordinatorTypes, Phases
<1>3. NetworkTypes'
  BY <1>1 DEF ReadFailed, network, NetworkTypes
<1>4. ParticipantTypes'
  BY <1>1 DEF ReadFailed, participants, ParticipantTypes
<1>5. HistoryTypes'
  BY <1>1 DEF ReadFailed, history, HistoryTypes
<1>6. Phases'
  BY <1>1 DEF ReadFailed, Phases, GetRequests, SetRequests, DelRequests, Writes, Requests
<1>7. Books'
  BY <1>1, NobodyWatched DEF ReadFailed, Books, Open
<1> QED
  BY <1>2, <1>3, <1>4, <1>5, <1>6, <1>7 DEF IInv

(* The coordinator is killed and started again. *)
LEMMA CoordinatorCrashKeeps ==
    ASSUME IInv, CoordinatorCrash
    PROVE  IInv'
<1>1. /\ CoordinatorTypes /\ NetworkTypes /\ ParticipantTypes /\ HistoryTypes
      /\ Phases /\ Books
  BY DEF IInv
<1>2. /\ Answer(reply) /\ valid' = [p \in P |-> TRUE] /\ sock' = None
      /\ toC' = [p \in P |-> <<>>] /\ eof' = None /\ link' = [p \in P |-> Closed(p)]
      /\ linkUp' = linkUp /\ part' = part /\ up' = up
  BY DEF CoordinatorCrash, participants
<1>3. valid' \in [P -> BOOLEAN] /\ sock' \in [P -> BOOLEAN] /\ Open' = {}
  BY <1>2 DEF None, Open
<1>4. reply \in ClientReplies
  BY <1>1 DEF CoordinatorTypes
<1>5. CoordinatorTypes' /\ HistoryTypes' /\ Phases' /\ Books'
  BY <1>1, <1>2, <1>3, <1>4, AnswerKeeps
<1>6. NetworkTypes'
  <2>1. \A p \in P : Closed(p) \in Seq(Connections)
    BY <1>1, ClosedType
  <2> QED
    BY <1>1, <1>2, <2>1 DEF NetworkTypes, None
<1>7. ParticipantTypes'
  BY <1>1, <1>2 DEF ParticipantTypes
<1> QED
  BY <1>5, <1>6, <1>7 DEF IInv

-----------------------------------------------------------------------------
(* The participants and the network: the coordinator's variables stay. *)

LEMMA CoordinatorStays ==
    ASSUME CoordinatorTypes, HistoryTypes, Phases, Books, UNCHANGED <<coordinator, history>>
    PROVE  CoordinatorTypes' /\ HistoryTypes' /\ Phases' /\ Books'
<1>1. CoordinatorTypes' /\ HistoryTypes'
  BY DEF coordinator, history, CoordinatorTypes, HistoryTypes
<1>2. Phases' /\ Books'
  BY DEF coordinator, Phases, Books, Open
<1> QED
  BY <1>1, <1>2

(* The kernel closes every socket of a process that ends. *)
LEMMA DieType ==
    ASSUME NetworkTypes, CoordinatorTypes, ParticipantTypes, NEW p \in P, Die(p)
    PROVE  /\ up' \in [P -> BOOLEAN]
           /\ link' \in [P -> Seq(Connections)]
           /\ eof' \in [P -> BOOLEAN]
<1>1. up' \in [P -> BOOLEAN]
  BY DEF Die, ParticipantTypes
<1>2. link' \in [P -> Seq(Connections)]
  BY DEF Die, NetworkTypes
<1>3. (eof[p] \/ (sock[p] /\ linkUp[p])) \in BOOLEAN
  OBVIOUS
<1>4. eof' \in [P -> BOOLEAN]
  BY <1>3 DEF Die, NetworkTypes
<1> QED
  BY <1>1, <1>2, <1>4

(* A participant handles a message. *)
LEMMA ParticipantReceiveKeeps ==
    ASSUME IInv, NEW p \in P, ParticipantReceive(p)
    PROVE  IInv'
<1>1. /\ CoordinatorTypes /\ NetworkTypes /\ ParticipantTypes /\ HistoryTypes
      /\ Phases /\ Books
  BY DEF IInv
<1> DEFINE c == Head(link[p])
           m == Head(c.toP)
           r == Handle(part[p], m)
<1>2. PICK n \in 1..Len(c.toP) :
        /\ part' = [part EXCEPT ![p] = r.state]
        /\ IF c.live /\ linkUp[p] /\ r.reply # NoMsg
           THEN toC' = [toC EXCEPT ![p] = Append(@, r.reply)]
           ELSE UNCHANGED toC
        /\ CASE r.result = "loop" ->
                  /\ link' = [link EXCEPT ![p][1].toP = After(@, n)]
                  /\ UNCHANGED <<eof, up>>
             [] r.result = "return" ->
                  /\ link' = [link EXCEPT ![p] = Tail(@)]
                  /\ UNCHANGED <<eof, up>>
             [] r.result = "shutdown" -> Die(p)
  BY DEF ParticipantReceive
<1>3. link[p] \in Seq(Connections) /\ link[p] # <<>> /\ part[p] \in SoundStates
      /\ linkUp' = linkUp
  BY <1>1 DEF ParticipantReceive, NetworkTypes, ParticipantTypes
<1>4. c \in Connections /\ c = link[p][1]
  BY <1>3
<1>5. c.toP \in Seq(CoordinatorMsgs) /\ m \in CoordinatorMsgs
  BY <1>2, <1>4 DEF Connections
<1>6. /\ r.state \in SoundStates /\ r.reply \in FittingReplies \cup {NoMsg}
      /\ r.result \in {"loop", "return", "shutdown"}
  BY <1>3, <1>5, HandleType
<1> HIDE DEF r
<1>7. part' \in [P -> SoundStates]
  BY <1>1, <1>2, <1>6 DEF ParticipantTypes
<1>8. toC' \in [P -> Seq(FittingReplies)]
  <2>1. r.reply # NoMsg => Append(toC[p], r.reply) \in Seq(FittingReplies)
    BY <1>1, <1>6 DEF NetworkTypes
  <2> QED
    BY <1>1, <1>2, <2>1 DEF NetworkTypes
<1>9. up' \in [P -> BOOLEAN] /\ eof' \in [P -> BOOLEAN] /\ link' \in [P -> Seq(Connections)]
  <2>1. CASE r.result = "loop"
    <3>1. link' = [link EXCEPT ![p][1].toP = After(@, n)] /\ eof' = eof /\ up' = up
      BY <1>2, <2>1
    <3>2. After(c.toP, n) \in Seq(CoordinatorMsgs)
      BY <1>5, AfterType
    <3>3. [c EXCEPT !.toP = After(c.toP, n)] \in Connections
      BY <1>4, <3>2 DEF Connections
    <3>4. [link[p] EXCEPT ![1] = [c EXCEPT !.toP = After(c.toP, n)]] \in Seq(Connections)
      BY <1>3, <3>3
    <3>5. link' = [link EXCEPT ![p] = [link[p] EXCEPT ![1] = [c EXCEPT !.toP = After(c.toP, n)]]]
      BY <1>4, <3>1
    <3> QED
      BY <1>1, <3>1, <3>4, <3>5 DEF NetworkTypes, ParticipantTypes
  <2>2. CASE r.result = "return"
    <3>1. link' = [link EXCEPT ![p] = Tail(@)] /\ eof' = eof /\ up' = up
      BY <1>2, <2>2
    <3>2. Tail(link[p]) \in Seq(Connections)
      BY <1>3
    <3> QED
      BY <1>1, <3>1, <3>2 DEF NetworkTypes, ParticipantTypes
  <2>3. CASE r.result = "shutdown"
    BY <1>1, <1>2, <2>3, DieType
  <2> QED
    BY <1>6, <2>1, <2>2, <2>3
<1>10. NetworkTypes' /\ ParticipantTypes'
  BY <1>1, <1>3, <1>7, <1>8, <1>9 DEF NetworkTypes, ParticipantTypes
<1>11. CoordinatorTypes' /\ HistoryTypes' /\ Phases' /\ Books'
  BY <1>1, CoordinatorStays DEF ParticipantReceive
<1> QED
  BY <1>10, <1>11 DEF IInv

(* A participant goes on to its next connection. *)
LEMMA ParticipantEofKeeps ==
    ASSUME IInv, NEW p \in P, ParticipantEof(p)
    PROVE  IInv'
<1>1. /\ CoordinatorTypes /\ NetworkTypes /\ ParticipantTypes /\ HistoryTypes
      /\ Phases /\ Books
  BY DEF IInv
<1>2. CoordinatorTypes' /\ HistoryTypes' /\ Phases' /\ Books'
  BY <1>1, CoordinatorStays DEF ParticipantEof
<1>3. NetworkTypes'
  <2>1. Tail(link[p]) \in Seq(Connections)
    BY <1>1 DEF ParticipantEof, NetworkTypes
  <2> QED
    BY <1>1, <2>1 DEF ParticipantEof, NetworkTypes
<1>4. ParticipantTypes'
  BY <1>1 DEF ParticipantEof, participants, ParticipantTypes
<1> QED
  BY <1>2, <1>3, <1>4 DEF IInv

(* A participant is killed. *)
LEMMA ParticipantCrashKeeps ==
    ASSUME IInv, NEW p \in P, ParticipantCrash(p)
    PROVE  IInv'
<1>1. /\ CoordinatorTypes /\ NetworkTypes /\ ParticipantTypes /\ HistoryTypes
      /\ Phases /\ Books
  BY DEF IInv
<1>2. CoordinatorTypes' /\ HistoryTypes' /\ Phases' /\ Books'
  BY <1>1, CoordinatorStays DEF ParticipantCrash
<1>3. NetworkTypes'
  BY <1>1, DieType DEF ParticipantCrash, NetworkTypes
<1>4. ParticipantTypes'
  <2>1. up' \in [P -> BOOLEAN]
    BY <1>1, DieType DEF ParticipantCrash
  <2> QED
    BY <1>1, <2>1, InitialIsSound DEF ParticipantCrash, ParticipantTypes
<1> QED
  BY <1>2, <1>3, <1>4 DEF IInv

(* A participant is started again, empty. *)
LEMMA ParticipantRestartKeeps ==
    ASSUME IInv, NEW p \in P, ParticipantRestart(p)
    PROVE  IInv'
<1>1. /\ CoordinatorTypes /\ NetworkTypes /\ ParticipantTypes /\ HistoryTypes
      /\ Phases /\ Books
  BY DEF IInv
<1>2. CoordinatorTypes' /\ HistoryTypes' /\ Phases' /\ Books'
  BY <1>1, CoordinatorStays DEF ParticipantRestart
<1>3. NetworkTypes'
  BY <1>1 DEF ParticipantRestart, network, NetworkTypes
<1>4. ParticipantTypes'
  BY <1>1, InitialIsSound DEF ParticipantRestart, ParticipantTypes
<1> QED
  BY <1>2, <1>3, <1>4 DEF IInv

(* A connection is reset. *)
LEMMA BreakKeeps ==
    ASSUME IInv, NEW p \in P, Break(p)
    PROVE  IInv'
<1>1. /\ CoordinatorTypes /\ NetworkTypes /\ ParticipantTypes /\ HistoryTypes
      /\ Phases /\ Books
  BY DEF IInv
<1>2. CoordinatorTypes' /\ HistoryTypes' /\ Phases' /\ Books'
  BY <1>1, CoordinatorStays DEF Break
<1>3. NetworkTypes'
  <2>1. Closed(p) \in Seq(Connections)
    BY <1>1, ClosedType
  <2> QED
    BY <1>1, <2>1 DEF Break, NetworkTypes
<1>4. ParticipantTypes'
  BY <1>1 DEF Break, participants, ParticipantTypes
<1> QED
  BY <1>2, <1>3, <1>4 DEF IInv

(* A participant is cut off. *)
LEMMA LinkDownKeeps ==
    ASSUME IInv, NEW p \in P, LinkDown(p)
    PROVE  IInv'
<1>1. /\ CoordinatorTypes /\ NetworkTypes /\ ParticipantTypes /\ HistoryTypes
      /\ Phases /\ Books
  BY DEF IInv
<1>2. CoordinatorTypes' /\ HistoryTypes' /\ Phases' /\ Books'
  BY <1>1, CoordinatorStays DEF LinkDown
<1>3. NetworkTypes'
  BY <1>1 DEF LinkDown, NetworkTypes
<1>4. ParticipantTypes'
  BY <1>1 DEF LinkDown, participants, ParticipantTypes
<1> QED
  BY <1>2, <1>3, <1>4 DEF IInv

LEMMA FrontType ==
    ASSUME NEW S, NEW s \in Seq(S), s # <<>>
    PROVE  SubSeq(s, 1, Len(s) - 1) \in Seq(S)
OBVIOUS

(* A message to a participant is lost. *)
LEMMA LoseRequestKeeps ==
    ASSUME IInv, NEW p \in P, LoseRequest(p)
    PROVE  IInv'
<1>1. /\ CoordinatorTypes /\ NetworkTypes /\ ParticipantTypes /\ HistoryTypes
      /\ Phases /\ Books
  BY DEF IInv
<1>2. CoordinatorTypes' /\ HistoryTypes' /\ Phases' /\ Books'
  BY <1>1, CoordinatorStays DEF LoseRequest
<1>3. NetworkTypes'
  <2>1. PICK i \in 1..Len(link[p]) :
          /\ link[p][i].toP # <<>>
          /\ link' = [link EXCEPT ![p][i].toP = SubSeq(@, 1, Len(@) - 1)]
          /\ toC' = toC /\ eof' = eof /\ linkUp' = linkUp
    BY DEF LoseRequest
  <2> DEFINE c == link[p][i]
             rest == SubSeq(c.toP, 1, Len(c.toP) - 1)
  <2>2. link[p] \in Seq(Connections) /\ c \in Connections
    BY <1>1 DEF NetworkTypes
  <2>3. c.toP \in Seq(CoordinatorMsgs)
    BY <2>2 DEF Connections
  <2>4. rest \in Seq(CoordinatorMsgs)
    BY <2>1, <2>3, FrontType
  <2>5. [c EXCEPT !.toP = rest] \in Connections
    BY <2>2, <2>4 DEF Connections
  <2>6. [link[p] EXCEPT ![i] = [c EXCEPT !.toP = rest]] \in Seq(Connections)
    BY <2>2, <2>5
  <2>7. link' = [link EXCEPT ![p] = [link[p] EXCEPT ![i] = [c EXCEPT !.toP = rest]]]
    BY <2>1
  <2> QED
    BY <1>1, <2>1, <2>6, <2>7 DEF NetworkTypes
<1>4. ParticipantTypes'
  BY <1>1 DEF LoseRequest, participants, ParticipantTypes
<1> QED
  BY <1>2, <1>3, <1>4 DEF IInv

(* A reply is lost. *)
LEMMA LoseReplyKeeps ==
    ASSUME IInv, NEW p \in P, LoseReply(p)
    PROVE  IInv'
<1>1. /\ CoordinatorTypes /\ NetworkTypes /\ ParticipantTypes /\ HistoryTypes
      /\ Phases /\ Books
  BY DEF IInv
<1>2. CoordinatorTypes' /\ HistoryTypes' /\ Phases' /\ Books'
  BY <1>1, CoordinatorStays DEF LoseReply
<1>3. NetworkTypes'
  <2>1. SubSeq(toC[p], 1, Len(toC[p]) - 1) \in Seq(FittingReplies)
    BY <1>1, FrontType DEF LoseReply, NetworkTypes
  <2> QED
    BY <1>1, <2>1 DEF LoseReply, NetworkTypes
<1>4. ParticipantTypes'
  BY <1>1 DEF LoseReply, participants, ParticipantTypes
<1> QED
  BY <1>2, <1>3, <1>4 DEF IInv

-----------------------------------------------------------------------------
(* The invariant holds in every reachable state. *)

LEMMA InitIInv == Init => IInv
<1> SUFFICES ASSUME Init PROVE IInv
  OBVIOUS
<1>1. CoordinatorTypes
  BY ErrorType, SizesAssumption DEF Init, CoordinatorTypes, None, NoResponse, NoFirst
<1>2. NetworkTypes /\ ParticipantTypes
  BY InitialIsSound DEF Init, NetworkTypes, ParticipantTypes, None
<1>3. HistoryTypes
  BY ErrorType DEF Init, HistoryTypes, EmptyStore, Stores
<1>4. Phases
  BY DEF Init, Phases
<1>5. Books
  BY DEF Init, Books, Open, None
<1> QED
  BY <1>1, <1>2, <1>3, <1>4, <1>5 DEF IInv

LEMMA CoordinatorStepKeeps == ASSUME IInv, CoordinatorStep PROVE IInv'
BY ConnectNextKeeps, NobodyConnectedKeeps, BeginPrepareKeeps, SendNextKeeps, BeginWaitKeeps,
   ReceivePreparedKeeps, ReceiveDoneKeeps, ConnectionLostKeeps, ExpireKeeps,
   AllLostInPhaseOneKeeps, DecideKeeps, FinishWriteKeeps, AskNextKeeps, SkipNextKeeps,
   ReadFailedKeeps, FinishReadKeeps, NobodyAnsweredKeeps
DEF CoordinatorStep, Timeout

LEMMA FailureKeeps == ASSUME IInv, Failure PROVE IInv'
BY CoordinatorCrashKeeps, ExpireKeeps, ParticipantCrashKeeps, ParticipantRestartKeeps,
   BreakKeeps, LinkDownKeeps, LoseRequestKeeps, LoseReplyKeeps
DEF Failure, LateTimeout

LEMMA NextIInv == IInv /\ [Next]_vars => IInv'
<1> SUFFICES ASSUME IInv, [Next]_vars PROVE IInv'
  OBVIOUS
<1>1. CASE UNCHANGED vars
  <2>1. CoordinatorTypes' /\ HistoryTypes' /\ Phases' /\ Books'
    BY <1>1, CoordinatorStays DEF IInv, vars
  <2>2. NetworkTypes' /\ ParticipantTypes'
    BY <1>1 DEF IInv, vars, network, participants, NetworkTypes, ParticipantTypes
  <2> QED
    BY <2>1, <2>2 DEF IInv
<1>2. ASSUME NEW p \in P, ParticipantStep(p) PROVE IInv'
  BY <1>2, ParticipantReceiveKeeps, ParticipantEofKeeps DEF ParticipantStep
<1> QED
  BY <1>1, <1>2, RequestKeeps, CoordinatorStepKeeps, FailureKeeps DEF Next, ClientStops

(* Every variable of the coordinator, the network, the participants and the
   history keeps its type, whatever fails. *)
THEOREM TwoPhaseCommitTypeOK == Spec => []TypeOK
<1>1. IInv => TypeOK
  <2> SUFFICES ASSUME IInv PROVE TypeOK
    OBVIOUS
  <2>1. FittingReplies \subseteq Replies /\ SoundStates \subseteq ParticipantStates
    BY DEF FittingReplies, SoundStates
  <2>2. DOMAIN toC = P /\ \A p \in P : toC[p] \in Seq(Replies)
    <3>1. \A s \in Seq(FittingReplies) : s \in Seq(Replies)
      BY <2>1
    <3> QED
      BY <3>1 DEF IInv, NetworkTypes
  <2>3. DOMAIN link = P /\ (\A p \in P : link[p] \in Seq(Connections))
        /\ eof \in [P -> BOOLEAN] /\ linkUp \in [P -> BOOLEAN]
    BY DEF IInv, NetworkTypes
  <2>4. part \in [P -> ParticipantStates] /\ up \in [P -> BOOLEAN]
    BY <2>1 DEF IInv, ParticipantTypes
  <2>5. first \in [msg : Replies \cup {NoMsg}, alone : BOOLEAN]
    BY <2>1 DEF IInv, CoordinatorTypes
  <2> QED
    BY <2>2, <2>3, <2>4, <2>5 DEF IInv, CoordinatorTypes, HistoryTypes, TypeOK
<1> QED
  BY <1>1, InitIInv, NextIInv, PTL DEF Spec

(* aliveParticipantCount, the counters of the wait loops and the select set
   agree with the open sockets through every loss, eviction and answer, so a
   wait loop never waits for an answer that nobody owes. *)
THEOREM TwoPhaseCommitCountersMatchSockets == Spec => []CountersMatchSockets
<1>1. IInv => CountersMatchSockets
  <2> SUFFICES ASSUME IInv PROVE CountersMatchSockets
    OBVIOUS
  <2>1. pc = "idle" => sock = None
    BY NoneOpen DEF IInv, CoordinatorTypes, Books
  <2>2. pc = "decide" => alive = Cardinality({p \in P : sock[p]})
    BY DEF IInv, Books, Open
  <2>3. Waiting => /\ replied + Cardinality(watch) = alive
                   /\ \A p \in watch : sock[p] /\ valid[p]
    BY DEF IInv, Books, Open, Waiting
  <2> QED
    BY <2>1, <2>2, <2>3 DEF CountersMatchSockets
<1> QED
  BY <1>1, InitIInv, NextIInv, PTL DEF Spec

-----------------------------------------------------------------------------
(* What is under way, and what a participant has seen. *)

Carried(c) == {c.toP[k] : k \in 1..Len(c.toP)}

(* p's last message was about transaction i, unless p has been started again. *)
IsAbout(p, i) ==
    /\ part[p].phase = 2 => part[p].id = i
    /\ MaxRestarts = 0 /\ up[p] => part[p].id = i

(* Everything that p was sent before the current transaction is behind it. *)
Seen(p) ==
    /\ IsAbout(p, tid)
    /\ \A c \in 1..Len(link[p]) : \A m \in Carried(link[p][c]) : m.id = tid

(* A COMMIT or an ABORT under way finds p with its own transaction or with none. *)
DecisionsMeetTheirWrite(p) ==
    \A c \in 1..Len(link[p]) : \A m \in Carried(link[p][c]) :
        m.type \in {"COMMIT", "ABORT"} =>
            /\ m.type = "COMMIT" /\ ~IdsMayRepeat => m.id \in committed
            /\ IsAbout(p, m.id)
            /\ \A d \in 1..c : \A x \in Carried(link[p][d]) : x.id = m.id

(* Only the last connection can be the coordinator's, and it carries messages of
   the current transaction only. *)
LiveIsCurrent(p) ==
    \A c \in 1..Len(link[p]) :
        link[p][c].live =>
            /\ c = Len(link[p]) /\ sock[p] /\ ~eof[p]
            /\ \A m \in Carried(link[p][c]) : m.id = tid
            /\ pc = "connect" => Carried(link[p][c]) = {}

(* Whoever has voted has seen the current transaction. *)
VotersHaveSeen(p) ==
    sock[p] =>
        /\ pc = "connect" => toC[p] = <<>>
        /\ pc \in {"prepare", "waitPrepared"} /\ toC[p] # <<>> => Seen(p)
        /\ pc = "waitPrepared" /\ p \notin watch => Seen(p)
        /\ pc \in {"decide", "waitDone"} /\ op.method # "GET" => Seen(p)

DecidedIsCommitted ==
    pc \in {"decide", "waitDone"} /\ op.method # "GET" /\ decision = 1 /\ ~IdsMayRepeat
      => tid \in committed

(* The faults of the environment so far. *)
FaultKinds ==
    {"txns", "coordinatorCrashes", "crashes", "restarts", "breaks", "linksDown", "late"}
SpentType == spent \in [FaultKinds -> Nat]

Delivery ==
    /\ \A p \in P : DecisionsMeetTheirWrite(p) /\ LiveIsCurrent(p) /\ VotersHaveSeen(p)
    /\ DecidedIsCommitted

(* The only new message under way to p, if any, is m, in a new connection or at
   the end of the live one. *)
Grows(p, m) ==
    /\ Len(link'[p]) \in {Len(link[p]), Len(link[p]) + 1}
    /\ \A c \in 1..Len(link'[p]) : \A x \in Carried(link'[p][c]) :
          \/ c <= Len(link[p]) /\ x \in Carried(link[p][c])
          \/ c = Len(link'[p]) /\ x = m /\ (c <= Len(link[p]) => link[p][c].live)

-----------------------------------------------------------------------------
(* How the actions change the connections. *)

LEMMA CarriedAppend ==
    ASSUME NEW c \in Connections, NEW m \in CoordinatorMsgs
    PROVE  Carried([c EXCEPT !.toP = Append(@, m)]) = Carried(c) \cup {m}
<1> DEFINE s == c.toP
           t == Append(s, m)
<1>1. s \in Seq(CoordinatorMsgs)
  BY DEF Connections
<1>2. Len(t) = Len(s) + 1 /\ t[Len(s) + 1] = m /\ \A k \in 1..Len(s) : t[k] = s[k]
  BY <1>1
<1>3. Len(s) \in Nat
  BY <1>1
<1>4. [c EXCEPT !.toP = Append(@, m)].toP = t
  BY DEF Connections
<1> HIDE DEF s, t
<1>5. {t[k] : k \in 1..Len(t)} = {s[k] : k \in 1..Len(s)} \cup {m}
  <2>1. ASSUME NEW k \in 1..Len(t) PROVE t[k] \in {s[i] : i \in 1..Len(s)} \cup {m}
    <3>1. CASE k = Len(s) + 1
      BY <1>2, <3>1
    <3>2. CASE k # Len(s) + 1
      <4>1. k \in 1..Len(s)
        BY <1>2, <1>3, <2>1, <3>2
      <4> QED
        BY <1>2, <4>1
    <3> QED
      BY <3>1, <3>2
  <2>2. ASSUME NEW k \in 1..Len(s) PROVE s[k] \in {t[i] : i \in 1..Len(t)}
    <3>1. k \in 1..Len(t)
      BY <1>2, <1>3, <2>2
    <3> QED
      BY <1>2, <3>1
  <2>3. m \in {t[i] : i \in 1..Len(t)}
    <3>1. Len(s) + 1 \in 1..Len(t)
      BY <1>2, <1>3
    <3> QED
      BY <1>2, <3>1
  <2> QED
    BY <2>1, <2>2, <2>3
<1> QED
  BY <1>4, <1>5 DEF Carried, s

LEMMA CarriedPart ==
    ASSUME NEW c \in Connections, NEW t \in Seq(CoordinatorMsgs), NEW i \in Nat,
           \A k \in 1..Len(t) : k + i \in 1..Len(c.toP) /\ t[k] = c.toP[k + i]
    PROVE  Carried([c EXCEPT !.toP = t]) \subseteq Carried(c)
<1>1. [c EXCEPT !.toP = t].toP = t
  BY DEF Connections
<1> QED
  BY <1>1 DEF Carried

LEMMA CarriedAfter ==
    ASSUME NEW c \in Connections, NEW n \in 1..Len(c.toP)
    PROVE  Carried([c EXCEPT !.toP = After(c.toP, n)]) \subseteq Carried(c)
<1>1. c.toP \in Seq(CoordinatorMsgs)
  BY DEF Connections
<1>2. After(c.toP, n) \in Seq(CoordinatorMsgs)
  BY <1>1, AfterType
<1>3. \A k \in 1..Len(After(c.toP, n)) :
        k + n \in 1..Len(c.toP) /\ After(c.toP, n)[k] = c.toP[k + n]
  BY <1>1 DEF After
<1> DEFINE t == After(c.toP, n)
<1>4. n \in Nat /\ t \in Seq(CoordinatorMsgs)
  BY <1>1, <1>2
<1> HIDE DEF t
<1>5. Carried([c EXCEPT !.toP = t]) \subseteq Carried(c)
  BY <1>3, <1>4, CarriedPart DEF t
<1> QED
  BY <1>5 DEF t

LEMMA CarriedFront ==
    ASSUME NEW c \in Connections, c.toP # <<>>
    PROVE  Carried([c EXCEPT !.toP = SubSeq(c.toP, 1, Len(c.toP) - 1)]) \subseteq Carried(c)
<1>1. c.toP \in Seq(CoordinatorMsgs)
  BY DEF Connections
<1> DEFINE t == SubSeq(c.toP, 1, Len(c.toP) - 1)
<1>2. t \in Seq(CoordinatorMsgs)
  BY <1>1, FrontType
<1>3. \A k \in 1..Len(t) : k + 0 \in 1..Len(c.toP) /\ t[k] = c.toP[k + 0]
  BY <1>1
<1> QED
  BY <1>2, <1>3, CarriedPart

LEMMA CarriedNew ==
    ASSUME NEW m
    PROVE  /\ Carried(NewConnection(<<>>)) = {} /\ Carried(NewConnection(<<m>>)) = {m}
           /\ NewConnection(<<>>).live /\ NewConnection(<<m>>).live
BY DEF Carried, NewConnection

(* Every message under way is one of the coordinator's. *)
LEMMA CarriedType ==
    ASSUME NEW c \in Connections
    PROVE  Carried(c) \subseteq CoordinatorMsgs
<1>1. c.toP \in Seq(CoordinatorMsgs)
  BY DEF Connections
<1> QED
  BY <1>1 DEF Carried

(* Closing leaves the messages under way, and no live connection. *)
LEMMA ClosedShape ==
    ASSUME NetworkTypes, NEW p \in P, LiveIsCurrent(p)
    PROVE  /\ Closed(p) \in Seq(Connections)
           /\ Len(Closed(p)) = Len(link[p])
           /\ \A c \in 1..Len(link[p]) :
                 Carried(Closed(p)[c]) = Carried(link[p][c]) /\ ~Closed(p)[c].live
<1>1. link[p] \in Seq(Connections)
  BY DEF NetworkTypes
<1>2. CASE Live(p)
  <2> DEFINE last == link[p][Len(link[p])]
  <2>1. Len(link[p]) \in 1..Len(link[p]) /\ last \in Connections
    BY <1>1, <1>2 DEF Live
  <2>2. Closed(p) = [link[p] EXCEPT ![Len(link[p])] = [last EXCEPT !.live = FALSE]]
    BY <1>2 DEF Closed
  <2>3. /\ [last EXCEPT !.live = FALSE].live = FALSE
        /\ [last EXCEPT !.live = FALSE].toP = last.toP
    BY <2>1 DEF Connections
  <2>4. Carried([last EXCEPT !.live = FALSE]) = Carried(last)
    BY <2>3 DEF Carried
  <2>5. \A c \in 1..Len(link[p]) : c # Len(link[p]) => ~link[p][c].live
    BY DEF LiveIsCurrent
  <2>6. Len(Closed(p)) = Len(link[p])
        /\ \A c \in 1..Len(link[p]) :
             Closed(p)[c] = IF c = Len(link[p]) THEN [last EXCEPT !.live = FALSE] ELSE link[p][c]
    BY <1>1, <2>1, <2>2
  <2> QED
    BY <2>3, <2>4, <2>5, <2>6, ClosedType
<1>3. CASE ~Live(p)
  <2>1. Closed(p) = link[p]
    BY <1>3 DEF Closed
  <2>2. \A c \in 1..Len(link[p]) : ~link[p][c].live
    BY <1>1, <1>3 DEF Live, LastOf, LiveIsCurrent
  <2> QED
    BY <1>1, <2>1, <2>2
<1> QED
  BY <1>2, <1>3

(* What is sent joins the live connection, or is lost. *)
LEMMA SentShape ==
    ASSUME NetworkTypes, NEW p \in P, NEW m \in CoordinatorMsgs
    PROVE  /\ Len(Sent(p, m)) = Len(link[p])
           /\ \A c \in 1..Len(link[p]) :
                 /\ Sent(p, m)[c].live = link[p][c].live
                 /\ \/ Carried(Sent(p, m)[c]) = Carried(link[p][c])
                    \/ /\ c = Len(link[p]) /\ link[p][c].live
                       /\ Carried(Sent(p, m)[c]) = Carried(link[p][c]) \cup {m}
<1>1. link[p] \in Seq(Connections)
  BY DEF NetworkTypes
<1>2. CASE Live(p) /\ linkUp[p]
  <2> DEFINE last == link[p][Len(link[p])]
             grown == [last EXCEPT !.toP = Append(@, m)]
  <2>1. Len(link[p]) \in 1..Len(link[p]) /\ last \in Connections /\ last.live
    BY <1>1, <1>2 DEF Live, LastOf
  <2>2. Sent(p, m) = [link[p] EXCEPT ![Len(link[p])] = grown]
    BY <1>2 DEF Sent
  <2>3. grown.live = last.live
    BY <2>1 DEF Connections
  <2>4. Carried(grown) = Carried(last) \cup {m}
    BY <2>1, CarriedAppend
  <2> HIDE DEF grown
  <2>5. Len(Sent(p, m)) = Len(link[p])
        /\ \A c \in 1..Len(link[p]) :
             Sent(p, m)[c] = IF c = Len(link[p]) THEN grown ELSE link[p][c]
    BY <1>1, <2>1, <2>2
  <2> QED
    BY <2>1, <2>3, <2>4, <2>5
<1>3. CASE ~(Live(p) /\ linkUp[p])
  BY <1>1, <1>3 DEF Sent
<1> QED
  BY <1>2, <1>3

LEMMA GrowsSent ==
    ASSUME NetworkTypes, NEW p \in P, NEW m \in CoordinatorMsgs,
           link'[p] \in {link[p], Sent(p, m)}
    PROVE  Grows(p, m)
<1>1. Len(link[p]) \in Nat
  BY DEF NetworkTypes
<1>2. CASE link'[p] = link[p]
  BY <1>1, <1>2 DEF Grows
<1>3. CASE link'[p] = Sent(p, m)
  <2> DEFINE s == Sent(p, m)
  <2>1. /\ Len(s) = Len(link[p])
        /\ \A c \in 1..Len(link[p]) :
              \/ Carried(s[c]) = Carried(link[p][c])
              \/ /\ c = Len(link[p]) /\ link[p][c].live
                 /\ Carried(s[c]) = Carried(link[p][c]) \cup {m}
    BY SentShape
  <2> HIDE DEF s
  <2>2. \A c \in 1..Len(s) : \A x \in Carried(s[c]) :
          \/ c <= Len(link[p]) /\ x \in Carried(link[p][c])
          \/ c = Len(s) /\ x = m /\ (c <= Len(link[p]) => link[p][c].live)
    BY <1>1, <2>1
  <2> QED
    BY <1>1, <1>3, <2>1, <2>2 DEF Grows, s
<1> QED
  BY <1>2, <1>3

(* A new connection after the closed ones. *)
LEMMA OpenedShape ==
    ASSUME NetworkTypes, NEW p \in P, LiveIsCurrent(p), NEW new \in Connections
    PROVE  LET s == Append(Closed(p), new)
           IN /\ Len(s) = Len(link[p]) + 1
              /\ \A c \in 1..Len(link[p]) :
                    Carried(s[c]) = Carried(link[p][c]) /\ ~s[c].live
              /\ s[Len(link[p]) + 1] = new
<1>1. /\ Closed(p) \in Seq(Connections) /\ Len(Closed(p)) = Len(link[p])
      /\ \A c \in 1..Len(link[p]) :
            Carried(Closed(p)[c]) = Carried(link[p][c]) /\ ~Closed(p)[c].live
  BY ClosedShape
<1> DEFINE s == Append(Closed(p), new)
<1>2. /\ Len(s) = Len(Closed(p)) + 1 /\ s[Len(Closed(p)) + 1] = new
      /\ \A c \in 1..Len(Closed(p)) : s[c] = Closed(p)[c]
  BY <1>1
<1> HIDE DEF s
<1> QED
  BY <1>1, <1>2 DEF s

LEMMA GrowsOpened ==
    ASSUME NetworkTypes, NEW p \in P, LiveIsCurrent(p), NEW new \in Connections, NEW m,
           Carried(new) \subseteq {m}, link'[p] = Append(Closed(p), new)
    PROVE  Grows(p, m)
<1>1. Len(link[p]) \in Nat
  BY DEF NetworkTypes
<1> DEFINE s == Append(Closed(p), new)
<1>2. /\ Len(s) = Len(link[p]) + 1
      /\ \A c \in 1..Len(link[p]) : Carried(s[c]) = Carried(link[p][c])
      /\ s[Len(link[p]) + 1] = new
  BY OpenedShape
<1> HIDE DEF s
<1>3. \A c \in 1..Len(s) : \A x \in Carried(s[c]) :
        \/ c <= Len(link[p]) /\ x \in Carried(link[p][c])
        \/ c = Len(s) /\ x = m /\ ~(c <= Len(link[p]))
  <2> SUFFICES ASSUME NEW c \in 1..Len(s), NEW x \in Carried(s[c])
               PROVE  \/ c <= Len(link[p]) /\ x \in Carried(link[p][c])
                      \/ c = Len(s) /\ x = m /\ ~(c <= Len(link[p]))
    OBVIOUS
  <2>1. CASE c \in 1..Len(link[p])
    BY <1>1, <1>2, <2>1
  <2>2. CASE c = Len(link[p]) + 1
    BY <1>1, <1>2, <2>2
  <2> QED
    BY <1>1, <1>2, <2>1, <2>2
<1> QED
  BY <1>1, <1>2, <1>3 DEF Grows, s

-----------------------------------------------------------------------------
(* What sending, opening and closing keep. *)

LEMMA SeenGrows ==
    ASSUME NetworkTypes, NEW p \in P, NEW m, Seen(p), Grows(p, m), m.id = tid,
           part'[p] = part[p], up'[p] = up[p], tid' = tid
    PROVE  Seen(p)'
<1>1. Len(link[p]) \in Nat
  BY DEF NetworkTypes
<1>2. ASSUME NEW c \in 1..Len(link'[p]), NEW x \in Carried(link'[p][c])
      PROVE  x.id = tid
  <2>1. CASE c <= Len(link[p]) /\ x \in Carried(link[p][c])
    <3>1. c \in 1..Len(link[p])
      BY <1>1, <2>1 DEF Grows
    <3> QED
      BY <2>1, <3>1 DEF Seen
  <2> QED
    BY <2>1 DEF Grows
<1> QED
  BY <1>2 DEF Seen, IsAbout

LEMMA CommitsGrow ==
    ASSUME NetworkTypes, NEW p \in P, NEW m, DecisionsMeetTheirWrite(p), LiveIsCurrent(p),
           Grows(p, m), m.id = tid, m.type \in {"COMMIT", "ABORT"} => Seen(p),
           m.type = "COMMIT" /\ ~IdsMayRepeat => tid \in committed,
           part'[p] = part[p], up'[p] = up[p], committed \subseteq committed'
    PROVE  DecisionsMeetTheirWrite(p)'
<1>1. Len(link[p]) \in Nat
  BY DEF NetworkTypes
<1> SUFFICES ASSUME NEW c \in 1..Len(link'[p]), NEW y \in Carried(link'[p][c]),
                    y.type \in {"COMMIT", "ABORT"}
             PROVE  /\ y.type = "COMMIT" /\ ~IdsMayRepeat => y.id \in committed'
                    /\ IsAbout(p, y.id)'
                    /\ \A d \in 1..c : \A x \in Carried(link'[p][d]) : x.id = y.id
  BY DEF DecisionsMeetTheirWrite
<1>2. Len(link'[p]) \in Nat /\ c \in Nat
  BY <1>1 DEF Grows
<1>3. CASE c <= Len(link[p]) /\ y \in Carried(link[p][c])
  <2>1. c \in 1..Len(link[p])
    BY <1>1, <1>2, <1>3
  <2>2. /\ y.type = "COMMIT" /\ ~IdsMayRepeat => y.id \in committed
        /\ IsAbout(p, y.id)
        /\ \A d \in 1..c : \A x \in Carried(link[p][d]) : x.id = y.id
    BY <1>3, <2>1 DEF DecisionsMeetTheirWrite
  <2>3. ASSUME NEW d \in 1..c, NEW x \in Carried(link'[p][d])
        PROVE  x.id = y.id
    <3>1. d \in 1..Len(link'[p])
      BY <1>2
    <3>2. CASE x \in Carried(link[p][d])
      BY <2>2, <3>2
    <3>3. CASE d = Len(link'[p]) /\ x = m /\ (d <= Len(link[p]) => link[p][d].live)
      <4>1. d = c
        BY <1>2, <3>3
      <4>2. link[p][c].live
        BY <1>3, <3>3, <4>1
      <4>3. y.id = tid
        BY <1>3, <2>1, <4>2 DEF LiveIsCurrent
      <4> QED
        BY <3>3, <4>3
    <3> QED
      BY <3>1, <3>2, <3>3 DEF Grows
  <2> QED
    BY <2>2, <2>3 DEF IsAbout
<1>4. CASE c = Len(link'[p]) /\ y = m
  <2>1. Seen(p) /\ (y.type = "COMMIT" /\ ~IdsMayRepeat => tid \in committed) /\ y.id = tid
    BY <1>4
  <2>2. ASSUME NEW d \in 1..c, NEW x \in Carried(link'[p][d])
        PROVE  x.id = tid
    <3>1. d \in 1..Len(link'[p])
      BY <1>2
    <3>2. CASE d <= Len(link[p]) /\ x \in Carried(link[p][d])
      <4>1. d \in 1..Len(link[p])
        BY <1>1, <3>2
      <4> QED
        BY <2>1, <3>2, <4>1 DEF Seen
    <3> QED
      BY <2>1, <3>1, <3>2 DEF Grows
  <2> QED
    BY <2>1, <2>2 DEF Seen, IsAbout
<1> QED
  BY <1>3, <1>4 DEF Grows

LEMMA LiveSent ==
    ASSUME NetworkTypes, NEW p \in P, NEW m \in CoordinatorMsgs, LiveIsCurrent(p),
           link'[p] \in {link[p], Sent(p, m)}, m.id = tid, tid' = tid,
           sock'[p] = sock[p], eof'[p] = eof[p], pc' # "connect"
    PROVE  LiveIsCurrent(p)'
<1>1. CASE link'[p] = link[p]
  BY <1>1 DEF LiveIsCurrent
<1>2. CASE link'[p] = Sent(p, m)
  <2> DEFINE s == Sent(p, m)
  <2>1. Len(s) = Len(link[p])
        /\ \A c \in 1..Len(link[p]) :
              /\ s[c].live = link[p][c].live
              /\ Carried(s[c]) \subseteq Carried(link[p][c]) \cup {m}
    BY SentShape
  <2> HIDE DEF s
  <2>2. ASSUME NEW c \in 1..Len(s), s[c].live
        PROVE  /\ c = Len(s) /\ sock[p] /\ ~eof[p]
               /\ \A x \in Carried(s[c]) : x.id = tid
    <3>1. c \in 1..Len(link[p]) /\ link[p][c].live
          /\ Carried(s[c]) \subseteq Carried(link[p][c]) \cup {m}
      BY <2>1, <2>2
    <3>2. /\ c = Len(link[p]) /\ sock[p] /\ ~eof[p]
          /\ \A x \in Carried(link[p][c]) : x.id = tid
      BY <3>1 DEF LiveIsCurrent
    <3> QED
      BY <2>1, <3>1, <3>2
  <2>3. link'[p] = s
    BY <1>2 DEF s
  <2> QED
    BY <2>2, <2>3 DEF LiveIsCurrent
<1> QED
  BY <1>1, <1>2

LEMMA LiveClosed ==
    ASSUME NetworkTypes, NEW p \in P, LiveIsCurrent(p), link'[p] = Closed(p)
    PROVE  LiveIsCurrent(p)'
BY ClosedShape DEF LiveIsCurrent

LEMMA LiveOpened ==
    ASSUME NetworkTypes, NEW p \in P, LiveIsCurrent(p), NEW new \in Connections,
           link'[p] = Append(Closed(p), new), sock'[p], ~eof'[p],
           \A x \in Carried(new) : x.id = tid' /\ pc' # "connect"
    PROVE  LiveIsCurrent(p)'
<1>1. Len(link[p]) \in Nat
  BY DEF NetworkTypes
<1>2. /\ Len(link'[p]) = Len(link[p]) + 1
      /\ \A c \in 1..Len(link[p]) : ~link'[p][c].live
      /\ link'[p][Len(link[p]) + 1] = new
  BY OpenedShape
<1> SUFFICES ASSUME NEW c \in 1..Len(link'[p]), link'[p][c].live
             PROVE  /\ c = Len(link'[p]) /\ sock'[p] /\ ~eof'[p]
                    /\ \A x \in Carried(link'[p][c]) : x.id = tid'
                    /\ pc' = "connect" => Carried(link'[p][c]) = {}
  BY DEF LiveIsCurrent
<1>3. c = Len(link[p]) + 1
  BY <1>1, <1>2
<1> QED
  BY <1>2, <1>3

-----------------------------------------------------------------------------
(* The steps of the coordinator. *)

(* Where no socket is open, nothing that the coordinator forgets is under way. *)
LEMMA DeliveryWithoutSockets ==
    ASSUME Delivery, Open = {}, UNCHANGED <<toC, eof, link, part, up, sock, committed>>,
           pc' \in {"idle", "connect", "get"}
    PROVE  Delivery'
<1>1. \A p \in P : ~sock[p]
  BY DEF Open
<1>2. \A p \in P : DecisionsMeetTheirWrite(p)'
  BY DEF Delivery, DecisionsMeetTheirWrite, IsAbout
<1>3. \A p \in P : LiveIsCurrent(p)'
  BY <1>1 DEF Delivery, LiveIsCurrent
<1>4. \A p \in P : VotersHaveSeen(p)'
  BY <1>1 DEF VotersHaveSeen
<1>5. DecidedIsCommitted'
  BY DEF DecidedIsCommitted
<1> QED
  BY <1>2, <1>3, <1>4, <1>5 DEF Delivery

LEMMA QuietStepsDeliver ==
    ASSUME IInv, Delivery,
           \/ \E r \in Requests : Request(r)
           \/ NobodyConnected \/ AllLostInPhaseOne \/ FinishWrite \/ FinishRead
           \/ NobodyAnswered \/ SkipNext \/ ReadFailed
    PROVE  Delivery'
<1>1. Open = {}
  <2>1. CASE (\E r \in Requests : Request(r)) \/ NobodyAnswered \/ SkipNext
    BY <2>1 DEF IInv, Books, Request, NobodyAnswered, SkipNext
  <2>2. CASE FinishWrite \/ FinishRead \/ ReadFailed
    BY <2>2, NobodyWatched DEF IInv, Books, FinishWrite, FinishRead, ReadFailed
  <2>3. CASE NobodyConnected \/ AllLostInPhaseOne
    <3>1. Open \in SUBSET P
      BY DEF Open
    <3>2. alive = 0 /\ alive = Cardinality(Open)
      BY <2>3, NobodyWatched DEF IInv, Books, NobodyConnected, AllLostInPhaseOne
    <3> QED
      BY <3>1, <3>2, CountOfParts
  <2> QED
    BY <2>1, <2>2, <2>3
<1>2. /\ UNCHANGED <<toC, eof, link, part, up, sock, committed>>
      /\ pc' \in {"idle", "connect", "get"}
  BY DEF Request, NobodyConnected, AllLostInPhaseOne, FinishWrite, FinishRead, NobodyAnswered,
         SkipNext, ReadFailed, Answer, network, participants, history
<1> QED
  BY <1>1, <1>2, DeliveryWithoutSockets

LEMMA ConnectNextDelivers ==
    ASSUME IInv, Delivery, ConnectNext
    PROVE  Delivery'
<1>1. /\ pc = "connect" /\ pc' = "connect" /\ tid' = tid /\ part' = part /\ up' = up /\ committed' = committed
      /\ idx \in P /\ NetworkTypes /\ CoordinatorTypes
  BY SizesAssumption DEF ConnectNext, participants, history, IInv, CoordinatorTypes, P
<1>2. DecidedIsCommitted'
  BY <1>1 DEF DecidedIsCommitted
<1>3. CASE UNCHANGED <<sock, network>>
  <2>1. \A p \in P : DecisionsMeetTheirWrite(p)' /\ LiveIsCurrent(p)' /\ VotersHaveSeen(p)'
    <3>1. UNCHANGED <<link, toC, sock, eof>>
      BY <1>3 DEF network
    <3>2. \A p \in P : DecisionsMeetTheirWrite(p)'
      BY <1>1, <3>1 DEF Delivery, DecisionsMeetTheirWrite, IsAbout
    <3>3. \A p \in P : LiveIsCurrent(p)' /\ VotersHaveSeen(p)'
      BY <1>1, <3>1 DEF Delivery, LiveIsCurrent, VotersHaveSeen
    <3> QED
      BY <3>2, <3>3
  <2> QED
    BY <1>2, <2>1 DEF Delivery
<1>4. CASE Connected(idx, <<>>)
  <2> DEFINE new == NewConnection(<<>>)
             m == PrepareRequest(tid, op)
  <2>1. new \in Connections /\ Carried(new) = {}
    <3>1. new \in Connections
      BY DEF NewConnection, Connections
    <3>2. Carried(new) = {}
      BY CarriedNew
    <3> QED
      BY <3>1, <3>2
  <2>2. m.id = tid /\ m.type = "PREPARED-REQUEST"
    BY DEF PrepareRequest
  <2> HIDE DEF new, m
  <2>3. ASSUME NEW p \in P
        PROVE  DecisionsMeetTheirWrite(p)' /\ LiveIsCurrent(p)' /\ VotersHaveSeen(p)'
    <3>1. DecisionsMeetTheirWrite(p) /\ LiveIsCurrent(p) /\ VotersHaveSeen(p)
      BY DEF Delivery
    <3>2. CASE p # idx
      <4>1. link'[p] = link[p] /\ toC'[p] = toC[p] /\ sock'[p] = sock[p] /\ eof'[p] = eof[p]
        BY <1>1, <1>4, <3>2 DEF Connected, CoordinatorTypes, NetworkTypes
      <4>2. DecisionsMeetTheirWrite(p)'
        BY <1>1, <3>1, <4>1 DEF DecisionsMeetTheirWrite, IsAbout
      <4>3. LiveIsCurrent(p)'
        BY <1>1, <3>1, <4>1 DEF LiveIsCurrent
      <4>4. VotersHaveSeen(p)'
        BY <1>1, <3>1, <4>1 DEF VotersHaveSeen
      <4> QED
        BY <4>2, <4>3, <4>4
    <3>3. CASE p = idx
      <4>1. link'[p] = Append(Closed(p), new) /\ toC'[p] = <<>> /\ sock'[p] = TRUE /\ eof'[p] = FALSE
        BY <1>1, <1>4, <3>3 DEF Connected, CoordinatorTypes, NetworkTypes, new
      <4>2. Grows(p, m)
        BY <1>1, <2>1, <3>1, <4>1, GrowsOpened
      <4>3. DecisionsMeetTheirWrite(p)'
        BY <1>1, <2>2, <3>1, <4>2, CommitsGrow
      <4>4. LiveIsCurrent(p)'
        BY <1>1, <2>1, <3>1, <4>1, LiveOpened
      <4>5. VotersHaveSeen(p)'
        BY <1>1, <4>1 DEF VotersHaveSeen
      <4> QED
        BY <4>3, <4>4, <4>5
    <3> QED
      BY <3>2, <3>3
  <2> QED
    BY <1>2, <2>3 DEF Delivery
<1> QED
  BY <1>3, <1>4 DEF ConnectNext, Unreachable

LEMMA BeginPrepareDelivers ==
    ASSUME IInv, Delivery, BeginPrepare
    PROVE  Delivery'
<1>1. /\ pc = "connect" /\ pc' = "prepare" /\ UNCHANGED <<toC, eof, link, part, up, sock, committed>>
  BY DEF BeginPrepare, network, participants, history
<1>2. ASSUME NEW p \in P
      PROVE  DecisionsMeetTheirWrite(p)' /\ LiveIsCurrent(p)' /\ VotersHaveSeen(p)'
  <2>1. DecisionsMeetTheirWrite(p) /\ LiveIsCurrent(p) /\ VotersHaveSeen(p)
    BY DEF Delivery
  <2> QED
    BY <1>1, <2>1 DEF DecisionsMeetTheirWrite, IsAbout, LiveIsCurrent, VotersHaveSeen
<1>3. DecidedIsCommitted'
  BY <1>1 DEF DecidedIsCommitted
<1> QED
  BY <1>2, <1>3 DEF Delivery

(* The message of the phase is about the current transaction; a COMMIT is only
   sent to those who have seen it. *)
LEMMA CurrentMsgFits ==
    ASSUME IInv, Delivery, pc \in {"prepare", "waitPrepared", "decide", "waitDone"}
    PROVE  /\ CurrentMsg \in CoordinatorMsgs /\ CurrentMsg.id = tid
           /\ \A p \in Open : CurrentMsg.type \in {"COMMIT", "ABORT"} => Seen(p)
           /\ CurrentMsg.type = "COMMIT" /\ ~IdsMayRepeat => tid \in committed
<1>1. CurrentMsg \in CoordinatorMsgs
  BY CurrentMsgType DEF IInv
<1>2. CurrentMsg.id = tid
  BY DEF CurrentMsg, PrepareRequest, Commit, Abort
<1>3. ASSUME CurrentMsg.type \in {"COMMIT", "ABORT"}
      PROVE  pc \in {"decide", "waitDone"} /\ op.method # "GET"
             /\ (CurrentMsg.type = "COMMIT" => decision = 1)
  BY <1>3 DEF CurrentMsg, PrepareRequest, Abort
<1>4. CurrentMsg.type = "COMMIT" /\ ~IdsMayRepeat => tid \in committed
  BY <1>3 DEF Delivery, DecidedIsCommitted
<1>5. ASSUME NEW p \in Open, CurrentMsg.type \in {"COMMIT", "ABORT"}
      PROVE  Seen(p)
  BY <1>3, <1>5 DEF Delivery, VotersHaveSeen, Open
<1> QED
  BY <1>1, <1>2, <1>4, <1>5

(* Sending the message of the phase to a participant with an open socket. *)
LEMMA SendingDelivers ==
    ASSUME IInv, Delivery, pc \in {"prepare", "waitPrepared", "decide", "waitDone"},
           pc' = pc, op' = op, tid' = tid, decision' = decision, part' = part, up' = up, committed' = committed,
           NEW p \in P, link'[p] \in {link[p], Sent(p, CurrentMsg)},
           link'[p] # link[p] => p \in Open,
           sock'[p] = sock[p], eof'[p] = eof[p], toC'[p] = toC[p], watch' = watch
    PROVE  DecisionsMeetTheirWrite(p)' /\ LiveIsCurrent(p)' /\ VotersHaveSeen(p)'
<1> DEFINE m == CurrentMsg
<1>1. NetworkTypes /\ DecisionsMeetTheirWrite(p) /\ LiveIsCurrent(p) /\ VotersHaveSeen(p)
  BY DEF IInv, Delivery
<1>2. /\ m \in CoordinatorMsgs /\ m.id = tid
      /\ p \in Open /\ m.type \in {"COMMIT", "ABORT"} => Seen(p)
      /\ m.type = "COMMIT" /\ ~IdsMayRepeat => tid \in committed
  BY CurrentMsgFits
<1> HIDE DEF m
<1>3. Grows(p, m)
  BY <1>1, <1>2, GrowsSent DEF m
<1>4. LiveIsCurrent(p)'
  BY <1>1, <1>2, LiveSent DEF m
<1>5. DecisionsMeetTheirWrite(p)'
  <2>1. CASE link'[p] = link[p]
    BY <1>1, <2>1 DEF DecisionsMeetTheirWrite, IsAbout
  <2>2. CASE link'[p] # link[p]
    BY <1>1, <1>2, <1>3, <2>2, CommitsGrow
  <2> QED
    BY <2>1, <2>2
<1>6. Seen(p) => Seen(p)'
  BY <1>1, <1>2, <1>3, SeenGrows
<1>7. VotersHaveSeen(p)'
  BY <1>1, <1>6 DEF VotersHaveSeen
<1> QED
  BY <1>4, <1>5, <1>7

LEMMA SendNextDelivers ==
    ASSUME IInv, Delivery, SendNext
    PROVE  Delivery'
<1>1. /\ pc \in {"prepare", "decide"} /\ pc' = pc /\ op' = op /\ tid' = tid /\ decision' = decision
      /\ watch' = watch /\ part' = part /\ up' = up /\ committed' = committed
      /\ sock' = sock /\ eof' = eof /\ toC' = toC
      /\ link' = IF sock[idx] THEN [link EXCEPT ![idx] = Sent(idx, CurrentMsg)] ELSE link
      /\ idx \in P /\ NetworkTypes
  BY SizesAssumption DEF SendNext, participants, history, IInv, CoordinatorTypes, P
<1>2. ASSUME NEW p \in P
      PROVE  DecisionsMeetTheirWrite(p)' /\ LiveIsCurrent(p)' /\ VotersHaveSeen(p)'
  <2>1. link'[p] \in {link[p], Sent(p, CurrentMsg)} /\ (link'[p] # link[p] => p \in Open)
    BY <1>1 DEF NetworkTypes, Open
  <2> QED
    BY <1>1, <2>1, SendingDelivers
<1>3. DecidedIsCommitted'
  BY <1>1 DEF DecidedIsCommitted, Delivery
<1> QED
  BY <1>2, <1>3 DEF Delivery

LEMMA BeginWaitDelivers ==
    ASSUME IInv, Delivery, BeginWait
    PROVE  Delivery'
<1>1. /\ pc \in {"prepare", "decide"} /\ pc' = (IF pc = "prepare" THEN "waitPrepared" ELSE "waitDone")
      /\ watch' = {p \in P : sock[p]} /\ UNCHANGED <<op, tid, decision>>
      /\ UNCHANGED <<toC, eof, link, part, up, sock, committed>>
  BY DEF BeginWait, network, participants, history
<1>2. ASSUME NEW p \in P
      PROVE  DecisionsMeetTheirWrite(p)' /\ LiveIsCurrent(p)' /\ VotersHaveSeen(p)'
  <2>1. DecisionsMeetTheirWrite(p) /\ LiveIsCurrent(p) /\ VotersHaveSeen(p)
    BY DEF Delivery
  <2>2. DecisionsMeetTheirWrite(p)' /\ LiveIsCurrent(p)'
    BY <1>1, <2>1 DEF DecisionsMeetTheirWrite, IsAbout, LiveIsCurrent
  <2>3. Seen(p) => Seen(p)'
    BY <1>1 DEF Seen, IsAbout
  <2>4. VotersHaveSeen(p)'
    BY <1>1, <2>1, <2>3 DEF VotersHaveSeen
  <2> QED
    BY <2>2, <2>4
<1>3. DecidedIsCommitted'
  BY <1>1 DEF DecidedIsCommitted, Delivery
<1> QED
  BY <1>2, <1>3 DEF Delivery

LEMMA ReceivePreparedDelivers ==
    ASSUME IInv, Delivery, NEW q \in P, ReceivePrepared(q)
    PROVE  Delivery'
<1>1. PICK n \in 1..Len(toC[q]) : toC' = [toC EXCEPT ![q] = After(@, n)]
  BY DEF ReceivePrepared
<1>2. /\ pc = "waitPrepared" /\ pc' = pc /\ watch' = watch \ {q}
      /\ UNCHANGED <<op, tid, decision, eof, link, part, up, sock, committed>> /\ NetworkTypes
  BY DEF ReceivePrepared, participants, history, IInv
<1>3. toC[q] # <<>>
  BY <1>1, <1>2 DEF NetworkTypes
<1>4. ASSUME NEW p \in P
      PROVE  DecisionsMeetTheirWrite(p)' /\ LiveIsCurrent(p)' /\ VotersHaveSeen(p)'
  <2>1. DecisionsMeetTheirWrite(p) /\ LiveIsCurrent(p) /\ VotersHaveSeen(p)
    BY DEF Delivery
  <2>2. DecisionsMeetTheirWrite(p)' /\ LiveIsCurrent(p)'
    BY <1>2, <2>1 DEF DecisionsMeetTheirWrite, IsAbout, LiveIsCurrent
  <2>3. Seen(p) => Seen(p)'
    BY <1>2 DEF Seen, IsAbout
  <2>4. p # q => toC'[p] = toC[p]
    BY <1>1, <1>2 DEF NetworkTypes
  <2>5. VotersHaveSeen(p)'
    BY <1>2, <1>3, <2>1, <2>3, <2>4 DEF VotersHaveSeen
  <2> QED
    BY <2>2, <2>5
<1>5. DecidedIsCommitted'
  BY <1>2 DEF DecidedIsCommitted
<1> QED
  BY <1>4, <1>5 DEF Delivery

(* Closing the coordinator's end of the connection with p. *)
LEMMA ClosingKeepsCommits ==
    ASSUME NetworkTypes, NEW p \in P, DecisionsMeetTheirWrite(p), LiveIsCurrent(p),
           link'[p] = Closed(p), part'[p] = part[p], up'[p] = up[p], committed' = committed
    PROVE  DecisionsMeetTheirWrite(p)' /\ LiveIsCurrent(p)' /\ (Seen(p) /\ tid' = tid => Seen(p)')
<1>1. /\ Len(link'[p]) = Len(link[p])
      /\ \A c \in 1..Len(link[p]) : Carried(link'[p][c]) = Carried(link[p][c])
  <2> DEFINE s == Closed(p)
  <2>1. /\ Len(s) = Len(link[p])
        /\ \A c \in 1..Len(link[p]) : Carried(s[c]) = Carried(link[p][c])
    BY ClosedShape
  <2> HIDE DEF s
  <2> QED
    BY <2>1 DEF s
<1>2. Len(link[p]) \in Nat
  BY DEF NetworkTypes
<1>3. DecisionsMeetTheirWrite(p)'
  <2> SUFFICES ASSUME NEW c \in 1..Len(link'[p]), NEW y \in Carried(link'[p][c]),
                      y.type \in {"COMMIT", "ABORT"}
               PROVE  /\ y.type = "COMMIT" /\ ~IdsMayRepeat => y.id \in committed'
                      /\ IsAbout(p, y.id)'
                      /\ \A d \in 1..c : \A x \in Carried(link'[p][d]) : x.id = y.id
    BY DEF DecisionsMeetTheirWrite, IsAbout
  <2>1. c \in 1..Len(link[p]) /\ y \in Carried(link[p][c])
    BY <1>1
  <2>2. \A d \in 1..c : d \in 1..Len(link[p])
    BY <1>2, <2>1
  <2> QED
    BY <1>1, <2>1, <2>2 DEF DecisionsMeetTheirWrite, IsAbout
<1>4. LiveIsCurrent(p)'
  BY LiveClosed
<1>5. Seen(p) /\ tid' = tid => Seen(p)'
  BY <1>1 DEF Seen, IsAbout
<1> QED
  BY <1>3, <1>4, <1>5

(* A step of somebody else. *)
LEMMA ElsewhereDelivers ==
    ASSUME Delivery, NEW p \in P, pc' = pc, op' = op, tid' = tid, committed' = committed,
           link'[p] = link[p], part'[p] = part[p], up'[p] = up[p], sock'[p] = sock[p], eof'[p] = eof[p],
           toC'[p] = toC[p], p \in watch => p \in watch'
    PROVE  DecisionsMeetTheirWrite(p)' /\ LiveIsCurrent(p)' /\ VotersHaveSeen(p)'
<1>1. DecisionsMeetTheirWrite(p) /\ LiveIsCurrent(p) /\ VotersHaveSeen(p)
  BY DEF Delivery
<1>2. DecisionsMeetTheirWrite(p)'
  BY <1>1 DEF DecisionsMeetTheirWrite, IsAbout
<1>3. LiveIsCurrent(p)'
  BY <1>1 DEF LiveIsCurrent
<1>4. Seen(p) => Seen(p)'
  BY DEF Seen, IsAbout
<1>5. VotersHaveSeen(p)'
  BY <1>1, <1>4 DEF VotersHaveSeen
<1> QED
  BY <1>2, <1>3, <1>5

LEMMA ReceiveDoneDelivers ==
    ASSUME IInv, Delivery, NEW q \in P, ReceiveDone(q)
    PROVE  Delivery'
<1>1. /\ pc = "waitDone" /\ UNCHANGED <<pc, op, tid, decision, part, up, committed>>
      /\ CoordinatorTypes /\ NetworkTypes
  BY DEF ReceiveDone, participants, history, IInv
<1>2. /\ sock' = [sock EXCEPT ![q] = FALSE] /\ toC' = [toC EXCEPT ![q] = <<>>]
      /\ eof' = [eof EXCEPT ![q] = FALSE] /\ link' = [link EXCEPT ![q] = Closed(q)]
      /\ watch' = watch \ {q}
  BY DEF ReceiveDone
<1>3. ASSUME NEW p \in P
      PROVE  DecisionsMeetTheirWrite(p)' /\ LiveIsCurrent(p)' /\ VotersHaveSeen(p)'
  <2>1. CASE p # q
    <3>1. /\ link'[p] = link[p] /\ sock'[p] = sock[p] /\ eof'[p] = eof[p] /\ toC'[p] = toC[p]
          /\ p \in watch => p \in watch'
      BY <1>1, <1>2, <2>1 DEF CoordinatorTypes, NetworkTypes
    <3> QED
      BY <1>1, <3>1, ElsewhereDelivers
  <2>2. CASE p = q
    <3>1. link'[p] = Closed(p) /\ sock'[p] = FALSE
      BY <1>1, <1>2, <2>2 DEF CoordinatorTypes, NetworkTypes
    <3>2. DecisionsMeetTheirWrite(p)' /\ LiveIsCurrent(p)'
      BY <1>1, <3>1, ClosingKeepsCommits DEF Delivery
    <3>3. VotersHaveSeen(p)'
      BY <3>1 DEF VotersHaveSeen
    <3> QED
      BY <3>2, <3>3
  <2> QED
    BY <2>1, <2>2
<1>4. DecidedIsCommitted'
  BY <1>1 DEF DecidedIsCommitted, Delivery
<1> QED
  BY <1>3, <1>4 DEF Delivery

LEMMA ConnectionLostDelivers ==
    ASSUME IInv, Delivery, NEW q \in P, ConnectionLost(q)
    PROVE  Delivery'
<1>1. /\ pc \in {"waitPrepared", "waitDone"} /\ q \in watch /\ q \in Open /\ eof[q]
      /\ UNCHANGED <<pc, op, tid, decision, part, up, committed>>
      /\ CoordinatorTypes /\ NetworkTypes
  BY DEF ConnectionLost, Waiting, participants, history, IInv, Books
<1>2. DecidedIsCommitted'
  BY <1>1 DEF DecidedIsCommitted, Delivery
<1>3. CASE Connected(q, <<CurrentMsg>>) /\ watch' = watch
  <2> DEFINE m == CurrentMsg
             new == NewConnection(<<m>>)
  <2>1. /\ m \in CoordinatorMsgs /\ m.id = tid
        /\ m.type \in {"COMMIT", "ABORT"} => Seen(q)
        /\ m.type = "COMMIT" /\ ~IdsMayRepeat => tid \in committed
    BY <1>1, CurrentMsgFits
  <2>2. new \in Connections /\ Carried(new) = {m}
    BY <2>1, NewConnectionType, CarriedNew
  <2>3. /\ sock' = [sock EXCEPT ![q] = TRUE] /\ toC' = [toC EXCEPT ![q] = <<>>]
        /\ eof' = [eof EXCEPT ![q] = FALSE] /\ link' = [link EXCEPT ![q] = Append(Closed(q), new)]
    BY <1>3 DEF Connected
  <2> HIDE DEF m, new
  <2>4. ASSUME NEW p \in P
        PROVE  DecisionsMeetTheirWrite(p)' /\ LiveIsCurrent(p)' /\ VotersHaveSeen(p)'
    <3>1. DecisionsMeetTheirWrite(p) /\ LiveIsCurrent(p) /\ VotersHaveSeen(p)
      BY DEF Delivery
    <3>2. CASE p # q
      <4>1. link'[p] = link[p] /\ sock'[p] = sock[p] /\ eof'[p] = eof[p] /\ toC'[p] = toC[p]
        BY <1>1, <2>3, <3>2 DEF CoordinatorTypes, NetworkTypes
      <4> QED
        BY <1>1, <1>3, <4>1, ElsewhereDelivers
    <3>3. CASE p = q
      <4>1. link'[p] = Append(Closed(p), new) /\ toC'[p] = <<>> /\ sock'[p] = TRUE /\ eof'[p] = FALSE
        BY <1>1, <2>3, <3>3 DEF CoordinatorTypes, NetworkTypes
      <4>2. Grows(p, m)
        BY <1>1, <2>2, <3>1, <4>1, GrowsOpened
      <4>3. DecisionsMeetTheirWrite(p)'
        BY <1>1, <2>1, <3>1, <3>3, <4>2, CommitsGrow
      <4>4. LiveIsCurrent(p)'
        BY <1>1, <2>1, <2>2, <3>1, <4>1, LiveOpened
      <4>5. Seen(p) => Seen(p)'
        BY <1>1, <2>1, <4>2, SeenGrows
      <4>6. VotersHaveSeen(p)'
        BY <1>1, <1>3, <3>1, <3>3, <4>1, <4>5 DEF VotersHaveSeen, Open
      <4> QED
        BY <4>3, <4>4, <4>6
    <3> QED
      BY <3>2, <3>3
  <2> QED
    BY <1>2, <2>4 DEF Delivery
<1>4. CASE GiveUp(q)
  <2>1. /\ sock' = [sock EXCEPT ![q] = FALSE] /\ eof' = [eof EXCEPT ![q] = FALSE]
        /\ watch' = watch \ {q} /\ toC' = toC /\ link' = link
    BY <1>4 DEF GiveUp
  <2>2. ASSUME NEW p \in P
        PROVE  DecisionsMeetTheirWrite(p)' /\ LiveIsCurrent(p)' /\ VotersHaveSeen(p)'
    <3>1. DecisionsMeetTheirWrite(p) /\ LiveIsCurrent(p) /\ VotersHaveSeen(p)
      BY DEF Delivery
    <3>2. CASE p # q
      <4>1. sock'[p] = sock[p] /\ eof'[p] = eof[p] /\ (p \in watch => p \in watch')
        BY <1>1, <2>1, <3>2 DEF CoordinatorTypes, NetworkTypes
      <4> QED
        BY <1>1, <2>1, <4>1, ElsewhereDelivers
    <3>3. CASE p = q
      <4>1. sock'[p] = FALSE
        BY <1>1, <2>1, <3>3 DEF CoordinatorTypes
      <4>2. DecisionsMeetTheirWrite(p)'
        BY <1>1, <2>1, <3>1 DEF DecisionsMeetTheirWrite, IsAbout
      <4>3. LiveIsCurrent(p)'
        BY <1>1, <2>1, <3>1, <3>3 DEF LiveIsCurrent
      <4>4. VotersHaveSeen(p)'
        BY <4>1 DEF VotersHaveSeen
      <4> QED
        BY <4>2, <4>3, <4>4
    <3> QED
      BY <3>2, <3>3
  <2> QED
    BY <1>2, <2>2 DEF Delivery
<1> QED
  BY <1>3, <1>4 DEF ConnectionLost

LEMMA ExpireDelivers ==
    ASSUME IInv, Delivery, Expire
    PROVE  Delivery'
<1>1. /\ pc \in {"waitPrepared", "waitDone"} /\ UNCHANGED <<pc, op, tid, decision, part, up, committed>>
      /\ CoordinatorTypes /\ NetworkTypes /\ watch \subseteq Open
  BY DEF Expire, Waiting, participants, history, IInv, Books
<1>2. DecidedIsCommitted'
  BY <1>1 DEF DecidedIsCommitted, Delivery
<1>3. CASE EvictWatched
  <2>1. ASSUME NEW p \in P
        PROVE  DecisionsMeetTheirWrite(p)' /\ LiveIsCurrent(p)' /\ VotersHaveSeen(p)'
    <3>1. /\ sock'[p] = (sock[p] /\ p \notin watch) /\ eof'[p] = (eof[p] /\ p \notin watch)
          /\ toC'[p] = (IF p \in watch THEN <<>> ELSE toC[p])
          /\ link'[p] = (IF p \in watch THEN Closed(p) ELSE link[p])
      BY <1>3 DEF EvictWatched
    <3>2. CASE p \notin watch
      <4>1. sock'[p] = sock[p] /\ eof'[p] = eof[p] /\ toC'[p] = toC[p] /\ link'[p] = link[p]
        BY <1>1, <3>1, <3>2 DEF CoordinatorTypes, NetworkTypes
      <4> QED
        BY <1>1, <3>2, <4>1, ElsewhereDelivers
    <3>3. CASE p \in watch
      <4>1. link'[p] = Closed(p) /\ sock'[p] = FALSE
        BY <3>1, <3>3
      <4>2. DecisionsMeetTheirWrite(p)' /\ LiveIsCurrent(p)'
        BY <1>1, <4>1, ClosingKeepsCommits DEF Delivery
      <4>3. VotersHaveSeen(p)'
        BY <4>1 DEF VotersHaveSeen
      <4> QED
        BY <4>2, <4>3
    <3> QED
      BY <3>2, <3>3
  <2> QED
    BY <1>2, <2>1 DEF Delivery
<1>4. CASE ResendToWatched
  <2>1. ASSUME NEW p \in P
        PROVE  DecisionsMeetTheirWrite(p)' /\ LiveIsCurrent(p)' /\ VotersHaveSeen(p)'
    <3>1. /\ link'[p] \in {link[p], Sent(p, CurrentMsg)} /\ (link'[p] # link[p] => p \in Open)
          /\ sock'[p] = sock[p] /\ eof'[p] = eof[p] /\ toC'[p] = toC[p] /\ watch' = watch
      BY <1>1, <1>4 DEF ResendToWatched
    <3> QED
      BY <1>1, <3>1, SendingDelivers
  <2> QED
    BY <1>2, <2>1 DEF Delivery
<1> QED
  BY <1>3, <1>4 DEF Expire

(* The votes are counted when nobody is watched any more: whoever is left with
   an open socket has seen the transaction. *)
LEMMA DecideDelivers ==
    ASSUME IInv, Delivery, Decide
    PROVE  Delivery'
<1>1. /\ pc = "waitPrepared" /\ pc' = "decide" /\ watch = {}
      /\ UNCHANGED <<op, tid, sock, toC, eof, link, part, up>>
  BY NobodyWatched DEF Decide, participants, network, IInv
<1>2. committed \subseteq committed' /\ (decision' = 1 /\ ~IdsMayRepeat => tid' \in committed')
  BY <1>1 DEF Decide, history
<1>3. ASSUME NEW p \in P
      PROVE  DecisionsMeetTheirWrite(p)' /\ LiveIsCurrent(p)' /\ VotersHaveSeen(p)'
  <2>1. DecisionsMeetTheirWrite(p) /\ LiveIsCurrent(p) /\ VotersHaveSeen(p)
    BY DEF Delivery
  <2>2. DecisionsMeetTheirWrite(p)'
    BY <1>1, <1>2, <2>1 DEF DecisionsMeetTheirWrite, IsAbout
  <2>3. LiveIsCurrent(p)'
    BY <1>1, <2>1 DEF LiveIsCurrent
  <2>4. sock[p] => Seen(p)
    BY <1>1, <2>1 DEF VotersHaveSeen
  <2>5. Seen(p) => Seen(p)'
    BY <1>1 DEF Seen, IsAbout
  <2>6. VotersHaveSeen(p)'
    BY <1>1, <2>4, <2>5 DEF VotersHaveSeen
  <2> QED
    BY <2>2, <2>3, <2>6
<1>4. DecidedIsCommitted'
  BY <1>2 DEF DecidedIsCommitted
<1> QED
  BY <1>3, <1>4 DEF Delivery

LEMMA AskNextDelivers ==
    ASSUME IInv, Delivery, AskNext
    PROVE  Delivery'
<1>1. /\ pc = "get" /\ pc' = "waitDone" /\ UNCHANGED <<op, tid, decision, part, up, committed>>
      /\ Connected(idx, <<PrepareRequest(tid, op)>>)
      /\ CoordinatorTypes /\ NetworkTypes /\ idx \in P
      /\ op \in GetRequests /\ tid \in Ids
  BY SizesAssumption DEF AskNext, participants, history, IInv, Phases, CoordinatorTypes, P
<1>2. op.method = "GET" /\ op \in Requests
  BY <1>1, RequestType DEF Requests
<1>3. DecidedIsCommitted'
  BY <1>1, <1>2 DEF DecidedIsCommitted
<1> DEFINE m == PrepareRequest(tid, op)
           new == NewConnection(<<m>>)
<1>4. m \in CoordinatorMsgs /\ m.id = tid /\ m.type = "PREPARED-REQUEST"
  BY <1>1, <1>2, MsgType DEF PrepareRequest
<1>5. new \in Connections /\ Carried(new) = {m}
  BY <1>4, NewConnectionType, CarriedNew
<1>6. /\ sock' = [sock EXCEPT ![idx] = TRUE] /\ toC' = [toC EXCEPT ![idx] = <<>>]
      /\ eof' = [eof EXCEPT ![idx] = FALSE] /\ link' = [link EXCEPT ![idx] = Append(Closed(idx), new)]
  BY <1>1 DEF Connected
<1> HIDE DEF m, new
<1>7. ASSUME NEW p \in P
      PROVE  DecisionsMeetTheirWrite(p)' /\ LiveIsCurrent(p)' /\ VotersHaveSeen(p)'
  <2>1. DecisionsMeetTheirWrite(p) /\ LiveIsCurrent(p)
    BY DEF Delivery
  <2>2. VotersHaveSeen(p)'
    BY <1>1, <1>2 DEF VotersHaveSeen
  <2>3. CASE p # idx
    <3>1. link'[p] = link[p] /\ sock'[p] = sock[p] /\ eof'[p] = eof[p]
      BY <1>1, <1>6, <2>3 DEF CoordinatorTypes, NetworkTypes
    <3>2. DecisionsMeetTheirWrite(p)'
      BY <1>1, <2>1, <3>1 DEF DecisionsMeetTheirWrite, IsAbout
    <3>3. LiveIsCurrent(p)'
      BY <1>1, <2>1, <3>1 DEF LiveIsCurrent
    <3> QED
      BY <2>2, <3>2, <3>3
  <2>4. CASE p = idx
    <3>1. link'[p] = Append(Closed(p), new) /\ sock'[p] = TRUE /\ eof'[p] = FALSE
      BY <1>1, <1>6, <2>4 DEF CoordinatorTypes, NetworkTypes
    <3>2. Grows(p, m)
      BY <1>1, <1>5, <2>1, <3>1, GrowsOpened
    <3>3. DecisionsMeetTheirWrite(p)'
      BY <1>1, <1>4, <2>1, <3>2, CommitsGrow
    <3>4. LiveIsCurrent(p)'
      BY <1>1, <1>4, <1>5, <2>1, <3>1, LiveOpened
    <3> QED
      BY <2>2, <3>3, <3>4
  <2> QED
    BY <2>3, <2>4
<1> QED
  BY <1>3, <1>7 DEF Delivery

LEMMA CoordinatorCrashDelivers ==
    ASSUME IInv, Delivery, CoordinatorCrash
    PROVE  Delivery'
<1>1. /\ pc' = "idle" /\ sock' = None /\ link' = [p \in P |-> Closed(p)]
      /\ UNCHANGED <<part, up, committed>> /\ NetworkTypes
  BY DEF CoordinatorCrash, Answer, participants, IInv
<1>2. ASSUME NEW p \in P
      PROVE  DecisionsMeetTheirWrite(p)' /\ LiveIsCurrent(p)' /\ VotersHaveSeen(p)'
  <2>1. link'[p] = Closed(p) /\ sock'[p] = FALSE
    BY <1>1 DEF None
  <2>2. DecisionsMeetTheirWrite(p)' /\ LiveIsCurrent(p)'
    BY <1>1, <2>1, ClosingKeepsCommits DEF Delivery
  <2>3. VotersHaveSeen(p)'
    BY <2>1 DEF VotersHaveSeen
  <2> QED
    BY <2>2, <2>3
<1>3. DecidedIsCommitted'
  BY <1>1 DEF DecidedIsCommitted
<1> QED
  BY <1>2, <1>3 DEF Delivery

-----------------------------------------------------------------------------
(* The steps of the participants and of the network. *)

(* p has dropped its first j connections and perhaps some of what is under way
   in the others. *)
Drops(p, j) ==
    /\ Len(link'[p]) \in Nat /\ Len(link'[p]) + j = Len(link[p])
    /\ \A c \in 1..Len(link'[p]) :
          /\ Carried(link'[p][c]) \subseteq Carried(link[p][c + j])
          /\ link'[p][c].live => link[p][c + j].live

(* p is prepared for nothing, for what it was, or for something it was sent on
   the connection it is serving. *)
PreparesWhatItReads(p) ==
    /\ part'[p].phase = 2 =>
         \/ part[p].phase = 2 /\ part'[p].id = part[p].id
         \/ link[p] # <<>> /\ \E x \in Carried(link[p][1]) : part'[p].id = x.id
    /\ MaxRestarts = 0 /\ up'[p] =>
         /\ up[p]
         /\ \/ part'[p].id = part[p].id
            \/ link[p] # <<>> /\ \E x \in Carried(link[p][1]) : part'[p].id = x.id

LEMMA DroppingKeeps ==
    ASSUME NetworkTypes, NEW p \in P, NEW j \in Nat, Drops(p, j), PreparesWhatItReads(p),
           DecisionsMeetTheirWrite(p), LiveIsCurrent(p), pc' = pc, tid' = tid,
           committed' = committed, sock'[p] = sock[p],
           eof'[p] = eof[p] \/ link'[p] = <<>>
    PROVE  DecisionsMeetTheirWrite(p)' /\ LiveIsCurrent(p)' /\ (Seen(p) => Seen(p)')
<1>1. link[p] \in Seq(Connections) /\ Len(link[p]) \in Nat
  BY DEF NetworkTypes
<1>2. /\ Len(link'[p]) \in Nat /\ Len(link'[p]) + j = Len(link[p])
      /\ \A c \in 1..Len(link'[p]) :
            /\ Carried(link'[p][c]) \subseteq Carried(link[p][c + j])
            /\ link'[p][c].live => link[p][c + j].live
  BY DEF Drops
<1>3. ASSUME NEW c \in 1..Len(link'[p])
      PROVE  /\ c + j \in 1..Len(link[p])
             /\ 1 \in 1..(c + j)
             /\ \A d \in 1..c : d + j \in 1..(c + j) /\ d \in 1..Len(link'[p])
  BY <1>1, <1>2, <1>3
<1>4. DecisionsMeetTheirWrite(p)'
  <2> SUFFICES ASSUME NEW c \in 1..Len(link'[p]), NEW y \in Carried(link'[p][c]),
                      y.type \in {"COMMIT", "ABORT"}
               PROVE  /\ y.type = "COMMIT" /\ ~IdsMayRepeat => y.id \in committed'
                      /\ IsAbout(p, y.id)'
                      /\ \A d \in 1..c : \A x \in Carried(link'[p][d]) : x.id = y.id
    BY DEF DecisionsMeetTheirWrite
  <2>1. c + j \in 1..Len(link[p]) /\ y \in Carried(link[p][c + j]) /\ 1 \in 1..(c + j)
    BY <1>1, <1>2, <1>3
  <2>2. /\ y.type = "COMMIT" /\ ~IdsMayRepeat => y.id \in committed
        /\ IsAbout(p, y.id)
        /\ \A d \in 1..(c + j) : \A x \in Carried(link[p][d]) : x.id = y.id
    BY <2>1 DEF DecisionsMeetTheirWrite
  <2>3. IsAbout(p, y.id)'
    BY <2>1, <2>2 DEF PreparesWhatItReads, IsAbout
  <2>4. ASSUME NEW d \in 1..c, NEW x \in Carried(link'[p][d])
        PROVE  x.id = y.id
    <3>1. d + j \in 1..(c + j) /\ d \in 1..Len(link'[p])
      BY <1>3
    <3>2. x \in Carried(link[p][d + j])
      BY <1>1, <1>2, <2>4, <3>1
    <3> QED
      BY <2>2, <3>1, <3>2
  <2> QED
    BY <2>2, <2>3, <2>4
<1>5. LiveIsCurrent(p)'
  <2> SUFFICES ASSUME NEW c \in 1..Len(link'[p]), link'[p][c].live
               PROVE  /\ c = Len(link'[p]) /\ sock'[p] /\ ~eof'[p]
                      /\ \A x \in Carried(link'[p][c]) : x.id = tid'
                      /\ pc' = "connect" => Carried(link'[p][c]) = {}
    BY DEF LiveIsCurrent
  <2>1. c + j \in 1..Len(link[p]) /\ link[p][c + j].live
    BY <1>1, <1>2, <1>3
  <2>2. /\ c + j = Len(link[p]) /\ sock[p] /\ ~eof[p]
        /\ \A x \in Carried(link[p][c + j]) : x.id = tid
        /\ pc = "connect" => Carried(link[p][c + j]) = {}
    BY <2>1 DEF LiveIsCurrent
  <2>3. Carried(link'[p][c]) \subseteq Carried(link[p][c + j])
    BY <1>1, <1>2
  <2>4. c = Len(link'[p])
    BY <1>1, <1>2, <2>2, <2>1
  <2>5. eof'[p] = eof[p]
    OBVIOUS
  <2> QED
    BY <2>2, <2>3, <2>4, <2>5
<1>6. Seen(p) => Seen(p)'
  <2> SUFFICES ASSUME Seen(p) PROVE Seen(p)'
    OBVIOUS
  <2>1. ASSUME NEW c \in 1..Len(link'[p]), NEW x \in Carried(link'[p][c]) PROVE x.id = tid
    <3>1. c + j \in 1..Len(link[p]) /\ x \in Carried(link[p][c + j])
      BY <1>1, <1>2, <1>3, <2>1
    <3> QED
      BY <3>1 DEF Seen
  <2>2. IsAbout(p, tid)'
    <3>1. link[p] # <<>> => 1 \in 1..Len(link[p])
      BY <1>1
    <3>2. link[p] # <<>> => \A x \in Carried(link[p][1]) : x.id = tid
      BY <3>1 DEF Seen
    <3>3. IsAbout(p, tid)
      BY DEF Seen
    <3> QED
      BY <3>2, <3>3 DEF IsAbout, PreparesWhatItReads
  <2> QED
    BY <2>1, <2>2 DEF Seen
<1> QED
  BY <1>4, <1>5, <1>6

LEMMA DropNothing ==
    ASSUME NetworkTypes, NEW p \in P, link'[p] = link[p]
    PROVE  Drops(p, 0)
<1>1. Len(link[p]) \in Nat
  BY DEF NetworkTypes
<1>2. \A c \in 1..Len(link[p]) : c + 0 = c
  OBVIOUS
<1> QED
  BY <1>1, <1>2 DEF Drops

LEMMA DropAll ==
    ASSUME NetworkTypes, NEW p \in P, link'[p] = <<>>
    PROVE  Len(link[p]) \in Nat /\ Drops(p, Len(link[p]))
<1>1. Len(link[p]) \in Nat
  BY DEF NetworkTypes
<1>2. Len(link'[p]) = 0
  OBVIOUS
<1> QED
  BY <1>1, <1>2 DEF Drops

LEMMA DropFirst ==
    ASSUME NetworkTypes, NEW p \in P, link[p] # <<>>, link'[p] = Tail(link[p])
    PROVE  Drops(p, 1)
<1>1. link[p] \in Seq(Connections)
  BY DEF NetworkTypes
<1>2. /\ Len(link'[p]) + 1 = Len(link[p])
      /\ \A c \in 1..Len(link'[p]) : link'[p][c] = link[p][c + 1]
  BY <1>1
<1> QED
  BY <1>2 DEF Drops

(* One connection is thinned. *)
LEMMA DropSome ==
    ASSUME NetworkTypes, NEW p \in P, NEW i \in 1..Len(link[p]), NEW c,
           link'[p] = [link[p] EXCEPT ![i] = c], c.live = link[p][i].live,
           Carried(c) \subseteq Carried(link[p][i])
    PROVE  Drops(p, 0)
<1>1. link[p] \in Seq(Connections)
  BY DEF NetworkTypes
<1>2. /\ Len(link'[p]) + 0 = Len(link[p])
      /\ \A d \in 1..Len(link'[p]) : d + 0 = d /\ link'[p][d] = IF d = i THEN c ELSE link[p][d]
  BY <1>1
<1> QED
  BY <1>2 DEF Drops

(* A participant in phase 2 after a message is prepared for that message; it
   remembers the id of that message, or the one it had. *)
LEMMA HandledId ==
    ASSUME NEW s \in SoundStates, NEW m \in CoordinatorMsgs
    PROVE  LET r == Handle(s, m)
           IN /\ r.state.phase = 2 => r.state.id = m.id
              /\ r.state.id \in {s.id, m.id}
              /\ r.result # "shutdown" /\ (m.type \in {"COMMIT", "ABORT"} => s.phase = 1 \/ s.id = m.id)
                   => r.state.id = m.id
              /\ r.result = "shutdown" => m.type \in {"COMMIT", "ABORT"} /\ m.id # s.id
<1> DEFINE h == Handle(s, m)
<1>1. /\ s \in ParticipantStates /\ Recorded(s) /\ s.phase \in {1, 2}
      /\ m.type \in {"PREPARED-REQUEST", "COMMIT", "ABORT"}
  BY DEF SoundStates, ParticipantStates, CoordinatorMsgs, PrepareRequest, Commit, Abort
<1>2. CASE s.phase = 1 /\ m.type = "PREPARED-REQUEST"
  <2> DEFINE r == handlePreparePhase(s, m)
  <2>1. r.state \in ParticipantStates
    BY <1>1, <1>2, PreparePhase
  <2>2. r.state.id = m.id
    BY <1>1 DEF handlePreparePhase, ReadOnly, StartPhaseTwo, ParticipantStates
  <2>3. h = Remember(r, "loop")
    BY <1>2 DEF Handle, PhaseOne
  <2> HIDE DEF r, h
  <2>4. h.state.id = r.state.id /\ h.result = "loop"
    BY <2>1, <2>3 DEF ParticipantStates, Remember
  <2> QED
    BY <2>2, <2>4 DEF h
<1>3. CASE s.phase = 1 /\ m.type # "PREPARED-REQUEST"
  BY <1>1, <1>3 DEF Handle, PhaseOne, Resend
<1>4. CASE s.phase = 2 /\ m.type \in {"COMMIT", "ABORT"}
  <2> DEFINE r == handleCommitOrAbortPhase(s, m)
  <2>1. r.state \in ParticipantStates /\ r.state.phase = 1
    BY <1>1, <1>4, CommitOrAbortPhase
  <2>2. r.state.id = s.id
    BY <1>1 DEF handleCommitOrAbortPhase, rollBack, ParticipantStates
  <2>3. h = Remember(r, "return")
    BY <1>4 DEF Handle, PhaseTwo
  <2> HIDE DEF r, h
  <2>4. h.state.id = r.state.id /\ h.state.phase = 1 /\ h.result = "return"
    BY <2>1, <2>3 DEF ParticipantStates, Remember
  <2> QED
    BY <1>4, <2>2, <2>4 DEF h
<1>5. CASE s.phase = 2 /\ m.type \notin {"COMMIT", "ABORT"} /\ m.id = s.id
  BY <1>5 DEF Handle, PhaseTwo, Resend
<1>6. CASE s.phase = 2 /\ m.type \notin {"COMMIT", "ABORT"} /\ m.id # s.id
  <2> DEFINE u == [rollBack(s) EXCEPT !.phase = 1]
             r == handlePreparePhase(u, m)
  <2>1. u \in ParticipantStates /\ u.phase = 1
    BY <1>1, RollBackType
  <2>2. m.type = "PREPARED-REQUEST"
    BY <1>1, <1>6
  <2>3. h = Remember(r, "loop")
    BY <1>6 DEF Handle, PhaseTwo
  <2> HIDE DEF u
  <2>4. r.state \in ParticipantStates
    BY <2>1, <2>2, PreparePhase
  <2>5. r.state.id = m.id
    BY <2>1 DEF handlePreparePhase, ReadOnly, StartPhaseTwo, ParticipantStates
  <2> HIDE DEF r, h
  <2>6. h.state.id = r.state.id /\ h.result = "loop"
    BY <2>3, <2>4 DEF ParticipantStates, Remember
  <2> QED
    BY <2>5, <2>6 DEF h
<1> QED
  BY <1>1, <1>2, <1>3, <1>4, <1>5, <1>6

(* What the coordinator's books say of p survives a step that drops messages of
   p, if an answer on an open connection comes from somebody who has seen the
   transaction. *)
LEMMA DroppingDelivers ==
    ASSUME IInv, Delivery, NEW q \in P, NEW j \in Nat, Drops(q, j), PreparesWhatItReads(q),
           UNCHANGED <<pc, op, tid, decision, sock, watch, committed>>,
           eof'[q] = eof[q] \/ link'[q] = <<>>,
           toC[q] = <<>> /\ toC'[q] # <<>> => pc # "connect" /\ Seen(q)',
           \A p \in P : p # q => /\ link'[p] = link[p] /\ part'[p] = part[p] /\ up'[p] = up[p]
                                 /\ eof'[p] = eof[p] /\ toC'[p] = toC[p]
    PROVE  Delivery'
<1>1. ASSUME NEW p \in P
      PROVE  DecisionsMeetTheirWrite(p)' /\ LiveIsCurrent(p)' /\ VotersHaveSeen(p)'
  <2>1. CASE p # q
    BY <2>1, ElsewhereDelivers
  <2>2. CASE p = q
    <3>1. DecisionsMeetTheirWrite(q) /\ LiveIsCurrent(q) /\ VotersHaveSeen(q)
      BY DEF Delivery
    <3>2. DecisionsMeetTheirWrite(q)' /\ LiveIsCurrent(q)' /\ (Seen(q) => Seen(q)')
      BY <3>1, DroppingKeeps DEF IInv
    <3>3. VotersHaveSeen(q)'
      BY <3>1, <3>2 DEF VotersHaveSeen
    <3> QED
      BY <2>2, <3>2, <3>3
  <2> QED
    BY <2>1, <2>2
<1>2. DecidedIsCommitted'
  BY DEF DecidedIsCommitted, Delivery
<1> QED
  BY <1>1, <1>2 DEF Delivery

(* What p reads is the first message of its first connection. *)
LEMMA ReadMessage ==
    ASSUME NetworkTypes, NEW q \in P, link[q] # <<>>,
           NEW n \in 1..Len(Head(link[q]).toP)
    PROVE  /\ Head(link[q]) = link[q][1] /\ Head(link[q]) \in Connections
           /\ 1 \in 1..Len(link[q])
           /\ Head(Head(link[q]).toP) \in Carried(link[q][1])
           /\ Head(Head(link[q]).toP) \in CoordinatorMsgs
<1> DEFINE c == link[q][1]
<1>1. link[q] \in Seq(Connections)
  BY DEF NetworkTypes
<1>2. Head(link[q]) = c /\ c \in Connections /\ 1 \in 1..Len(link[q])
  BY <1>1
<1>3. c.toP \in Seq(CoordinatorMsgs)
  BY <1>2 DEF Connections
<1>4. c.toP # <<>> /\ Head(c.toP) = c.toP[1] /\ 1 \in 1..Len(c.toP)
  BY <1>2, <1>3
<1>5. Head(c.toP) \in Carried(c)
  BY <1>4 DEF Carried
<1>6. Head(c.toP) \in CoordinatorMsgs
  BY <1>2, <1>5, CarriedType
<1> QED
  BY <1>2, <1>5, <1>6

LEMMA ParticipantReceiveDelivers ==
    ASSUME IInv, Delivery, NEW q \in P, ParticipantReceive(q)
    PROVE  Delivery'
<1> DEFINE c == Head(link[q])
           m == Head(c.toP)
           r == Handle(part[q], m)
<1>1. link[q] # <<>> /\ up[q] /\ NetworkTypes /\ ParticipantTypes
      /\ UNCHANGED <<pc, op, tid, decision, sock, watch, committed>>
  BY DEF ParticipantReceive, coordinator, history, IInv
<1>2. PICK n \in 1..Len(c.toP) :
        /\ part' = [part EXCEPT ![q] = r.state]
        /\ IF c.live /\ linkUp[q] /\ r.reply # NoMsg
           THEN toC' = [toC EXCEPT ![q] = Append(@, r.reply)]
           ELSE UNCHANGED toC
        /\ CASE r.result = "loop" ->
                  /\ link' = [link EXCEPT ![q] = [link[q] EXCEPT ![1] = [link[q][1] EXCEPT !.toP = After(@, n)]]]
                  /\ UNCHANGED <<eof, up>>
             [] r.result = "return" ->
                  /\ link' = [link EXCEPT ![q] = Tail(link[q])]
                  /\ UNCHANGED <<eof, up>>
             [] r.result = "shutdown" -> Die(q)
  BY DEF ParticipantReceive
<1>3. /\ c = link[q][1] /\ c \in Connections /\ 1 \in 1..Len(link[q])
      /\ m \in Carried(c) /\ m \in CoordinatorMsgs
  BY <1>1, <1>2, ReadMessage
<1>4. part[q] \in SoundStates
  BY <1>1 DEF ParticipantTypes
<1>5. /\ r.state.phase = 2 => r.state.id = m.id
      /\ r.state.id \in {part[q].id, m.id}
      /\ r.result # "shutdown"
           /\ (m.type \in {"COMMIT", "ABORT"} => part[q].phase = 1 \/ part[q].id = m.id)
         => r.state.id = m.id
      /\ r.result \in {"loop", "return", "shutdown"}
  BY <1>3, <1>4, HandledId, HandleType
<1> HIDE DEF r, m
<1>6. part'[q] = r.state /\ \A p \in P : p # q => part'[p] = part[p] /\ toC'[p] = toC[p]
  BY <1>1, <1>2 DEF ParticipantTypes, NetworkTypes
<1>7. toC'[q] # toC[q] => c.live
  BY <1>1, <1>2 DEF NetworkTypes
<1> HIDE DEF c
<1>8. PreparesWhatItReads(q)
  BY <1>1, <1>3, <1>5, <1>6 DEF PreparesWhatItReads
<1>9. /\ \A p \in P : p # q => link'[p] = link[p] /\ eof'[p] = eof[p] /\ up'[p] = up[p]
      /\ eof'[q] = eof[q] \/ link'[q] = <<>>
      /\ \E j \in Nat : Drops(q, j)
  <2>1. CASE r.result = "loop"
    <3> DEFINE d == [link[q][1] EXCEPT !.toP = After(link[q][1].toP, n)]
    <3>1. link' = [link EXCEPT ![q] = [link[q] EXCEPT ![1] = d]] /\ eof' = eof /\ up' = up
      BY <1>2, <2>1
    <3>2. n \in 1..Len(link[q][1].toP) /\ link[q][1] \in Connections
      BY <1>2, <1>3
    <3>3. d.live = link[q][1].live /\ Carried(d) \subseteq Carried(link[q][1])
      BY <3>2, CarriedAfter DEF Connections
    <3> HIDE DEF d
    <3>4. link'[q] = [link[q] EXCEPT ![1] = d] /\ \A p \in P : p # q => link'[p] = link[p]
      BY <1>1, <3>1 DEF NetworkTypes
    <3>5. Drops(q, 0)
      BY <1>1, <1>3, <3>3, <3>4, DropSome
    <3> QED
      BY <3>1, <3>4, <3>5
  <2>2. CASE r.result = "return"
    <3>1. link' = [link EXCEPT ![q] = Tail(link[q])] /\ eof' = eof /\ up' = up
      BY <1>2, <2>2
    <3>2. link'[q] = Tail(link[q]) /\ \A p \in P : p # q => link'[p] = link[p]
      BY <1>1, <3>1 DEF NetworkTypes
    <3>3. Drops(q, 1)
      BY <1>1, <3>2, DropFirst
    <3> QED
      BY <3>1, <3>2, <3>3
  <2>3. CASE r.result = "shutdown"
    <3>1. Die(q)
      BY <1>2, <2>3
    <3>2. link'[q] = <<>> /\ \A p \in P : p # q => /\ link'[p] = link[p] /\ eof'[p] = eof[p]
                                                 /\ up'[p] = up[p]
      BY <1>1, <3>1 DEF Die, NetworkTypes, ParticipantTypes
    <3>3. Len(link[q]) \in Nat /\ Drops(q, Len(link[q]))
      BY <1>1, <3>2, DropAll
    <3> QED
      BY <3>2, <3>3
  <2> QED
    BY <1>5, <2>1, <2>2, <2>3
<1>10. ASSUME toC[q] = <<>>, toC'[q] # <<>>
       PROVE  pc # "connect" /\ Seen(q)'
  <2>1. link[q][1].live /\ LiveIsCurrent(q)
    BY <1>3, <1>7, <1>10 DEF Delivery
  <2>2. /\ Len(link[q]) = 1 /\ (\A x \in Carried(link[q][1]) : x.id = tid)
        /\ pc = "connect" => Carried(link[q][1]) = {}
    BY <1>3, <2>1 DEF LiveIsCurrent
  <2>3. pc # "connect" /\ m.id = tid
    BY <1>3, <2>2
  <2>4. IsAbout(q, tid)'
    <3>1. m.type \in {"COMMIT", "ABORT"} => part[q].phase = 1 \/ part[q].id = m.id
      BY <1>1, <1>3, <1>4 DEF Delivery, DecisionsMeetTheirWrite, IsAbout, SoundStates,
                              ParticipantStates
    <3>2. CASE r.result = "shutdown"
      <4>1. ~up'[q]
        BY <1>1, <1>2, <3>2 DEF Die, ParticipantTypes
      <4> QED
        BY <1>1, <1>5, <1>6, <2>3, <4>1 DEF IsAbout
    <3>3. CASE r.result # "shutdown"
      BY <1>1, <1>5, <1>6, <2>3, <3>1, <3>3 DEF IsAbout
    <3> QED
      BY <3>2, <3>3
  <2>5. ASSUME NEW d \in 1..Len(link'[q]), NEW x \in Carried(link'[q][d])
        PROVE  x.id = tid'
    <3>1. PICK j \in Nat : Drops(q, j)
      BY <1>9
    <3>2. x \in Carried(link[q][d + j])
      BY <2>5, <3>1 DEF Drops
    <3>3. Len(link'[q]) \in Nat /\ Len(link'[q]) + j = 1
      BY <2>2, <3>1 DEF Drops
    <3>4. d + j = 1
      BY <3>3
    <3> QED
      BY <1>1, <2>2, <3>2, <3>4
  <2> QED
    BY <2>3, <2>4, <2>5 DEF Seen
<1> QED
  BY <1>1, <1>6, <1>8, <1>9, <1>10, DroppingDelivers

LEMMA ParticipantEofDelivers ==
    ASSUME IInv, Delivery, NEW q \in P, ParticipantEof(q)
    PROVE  Delivery'
<1>1. /\ link[q] # <<>> /\ link' = [link EXCEPT ![q] = Tail(link[q])]
      /\ UNCHANGED <<pc, op, tid, decision, sock, watch, committed, eof, toC, part, up>>
      /\ NetworkTypes
  BY DEF ParticipantEof, coordinator, participants, history, IInv
<1>2. link'[q] = Tail(link[q]) /\ \A p \in P : p # q => link'[p] = link[p]
  BY <1>1 DEF NetworkTypes
<1>3. Drops(q, 1) /\ PreparesWhatItReads(q)
  BY <1>1, <1>2, DropFirst DEF PreparesWhatItReads
<1> QED
  BY <1>1, <1>2, <1>3, DroppingDelivers

LEMMA ParticipantCrashDelivers ==
    ASSUME IInv, Delivery, NEW q \in P, ParticipantCrash(q)
    PROVE  Delivery'
<1>1. /\ Die(q) /\ part' = [part EXCEPT ![q] = InitialParticipant]
      /\ UNCHANGED <<pc, op, tid, decision, sock, watch, committed, toC>>
      /\ NetworkTypes /\ ParticipantTypes
  BY DEF ParticipantCrash, coordinator, history, IInv
<1>2. link'[q] = <<>> /\ \A p \in P : p # q => link'[p] = link[p] /\ eof'[p] = eof[p]
  BY <1>1 DEF Die, NetworkTypes
<1>3. /\ part'[q].phase = 1 /\ ~up'[q]
      /\ \A p \in P : p # q => part'[p] = part[p] /\ up'[p] = up[p]
  BY <1>1, InitialIsSound DEF Die, ParticipantTypes
<1>4. Len(link[q]) \in Nat /\ Drops(q, Len(link[q]))
  BY <1>1, <1>2, DropAll
<1>5. PreparesWhatItReads(q)
  BY <1>3 DEF PreparesWhatItReads
<1> QED
  BY <1>1, <1>2, <1>3, <1>4, <1>5, DroppingDelivers

LEMMA ParticipantRestartDelivers ==
    ASSUME IInv, Delivery, SpentType, NEW q \in P, ParticipantRestart(q)
    PROVE  Delivery'
<1>1. /\ part' = [part EXCEPT ![q] = InitialParticipant]
      /\ UNCHANGED <<pc, op, tid, decision, sock, watch, committed, toC, eof, link>>
      /\ NetworkTypes /\ ParticipantTypes
  BY DEF ParticipantRestart, coordinator, network, history, IInv
<1>2. /\ part'[q].phase = 1
      /\ \A p \in P : p # q => part'[p] = part[p] /\ up'[p] = up[p]
  BY <1>1, InitialIsSound DEF ParticipantRestart, ParticipantTypes
<1>3. MaxRestarts # 0
  BY DEF ParticipantRestart, Spend, SpentType, FaultKinds
<1>4. Drops(q, 0) /\ PreparesWhatItReads(q)
  BY <1>1, <1>2, <1>3, DropNothing DEF PreparesWhatItReads
<1> QED
  BY <1>1, <1>2, <1>4, DroppingDelivers

LEMMA BreakDelivers ==
    ASSUME IInv, Delivery, NEW q \in P, Break(q)
    PROVE  Delivery'
<1>1. /\ eof' = [eof EXCEPT ![q] = TRUE] /\ link' = [link EXCEPT ![q] = Closed(q)]
      /\ UNCHANGED <<pc, op, tid, decision, sock, watch, committed, toC, part, up>>
      /\ NetworkTypes
  BY DEF Break, coordinator, participants, history, IInv
<1>2. ASSUME NEW p \in P
      PROVE  DecisionsMeetTheirWrite(p)' /\ LiveIsCurrent(p)' /\ VotersHaveSeen(p)'
  <2>1. CASE p # q
    <3>1. link'[p] = link[p] /\ eof'[p] = eof[p]
      BY <1>1, <2>1 DEF NetworkTypes
    <3> QED
      BY <1>1, <3>1, ElsewhereDelivers
  <2>2. CASE p = q
    <3>1. link'[p] = Closed(p)
      BY <1>1, <2>2 DEF NetworkTypes
    <3>2. DecisionsMeetTheirWrite(p)' /\ LiveIsCurrent(p)' /\ (Seen(p) => Seen(p)')
      BY <1>1, <3>1, ClosingKeepsCommits DEF Delivery
    <3>3. VotersHaveSeen(p)'
      BY <1>1, <3>2 DEF VotersHaveSeen, Delivery
    <3> QED
      BY <3>2, <3>3
  <2> QED
    BY <2>1, <2>2
<1>3. DecidedIsCommitted'
  BY <1>1 DEF DecidedIsCommitted, Delivery
<1> QED
  BY <1>2, <1>3 DEF Delivery

LEMMA LinkDownDelivers ==
    ASSUME IInv, Delivery, NEW q \in P, LinkDown(q)
    PROVE  Delivery'
<1>1. /\ UNCHANGED <<pc, op, tid, decision, sock, watch, committed, toC, eof, link, part, up>>
  BY DEF LinkDown, coordinator, participants, history
<1>2. \A p \in P : DecisionsMeetTheirWrite(p)' /\ LiveIsCurrent(p)' /\ VotersHaveSeen(p)'
  BY <1>1, ElsewhereDelivers
<1>3. DecidedIsCommitted'
  BY <1>1 DEF DecidedIsCommitted, Delivery
<1> QED
  BY <1>2, <1>3 DEF Delivery

LEMMA LoseRequestDelivers ==
    ASSUME IInv, Delivery, NEW q \in P, LoseRequest(q)
    PROVE  Delivery'
<1>1. PICK i \in 1..Len(link[q]) :
        /\ link[q][i].toP # <<>>
        /\ link' = [link EXCEPT ![q] = [link[q] EXCEPT ![i] =
                       [link[q][i] EXCEPT !.toP = SubSeq(@, 1, Len(@) - 1)]]]
  BY DEF LoseRequest
<1>2. /\ UNCHANGED <<pc, op, tid, decision, sock, watch, committed, toC, eof, part, up>>
      /\ NetworkTypes
  BY DEF LoseRequest, coordinator, participants, history, IInv
<1> DEFINE d == [link[q][i] EXCEPT !.toP = SubSeq(link[q][i].toP, 1, Len(link[q][i].toP) - 1)]
<1>3. link[q][i] \in Connections
  BY <1>2 DEF NetworkTypes
<1>4. d.live = link[q][i].live /\ Carried(d) \subseteq Carried(link[q][i])
  BY <1>1, <1>3, CarriedFront DEF Connections
<1>5. link' = [link EXCEPT ![q] = [link[q] EXCEPT ![i] = d]]
  BY <1>1
<1> HIDE DEF d
<1>6. link'[q] = [link[q] EXCEPT ![i] = d] /\ \A p \in P : p # q => link'[p] = link[p]
  BY <1>2, <1>5 DEF NetworkTypes
<1>7. Drops(q, 0) /\ PreparesWhatItReads(q)
  BY <1>2, <1>4, <1>6, DropSome DEF PreparesWhatItReads
<1> QED
  BY <1>2, <1>6, <1>7, DroppingDelivers

LEMMA LoseReplyDelivers ==
    ASSUME IInv, Delivery, NEW q \in P, LoseReply(q)
    PROVE  Delivery'
<1>1. /\ toC[q] # <<>> /\ toC' = [toC EXCEPT ![q] = SubSeq(@, 1, Len(@) - 1)]
      /\ UNCHANGED <<pc, op, tid, decision, sock, watch, committed, eof, link, part, up>>
      /\ NetworkTypes
  BY DEF LoseReply, coordinator, participants, history, IInv
<1>2. Drops(q, 0) /\ PreparesWhatItReads(q)
  BY <1>1, DropNothing DEF PreparesWhatItReads
<1>3. \A p \in P : p # q => toC'[p] = toC[p]
  BY <1>1 DEF NetworkTypes
<1> QED
  BY <1>1, <1>2, <1>3, DroppingDelivers

-----------------------------------------------------------------------------
(* The whole system, and the theorem. *)

LEMMA InitSpent == Init => SpentType
BY DEF Init, SpentType, FaultKinds

LEMMA NextSpent ==
    ASSUME SpentType, [Next]_vars
    PROVE  SpentType'
<1>1. \A kind \in FaultKinds : \A max \in Nat : Spend(kind, max) => SpentType'
  BY DEF Spend, SpentType
<1>2. CASE UNCHANGED vars
  BY <1>2 DEF vars, bounds, SpentType
<1>3. {MaxTxns, MaxCoordinatorCrashes, MaxCrashes, MaxRestarts, MaxBreaks, MaxLinksDown, MaxLate}
        \subseteq Nat
  BY BoundsAssumption
<1>4. CASE \E r \in Requests : Request(r)
  BY <1>1, <1>3, <1>4 DEF Request, FaultKinds
<1>5. CASE CoordinatorStep
  <2>1. spent' = spent
    BY <1>5 DEF CoordinatorStep, ConnectNext, NobodyConnected, BeginPrepare, SendNext, BeginWait,
                ReceivePrepared, ReceiveDone, ConnectionLost, Timeout, AllLostInPhaseOne, Decide,
                FinishWrite, AskNext, SkipNext, ReadFailed, FinishRead, NobodyAnswered, bounds
  <2> QED
    BY <2>1 DEF SpentType
<1>6. CASE Failure
  <2>1. CASE CoordinatorCrash \/ LateTimeout
    BY <1>1, <1>3, <2>1 DEF CoordinatorCrash, LateTimeout, FaultKinds
  <2>2. ASSUME NEW p \in P, ParticipantCrash(p) \/ ParticipantRestart(p) \/ Break(p) \/ LinkDown(p)
        PROVE  SpentType'
    BY <1>1, <1>3, <2>2 DEF ParticipantCrash, ParticipantRestart, Break, LinkDown, FaultKinds
  <2>3. ASSUME NEW p \in P, LoseRequest(p) \/ LoseReply(p)
        PROVE  SpentType'
    BY <2>3 DEF LoseRequest, LoseReply, bounds, SpentType
  <2> QED
    BY <1>6, <2>1, <2>2, <2>3 DEF Failure
<1>7. ASSUME NEW p \in P, ParticipantStep(p)
      PROVE  SpentType'
  BY <1>7 DEF ParticipantStep, ParticipantReceive, ParticipantEof, bounds, SpentType
<1> QED
  BY <1>2, <1>4, <1>5, <1>6, <1>7 DEF Next, ClientStops

LEMMA InitDelivery == Init => Delivery
<1> SUFFICES ASSUME Init PROVE Delivery
  OBVIOUS
<1>1. /\ link = [p \in P |-> <<>>] /\ sock = None /\ pc = "idle"
  BY DEF Init
<1>2. \A p \in P : Len(link[p]) = 0 /\ ~sock[p]
  BY <1>1 DEF None
<1>3. \A p \in P : 1..Len(link[p]) = {}
  BY <1>2
<1>4. \A p \in P : DecisionsMeetTheirWrite(p) /\ LiveIsCurrent(p) /\ VotersHaveSeen(p)
  BY <1>2, <1>3 DEF DecisionsMeetTheirWrite, LiveIsCurrent, VotersHaveSeen
<1>5. DecidedIsCommitted
  BY <1>1 DEF DecidedIsCommitted
<1> QED
  BY <1>4, <1>5 DEF Delivery

LEMMA NextDelivers ==
    ASSUME IInv, Delivery, SpentType, [Next]_vars
    PROVE  Delivery'
<1>1. CASE UNCHANGED vars
  <2>1. UNCHANGED <<pc, op, tid, decision, sock, watch, committed, toC, eof, link, part, up>>
    BY <1>1 DEF vars, coordinator, network, participants, history
  <2>2. \A p \in P : DecisionsMeetTheirWrite(p)' /\ LiveIsCurrent(p)' /\ VotersHaveSeen(p)'
    BY <2>1, ElsewhereDelivers
  <2>3. DecidedIsCommitted'
    BY <2>1 DEF DecidedIsCommitted, Delivery
  <2> QED
    BY <2>2, <2>3 DEF Delivery
<1>2. CASE CoordinatorStep
  BY <1>2, QuietStepsDeliver, ConnectNextDelivers, BeginPrepareDelivers, SendNextDelivers,
     BeginWaitDelivers, ReceivePreparedDelivers, ReceiveDoneDelivers, ConnectionLostDelivers,
     ExpireDelivers, DecideDelivers, AskNextDelivers
  DEF CoordinatorStep, Timeout
<1>3. CASE Failure
  BY <1>3, CoordinatorCrashDelivers, ExpireDelivers, ParticipantCrashDelivers,
     ParticipantRestartDelivers, BreakDelivers, LinkDownDelivers, LoseRequestDelivers,
     LoseReplyDelivers
  DEF Failure, LateTimeout
<1>4. ASSUME NEW p \in P, ParticipantStep(p) PROVE Delivery'
  BY <1>4, ParticipantReceiveDelivers, ParticipantEofDelivers DEF ParticipantStep
<1> QED
  BY <1>1, <1>2, <1>3, <1>4, QuietStepsDeliver DEF Next, ClientStops

(* A message changes the store without the prepared write only if it is a COMMIT
   for a prepared write. *)
LEMMA OnlyCommitsTakeEffect ==
    ASSUME NEW s \in SoundStates, NEW m \in CoordinatorMsgs,
           StableStore(Handle(s, m).state) # StableStore(s)
    PROVE  m.type = "COMMIT" /\ s.phase = 2
<1> DEFINE t == Handle(s, m).state
           stable == Undo(s.db, s.rollbackLog)
<1>1. s \in ParticipantStates /\ Recorded(s) /\ s.phase \in {1, 2}
  BY DEF SoundStates, ParticipantStates
<1>2. CASE s.phase = 1
  <2>1. t = PhaseOne(s, m).state /\ StableStore(s) = s.db
    BY <1>2 DEF Handle, StableStore
  <2>2. \/ t = s
        \/ t.phase = 2 /\ Undo(t.db, t.rollbackLog) = s.db
        \/ t.phase = 1 /\ t.db = s.db
    BY <1>1, <1>2, <2>1, HandlePhaseOne
  <2> HIDE DEF t
  <2>3. StableStore(t) = StableStore(s)
    BY <2>1, <2>2 DEF StableStore
  <2> QED
    BY <2>3 DEF t
<1>3. CASE s.phase = 2
  <2>1. t = PhaseTwo(s, m).state /\ StableStore(s) = stable
    BY <1>3 DEF Handle, StableStore
  <2>2. \/ m.type = "COMMIT"
        \/ t = s
        \/ t.phase = 2 /\ Undo(t.db, t.rollbackLog) = stable
        \/ t.phase = 1 /\ t.db = stable
    BY <1>1, <1>3, <2>1, HandlePhaseTwo
  <2> HIDE DEF t, stable
  <2>3. m.type = "COMMIT" \/ StableStore(t) = StableStore(s)
    BY <2>1, <2>2 DEF StableStore
  <2> QED
    BY <1>3, <2>3 DEF t
<1> QED
  BY <1>1, <1>2, <1>3

LEMMA EffectIsCommitted ==
    ASSUME IInv, Delivery, ~IdsMayRepeat, NEW q \in P, ParticipantReceive(q), NEW p \in P,
           StableStore(part'[p]) # StableStore(part[p])
    PROVE  part[p].id \in committed
<1> DEFINE c == Head(link[q])
           m == Head(c.toP)
<1>1. link[q] # <<>> /\ NetworkTypes /\ ParticipantTypes
  BY DEF ParticipantReceive, IInv
<1>2. PICK n \in 1..Len(c.toP) : part' = [part EXCEPT ![q] = Handle(part[q], m).state]
  BY DEF ParticipantReceive
<1>3. 1 \in 1..Len(link[q]) /\ m \in Carried(link[q][1]) /\ m \in CoordinatorMsgs
  BY <1>1, <1>2, ReadMessage
<1> HIDE DEF c, m
<1>4. part[q] \in SoundStates
  BY <1>1 DEF ParticipantTypes
<1>5. p = q /\ part'[q] = Handle(part[q], m).state
  BY <1>1, <1>2 DEF ParticipantTypes
<1>6. m.type = "COMMIT" /\ part[q].phase = 2
  BY <1>3, <1>4, <1>5, OnlyCommitsTakeEffect
<1>7. m.id \in committed /\ part[q].id = m.id
  BY <1>3, <1>6 DEF Delivery, DecisionsMeetTheirWrite, IsAbout
<1> QED
  BY <1>5, <1>7

(* Who changes a participant. *)
LEMMA PartStays ==
    ASSUME Next
    PROVE  \/ part' = part /\ up' = up
           \/ \E q \in P : ParticipantReceive(q) \/ ParticipantCrash(q) \/ ParticipantRestart(q)
<1>1. (\E r \in Requests : Request(r)) \/ ClientStops => UNCHANGED participants
  BY DEF Request, ClientStops, vars
<1>2. CoordinatorStep => UNCHANGED participants
  BY DEF CoordinatorStep, ConnectNext, NobodyConnected, BeginPrepare, SendNext, BeginWait,
         ReceivePrepared, ReceiveDone, ConnectionLost, Timeout, Expire, AllLostInPhaseOne,
         Decide, FinishWrite, AskNext, SkipNext, ReadFailed, FinishRead, NobodyAnswered
<1>3. Failure => \/ UNCHANGED participants
                 \/ \E q \in P : ParticipantCrash(q) \/ ParticipantRestart(q)
  BY DEF Failure, CoordinatorCrash, LateTimeout, Expire, Break, LinkDown, LoseRequest, LoseReply
<1>4. ASSUME NEW q \in P, ParticipantStep(q)
      PROVE  ParticipantReceive(q) \/ UNCHANGED participants
  BY <1>4 DEF ParticipantStep, ParticipantEof
<1> QED
  BY <1>1, <1>2, <1>3, <1>4 DEF Next, participants

(* With no participant started again, what is read never makes anybody stop. *)
LEMMA NobodyShutsDown ==
    ASSUME IInv, Delivery, MaxRestarts = 0, NEW q \in P, ParticipantReceive(q)
    PROVE  up' = up
<1> DEFINE m == Head(Head(link[q]).toP)
           r == Handle(part[q], m)
<1>1. link[q] # <<>> /\ up[q] /\ NetworkTypes /\ ParticipantTypes
  BY DEF ParticipantReceive, IInv
<1>2. PICK n \in 1..Len(Head(link[q]).toP) :
        r.result \in {"loop", "return"} => UNCHANGED up
  BY DEF ParticipantReceive
<1>3. 1 \in 1..Len(link[q]) /\ m \in Carried(link[q][1]) /\ m \in CoordinatorMsgs
  BY <1>1, <1>2, ReadMessage
<1>4. part[q] \in SoundStates
  BY <1>1 DEF ParticipantTypes
<1>5. m.type \in {"COMMIT", "ABORT"} => part[q].id = m.id
  BY <1>1, <1>3 DEF Delivery, DecisionsMeetTheirWrite, IsAbout
<1>6. r.result \in {"loop", "return"}
  BY <1>3, <1>4, <1>5, HandledId, HandleType
<1> QED
  BY <1>2, <1>6

(* When no two transactions draw the same id, a participant that stays up
   changes its stable store only by a write that the coordinator decided to
   commit, whatever is late, lost, broken, crashed or started again:
   handleCommitOrAbortPhase applies the prepared write without comparing ids,
   and no COMMIT ever finds another transaction prepared. *)
THEOREM TwoPhaseCommitOnlyCommittedWritesTakeEffect ==
    ASSUME ~IdsMayRepeat
    PROVE  Spec => OnlyCommittedWritesTakeEffect
<1> DEFINE A == \A p \in P :
                   up[p] /\ up'[p] /\ StableStore(part'[p]) # StableStore(part[p])
                     => part[p].id \in committed
<1>1. IInv /\ Delivery /\ SpentType /\ [Next]_vars => IInv' /\ Delivery' /\ SpentType'
  BY NextIInv, NextDelivers, NextSpent
<1>2. IInv /\ Delivery /\ [Next]_vars => [A]_vars
  <2> SUFFICES ASSUME IInv, Delivery, Next,
                      NEW p \in P, up[p], up'[p],
                      StableStore(part'[p]) # StableStore(part[p])
               PROVE  part[p].id \in committed
    OBVIOUS
  <2>1. ParticipantTypes
    BY DEF IInv
  <2>2. CASE \E q \in P : ParticipantReceive(q)
    BY <2>2, EffectIsCommitted
  <2>3. CASE part' = part
    BY <2>3
  <2>4. CASE \E q \in P : ParticipantCrash(q) \/ ParticipantRestart(q)
    <3>1. PICK q \in P : ParticipantCrash(q) \/ ParticipantRestart(q)
      BY <2>4
    <3>2. part' = [part EXCEPT ![q] = InitialParticipant] /\ (~up[q] \/ ~up'[q])
      BY <2>1, <3>1 DEF ParticipantCrash, ParticipantRestart, Die, ParticipantTypes
    <3> QED
      BY <2>1, <3>2 DEF ParticipantTypes
  <2>5. \/ part' = part
        \/ \E q \in P : ParticipantReceive(q) \/ ParticipantCrash(q) \/ ParticipantRestart(q)
    BY PartStays
  <2> QED
    BY <2>2, <2>3, <2>4, <2>5
<1>3. OnlyCommittedWritesTakeEffect <=> [][A]_vars
  BY DEF OnlyCommittedWritesTakeEffect
<1> HIDE DEF A
<1> QED
  BY <1>1, <1>2, <1>3, InitIInv, InitDelivery, InitSpent, PTL DEF Spec

(* While no participant has been started again, a COMMIT or an ABORT finds the
   participant that reads it with the id it carries, so handleConnection never
   takes "the nodes' data is inconsistent, shut down" (its return -1): a
   participant stops when it is killed only, whatever is late, lost or broken,
   however often the coordinator dies and even if transactions draw equal ids. *)
THEOREM TwoPhaseCommitNoInconsistencyShutdown ==
    ASSUME MaxRestarts = 0
    PROVE  Spec => NoInconsistencyShutdown
<1> DEFINE A == \A p \in P : up[p] /\ ~up'[p] => spent'.crashes = spent.crashes + 1
<1>1. IInv /\ Delivery /\ SpentType /\ [Next]_vars => IInv' /\ Delivery' /\ SpentType'
  BY NextIInv, NextDelivers, NextSpent
<1>2. IInv /\ Delivery /\ SpentType /\ [Next]_vars => [A]_vars
  <2> SUFFICES ASSUME IInv, Delivery, SpentType, Next,
                      NEW p \in P, up[p], ~up'[p]
               PROVE  spent'.crashes = spent.crashes + 1
    OBVIOUS
  <2>1. ParticipantTypes
    BY DEF IInv
  <2>2. ASSUME NEW q \in P, ParticipantCrash(q) PROVE spent'.crashes = spent.crashes + 1
    BY <2>2 DEF ParticipantCrash, Spend, SpentType, FaultKinds
  <2>3. ASSUME NEW q \in P, ParticipantReceive(q) PROVE up'[p]
    BY <2>1, <2>3, NobodyShutsDown
  <2>4. ASSUME NEW q \in P, ParticipantRestart(q) PROVE up'[p]
    BY <2>1, <2>4 DEF ParticipantRestart, ParticipantTypes
  <2>5. \/ up' = up
        \/ \E q \in P : ParticipantReceive(q) \/ ParticipantCrash(q) \/ ParticipantRestart(q)
    BY PartStays
  <2> QED
    BY <2>2, <2>3, <2>4, <2>5
<1>3. NoInconsistencyShutdown <=> [][A]_vars
  BY DEF NoInconsistencyShutdown
<1> HIDE DEF A
<1> QED
  BY <1>1, <1>2, <1>3, InitIInv, InitDelivery, InitSpent, PTL DEF Spec

-----------------------------------------------------------------------------
(* Where the coordinator and a participant are with each other. *)

NoCrash == MaxCoordinatorCrashes = 0
Conditions == MaxLate = 0 /\ MaxRestarts = 0 /\ (IdsMayRepeat => NoCrash)

(* All that is under way to p, and how much of it on the coordinator's socket. *)
Under(p) == UNION {Carried(link[p][c]) : c \in 1..Len(link[p])}
OnLive(p) == IF Live(p) THEN Len(LastOf(link[p]).toP) ELSE 0

(* The coordinator has an open socket and p owes nothing on it... *)
Attached(p) ==
    sock[p] /\ toC[p] = <<>> /\ (eof[p] \/ Live(p)) /\ OnLive(p) = 0

(* ... or p owes one answer, has sent it or will be seen to be lost. *)
Owed(p) ==
    /\ sock[p]
    /\ toC[p] # <<>> \/ eof[p] \/ OnLive(p) > 0
    /\ Len(toC[p]) <= 1 /\ OnLive(p) <= 1

(* p has not heard of the current transaction. *)
Fresh(p) ==
    /\ part[p].phase = 2 => part[p].id # tid
    /\ \A m \in Under(p) : m.id # tid

(* With a coordinator that does not die, p is at rest between transactions. *)
Resting(p) == NoCrash => Under(p) = {} /\ part[p].phase = 1 /\ part[p].db = store

Ready(p) ==
    /\ part[p].phase = 2 /\ part[p].id = tid /\ part[p].operationLog.op = op
    /\ part[p].lastResponseMsg.type = "PREPARED"

(* p was sent the request: PREPARED-REQUEST is under way, or answered. *)
Asked(p) ==
    /\ Owed(p) /\ (eof[p] \/ Live(p))
    /\ \A m \in Under(p) : m.id = tid => m = PrepareRequest(tid, op)
    /\ part[p].phase = 2 /\ part[p].id = tid => Ready(p)
    /\ toC[p] # <<>> => Under(p) = {} /\ (op.method # "GET" => Ready(p))
    /\ NoCrash => /\ StableStore(part[p]) = store
                  /\ \A m \in Under(p) : m.id = tid
                  /\ part[p].phase = 2 => part[p].id = tid

Voted(p) ==
    /\ Attached(p) /\ Ready(p) /\ Under(p) = {}
    /\ NoCrash => StableStore(part[p]) = store

(* Once the decision is taken, its outcome is the one p has prepared. *)
Count(p) == Cardinality(part[p].operationLog.acks)
HoldsDecision(p) ==
    NoCrash => /\ part[p].db = store
               /\ op.method = "DEL" => outcome = CountReply(Count(p))

Pending(p) == Attached(p) /\ Ready(p) /\ Under(p) = {} /\ HoldsDecision(p)

Finished(p) ==
    /\ part[p].phase = 1 /\ part[p].id = tid /\ part[p].operationLog.op = op
    /\ \A k \in op.keys : part[p].db[k] = op.value
    /\ part[p].lastResponseMsg =
         Done(tid, op.method, IF op.method = "DEL" THEN Count(p) ELSE NoAddition)

(* p was sent the COMMIT: it is under way, or answered. *)
Told(p) ==
    /\ Owed(p)
    /\ Under(p) \subseteq {Commit(tid)}
    /\ Ready(p) \/ Finished(p)
    /\ toC[p] # <<>> => Finished(p) /\ Under(p) = {}
    /\ HoldsDecision(p)

Over(p) == Finished(p) /\ Under(p) = {} /\ HoldsDecision(p)

(* What the client was told holds at p, and nothing is under way to change it. *)
Agrees(p) ==
    op \in Writes /\ reply \notin {NoReply, ERROR} =>
        /\ Under(p) = {} /\ part[p].phase = 1
        /\ \A k \in op.keys : part[p].db[k] = op.value

Tracks(p) ==
    Reachable(p) =>
        /\ valid[p]
        /\ pc = "idle" => Resting(p) /\ Agrees(p)
        /\ pc = "get" => Resting(p) /\ (p >= idx => Fresh(p))
        /\ pc = "connect" => Resting(p) /\ (p < idx => Attached(p))
        /\ pc = "prepare" =>
             IF p < idx THEN Asked(p) ELSE Attached(p) /\ Fresh(p) /\ Resting(p)
        /\ pc = "waitPrepared" => IF p \in watch THEN Asked(p) ELSE Voted(p)
        /\ pc = "decide" => IF p < idx THEN Told(p) ELSE Pending(p)
        /\ pc = "waitDone" /\ op.method # "GET" => IF p \in watch THEN Told(p) ELSE Over(p)
        /\ pc = "waitDone" /\ op.method = "GET" =>
             IF p \in watch THEN Asked(p) /\ p = idx
             ELSE Resting(p) /\ (p > idx => Fresh(p))

(* What is on its way back, and what the coordinator has made of it. *)
Fits(m) ==
    NoCrash =>
        /\ op.method = "GET" => m.method = "GET" /\ m.addition = store[KeyOf(op)]
        /\ op.method = "DEL" => /\ m.method = "DEL" /\ m.addition # NoAddition
                                /\ outcome = CountReply(m.addition)

RepliesFit(p) ==
    sock[p] =>
        /\ pc \in {"prepare", "waitPrepared"} =>
             Len(toC[p]) <= 1 /\ (toC[p] # <<>> => toC[p][1].type = "PREPARED")
        /\ pc = "waitPrepared" /\ p \notin watch => toC[p] = <<>>
        /\ pc = "decide" /\ p >= idx => toC[p] = <<>>
        /\ pc \in {"decide", "waitDone"} =>
             Len(toC[p]) <= 1 /\ (toC[p] # <<>> => Fits(toC[p][1]))

OutcomeFits ==
    /\ pc = "waitDone" /\ replied > 0 => first.alone /\ Fits(first.msg)
    /\ pc # "idle" => reply = NoReply
    /\ IF pc \in {"decide", "waitDone"} /\ op.method # "GET"
       THEN decision = 1 /\ outcome # NoReply /\ (op.method = "SET" => outcome = OK)
       ELSE outcome = NoReply
    /\ \A p \in P : response[p] # 0

(* Every id that is anywhere in the system has been drawn. *)
Drawn(p) ==
    ~IdsMayRepeat => /\ part[p].phase = 2 => part[p].id \in used
                     /\ \A m \in Under(p) : m.id \in used
TidIsDrawn == ~IdsMayRepeat /\ tid # -1 => tid \in used

Together(p) == Tracks(p) /\ RepliesFit(p) /\ Drawn(p)
Agreement == (\A p \in P : Together(p)) /\ OutcomeFits /\ TidIsDrawn

Ground == IInv /\ Delivery /\ SpentType /\ Conditions

-----------------------------------------------------------------------------
(* How the actions change what is under way. *)

LEMMA UnderEmpty ==
    ASSUME NetworkTypes, NEW p \in P, Under(p) = {}
    PROVE  OnLive(p) = 0
<1>1. link[p] \in Seq(Connections)
  BY DEF NetworkTypes
<1>2. CASE Live(p)
  <2>1. Len(link[p]) \in 1..Len(link[p]) /\ LastOf(link[p]) \in Connections
    BY <1>1, <1>2 DEF Live, LastOf
  <2>2. Carried(LastOf(link[p])) = {}
    BY <2>1 DEF Under, LastOf
  <2>3. LastOf(link[p]).toP \in Seq(CoordinatorMsgs)
    BY <2>1 DEF Connections
  <2> DEFINE s == LastOf(link[p]).toP
  <2> HIDE DEF s
  <2>4. {s[k] : k \in 1..Len(s)} = {}
    BY <2>2 DEF Carried, s
  <2>5. Len(s) \in Nat
    BY <2>3 DEF s
  <2>6. Len(s) = 0
    BY <2>4, <2>5
  <2> QED
    BY <1>2, <2>6 DEF OnLive, s
<1>3. CASE ~Live(p)
  BY <1>3 DEF OnLive
<1> QED
  BY <1>2, <1>3

LEMMA OnLiveType ==
    ASSUME NetworkTypes, NEW p \in P
    PROVE  OnLive(p) \in Nat
<1>1. link[p] \in Seq(Connections)
  BY DEF NetworkTypes
<1>2. CASE Live(p)
  <2>1. LastOf(link[p]) \in Connections
    BY <1>1, <1>2 DEF Live, LastOf
  <2>2. LastOf(link[p]).toP \in Seq(CoordinatorMsgs)
    BY <2>1 DEF Connections
  <2> QED
    BY <1>2, <2>2 DEF OnLive
<1>3. CASE ~Live(p)
  BY <1>3 DEF OnLive
<1> QED
  BY <1>2, <1>3

LEMMA ClosedPlace ==
    ASSUME NetworkTypes, NEW p \in P, LiveIsCurrent(p), link'[p] = Closed(p)
    PROVE  Under(p)' = Under(p) /\ ~Live(p)' /\ OnLive(p)' = 0
<1> DEFINE s == Closed(p)
<1>1. /\ s \in Seq(Connections) /\ Len(s) = Len(link[p])
      /\ \A c \in 1..Len(link[p]) : Carried(s[c]) = Carried(link[p][c]) /\ ~s[c].live
  BY ClosedShape
<1>2. link'[p] = s
  OBVIOUS
<1> HIDE DEF s
<1>3. Under(p)' = Under(p)
  BY <1>1, <1>2 DEF Under
<1>4. ~Live(p)'
  BY <1>1, <1>2 DEF Live, LastOf
<1> QED
  BY <1>3, <1>4 DEF OnLive

LEMMA OpenedPlace ==
    ASSUME NetworkTypes, NEW p \in P, LiveIsCurrent(p), NEW new \in Connections, new.live,
           link'[p] = Append(Closed(p), new)
    PROVE  Under(p)' = Under(p) \cup Carried(new) /\ Live(p)' /\ OnLive(p)' = Len(new.toP)
<1> DEFINE s == Append(Closed(p), new)
<1>1. /\ Len(s) = Len(link[p]) + 1
      /\ \A c \in 1..Len(link[p]) : Carried(s[c]) = Carried(link[p][c])
      /\ s[Len(link[p]) + 1] = new
  BY OpenedShape
<1>2. link'[p] = s /\ s # <<>>
  <2>1. Closed(p) \in Seq(Connections)
    BY ClosedType
  <2> QED
    BY <2>1
<1>3. Len(link[p]) \in Nat
  BY DEF NetworkTypes
<1> HIDE DEF s
<1>4. UNION {Carried(s[c]) : c \in 1..Len(s)} = Under(p) \cup Carried(new)
  <2>1. ASSUME NEW c \in 1..Len(s)
        PROVE  Carried(s[c]) \subseteq Under(p) \cup Carried(new)
    <3>1. CASE c \in 1..Len(link[p])
      BY <1>1, <3>1 DEF Under
    <3>2. CASE c = Len(link[p]) + 1
      BY <1>1, <3>2
    <3> QED
      BY <1>1, <1>3, <3>1, <3>2
  <2>2. ASSUME NEW c \in 1..Len(link[p])
        PROVE  c \in 1..Len(s) /\ Carried(link[p][c]) = Carried(s[c])
    BY <1>1, <1>3
  <2>3. Len(s) \in 1..Len(s) /\ s[Len(s)] = new
    BY <1>1, <1>3
  <2>4. Under(p) \subseteq UNION {Carried(s[c]) : c \in 1..Len(s)}
    BY <2>2 DEF Under
  <2> QED
    BY <2>1, <2>3, <2>4
<1>5. LastOf(s) = new
  BY <1>1 DEF LastOf
<1>6. Live(p)'
  BY <1>2, <1>5 DEF Live
<1> QED
  BY <1>2, <1>4, <1>5, <1>6 DEF Under, OnLive

LEMMA SentPlace ==
    ASSUME NetworkTypes, NEW p \in P, NEW m \in CoordinatorMsgs, link'[p] = Sent(p, m),
           linkUp[p]
    PROVE  /\ Under(p)' \subseteq Under(p) \cup {m}
           /\ Live(p)' = Live(p)
           /\ IF Live(p) THEN OnLive(p)' = OnLive(p) + 1 ELSE OnLive(p)' = 0
<1>1. link[p] \in Seq(Connections)
  BY DEF NetworkTypes
<1>2. CASE ~Live(p)
  <2>1. link'[p] = link[p]
    BY <1>2 DEF Sent
  <2> QED
    BY <1>2, <2>1 DEF Under, Live, OnLive
<1>3. CASE Live(p)
  <2> DEFINE s == Sent(p, m)
             last == link[p][Len(link[p])]
             grown == [last EXCEPT !.toP = Append(@, m)]
  <2>1. /\ Len(s) = Len(link[p])
        /\ \A c \in 1..Len(link[p]) : Carried(s[c]) \subseteq Carried(link[p][c]) \cup {m}
    BY SentShape
  <2>2. Len(link[p]) \in 1..Len(link[p]) /\ last \in Connections /\ last.live
    BY <1>1, <1>3 DEF Live, LastOf
  <2>3. grown.live = last.live /\ grown.toP = Append(last.toP, m)
    BY <2>2 DEF Connections
  <2>4. Len(grown.toP) = Len(last.toP) + 1
    BY <2>2, <2>3 DEF Connections
  <2>5. s = [link[p] EXCEPT ![Len(link[p])] = grown]
    BY <1>3 DEF Sent
  <2> HIDE DEF grown
  <2>6. s[Len(s)] = grown /\ s # <<>>
    BY <1>1, <2>1, <2>2, <2>5
  <2>7. link'[p] = s
    OBVIOUS
  <2> HIDE DEF s
  <2>8. Live(p)' /\ OnLive(p)' = OnLive(p) + 1
    BY <1>3, <2>2, <2>3, <2>4, <2>6, <2>7 DEF Live, OnLive, LastOf
  <2>9. Under(p)' \subseteq Under(p) \cup {m}
    BY <2>1, <2>7 DEF Under
  <2> QED
    BY <1>3, <2>8, <2>9
<1> QED
  BY <1>2, <1>3

(* Less on a connection, or one that is closed gone. *)
LEMMA ThinnedPlace ==
    ASSUME NetworkTypes, NEW p \in P, NEW i \in 1..Len(link[p]),
           NEW c \in Connections, Carried(c) \subseteq Carried(link[p][i]),
           c.live = link[p][i].live, link'[p] = [link[p] EXCEPT ![i] = c]
    PROVE  /\ Under(p)' \subseteq Under(p)
           /\ ~c.live => Live(p)' = Live(p) /\ OnLive(p)' = OnLive(p)
<1>1. link[p] \in Seq(Connections)
  BY DEF NetworkTypes
<1>2. /\ Len(link'[p]) = Len(link[p])
      /\ \A k \in 1..Len(link[p]) : link'[p][k] = IF k = i THEN c ELSE link[p][k]
  BY <1>1
<1>3. Len(link[p]) \in Nat /\ i \in 1..Len(link[p]) /\ Len(link[p]) \in 1..Len(link[p])
  BY <1>1
<1>4. link[p] # <<>> /\ link'[p] # <<>>
  BY <1>1, <1>2, <1>3
<1>5. Under(p)' \subseteq Under(p)
  BY <1>2 DEF Under
<1>6. ~c.live => Live(p)' = Live(p)
  BY <1>2, <1>3, <1>4 DEF Live, LastOf
<1>7. ~c.live /\ Live(p) => LastOf(link'[p]) = LastOf(link[p])
  BY <1>2, <1>3, <1>4 DEF Live, LastOf
<1> QED
  BY <1>5, <1>6, <1>7 DEF OnLive

LEMMA TailShape ==
    ASSUME NEW S, NEW s \in Seq(S), s # <<>>
    PROVE  /\ Len(s) \in Nat \ {0} /\ Head(s) = s[1]
           /\ Tail(s) \in Seq(S) /\ Len(Tail(s)) = Len(s) - 1
           /\ Tail(s) = <<>> <=> Len(s) = 1
           /\ \A k \in 1..Len(Tail(s)) : Tail(s)[k] = s[k + 1] /\ k + 1 \in 1..Len(s)
<1>1. /\ Len(s) \in Nat \ {0} /\ Head(s) = s[1]
      /\ Tail(s) \in Seq(S) /\ Len(Tail(s)) = Len(s) - 1
      /\ \A k \in 1..Len(Tail(s)) : Tail(s)[k] = s[k + 1]
  OBVIOUS
<1>2. ASSUME NEW t \in Seq(S) PROVE t = <<>> <=> Len(t) = 0
  OBVIOUS
<1>3. Tail(s) = <<>> <=> Len(Tail(s)) = 0
  BY <1>1, <1>2
<1> QED
  BY <1>1, <1>3

LEMMA TailPlace ==
    ASSUME NetworkTypes, NEW p \in P, link[p] # <<>>, ~Head(link[p]).live,
           link'[p] = Tail(link[p])
    PROVE  Under(p)' \subseteq Under(p) /\ Live(p)' = Live(p) /\ OnLive(p)' = OnLive(p)
<1> DEFINE s == link[p]
           t == Tail(s)
<1>1. s \in Seq(Connections) /\ s # <<>> /\ ~Head(s).live
  BY DEF NetworkTypes
<1>2. /\ Len(s) \in Nat \ {0} /\ Head(s) = s[1] /\ Len(t) = Len(s) - 1
      /\ \A k \in 1..Len(t) : t[k] = s[k + 1] /\ k + 1 \in 1..Len(s)
      /\ t = <<>> <=> Len(s) = 1
  BY <1>1, TailShape
<1>4. link'[p] = t /\ link[p] = s
  OBVIOUS
<1> HIDE DEF s, t
<1>5. Under(p)' \subseteq Under(p)
  BY <1>2, <1>4 DEF Under
<1>6. CASE Len(s) = 1
  <2>1. ~Live(p) /\ ~Live(p)'
    BY <1>1, <1>2, <1>4, <1>6 DEF Live, LastOf
  <2>2. Live(p)' = Live(p)
    BY <2>1 DEF Live
  <2> QED
    BY <1>5, <2>1, <2>2 DEF OnLive
<1>7. CASE Len(s) # 1
  <2>1. t # <<>> /\ LastOf(t) = LastOf(s)
    BY <1>2, <1>7 DEF LastOf
  <2>2. Live(p)' = Live(p)
    BY <1>1, <1>4, <2>1 DEF Live
  <2>3. LastOf(link'[p]) = LastOf(link[p])
    BY <1>4, <2>1
  <2> QED
    BY <1>5, <2>2, <2>3 DEF OnLive
<1> QED
  BY <1>6, <1>7

-----------------------------------------------------------------------------
(* What a participant is owed or owes, when its part of the system only loses
   messages, or a connection. *)

SameTransaction == UNCHANGED <<op, tid, store, outcome>>

Thins(p) ==
    /\ part'[p] = part[p] /\ sock'[p] = sock[p]
    /\ Under(p)' \subseteq Under(p)
    /\ Len(toC'[p]) \in 0..Len(toC[p])
    /\ toC'[p] # <<>> => toC[p] # <<>> /\ toC'[p][1] = toC[p][1]
    /\ \/ ~Reachable(p)'
       \/ eof'[p] /\ OnLive(p)' \in 0..OnLive(p)
       \/ /\ eof'[p] = eof[p] /\ toC'[p] = toC[p]
          /\ OnLive(p)' = OnLive(p) /\ Live(p)' = Live(p)

LEMMA PlaceTypes ==
    ASSUME IInv, NEW p \in P
    PROVE  /\ OnLive(p) \in Nat /\ Len(toC[p]) \in Nat /\ toC[p] \in Seq(FittingReplies)
           /\ (toC[p] = <<>> <=> Len(toC[p]) = 0)
           /\ part[p] \in SoundStates /\ part[p].phase \in {1, 2}
<1>1. NetworkTypes /\ ParticipantTypes
  BY DEF IInv
<1>2. toC[p] \in Seq(FittingReplies)
  BY <1>1 DEF NetworkTypes
<1>3. ASSUME NEW s \in Seq(FittingReplies) PROVE s = <<>> <=> Len(s) = 0
  OBVIOUS
<1>4. part[p] \in SoundStates
  BY <1>1 DEF ParticipantTypes
<1>5. part[p].phase \in {1, 2}
  BY <1>4 DEF SoundStates, ParticipantStates
<1> QED
  BY <1>1, <1>2, <1>3, <1>4, <1>5, OnLiveType

LEMMA ThinsType ==
    ASSUME IInv, NEW p \in P, part'[p] = part[p], sock'[p] = sock[p], toC'[p] = toC[p],
           eof'[p] = eof[p], Under(p)' \subseteq Under(p), Live(p)' = Live(p),
           OnLive(p)' = OnLive(p)
    PROVE  Thins(p)
<1>1. OnLive(p) \in Nat /\ Len(toC[p]) \in Nat
  BY PlaceTypes
<1> QED
  BY <1>1 DEF Thins

LEMMA ThinsNothing ==
    ASSUME IInv, NEW p \in P, part'[p] = part[p], sock'[p] = sock[p], toC'[p] = toC[p],
           eof'[p] = eof[p], link'[p] = link[p]
    PROVE  Thins(p)
<1>1. Under(p)' = Under(p) /\ Live(p)' = Live(p) /\ OnLive(p)' = OnLive(p)
  BY DEF Under, Live, OnLive
<1> QED
  BY <1>1, ThinsType

LEMMA ThinningKeeps ==
    ASSUME IInv, NEW p \in P, Thins(p), SameTransaction, Reachable(p)'
    PROVE  /\ Attached(p) => Attached(p)'
           /\ Owed(p) => Owed(p)'
           /\ Fresh(p) => Fresh(p)'
           /\ Resting(p) => Resting(p)'
           /\ Ready(p) => Ready(p)'
           /\ Asked(p) => Asked(p)'
           /\ Voted(p) => Voted(p)'
           /\ Pending(p) => Pending(p)'
           /\ Told(p) => Told(p)'
           /\ Over(p) => Over(p)'
           /\ Agrees(p) /\ reply' = reply => Agrees(p)'
<1>1. OnLive(p) \in Nat /\ Len(toC[p]) \in Nat /\ (toC[p] = <<>> <=> Len(toC[p]) = 0)
  BY PlaceTypes
<1>2. op' = op /\ tid' = tid /\ store' = store /\ outcome' = outcome /\ part'[p] = part[p]
  BY DEF SameTransaction, Thins
<1>3. Attached(p) => Attached(p)'
  BY <1>1 DEF Attached, Thins
<1>4. Owed(p) => Owed(p)'
  BY <1>1 DEF Owed, Thins
<1>5. Fresh(p) => Fresh(p)'
  BY <1>2 DEF Fresh, Thins
<1>6. Resting(p) => Resting(p)'
  BY <1>2 DEF Resting, Thins, NoCrash
<1>7. Ready(p) => Ready(p)'
  BY <1>2 DEF Ready
<1>8. Asked(p) => Asked(p)'
  <2> SUFFICES ASSUME Asked(p) PROVE Asked(p)'
    OBVIOUS
  <2>1. Owed(p)' /\ (eof'[p] \/ Live(p)')
    BY <1>4 DEF Asked, Thins
  <2>2. \A m \in Under(p)' : m.id = tid' => m = PrepareRequest(tid', op')
    BY <1>2 DEF Asked, Thins
  <2>3. part'[p].phase = 2 /\ part'[p].id = tid' => Ready(p)'
    BY <1>2, <1>7 DEF Asked
  <2>4. toC'[p] # <<>> => Under(p)' = {} /\ (op'.method # "GET" => Ready(p)')
    BY <1>2, <1>7 DEF Asked, Thins
  <2>5. NoCrash => /\ StableStore(part'[p]) = store'
                   /\ \A m \in Under(p)' : m.id = tid'
                   /\ part'[p].phase = 2 => part'[p].id = tid'
    BY <1>2 DEF Asked, Thins
  <2> QED
    BY <2>1, <2>2, <2>3, <2>4, <2>5 DEF Asked, NoCrash
<1>9. HoldsDecision(p) => HoldsDecision(p)'
  BY <1>2 DEF HoldsDecision, Count, NoCrash
<1>10. Voted(p) => Voted(p)'
  BY <1>2, <1>3, <1>7 DEF Voted, Thins, NoCrash
<1>11. Pending(p) => Pending(p)'
  BY <1>3, <1>7, <1>9 DEF Pending, Thins
<1>12. Finished(p) => Finished(p)'
  BY <1>2 DEF Finished, Count
<1>13. Told(p) => Told(p)'
  BY <1>2, <1>4, <1>7, <1>9, <1>12 DEF Told, Thins
<1>14. Over(p) => Over(p)'
  BY <1>9, <1>12 DEF Over, Thins
<1>15. Agrees(p) /\ reply' = reply => Agrees(p)'
  BY <1>2 DEF Agrees, Thins
<1> QED
  BY <1>3, <1>4, <1>5, <1>6, <1>7, <1>8, <1>10, <1>11, <1>13, <1>14, <1>15

(* p cannot be reached, now or from now on: only what it has sent matters. *)
LEMMA GoneTracks ==
    ASSUME NEW p \in P, ~Reachable(p)', Drawn(p)', RepliesFit(p)'
    PROVE  Together(p)'
BY DEF Tracks, Together

LEMMA RepliesStay ==
    ASSUME IInv, NEW p \in P, RepliesFit(p), UNCHANGED <<pc, idx>>, SameTransaction,
           p \in watch' <=> p \in watch,
           sock'[p] => sock[p], Len(toC'[p]) \in 0..Len(toC[p]),
           toC'[p] # <<>> => toC[p] # <<>> /\ toC'[p][1] = toC[p][1]
    PROVE  RepliesFit(p)'
<1>1. Len(toC[p]) \in Nat
  BY PlaceTypes
<1>2. op' = op /\ tid' = tid /\ outcome' = outcome /\ store' = store
  BY DEF SameTransaction
<1>3. toC[p] = <<>> => toC'[p] = <<>>
  OBVIOUS
<1>4. Len(toC[p]) <= 1 => Len(toC'[p]) <= 1
  BY <1>1
<1>5. sock'[p] /\ toC'[p] # <<>> /\ pc' \in {"decide", "waitDone"} => Fits(toC[p][1])'
  BY <1>2 DEF RepliesFit, Fits, NoCrash
<1> QED
  BY <1>3, <1>4, <1>5 DEF RepliesFit

(* Nothing else happens to it: what is known of the phase remains so. *)
LEMMA ThinningTracks ==
    ASSUME IInv, NEW p \in P, Thins(p), SameTransaction, Together(p),
           UNCHANGED <<pc, idx, reply, used>>, Reachable(p)' => Reachable(p),
           p \in watch' <=> p \in watch, valid'[p] = valid[p]
    PROVE  Together(p)'
<1>1. Tracks(p) /\ RepliesFit(p) /\ Drawn(p)
  BY DEF Together
<1>2. op' = op /\ tid' = tid /\ outcome' = outcome /\ store' = store /\ part'[p] = part[p]
  BY DEF SameTransaction, Thins
<1>3. Tracks(p)'
  <2> SUFFICES ASSUME Reachable(p)' PROVE Tracks(p)'
    BY DEF Tracks
  <2>1. Reachable(p)
    OBVIOUS
  <2>2. valid'[p]
    BY <1>1, <2>1 DEF Tracks
  <2>3. pc' = "idle" => Resting(p)' /\ Agrees(p)'
    BY <1>1, <2>1, ThinningKeeps DEF Tracks
  <2>4. pc' = "get" => Resting(p)' /\ (p >= idx' => Fresh(p)')
    BY <1>1, <2>1, ThinningKeeps DEF Tracks
  <2>5. pc' = "connect" => Resting(p)' /\ (p < idx' => Attached(p)')
    BY <1>1, <2>1, ThinningKeeps DEF Tracks
  <2>6. pc' = "prepare" =>
          IF p < idx' THEN Asked(p)' ELSE Attached(p)' /\ Fresh(p)' /\ Resting(p)'
    BY <1>1, <2>1, ThinningKeeps DEF Tracks
  <2>7. pc' = "waitPrepared" => IF p \in watch' THEN Asked(p)' ELSE Voted(p)'
    BY <1>1, <2>1, ThinningKeeps DEF Tracks
  <2>8. pc' = "decide" => IF p < idx' THEN Told(p)' ELSE Pending(p)'
    BY <1>1, <2>1, ThinningKeeps DEF Tracks
  <2>9. pc' = "waitDone" /\ op'.method # "GET" => IF p \in watch' THEN Told(p)' ELSE Over(p)'
    BY <1>1, <1>2, <2>1, ThinningKeeps DEF Tracks
  <2>10. pc' = "waitDone" /\ op'.method = "GET" =>
             IF p \in watch' THEN Asked(p)' /\ p = idx'
             ELSE Resting(p)' /\ (p > idx' => Fresh(p)')
    BY <1>1, <1>2, <2>1, ThinningKeeps DEF Tracks
  <2> QED
    BY <2>2, <2>3, <2>4, <2>5, <2>6, <2>7, <2>8, <2>9, <2>10 DEF Tracks
<1>4. RepliesFit(p)'
  BY <1>1, RepliesStay DEF Thins
<1>5. Drawn(p)'
  BY <1>1, <1>2 DEF Drawn, Thins
<1> QED
  BY <1>3, <1>4, <1>5 DEF Together

-----------------------------------------------------------------------------
(* The participants and the network. *)

(* A step of one participant's part of the system. *)
LEMMA ElsewhereAgrees ==
    ASSUME IInv, Agreement, NEW q \in P, Together(q)', UNCHANGED <<coordinator, history, used>>,
           \A p \in P : p # q => /\ link'[p] = link[p] /\ part'[p] = part[p] /\ up'[p] = up[p]
                                 /\ eof'[p] = eof[p] /\ toC'[p] = toC[p]
                                 /\ linkUp'[p] = linkUp[p]
    PROVE  Agreement'
<1>1. /\ UNCHANGED <<pc, op, reply, valid, tid, idx, sock, watch, replied, response, decision,
                     first, store, outcome, used>>
  BY DEF coordinator, history
<1>2. ASSUME NEW p \in P, p # q PROVE Together(p)'
  <2>1. Thins(p)
    BY <1>1, <1>2, ThinsNothing
  <2>2. Reachable(p)' = Reachable(p)
    BY <1>2 DEF Reachable
  <2>3. SameTransaction /\ Together(p)
    BY <1>1 DEF SameTransaction, Agreement
  <2> QED
    BY <1>1, <2>1, <2>2, <2>3, ThinningTracks
<1>3. OutcomeFits'
  BY <1>1 DEF OutcomeFits, Fits, NoCrash, Agreement
<1>4. TidIsDrawn'
  BY <1>1 DEF TidIsDrawn, Agreement
<1> QED
  BY <1>2, <1>3, <1>4 DEF Agreement

LEMMA ThinningAgrees ==
    ASSUME IInv, Agreement, NEW q \in P, Thins(q), UNCHANGED <<coordinator, history, used>>,
           Reachable(q)' => Reachable(q),
           \A p \in P : p # q => /\ link'[p] = link[p] /\ part'[p] = part[p] /\ up'[p] = up[p]
                                 /\ eof'[p] = eof[p] /\ toC'[p] = toC[p]
                                 /\ linkUp'[p] = linkUp[p]
    PROVE  Agreement'
<1>1. UNCHANGED <<pc, op, reply, valid, tid, idx, watch, store, outcome, used>>
  BY DEF coordinator, history
<1>2. SameTransaction /\ Together(q)
  BY <1>1 DEF SameTransaction, Agreement
<1>3. Together(q)'
  BY <1>1, <1>2, ThinningTracks
<1> QED
  BY <1>3, ElsewhereAgrees

LEMMA ParticipantEofAgrees ==
    ASSUME IInv, Agreement, NEW q \in P, ParticipantEof(q)
    PROVE  Agreement'
<1>1. /\ link[q] # <<>> /\ ~Head(link[q]).live /\ link' = [link EXCEPT ![q] = Tail(link[q])]
      /\ UNCHANGED <<coordinator, toC, eof, linkUp, participants, history, bounds>>
      /\ NetworkTypes
  BY DEF ParticipantEof, IInv
<1>2. UNCHANGED <<sock, part, up, used>>
  BY <1>1 DEF coordinator, participants, bounds
<1>3. link'[q] = Tail(link[q]) /\ \A p \in P : p # q => link'[p] = link[p]
  BY <1>1 DEF NetworkTypes
<1>4. Under(q)' \subseteq Under(q) /\ Live(q)' = Live(q) /\ OnLive(q)' = OnLive(q)
  BY <1>1, <1>3, TailPlace
<1>5. Thins(q)
  BY <1>1, <1>2, <1>4, ThinsType
<1> QED
  BY <1>1, <1>2, <1>3, <1>5, ThinningAgrees DEF Reachable

LEMMA FrontOf ==
    ASSUME NEW S, NEW s \in Seq(S), s # <<>>
    PROVE  /\ Len(SubSeq(s, 1, Len(s) - 1)) \in 0..Len(s)
           /\ SubSeq(s, 1, Len(s) - 1) # <<>> => SubSeq(s, 1, Len(s) - 1)[1] = s[1]
<1> DEFINE t == SubSeq(s, 1, Len(s) - 1)
<1>1. Len(s) \in Nat \ {0} /\ Len(t) \in 0..Len(s) /\ \A k \in 1..Len(t) : t[k] = s[k]
  <2>1. Len(s) \in Nat \ {0}
    OBVIOUS
  <2>2. Len(t) \in 0..Len(s)
    BY <2>1
  <2>3. \A k \in 1..Len(t) : t[k] = s[k]
    BY <2>1
  <2> QED
    BY <2>1, <2>2, <2>3
<1>2. t \in Seq(S)
  BY FrontType
<1>3. ASSUME NEW u \in Seq(S) PROVE u # <<>> => 1 \in 1..Len(u)
  OBVIOUS
<1>4. t # <<>> => 1 \in 1..Len(t)
  BY <1>2, <1>3
<1> HIDE DEF t
<1> QED
  BY <1>1, <1>4 DEF t

LEMMA LoseReplyAgrees ==
    ASSUME IInv, Agreement, NEW q \in P, LoseReply(q)
    PROVE  Agreement'
<1>1. /\ eof[q] \/ ~linkUp[q]
      /\ toC[q] # <<>> /\ toC' = [toC EXCEPT ![q] = SubSeq(@, 1, Len(@) - 1)]
      /\ UNCHANGED <<coordinator, eof, link, linkUp, participants, history, bounds>>
      /\ NetworkTypes
  BY DEF LoseReply, IInv
<1>2. UNCHANGED <<sock, part, up, used>>
  BY <1>1 DEF coordinator, participants, bounds
<1>3. toC'[q] = SubSeq(toC[q], 1, Len(toC[q]) - 1) /\ \A p \in P : p # q => toC'[p] = toC[p]
  BY <1>1 DEF NetworkTypes
<1>4. toC[q] \in Seq(FittingReplies) /\ OnLive(q) \in Nat
  BY PlaceTypes
<1>5. Len(toC'[q]) \in 0..Len(toC[q]) /\ (toC'[q] # <<>> => toC'[q][1] = toC[q][1])
  BY <1>1, <1>3, <1>4, FrontOf
<1>6. Under(q)' = Under(q) /\ OnLive(q)' = OnLive(q)
  BY <1>1 DEF Under, OnLive, Live
<1>7. OnLive(q)' \in 0..OnLive(q)
  BY <1>4, <1>6
<1>8. Thins(q)
  BY <1>1, <1>2, <1>5, <1>6, <1>7 DEF Thins, Reachable
<1> QED
  BY <1>1, <1>2, <1>3, <1>8, ThinningAgrees DEF Reachable

LEMMA LoseRequestAgrees ==
    ASSUME IInv, Agreement, NEW q \in P, LoseRequest(q)
    PROVE  Agreement'
<1>1. PICK i \in 1..Len(link[q]) :
        /\ ~link[q][i].live \/ ~linkUp[q]
        /\ link[q][i].toP # <<>>
        /\ link' = [link EXCEPT ![q] = [link[q] EXCEPT ![i] =
                       [link[q][i] EXCEPT !.toP = SubSeq(@, 1, Len(@) - 1)]]]
  BY DEF LoseRequest
<1>2. /\ UNCHANGED <<coordinator, toC, eof, linkUp, participants, history, bounds>>
      /\ NetworkTypes
  BY DEF LoseRequest, IInv
<1>3. UNCHANGED <<sock, part, up, used>>
  BY <1>2 DEF coordinator, participants, bounds
<1> DEFINE d == [link[q][i] EXCEPT !.toP = SubSeq(link[q][i].toP, 1, Len(link[q][i].toP) - 1)]
<1>4. link[q][i] \in Connections
  BY <1>2 DEF NetworkTypes
<1>5. d.live = link[q][i].live /\ Carried(d) \subseteq Carried(link[q][i]) /\ d \in Connections
  <2>1. link[q][i].toP \in Seq(CoordinatorMsgs)
    BY <1>4 DEF Connections
  <2>2. SubSeq(link[q][i].toP, 1, Len(link[q][i].toP) - 1) \in Seq(CoordinatorMsgs)
    BY <1>1, <2>1, FrontType
  <2> QED
    BY <1>1, <1>4, <2>2, CarriedFront DEF Connections
<1>6. link' = [link EXCEPT ![q] = [link[q] EXCEPT ![i] = d]]
  BY <1>1
<1> HIDE DEF d
<1>7. link'[q] = [link[q] EXCEPT ![i] = d] /\ \A p \in P : p # q => link'[p] = link[p]
  BY <1>2, <1>6 DEF NetworkTypes
<1>8. /\ Under(q)' \subseteq Under(q)
      /\ ~d.live => Live(q)' = Live(q) /\ OnLive(q)' = OnLive(q)
  BY <1>2, <1>5, <1>7, ThinnedPlace
<1>9. Thins(q)
  <2>1. CASE ~d.live
    BY <1>2, <1>3, <1>8, <2>1, ThinsType
  <2>2. CASE d.live
    <3>1. ~Reachable(q)'
      BY <1>1, <1>2, <1>5, <2>2 DEF Reachable
    <3>2. Len(toC[q]) \in Nat /\ toC' = toC
      BY <1>2, PlaceTypes
    <3> QED
      BY <1>3, <1>8, <3>1, <3>2 DEF Thins
  <2> QED
    BY <2>1, <2>2
<1> QED
  BY <1>2, <1>3, <1>7, <1>9, ThinningAgrees DEF Reachable

LEMMA BreakAgrees ==
    ASSUME IInv, Delivery, Agreement, NEW q \in P, Break(q)
    PROVE  Agreement'
<1>1. /\ eof' = [eof EXCEPT ![q] = TRUE] /\ link' = [link EXCEPT ![q] = Closed(q)]
      /\ UNCHANGED <<coordinator, toC, linkUp, participants, history, used>>
      /\ NetworkTypes
  BY DEF Break, IInv
<1>2. UNCHANGED <<sock, part, up>>
  BY <1>1 DEF coordinator, participants
<1>3. /\ link'[q] = Closed(q) /\ eof'[q]
      /\ \A p \in P : p # q => link'[p] = link[p] /\ eof'[p] = eof[p]
  BY <1>1 DEF NetworkTypes
<1>4. Under(q)' = Under(q) /\ OnLive(q)' = 0
  BY <1>1, <1>3, ClosedPlace DEF Delivery
<1>5. Len(toC[q]) \in Nat /\ OnLive(q) \in Nat
  BY PlaceTypes
<1>6. OnLive(q)' \in 0..OnLive(q) /\ Len(toC'[q]) \in 0..Len(toC[q])
  BY <1>1, <1>4, <1>5
<1>7. Thins(q)
  BY <1>1, <1>2, <1>3, <1>4, <1>6 DEF Thins
<1> QED
  BY <1>1, <1>2, <1>3, <1>7, ThinningAgrees DEF Reachable

LEMMA LinkDownAgrees ==
    ASSUME IInv, Agreement, NEW q \in P, LinkDown(q)
    PROVE  Agreement'
<1>1. /\ linkUp' = [linkUp EXCEPT ![q] = FALSE]
      /\ UNCHANGED <<coordinator, toC, eof, link, participants, history, used>>
      /\ NetworkTypes
  BY DEF LinkDown, IInv
<1>2. UNCHANGED <<sock, part, up>>
  BY <1>1 DEF coordinator, participants
<1>3. ~linkUp'[q] /\ \A p \in P : p # q => linkUp'[p] = linkUp[p]
  BY <1>1 DEF NetworkTypes
<1>4. Thins(q)
  BY <1>1, <1>2, ThinsNothing
<1> QED
  BY <1>1, <1>2, <1>3, <1>4, ThinningAgrees DEF Reachable

LEMMA ParticipantCrashAgrees ==
    ASSUME IInv, Agreement, NEW q \in P, ParticipantCrash(q)
    PROVE  Agreement'
<1>1. /\ Die(q) /\ part' = [part EXCEPT ![q] = InitialParticipant]
      /\ UNCHANGED <<coordinator, toC, linkUp, history, used>>
      /\ NetworkTypes /\ ParticipantTypes
  BY DEF ParticipantCrash, IInv
<1>2. UNCHANGED <<pc, op, tid, idx, sock, watch, store, outcome>>
  BY <1>1 DEF coordinator, history
<1>3. link'[q] = <<>> /\ \A p \in P : p # q => link'[p] = link[p] /\ eof'[p] = eof[p]
  BY <1>1 DEF Die, NetworkTypes
<1>4. /\ part'[q].phase = 1 /\ ~up'[q]
      /\ \A p \in P : p # q => part'[p] = part[p] /\ up'[p] = up[p]
  BY <1>1, InitialIsSound DEF Die, ParticipantTypes
<1>5. Under(q)' = {}
  BY <1>3 DEF Under
<1>6. Len(toC'[q]) \in 0..Len(toC[q])
  BY <1>1, PlaceTypes
<1>7. RepliesFit(q)'
  BY <1>1, <1>2, <1>6, RepliesStay DEF Agreement, Together, SameTransaction
<1>8. Together(q)'
  BY <1>4, <1>5, <1>7, GoneTracks DEF Reachable, Drawn
<1> QED
  BY <1>1, <1>3, <1>4, <1>8, ElsewhereAgrees

-----------------------------------------------------------------------------
(* What a participant makes of a PREPARED-REQUEST and of a COMMIT. *)

LEMMA HandleRequest ==
    ASSUME NEW s \in SoundStates, NEW i \in Ids, NEW o \in Requests
    PROVE  LET r == Handle(s, PrepareRequest(i, o))
           IN /\ r.result = "loop" /\ StableStore(r.state) = StableStore(s)
              /\ r.reply = r.state.lastResponseMsg
              /\ IF s.phase = 2 /\ s.id = i THEN r.state = s
                 ELSE IF o \in Writes
                 THEN /\ r.state.phase = 2 /\ r.state.id = i
                      /\ r.state.operationLog.op = o /\ r.reply.type = "PREPARED"
                 ELSE /\ r.state.phase = 1
                      /\ r.reply = Done(i, "GET", StableStore(s)[KeyOf(o)])
<1> DEFINE m == PrepareRequest(i, o)
           r == Handle(s, m)
<1>1. /\ s \in ParticipantStates /\ Recorded(s) /\ s.phase \in {1, 2}
      /\ m \in CoordinatorMsgs /\ m.type = "PREPARED-REQUEST" /\ m.id = i /\ m.op = o
  BY MsgType DEF SoundStates, ParticipantStates, PrepareRequest
<1>2. CASE s.phase = 2 /\ s.id = i
  BY <1>1, <1>2 DEF Handle, PhaseTwo, Resend
<1>3. ASSUME NEW u \in ParticipantStates, u.phase = 1, u.db = StableStore(s),
             r = Remember(handlePreparePhase(u, m), "loop")
      PROVE  /\ r.result = "loop" /\ StableStore(r.state) = StableStore(s)
             /\ r.reply = r.state.lastResponseMsg
             /\ IF o \in Writes
                THEN /\ r.state.phase = 2 /\ r.state.id = i
                     /\ r.state.operationLog.op = o /\ r.reply.type = "PREPARED"
                ELSE /\ r.state.phase = 1
                     /\ r.reply = Done(i, "GET", StableStore(s)[KeyOf(o)])
  <2> DEFINE h == handlePreparePhase(u, m)
  <2>1. h.state \in ParticipantStates
    BY <1>1, <1>3, PreparePhase
  <2>2. /\ r.result = "loop" /\ r.reply = h.reply
        /\ r.state = [h.state EXCEPT !.lastResponseMsg = h.reply]
    BY <1>3 DEF Remember
  <2>3. CASE o \in Writes
    <3> DEFINE t == StartPhaseTwo(u, i, o)
    <3>1. o.method # "GET"
      BY <2>3, RequestType
    <3>2. h.state = t /\ h.reply = Prepared(i, o.method)
      BY <1>1, <3>1 DEF handlePreparePhase
    <3>3. t.phase = 2 /\ t.operationLog.op = o /\ Undo(t.db, t.rollbackLog) = u.db
      BY <1>3, <2>3, PrepareWrite
    <3>4. t.id = i
      BY <1>3 DEF StartPhaseTwo, ParticipantStates
    <3>5. t \in ParticipantStates
      BY <2>1, <3>2
    <3> HIDE DEF t, h, r
    <3>6. /\ r.state.phase = 2 /\ r.state.id = i /\ r.state.operationLog.op = o
          /\ r.state.db = t.db /\ r.state.rollbackLog = t.rollbackLog
          /\ r.state.lastResponseMsg = h.reply
      BY <2>2, <3>2, <3>3, <3>4, <3>5 DEF ParticipantStates
    <3>7. r.reply.type = "PREPARED"
      BY <2>2, <3>2 DEF Prepared
    <3>8. StableStore(r.state) = StableStore(s)
      BY <1>3, <3>3, <3>6 DEF StableStore
    <3> QED
      BY <2>2, <2>3, <3>6, <3>7, <3>8
  <2>4. CASE o \notin Writes
    <3> DEFINE t == ReadOnly(u, i, o)
    <3>1. o.method = "GET" /\ o \in GetRequests
      BY <2>4, RequestType
    <3>2. h.state = t /\ h.reply = Done(i, "GET", u.db[KeyOf(o)])
      BY <1>1, <3>1 DEF handlePreparePhase
    <3>3. t.phase = 1 /\ t.db = u.db /\ t \in ParticipantStates
      BY <1>3, <3>1, ReadType
    <3> HIDE DEF t, h, r
    <3>4. r.state.phase = 1 /\ r.state.db = u.db /\ r.state.lastResponseMsg = h.reply
      BY <2>2, <3>2, <3>3 DEF ParticipantStates
    <3> QED
      BY <1>3, <2>2, <2>4, <3>2, <3>4 DEF StableStore
  <2> QED
    BY <2>3, <2>4
<1>4. CASE s.phase = 1
  <2>1. r = Remember(handlePreparePhase(s, m), "loop")
    BY <1>1, <1>4 DEF Handle, PhaseOne
  <2>2. s.db = StableStore(s)
    BY <1>4 DEF StableStore
  <2> HIDE DEF r
  <2>3. /\ r.result = "loop" /\ StableStore(r.state) = StableStore(s)
        /\ r.reply = r.state.lastResponseMsg
        /\ IF o \in Writes
           THEN /\ r.state.phase = 2 /\ r.state.id = i
                /\ r.state.operationLog.op = o /\ r.reply.type = "PREPARED"
           ELSE /\ r.state.phase = 1
                /\ r.reply = Done(i, "GET", StableStore(s)[KeyOf(o)])
    BY <1>1, <1>3, <1>4, <2>1, <2>2
  <2> QED
    BY <1>4, <2>3 DEF r
<1>5. CASE s.phase = 2 /\ s.id # i
  <2> DEFINE u == [rollBack(s) EXCEPT !.phase = 1]
  <2>1. r = Remember(handlePreparePhase(u, m), "loop")
    BY <1>1, <1>5 DEF Handle, PhaseTwo
  <2>2. u \in ParticipantStates /\ u.db = StableStore(s) /\ u.phase = 1
    BY <1>1, <1>5, RollBackType DEF StableStore
  <2> HIDE DEF r, u
  <2>3. /\ r.result = "loop" /\ StableStore(r.state) = StableStore(s)
        /\ r.reply = r.state.lastResponseMsg
        /\ IF o \in Writes
           THEN /\ r.state.phase = 2 /\ r.state.id = i
                /\ r.state.operationLog.op = o /\ r.reply.type = "PREPARED"
           ELSE /\ r.state.phase = 1
                /\ r.reply = Done(i, "GET", StableStore(s)[KeyOf(o)])
    BY <1>3, <2>1, <2>2
  <2> QED
    BY <1>5, <2>3 DEF r
<1> QED
  BY <1>1, <1>2, <1>4, <1>5

LEMMA HandleCommit ==
    ASSUME NEW s \in SoundStates, NEW i \in Ids, s.phase = 2 \/ s.id = i
    PROVE  LET r == Handle(s, Commit(i))
           IN /\ r.result = "return" /\ r.reply = r.state.lastResponseMsg
              /\ IF s.phase = 1 THEN r.state = s
                 ELSE /\ r.state.phase = 1 /\ r.state.id = s.id /\ r.state.db = s.db
                      /\ r.state.operationLog = s.operationLog
                      /\ r.reply = Done(s.id, s.operationLog.op.method,
                                        IF s.operationLog.op.method = "DEL"
                                        THEN Cardinality(s.operationLog.acks)
                                        ELSE NoAddition)
<1> DEFINE m == Commit(i)
           r == Handle(s, m)
<1>1. /\ s \in ParticipantStates /\ s.phase \in {1, 2} /\ m.type = "COMMIT" /\ m.id = i
  BY DEF SoundStates, ParticipantStates, Commit
<1>2. CASE s.phase = 1
  BY <1>1, <1>2 DEF Handle, PhaseOne, Resend
<1>3. CASE s.phase = 2
  <2> DEFINE h == handleCommitOrAbortPhase(s, m)
             ended == [s EXCEPT !.phase = 1]
  <2>1. r = Remember(h, "return")
    BY <1>1, <1>3 DEF Handle, PhaseTwo
  <2>2. /\ h.state = ended
        /\ h.reply = Done(s.id, s.operationLog.op.method,
                          IF s.operationLog.op.method = "DEL"
                          THEN Cardinality(s.operationLog.acks) ELSE NoAddition)
    BY <1>1 DEF handleCommitOrAbortPhase, Acks
  <2>3. /\ ended.phase = 1 /\ ended.id = s.id /\ ended.db = s.db
        /\ ended.operationLog = s.operationLog /\ ended \in ParticipantStates
    BY <1>1 DEF ParticipantStates
  <2> HIDE DEF h, ended, r
  <2>4. r.result = "return" /\ r.reply = h.reply
        /\ r.state = [ended EXCEPT !.lastResponseMsg = h.reply]
    BY <2>1, <2>2 DEF Remember
  <2>5. /\ r.state.phase = 1 /\ r.state.id = s.id /\ r.state.db = s.db
        /\ r.state.operationLog = s.operationLog /\ r.state.lastResponseMsg = h.reply
    BY <2>3, <2>4 DEF ParticipantStates
  <2> QED
    BY <1>1, <1>3, <2>2, <2>4, <2>5 DEF r
<1> QED
  BY <1>1, <1>2, <1>3

-----------------------------------------------------------------------------
(* A participant reads a message. *)

Reads(q, m) ==
    LET r == Handle(part[q], m)
    IN /\ m \in Under(q) /\ m \in CoordinatorMsgs
       /\ r.result \in {"loop", "return"}
       /\ part'[q] = r.state /\ sock'[q] = sock[q] /\ eof'[q] = eof[q]
       /\ Under(q)' \subseteq Under(q)
       /\ \/ toC'[q] = toC[q] /\ Live(q)' = Live(q) /\ OnLive(q)' = OnLive(q)
          \/ /\ ~eof[q] /\ m.id = tid /\ OnLive(q) > 0
             /\ toC'[q] = IF linkUp[q] /\ r.reply # NoMsg THEN Append(toC[q], r.reply) ELSE toC[q]
             /\ OnLive(q) = 1 => Under(q)' = {} /\ OnLive(q)' = 0
             /\ r.result = "loop" => Live(q)'

(* The only connection, and the coordinator's: with one message on it that is read. *)
LEMMA AllRead ==
    ASSUME NetworkTypes, NEW q \in P, Len(link[q]) = 1, link[q][1].live,
           NEW n \in 1..Len(link[q][1].toP),
           link'[q] = [link[q] EXCEPT ![1] =
                         [link[q][1] EXCEPT !.toP = After(link[q][1].toP, n)]]
    PROVE  /\ Live(q)' /\ OnLive(q) = Len(link[q][1].toP)
           /\ OnLive(q) = 1 => Under(q)' = {} /\ OnLive(q)' = 0
<1> DEFINE s == link[q][1].toP
           d == [link[q][1] EXCEPT !.toP = After(s, n)]
<1>1. link[q] \in Seq(Connections) /\ 1 \in 1..Len(link[q])
  BY DEF NetworkTypes
<1>2. link[q][1] \in Connections /\ s \in Seq(CoordinatorMsgs)
  <2>1. link[q][1] \in Connections
    BY <1>1
  <2> QED
    BY <2>1 DEF Connections
<1>3. d.live /\ d.toP = After(s, n)
  BY <1>2 DEF Connections
<1>4. Len(s) = 1 => Len(After(s, n)) = 0
  BY <1>2 DEF After
<1>5. link'[q] = [link[q] EXCEPT ![1] = d]
  OBVIOUS
<1> HIDE DEF d, s
<1>6. Len(link'[q]) = 1 /\ link'[q][1] = d /\ link'[q] # <<>> /\ link[q] # <<>>
  BY <1>1, <1>5
<1>7. Live(q)' /\ Live(q) /\ OnLive(q)' = Len(d.toP) /\ OnLive(q) = Len(s)
  BY <1>3, <1>6 DEF Live, OnLive, LastOf, s
<1>8. Len(d.toP) = 0 => Under(q)' = {}
  <2>1. Len(d.toP) = 0 => Carried(d) = {}
    BY DEF Carried
  <2>2. \A k \in 1..Len(link'[q]) : link'[q][k] = d
    BY <1>6
  <2> QED
    BY <2>1, <2>2 DEF Under
<1> QED
  BY <1>3, <1>4, <1>7, <1>8 DEF s

LEMMA ReceiveReads ==
    ASSUME IInv, Delivery, MaxRestarts = 0, NEW q \in P, ParticipantReceive(q)
    PROVE  /\ \E m \in Under(q) : Reads(q, m)
           /\ UNCHANGED <<coordinator, eof, up, linkUp, history, bounds>>
           /\ \A p \in P : p # q => /\ link'[p] = link[p] /\ part'[p] = part[p]
                                    /\ toC'[p] = toC[p]
<1> DEFINE c == Head(link[q])
           m == Head(c.toP)
           r == Handle(part[q], m)
<1>1. link[q] # <<>> /\ up[q] /\ NetworkTypes /\ ParticipantTypes
      /\ UNCHANGED <<coordinator, linkUp, history, bounds>>
  BY DEF ParticipantReceive, IInv
<1>2. PICK n \in 1..Len(c.toP) :
        /\ part' = [part EXCEPT ![q] = r.state]
        /\ IF c.live /\ linkUp[q] /\ r.reply # NoMsg
           THEN toC' = [toC EXCEPT ![q] = Append(@, r.reply)]
           ELSE UNCHANGED toC
        /\ CASE r.result = "loop" ->
                  /\ link' = [link EXCEPT ![q] = [link[q] EXCEPT ![1] = [link[q][1] EXCEPT !.toP = After(@, n)]]]
                  /\ UNCHANGED <<eof, up>>
             [] r.result = "return" ->
                  /\ link' = [link EXCEPT ![q] = Tail(link[q])]
                  /\ UNCHANGED <<eof, up>>
             [] r.result = "shutdown" -> Die(q)
  BY DEF ParticipantReceive
<1>3. /\ c = link[q][1] /\ c \in Connections /\ 1 \in 1..Len(link[q])
      /\ m \in Carried(link[q][1]) /\ m \in CoordinatorMsgs
  BY <1>1, <1>2, ReadMessage
<1>4. part[q] \in SoundStates /\ link[q] \in Seq(Connections)
  BY <1>1 DEF ParticipantTypes, NetworkTypes
<1>5. r.result \in {"loop", "return"}
  <2>1. /\ r.result = "shutdown" => m.type \in {"COMMIT", "ABORT"} /\ m.id # part[q].id
        /\ r.result \in {"loop", "return", "shutdown"}
    BY <1>3, <1>4, HandledId, HandleType
  <2>2. m.type \in {"COMMIT", "ABORT"} => part[q].id = m.id
    BY <1>1, <1>3 DEF Delivery, DecisionsMeetTheirWrite, IsAbout
  <2> QED
    BY <2>1, <2>2
<1> HIDE DEF r, m
<1>6. /\ part'[q] = r.state /\ sock' = sock /\ tid' = tid /\ eof' = eof /\ up' = up
      /\ toC'[q] = IF c.live /\ linkUp[q] /\ r.reply # NoMsg THEN Append(toC[q], r.reply) ELSE toC[q]
      /\ \A p \in P : p # q => part'[p] = part[p] /\ toC'[p] = toC[p]
  BY <1>1, <1>2, <1>5 DEF ParticipantTypes, NetworkTypes, coordinator
<1>7. m \in Under(q)
  BY <1>3 DEF Under
<1> HIDE DEF c
<1>8. LiveIsCurrent(q)
  BY DEF Delivery
<1> DEFINE e == [link[q][1] EXCEPT !.toP = After(link[q][1].toP, n)]
<1>9. r.result = "loop" => link'[q] = [link[q] EXCEPT ![1] = e]
  BY <1>1, <1>2 DEF NetworkTypes
<1>10. r.result = "return" => link'[q] = Tail(link[q])
  BY <1>1, <1>2 DEF NetworkTypes
<1>11. \A p \in P : p # q => link'[p] = link[p]
  BY <1>1, <1>2, <1>5 DEF NetworkTypes
<1>12. /\ n \in 1..Len(link[q][1].toP) /\ link[q][1] \in Connections /\ Head(link[q]) = link[q][1]
  BY <1>2, <1>3 DEF c
<1>13. CASE ~link[q][1].live
  <2>1. Under(q)' \subseteq Under(q) /\ Live(q)' = Live(q) /\ OnLive(q)' = OnLive(q)
    <3>1. CASE r.result = "loop"
      <4>1. link[q][1].toP \in Seq(CoordinatorMsgs)
        BY <1>12 DEF Connections
      <4>2. After(link[q][1].toP, n) \in Seq(CoordinatorMsgs)
        BY <1>12, <4>1, AfterType
      <4>3. /\ e.live = link[q][1].live /\ Carried(e) \subseteq Carried(link[q][1])
            /\ e \in Connections
        BY <1>12, <4>2, CarriedAfter DEF Connections
      <4> HIDE DEF e
      <4> QED
        BY <1>1, <1>3, <1>9, <1>13, <3>1, <4>3, ThinnedPlace
    <3>2. CASE r.result = "return"
      BY <1>1, <1>10, <1>12, <1>13, <3>2, TailPlace
    <3> QED
      BY <1>5, <3>1, <3>2
  <2>2. toC'[q] = toC[q]
    BY <1>3, <1>6, <1>13
  <2>3. Reads(q, m)
    BY <1>3, <1>5, <1>6, <1>7, <2>1, <2>2 DEF Reads, r
  <2> QED
    BY <1>1, <1>6, <1>7, <1>11, <2>3
<1>14. CASE link[q][1].live
  <2>1. /\ Len(link[q]) = 1 /\ ~eof[q] /\ m.id = tid
    BY <1>3, <1>8, <1>14 DEF LiveIsCurrent
  <2>2. /\ OnLive(q) > 0
        /\ OnLive(q) = 1 => Under(q)' = {} /\ OnLive(q)' = 0
        /\ Under(q)' \subseteq Under(q)
        /\ r.result = "loop" => Live(q)'
    <3>1. Len(link[q][1].toP) > 0
      BY <1>12 DEF Connections
    <3>2. OnLive(q) = Len(link[q][1].toP)
      BY <1>1, <1>14, <2>1 DEF OnLive, Live, LastOf
    <3>3. CASE r.result = "loop"
      <4>1. Live(q)' /\ (OnLive(q) = 1 => Under(q)' = {} /\ OnLive(q)' = 0)
        BY <1>1, <1>9, <1>12, <1>14, <2>1, <3>3, AllRead
      <4>2. link[q][1].toP \in Seq(CoordinatorMsgs)
        BY <1>12 DEF Connections
      <4>3. After(link[q][1].toP, n) \in Seq(CoordinatorMsgs)
        BY <1>12, <4>2, AfterType
      <4>4. /\ e.live = link[q][1].live /\ Carried(e) \subseteq Carried(link[q][1])
            /\ e \in Connections
        BY <1>12, <4>3, CarriedAfter DEF Connections
      <4> HIDE DEF e
      <4>5. Under(q)' \subseteq Under(q)
        BY <1>1, <1>3, <1>9, <3>3, <4>4, ThinnedPlace
      <4> QED
        BY <3>1, <3>2, <4>1, <4>5
    <3>4. CASE r.result = "return"
      <4>1. link'[q] = Tail(link[q]) /\ Tail(link[q]) = <<>>
        BY <1>1, <1>4, <1>10, <2>1, <3>4, TailShape
      <4>2. Under(q)' = {} /\ OnLive(q)' = 0
        BY <4>1 DEF Under, OnLive, Live
      <4> QED
        BY <3>1, <3>2, <3>4, <4>2
    <3> QED
      BY <1>5, <3>3, <3>4
  <2>3. toC'[q] = IF linkUp[q] /\ r.reply # NoMsg THEN Append(toC[q], r.reply) ELSE toC[q]
    BY <1>3, <1>6, <1>14
  <2>4. Reads(q, m)
    BY <1>3, <1>5, <1>6, <1>7, <2>1, <2>2, <2>3 DEF Reads, r
  <2> QED
    BY <1>1, <1>6, <1>7, <1>11, <2>4
<1> QED
  BY <1>13, <1>14

LEMMA ReadsId ==
    ASSUME IInv, NEW q \in P, NEW m, Reads(q, m)
    PROVE  /\ m \in Under(q) /\ part'[q].phase = 2 => part'[q].id = m.id
           /\ part'[q].phase \in {1, 2}
<1>1. part[q] \in SoundStates
  BY PlaceTypes
<1>2. m \in CoordinatorMsgs /\ part'[q] = Handle(part[q], m).state /\ m \in Under(q)
  BY DEF Reads
<1>3. Handle(part[q], m).state \in SoundStates
  BY <1>1, <1>2, HandleType
<1>4. part'[q].phase \in {1, 2}
  BY <1>2, <1>3 DEF SoundStates, ParticipantStates
<1> QED
  BY <1>1, <1>2, <1>4, HandledId

LEMMA ReadsWhenIdle ==
    ASSUME IInv, NEW q \in P, NEW m, Reads(q, m), SameTransaction, used' = used
    PROVE  /\ Attached(q) => Attached(q)'
           /\ Fresh(q) => Fresh(q)'
           /\ Resting(q) => Resting(q)'
           /\ Agrees(q) /\ reply' = reply => Agrees(q)'
           /\ Drawn(q) => Drawn(q)'
           /\ ~Voted(q) /\ ~Pending(q) /\ ~Over(q)
<1>1. /\ m \in Under(q)
      /\ part'[q].phase = 2 => part'[q].id = m.id
      /\ sock'[q] = sock[q] /\ eof'[q] = eof[q] /\ Under(q)' \subseteq Under(q)
      /\ OnLive(q) = 0 => toC'[q] = toC[q] /\ Live(q)' = Live(q) /\ OnLive(q)' = OnLive(q)
  BY ReadsId DEF Reads
<1>2. op' = op /\ tid' = tid
  BY DEF SameTransaction
<1>3. Attached(q) => Attached(q)'
  BY <1>1 DEF Attached
<1>4. Fresh(q) => Fresh(q)'
  BY <1>1, <1>2 DEF Fresh
<1>5. Resting(q) => Resting(q)'
  BY <1>1 DEF Resting, NoCrash
<1>6. Agrees(q) /\ reply' = reply => Agrees(q)'
  BY <1>1, <1>2 DEF Agrees
<1>7. Drawn(q) => Drawn(q)'
  BY <1>1 DEF Drawn
<1>8. ~Voted(q) /\ ~Pending(q) /\ ~Over(q)
  BY <1>1 DEF Voted, Pending, Over
<1> QED
  BY <1>3, <1>4, <1>5, <1>6, <1>7, <1>8

(* The answer to a PREPARED-REQUEST of the current transaction. *)
AnswersRequest(q, r) ==
    /\ op.method # "GET" => r.type = "PREPARED"
    /\ op.method = "GET" => r = Done(tid, "GET", StableStore(part[q])[KeyOf(op)])

LEMMA ReadsRequest ==
    ASSUME IInv, tid \in Ids, op \in Requests, NEW q \in P, Reads(q, PrepareRequest(tid, op)),
           part[q].phase = 2 /\ part[q].id = tid => Ready(q)
    PROVE  LET r == Handle(part[q], PrepareRequest(tid, op))
           IN /\ r.result = "loop" /\ r.reply # NoMsg
              /\ StableStore(part'[q]) = StableStore(part[q])
              /\ part'[q].phase = 2 => op.method # "GET"
              /\ op.method # "GET" =>
                   /\ part'[q].phase = 2 /\ part'[q].id = tid
                   /\ part'[q].operationLog.op = op
                   /\ part'[q].lastResponseMsg.type = "PREPARED"
              /\ AnswersRequest(q, r.reply)
<1> DEFINE r == Handle(part[q], PrepareRequest(tid, op))
<1>1. part[q] \in SoundStates /\ part[q].phase \in {1, 2}
  BY PlaceTypes
<1>2. part'[q] = r.state
  BY DEF Reads
<1>3. /\ r.result = "loop" /\ StableStore(r.state) = StableStore(part[q])
      /\ r.reply = r.state.lastResponseMsg
      /\ IF part[q].phase = 2 /\ part[q].id = tid THEN r.state = part[q]
         ELSE IF op \in Writes
         THEN /\ r.state.phase = 2 /\ r.state.id = tid
              /\ r.state.operationLog.op = op /\ r.reply.type = "PREPARED"
         ELSE /\ r.state.phase = 1
              /\ r.reply = Done(tid, "GET", StableStore(part[q])[KeyOf(op)])
  BY <1>1, HandleRequest
<1>4. op.method = "GET" <=> op \notin Writes
  BY RequestType
<1> HIDE DEF r
<1>5. CASE part[q].phase = 2 /\ part[q].id = tid
  <2>1. Recorded(part[q])
    BY <1>1 DEF SoundStates
  <2>2. op \in Writes
    BY <1>5, <2>1 DEF Recorded, Ready
  <2>3. r.reply # NoMsg
    BY <1>3, <1>5 DEF Ready, NoMsg
  <2> QED
    BY <1>2, <1>3, <1>4, <1>5, <2>2, <2>3 DEF AnswersRequest, Ready, r
<1>6. CASE ~(part[q].phase = 2 /\ part[q].id = tid)
  <2>1. r.reply # NoMsg
    BY <1>3, <1>6 DEF NoMsg, Done
  <2> QED
    BY <1>2, <1>3, <1>4, <1>6, <2>1 DEF AnswersRequest, r
<1> QED
  BY <1>5, <1>6

LEMMA OneReply ==
    ASSUME NEW S, NEW s \in Seq(S), s = <<>>, NEW r
    PROVE  Append(s, r) # <<>> /\ Len(Append(s, r)) = 1 /\ Append(s, r)[1] = r
OBVIOUS

LEMMA ReadsAsked ==
    ASSUME IInv, tid \in Ids, op \in Requests, NEW q \in P, NEW m, Reads(q, m), Asked(q),
           linkUp[q], SameTransaction
    PROVE  /\ Asked(q)'
           /\ toC'[q] # <<>> => AnswersRequest(q, toC'[q][1])
<1> DEFINE r == Handle(part[q], m)
<1>1. /\ op' = op /\ tid' = tid /\ store' = store /\ sock'[q] = sock[q] /\ eof'[q] = eof[q]
      /\ m \in Under(q) /\ Under(q)' \subseteq Under(q) /\ part'[q] = r.state
  BY DEF SameTransaction, Reads
<1>2. toC[q] = <<>> /\ toC[q] \in Seq(FittingReplies) /\ OnLive(q) \in Nat /\ OnLive(q) <= 1
  BY <1>1, PlaceTypes DEF Asked, Owed
<1>3. part'[q].phase = 2 => part'[q].id = m.id
  BY <1>1, ReadsId
<1>4. \A x \in Under(q)' : x.id = tid' => x = PrepareRequest(tid', op')
  BY <1>1 DEF Asked
<1> HIDE DEF r
<1>5. CASE m.id = tid
  <2>1. m = PrepareRequest(tid, op)
    BY <1>1, <1>5 DEF Asked
  <2>2. part[q].phase = 2 /\ part[q].id = tid => Ready(q)
    BY DEF Asked
  <2>3. /\ r.result = "loop" /\ r.reply # NoMsg
        /\ StableStore(part'[q]) = StableStore(part[q])
        /\ part'[q].phase = 2 => op.method # "GET"
        /\ op.method # "GET" =>
                   /\ part'[q].phase = 2 /\ part'[q].id = tid
                   /\ part'[q].operationLog.op = op
                   /\ part'[q].lastResponseMsg.type = "PREPARED"
        /\ AnswersRequest(q, r.reply)
    BY <2>1, <2>2, ReadsRequest DEF r
  <2>4. op'.method # "GET" => Ready(q)'
    BY <1>1, <2>3 DEF Ready
  <2>5. part'[q].phase = 2 /\ part'[q].id = tid' => Ready(q)'
    BY <1>1, <2>3, <2>4
  <2>6. NoCrash => /\ StableStore(part'[q]) = store'
                   /\ \A x \in Under(q)' : x.id = tid'
                   /\ part'[q].phase = 2 => part'[q].id = tid'
    BY <1>1, <1>3, <1>5, <2>3 DEF Asked
  <2>7. CASE toC'[q] = toC[q] /\ Live(q)' = Live(q) /\ OnLive(q)' = OnLive(q)
    <3>1. Owed(q)' /\ (eof'[q] \/ Live(q)')
      BY <1>1, <2>7 DEF Asked, Owed
    <3> QED
      BY <1>2, <1>4, <2>5, <2>6, <2>7, <3>1 DEF Asked, NoCrash
  <2>8. CASE /\ ~eof[q] /\ m.id = tid /\ OnLive(q) > 0
             /\ toC'[q] = IF linkUp[q] /\ r.reply # NoMsg THEN Append(toC[q], r.reply) ELSE toC[q]
             /\ OnLive(q) = 1 => Under(q)' = {} /\ OnLive(q)' = 0
             /\ r.result = "loop" => Live(q)'
    <3>1. toC'[q] = Append(toC[q], r.reply)
      BY <2>3, <2>8
    <3>2. toC'[q] # <<>> /\ Len(toC'[q]) = 1 /\ toC'[q][1] = r.reply
      BY <1>2, <3>1, OneReply
    <3>3. Under(q)' = {} /\ OnLive(q)' = 0 /\ Live(q)'
      BY <1>2, <2>3, <2>8
    <3>4. Owed(q)' /\ (eof'[q] \/ Live(q)')
      BY <1>1, <3>2, <3>3 DEF Asked, Owed
    <3> QED
      BY <1>4, <2>3, <2>4, <2>5, <2>6, <3>2, <3>3, <3>4 DEF Asked, NoCrash
  <2> QED
    BY <2>7, <2>8 DEF Reads, r
<1>6. CASE m.id # tid
  <2>1. toC'[q] = toC[q] /\ Live(q)' = Live(q) /\ OnLive(q)' = OnLive(q)
    BY <1>6 DEF Reads
  <2>2. Owed(q)' /\ (eof'[q] \/ Live(q)')
    BY <1>1, <2>1 DEF Asked, Owed
  <2>3. ~NoCrash
    BY <1>1, <1>6 DEF Asked
  <2>4. ~(part'[q].phase = 2 /\ part'[q].id = tid')
    BY <1>1, <1>3, <1>6
  <2> QED
    BY <1>2, <1>4, <2>1, <2>2, <2>3, <2>4 DEF Asked, NoCrash
<1> QED
  BY <1>5, <1>6

LEMMA ReadsTold ==
    ASSUME IInv, tid \in Ids, op \in Writes, NEW q \in P, NEW m, Reads(q, m), Told(q),
           linkUp[q], SameTransaction
    PROVE  /\ Told(q)'
           /\ toC'[q] # <<>> =>
                toC'[q][1] = Done(tid, op.method, IF op.method = "DEL" THEN Count(q) ELSE NoAddition)
<1> DEFINE r == Handle(part[q], m)
<1>1. /\ op' = op /\ tid' = tid /\ store' = store /\ outcome' = outcome
      /\ sock'[q] = sock[q] /\ eof'[q] = eof[q]
      /\ m \in Under(q) /\ Under(q)' \subseteq Under(q) /\ part'[q] = r.state
  BY DEF SameTransaction, Reads
<1>2. toC[q] = <<>> /\ toC[q] \in Seq(FittingReplies) /\ OnLive(q) \in Nat /\ OnLive(q) <= 1
  BY <1>1, PlaceTypes DEF Told, Owed
<1>3. m = Commit(tid) /\ Under(q)' \subseteq {Commit(tid)} /\ m.id = tid
  BY <1>1 DEF Told, Commit
<1>4. part[q] \in SoundStates /\ part[q].phase \in {1, 2}
  BY PlaceTypes
<1>5. /\ r.result = "return" /\ r.reply = r.state.lastResponseMsg
      /\ IF part[q].phase = 1 THEN r.state = part[q]
         ELSE /\ r.state.phase = 1 /\ r.state.id = part[q].id /\ r.state.db = part[q].db
              /\ r.state.operationLog = part[q].operationLog
              /\ r.reply = Done(part[q].id, part[q].operationLog.op.method,
                                IF part[q].operationLog.op.method = "DEL"
                                THEN Cardinality(part[q].operationLog.acks)
                                ELSE NoAddition)
  <2>1. part[q].phase = 2 \/ part[q].id = tid
    BY DEF Told, Ready, Finished
  <2> QED
    BY <1>3, <1>4, <2>1, HandleCommit
<1> HIDE DEF r
<1>6. /\ Finished(q)'
      /\ r.reply = Done(tid, op.method, IF op.method = "DEL" THEN Count(q) ELSE NoAddition)
  <2>1. CASE part[q].phase = 1
    <3>1. Finished(q)
      BY <2>1 DEF Told, Ready
    <3>2. r.state = part[q] /\ r.reply = part[q].lastResponseMsg
      BY <1>5, <2>1
    <3> QED
      BY <1>1, <3>1, <3>2 DEF Finished, Count
  <2>2. CASE part[q].phase = 2
    <3>1. part[q].id = tid /\ part[q].operationLog.op = op
      BY <2>2 DEF Told, Finished, Ready
    <3>2. /\ r.state.phase = 1 /\ r.state.id = tid /\ r.state.db = part[q].db
          /\ r.state.operationLog = part[q].operationLog
          /\ r.reply = Done(tid, op.method, IF op.method = "DEL" THEN Count(q) ELSE NoAddition)
          /\ r.state.lastResponseMsg = r.reply
      BY <1>5, <2>2, <3>1 DEF Count
    <3>3. \A k \in op.keys : part[q].db[k] = op.value
      <4>1. Recorded(part[q])
        BY <1>4 DEF SoundStates
      <4>2. part[q].db = Apply(op, Undo(part[q].db, part[q].rollbackLog))
        BY <2>2, <3>1, <4>1 DEF Recorded
      <4>3. op \in Requests /\ op.keys \subseteq Keys /\ op.method # "GET"
        BY RequestType DEF Requests
      <4> QED
        BY <4>2, <4>3 DEF Apply
    <3>4. Count(q)' = Count(q)
      BY <1>1, <3>2 DEF Count
    <3>5. /\ part'[q].phase = 1 /\ part'[q].id = tid /\ part'[q].operationLog.op = op
          /\ part'[q].db = part[q].db /\ part'[q].lastResponseMsg = r.reply
      BY <1>1, <3>1, <3>2
    <3> QED
      BY <1>1, <3>2, <3>3, <3>4, <3>5 DEF Finished
  <2> QED
    BY <1>4, <2>1, <2>2
<1>7. HoldsDecision(q)'
  <2>1. part'[q].db = part[q].db /\ part'[q].operationLog = part[q].operationLog
    BY <1>1, <1>4, <1>5
  <2> QED
    BY <1>1, <2>1 DEF HoldsDecision, Told, Count, NoCrash
<1>8. CASE toC'[q] = toC[q] /\ Live(q)' = Live(q) /\ OnLive(q)' = OnLive(q)
  <2>1. Owed(q)'
    BY <1>1, <1>8 DEF Told, Owed
  <2> QED
    BY <1>1, <1>2, <1>3, <1>6, <1>7, <1>8, <2>1 DEF Told
<1>9. CASE /\ ~eof[q] /\ m.id = tid /\ OnLive(q) > 0
           /\ toC'[q] = IF linkUp[q] /\ r.reply # NoMsg THEN Append(toC[q], r.reply) ELSE toC[q]
           /\ OnLive(q) = 1 => Under(q)' = {} /\ OnLive(q)' = 0
           /\ r.result = "loop" => Live(q)'
  <2>1. r.reply # NoMsg
    BY <1>6 DEF NoMsg, Done
  <2>2. toC'[q] = Append(toC[q], r.reply)
    BY <1>9, <2>1
  <2>3. toC'[q] # <<>> /\ Len(toC'[q]) = 1 /\ toC'[q][1] = r.reply
    BY <1>2, <2>2, OneReply
  <2>4. Under(q)' = {} /\ OnLive(q)' = 0
    BY <1>2, <1>9
  <2>5. Owed(q)'
    BY <1>1, <2>3, <2>4 DEF Told, Owed
  <2> QED
    BY <1>1, <1>3, <1>6, <1>7, <2>3, <2>4, <2>5 DEF Told
<1> QED
  BY <1>8, <1>9 DEF Reads, r

LEMMA ParticipantReceiveTracks ==
    ASSUME IInv, Agreement, NEW q \in P, NEW m, Reads(q, m), Reachable(q),
           UNCHANGED <<pc, op, tid, idx, watch, valid, reply, used, store, outcome>>
    PROVE  /\ Tracks(q)'
           /\ sock'[q] /\ pc \in {"prepare", "waitPrepared"} /\ toC'[q] # toC[q] =>
                Len(toC'[q]) <= 1 /\ toC'[q][1].type = "PREPARED" /\ (pc = "prepare" \/ q \in watch)
           /\ sock'[q] /\ pc \in {"decide", "waitDone"} /\ toC'[q] # toC[q] =>
                Len(toC'[q]) <= 1 /\ Fits(toC'[q][1]) /\ (pc = "waitDone" \/ q < idx)
<1>1. Tracks(q) /\ SameTransaction
  BY DEF Agreement, Together, SameTransaction
<1>2. CoordinatorTypes /\ Phases /\ Books /\ ParticipantTypes
  BY DEF IInv
<1>3. toC'[q] # toC[q] => OnLive(q) > 0
  BY DEF Reads
<1>4. linkUp[q] /\ sock'[q] = sock[q]
  BY DEF Reachable, Reads
<1>5. /\ Attached(q) => Attached(q)' /\ toC'[q] = toC[q]
      /\ Fresh(q) => Fresh(q)'
      /\ Resting(q) => Resting(q)'
      /\ Agrees(q) => Agrees(q)'
      /\ ~Voted(q) /\ ~Pending(q) /\ ~Over(q)
  BY <1>1, <1>3, ReadsWhenIdle DEF Attached
<1>6. CASE pc \in {"idle", "get", "connect"}
  BY <1>1, <1>5, <1>6 DEF Tracks
<1>7. CASE pc \in {"prepare", "waitPrepared"}
  <2>1. tid \in Ids /\ op \in Requests /\ op.method # "GET"
    BY <1>2, <1>7, RequestType DEF Phases, Requests
  <2>2. Asked(q) => /\ Asked(q)' /\ Len(toC'[q]) <= 1
                    /\ toC'[q] # <<>> => toC'[q][1].type = "PREPARED"
    BY <1>1, <1>4, <2>1, ReadsAsked DEF AnswersRequest, Asked, Owed
  <2>3. Asked(q) /\ toC'[q] # toC[q] => toC'[q] # <<>>
    <3>1. toC[q] \in Seq(FittingReplies) /\ OnLive(q) \in Nat
      BY PlaceTypes
    <3>2. ASSUME NEW r PROVE Append(toC[q], r) # <<>>
      BY <3>1
    <3> QED
      BY <3>2 DEF Reads
  <2>4. CASE pc = "prepare"
    BY <1>1, <1>5, <2>2, <2>3, <2>4 DEF Tracks
  <2>5. CASE pc = "waitPrepared"
    BY <1>1, <1>5, <2>2, <2>3, <2>5 DEF Tracks
  <2> QED
    BY <1>7, <2>4, <2>5
<1>8. CASE pc = "decide" \/ (pc = "waitDone" /\ op.method # "GET")
  <2>1. tid \in Ids /\ op \in Writes /\ op.method # "GET"
    <3>1. op \in Requests /\ tid \in Ids /\ (op \in Writes \/ op.method # "GET")
      BY <1>2, <1>8 DEF Phases, Requests
    <3> QED
      BY <3>1, RequestType
  <2>2. Told(q) => /\ Told(q)' /\ Len(toC'[q]) <= 1
                   /\ toC'[q] # <<>> =>
                        toC'[q][1] = Done(tid, op.method,
                                          IF op.method = "DEL" THEN Count(q) ELSE NoAddition)
    BY <1>1, <1>4, <2>1, ReadsTold DEF Told, Owed
  <2>3. toC'[q] # toC[q] => toC'[q] # <<>>
    <3>1. toC[q] \in Seq(FittingReplies)
      BY PlaceTypes
    <3>2. ASSUME NEW r PROVE Append(toC[q], r) # <<>>
      BY <3>1
    <3> QED
      BY <3>2 DEF Reads
  <2>4. Told(q) /\ toC'[q] # <<>> => Fits(toC'[q][1])
    <3> SUFFICES ASSUME Told(q), toC'[q] # <<>>, NoCrash, op.method = "DEL"
                 PROVE  /\ toC'[q][1].method = "DEL" /\ toC'[q][1].addition # NoAddition
                        /\ outcome = CountReply(toC'[q][1].addition)
      BY <2>1 DEF Fits
    <3>1. toC'[q][1] = Done(tid, "DEL", Count(q))
      BY <2>2
    <3>2. Count(q) \in Nat
      <4>1. part[q].operationLog.acks \in SUBSET Keys
        BY PlaceTypes DEF SoundStates, ParticipantStates, OperationLogs
      <4> QED
        BY <4>1, CountType, KeysAssumption, FS_CardinalityType DEF Count
    <3>3. outcome = CountReply(Count(q))
      BY DEF Told, HoldsDecision
    <3> QED
      BY <3>1, <3>2, <3>3 DEF Done, NoAddition
  <2>5. CASE pc = "decide"
    BY <1>1, <1>3, <1>5, <2>2, <2>3, <2>4, <2>5 DEF Tracks
  <2>6. CASE pc = "waitDone"
    <3>1. q \in watch => Told(q)
      BY <1>1, <2>1, <2>6 DEF Tracks
    <3>2. q \notin watch => FALSE
      BY <1>1, <1>5, <2>1, <2>6 DEF Tracks
    <3>3. Tracks(q)'
      BY <1>1, <2>1, <2>2, <2>6, <3>1, <3>2 DEF Tracks
    <3> QED
      BY <2>2, <2>3, <2>4, <2>6, <3>1, <3>2, <3>3
  <2> QED
    BY <1>8, <2>5, <2>6
<1>9. CASE pc = "waitDone" /\ op.method = "GET"
  <2>1. tid \in Ids /\ op \in Requests
    BY <1>2, <1>9 DEF Phases
  <2>2. Asked(q) => /\ Asked(q)' /\ Len(toC'[q]) <= 1
                    /\ toC'[q] # <<>> => AnswersRequest(q, toC'[q][1])
    BY <1>1, <1>4, <2>1, ReadsAsked DEF Asked, Owed
  <2>3. toC'[q] # toC[q] => toC'[q] # <<>>
    <3>1. toC[q] \in Seq(FittingReplies)
      BY PlaceTypes
    <3>2. ASSUME NEW r PROVE Append(toC[q], r) # <<>>
      BY <3>1
    <3> QED
      BY <3>2 DEF Reads
  <2>4. Asked(q) /\ toC'[q] # <<>> => Fits(toC'[q][1])
    BY <1>9, <2>2 DEF Fits, AnswersRequest, Done, Asked
  <2>5. q \in watch => Asked(q)
    BY <1>1, <1>9 DEF Tracks
  <2>6. sock[q] => q \in watch
    BY <1>2, <1>9 DEF Books, Open
  <2>7. Tracks(q)'
    BY <1>1, <1>5, <1>9, <2>2, <2>5 DEF Tracks
  <2> QED
    BY <1>4, <1>9, <2>2, <2>3, <2>4, <2>5, <2>6, <2>7
<1> QED
  BY <1>2, <1>6, <1>7, <1>8, <1>9 DEF CoordinatorTypes

LEMMA ParticipantReceiveAgrees ==
    ASSUME IInv, Delivery, MaxRestarts = 0, Agreement, NEW q \in P, ParticipantReceive(q)
    PROVE  Agreement'
<1>1. /\ UNCHANGED <<coordinator, eof, up, linkUp, history, bounds>>
      /\ \A p \in P : p # q => /\ link'[p] = link[p] /\ part'[p] = part[p]
                               /\ toC'[p] = toC[p]
  BY ReceiveReads
<1>2. PICK m \in Under(q) : Reads(q, m)
  BY ReceiveReads
<1>3. UNCHANGED <<pc, op, tid, idx, sock, watch, valid, reply, used, store, outcome>>
  BY <1>1 DEF coordinator, history, bounds
<1>4. SameTransaction /\ Together(q) /\ Reachable(q)' = Reachable(q)
  BY <1>1, <1>3 DEF SameTransaction, Agreement, Reachable
<1>5. Drawn(q)'
  BY <1>2, <1>3, <1>4, ReadsWhenIdle DEF Together
<1>6. CASE toC'[q] = toC[q]
  <2>1. Len(toC'[q]) \in 0..Len(toC[q])
    BY <1>6, PlaceTypes
  <2>2. RepliesFit(q)'
    BY <1>3, <1>4, <1>6, <2>1, RepliesStay DEF Together
  <2>3. Tracks(q)'
    BY <1>2, <1>3, <1>4, ParticipantReceiveTracks DEF Tracks
  <2>4. Together(q)'
    BY <1>5, <2>2, <2>3 DEF Together
  <2> QED
    BY <1>1, <2>4, ElsewhereAgrees DEF bounds
<1>7. CASE toC'[q] # toC[q]
  <2>1. Reachable(q)
    BY <1>2, <1>7 DEF Reads, Reachable, ParticipantReceive
  <2>2. /\ Tracks(q)'
        /\ sock'[q] /\ pc \in {"prepare", "waitPrepared"} =>
             Len(toC'[q]) <= 1 /\ toC'[q][1].type = "PREPARED" /\ (pc = "prepare" \/ q \in watch)
        /\ sock'[q] /\ pc \in {"decide", "waitDone"} =>
             Len(toC'[q]) <= 1 /\ Fits(toC'[q][1]) /\ (pc = "waitDone" \/ q < idx)
    BY <1>2, <1>3, <1>7, <2>1, ParticipantReceiveTracks
  <2>3. sock'[q] /\ pc' \in {"decide", "waitDone"} => Fits(toC[q][1])'
    BY <1>3, <2>2 DEF Fits, NoCrash
  <2>4. q < idx => ~(q >= idx)
    BY DEF IInv, CoordinatorTypes, P
  <2>5. RepliesFit(q)'
    BY <1>3, <2>2, <2>3, <2>4 DEF RepliesFit
  <2>6. Together(q)'
    BY <1>5, <2>2, <2>5 DEF Together
  <2> QED
    BY <1>1, <2>6, ElsewhereAgrees DEF bounds
<1> QED
  BY <1>6, <1>7

-----------------------------------------------------------------------------
(* The coordinator. *)

(* Nothing moves but the coordinator. *)
Still == UNCHANGED <<sock, toC, eof, link, linkUp, part, up>>

LEMMA StillPlaces ==
    ASSUME IInv, Still, NEW p \in P
    PROVE  /\ Thins(p) /\ Reachable(p)' = Reachable(p)
           /\ Under(p)' = Under(p) /\ part'[p] = part[p]
           /\ used' = used /\ Drawn(p) => Drawn(p)'
<1>1. UNCHANGED <<sock, toC, eof, link, linkUp, part, up>>
  BY DEF Still
<1>2. Thins(p)
  BY <1>1, ThinsNothing
<1>3. Under(p)' = Under(p)
  BY <1>1 DEF Under
<1> QED
  BY <1>1, <1>2, <1>3 DEF Reachable, Drawn

(* The id of a new transaction is new to whoever is at rest. *)
LEMMA FreshDrawn ==
    ASSUME IInv, Conditions, DrawId, Still, NEW p \in P, Drawn(p)
    PROVE  (Resting(p) => Fresh(p)') /\ Drawn(p)' /\ TidIsDrawn'
<1>1. PICK i \in Ids :
        /\ IdsMayRepeat \/ i \notin used
        /\ tid' = i
        /\ used' = IF IdsMayRepeat THEN used ELSE used \cup {i}
  BY DEF DrawId
<1>2. Under(p)' = Under(p) /\ part'[p] = part[p]
  BY StillPlaces
<1>3. Resting(p) => Fresh(p)'
  <2>1. CASE IdsMayRepeat
    BY <1>2, <2>1 DEF Conditions, Resting, Fresh
  <2>2. CASE ~IdsMayRepeat
    BY <1>1, <1>2, <2>2 DEF Drawn, Fresh
  <2> QED
    BY <2>1, <2>2
<1>4. Drawn(p)' /\ TidIsDrawn'
  BY <1>1, <1>2 DEF Drawn, TidIsDrawn
<1> QED
  BY <1>3, <1>4

LEMMA RequestAgrees ==
    ASSUME IInv, Conditions, Agreement, NEW r \in Requests, Request(r)
    PROVE  Agreement'
<1>1. /\ pc = "idle" /\ op' = r /\ reply' = NoReply /\ idx' = 0 /\ Still
      /\ \/ r.method = "GET" /\ pc' = "get" /\ DrawId
         \/ r.method # "GET" /\ pc' = "connect" /\ tid' = tid /\ used' = used
      /\ UNCHANGED <<valid, replied, response, decision, first, store, outcome>>
  BY DEF Request, Still, network, participants, history
<1>2. ASSUME NEW p \in P PROVE Together(p)' /\ TidIsDrawn'
  <2>1. Tracks(p) /\ Drawn(p) /\ TidIsDrawn
    BY DEF Agreement, Together
  <2>2. Reachable(p)' = Reachable(p) /\ Under(p)' = Under(p) /\ part'[p] = part[p]
    BY <1>1, StillPlaces
  <2>3. Resting(p) => Resting(p)'
    BY <1>1, <2>2 DEF Resting, NoCrash
  <2>4. RepliesFit(p)'
    BY <1>1 DEF RepliesFit
  <2>5. CASE r.method = "GET" /\ pc' = "get" /\ DrawId
    <3>1. (Resting(p) => Fresh(p)') /\ Drawn(p)' /\ TidIsDrawn'
      BY <1>1, <2>1, <2>5, FreshDrawn
    <3>2. Tracks(p)'
      BY <1>1, <2>1, <2>2, <2>3, <2>5, <3>1 DEF Tracks
    <3> QED
      BY <2>4, <3>1, <3>2 DEF Together
  <2>6. CASE r.method # "GET" /\ pc' = "connect" /\ tid' = tid /\ used' = used
    <3>1. ~(p < idx')
      BY <1>1, SizesAssumption DEF P
    <3>2. Tracks(p)'
      BY <1>1, <2>1, <2>2, <2>3, <2>6, <3>1 DEF Tracks
    <3>3. Drawn(p)' /\ TidIsDrawn'
      BY <1>1, <2>1, <2>6, StillPlaces DEF TidIsDrawn
    <3> QED
      BY <2>4, <3>2, <3>3 DEF Together
  <2> QED
    BY <1>1, <2>5, <2>6
<1>3. 0 \in P
  BY SizesAssumption DEF P
<1>4. OutcomeFits'
  BY <1>1 DEF OutcomeFits, Agreement
<1> QED
  BY <1>2, <1>3, <1>4 DEF Agreement

(* A turn of a loop over the participants, past somebody who cannot be reached. *)
LEMMA ConnectNextAgrees ==
    ASSUME IInv, Delivery, Agreement, ConnectNext
    PROVE  Agreement'
<1>1. /\ CoordinatorTypes /\ NetworkTypes
  BY DEF IInv
<1>2. /\ idx \in P /\ pc = "connect" /\ idx' = idx + 1
      /\ UNCHANGED <<pc, op, reply, tid, watch, replied, response, decision, first,
                     participants, history, bounds>>
  BY <1>1, SizesAssumption DEF ConnectNext, CoordinatorTypes, P
<1>3. UNCHANGED <<part, up, store, outcome, used>>
  BY <1>2 DEF participants, history, bounds
<1>4. SameTransaction
  BY <1>2, <1>3 DEF SameTransaction
<1>5. ASSUME NEW p \in P PROVE Together(p)'
  <2>1. Tracks(p) /\ Drawn(p) /\ LiveIsCurrent(p)
    BY DEF Agreement, Together, Delivery
  <2>2. RepliesFit(p)'
    BY <1>2 DEF RepliesFit
  <2>3. p < idx' => p < idx \/ p = idx
    BY <1>2 DEF P
  <2>4. CASE p = idx /\ valid[idx] /\ Reachable(idx) /\ Connected(idx, <<>>)
    <3>1. /\ sock'[p] /\ toC'[p] = <<>> /\ ~eof'[p] /\ linkUp' = linkUp /\ valid' = valid
          /\ link'[p] = Append(Closed(p), NewConnection(<<>>))
      BY <1>1, <2>4 DEF Connected, CoordinatorTypes, NetworkTypes
    <3>2. NewConnection(<<>>) \in Connections /\ NewConnection(<<>>).live
          /\ Len(NewConnection(<<>>).toP) = 0 /\ Carried(NewConnection(<<>>)) = {}
      <4>1. Carried(NewConnection(<<>>)) = {} /\ NewConnection(<<>>).live
        BY CarriedNew
      <4>2. NewConnection(<<>>) \in Connections /\ Len(NewConnection(<<>>).toP) = 0
        BY DEF NewConnection, Connections
      <4> QED
        BY <4>1, <4>2
    <3>3. Under(p)' = Under(p) /\ Live(p)' /\ OnLive(p)' = 0
      BY <1>1, <2>1, <3>1, <3>2, OpenedPlace
    <3>4. Attached(p)'
      BY <3>1, <3>3 DEF Attached
    <3>5. Resting(p) => Resting(p)'
      BY <1>3, <3>3 DEF Resting, NoCrash
    <3>6. Drawn(p)'
      BY <1>3, <2>1, <3>3 DEF Drawn
    <3>7. Tracks(p)'
      BY <1>2, <2>1, <2>4, <3>1, <3>4, <3>5 DEF Tracks
    <3> QED
      BY <2>2, <3>6, <3>7 DEF Together
  <2>5. CASE ~(p = idx /\ valid[idx] /\ Reachable(idx) /\ Connected(idx, <<>>))
    <3>1. /\ link'[p] = link[p] /\ toC'[p] = toC[p] /\ eof'[p] = eof[p]
          /\ sock'[p] = sock[p] /\ linkUp' = linkUp
          /\ p # idx => valid'[p] = valid[p]
          /\ p = idx => ~valid[p] \/ ~Reachable(p)
      BY <1>1, <1>2, <2>5
         DEF ConnectNext, Connected, Unreachable, network, CoordinatorTypes, NetworkTypes
    <3>2. Thins(p)
      BY <1>3, <3>1, ThinsNothing
    <3>3. Reachable(p)' = Reachable(p)
      BY <1>3, <3>1 DEF Reachable
    <3>4. Under(p)' = Under(p)
      BY <3>1 DEF Under
    <3>5. Drawn(p)'
      BY <1>3, <2>1, <3>4 DEF Drawn
    <3>6. p = idx => ~Reachable(p)
      BY <2>1, <3>1 DEF Tracks
    <3>7. Tracks(p)'
      BY <1>2, <1>4, <2>1, <2>3, <3>1, <3>2, <3>3, <3>6, ThinningKeeps DEF Tracks
    <3> QED
      BY <2>2, <3>5, <3>7 DEF Together
  <2> QED
    BY <2>4, <2>5
<1>6. OutcomeFits'
  BY <1>2, <1>3 DEF OutcomeFits, Agreement
<1>7. TidIsDrawn'
  BY <1>2, <1>3 DEF TidIsDrawn, Agreement
<1> QED
  BY <1>5, <1>6, <1>7 DEF Agreement

(* The handler returns: everybody who can be reached is at rest, and where the
   answer says that the client's write is. *)
LEMMA AnswerAgrees ==
    ASSUME IInv, Agreement, NEW r, Answer(r), Still, valid' = valid, used' = used,
           \A p \in P : Reachable(p) =>
               /\ Resting(p)
               /\ op \in Writes /\ r \notin {NoReply, ERROR} =>
                    /\ Under(p) = {} /\ part[p].phase = 1
                    /\ \A k \in op.keys : part[p].db[k] = op.value
    PROVE  Agreement'
<1>1. /\ pc' = "idle" /\ reply' = r /\ tid' = -1 /\ response' = NoResponse /\ outcome' = NoReply
      /\ UNCHANGED <<op, store>>
  BY DEF Answer
<1>2. ASSUME NEW p \in P PROVE Together(p)'
  <2>1. Tracks(p) /\ Drawn(p)
    BY DEF Agreement, Together
  <2>2. /\ Reachable(p)' = Reachable(p) /\ Under(p)' = Under(p) /\ part'[p] = part[p]
        /\ Drawn(p)'
    BY <2>1, StillPlaces
  <2>3. Reachable(p) => Resting(p)' /\ Agrees(p)'
    BY <1>1, <2>2 DEF Resting, Agrees, NoCrash
  <2>4. Tracks(p)'
    BY <1>1, <2>1, <2>2, <2>3 DEF Tracks
  <2>5. RepliesFit(p)'
    BY <1>1 DEF RepliesFit
  <2> QED
    BY <2>2, <2>4, <2>5 DEF Together
<1>3. OutcomeFits'
  BY <1>1 DEF OutcomeFits, NoResponse
<1>4. TidIsDrawn'
  BY <1>1 DEF TidIsDrawn
<1> QED
  BY <1>2, <1>3, <1>4 DEF Agreement

LEMMA BeginPrepareAgrees ==
    ASSUME IInv, Delivery, Conditions, Agreement, BeginPrepare
    PROVE  Agreement'
<1>1. /\ pc = "connect" /\ idx = NumParticipants /\ DrawId /\ pc' = "prepare" /\ idx' = 0
      /\ Still /\ UNCHANGED <<op, reply, valid, replied, response, decision, first, store, outcome>>
  BY DEF BeginPrepare, Still, network, participants, history
<1>2. ASSUME NEW p \in P PROVE Together(p)' /\ TidIsDrawn'
  <2>1. Tracks(p) /\ Drawn(p) /\ VotersHaveSeen(p)
    BY DEF Agreement, Together, Delivery
  <2>2. /\ Reachable(p)' = Reachable(p) /\ Under(p)' = Under(p) /\ part'[p] = part[p]
        /\ UNCHANGED <<sock, toC, eof, link>>
    BY <1>1, StillPlaces DEF Still
  <2>3. Resting(p) => Resting(p)'
    BY <1>1, <2>2 DEF Resting, NoCrash
  <2>4. (Resting(p) => Fresh(p)') /\ Drawn(p)' /\ TidIsDrawn'
    BY <1>1, <2>1, FreshDrawn
  <2>5. Attached(p) => Attached(p)'
    BY <2>2 DEF Attached, OnLive, Live
  <2>6. p < idx /\ ~(p < idx')
    BY <1>1, SizesAssumption DEF P
  <2>7. Tracks(p)'
    BY <1>1, <2>1, <2>2, <2>3, <2>4, <2>5, <2>6 DEF Tracks
  <2>8. sock'[p] => toC'[p] = <<>>
    BY <1>1, <2>1, <2>2 DEF VotersHaveSeen
  <2>9. RepliesFit(p)'
    BY <1>1, <2>8 DEF RepliesFit
  <2> QED
    BY <2>4, <2>7, <2>9 DEF Together
<1>3. 0 \in P
  BY SizesAssumption DEF P
<1>4. OutcomeFits'
  BY <1>1 DEF OutcomeFits, Agreement
<1> QED
  BY <1>2, <1>3, <1>4 DEF Agreement

(* Nothing is sent to p when its connection is already known to be lost. *)
LEMMA StillAsked ==
    ASSUME NEW p \in P, Attached(p), Fresh(p), Resting(p), ~Live(p)
    PROVE  Asked(p)
<1>1. Owed(p) /\ eof[p]
  BY DEF Attached, Owed
<1> QED
  BY <1>1 DEF Asked, Attached, Fresh, Resting, StableStore

LEMMA SendNextAgrees ==
    ASSUME IInv, Delivery, Agreement, SendNext
    PROVE  Agreement'
<1>1. CoordinatorTypes /\ NetworkTypes /\ Phases
  BY DEF IInv
<1>2. /\ idx \in P /\ pc \in {"prepare", "decide"} /\ idx' = idx + 1
      /\ UNCHANGED <<pc, op, reply, valid, tid, sock, watch, replied, response, decision, first,
                     toC, eof, linkUp, participants, history, bounds>>
  BY <1>1, SizesAssumption DEF SendNext, CoordinatorTypes, P
<1>3. UNCHANGED <<part, up, store, outcome, used>>
  BY <1>2 DEF participants, history, bounds
<1>4. SameTransaction /\ tid \in Ids /\ op \in Writes /\ op.method # "GET" /\ OutcomeFits
  BY <1>1, <1>2, <1>3, RequestType DEF SameTransaction, Phases, Agreement, Requests
<1>5. /\ CurrentMsg \in CoordinatorMsgs /\ CurrentMsg.id = tid
      /\ pc = "prepare" => CurrentMsg = PrepareRequest(tid, op)
      /\ pc = "decide" => CurrentMsg = Commit(tid)
  BY <1>1, <1>2, <1>4, CurrentMsgType
     DEF CurrentMsg, OutcomeFits, PrepareRequest, Commit
<1>6. /\ link'[idx] = IF sock[idx] THEN Sent(idx, CurrentMsg) ELSE link[idx]
      /\ \A p \in P : p # idx => link'[p] = link[p]
  BY <1>1, <1>2 DEF SendNext, NetworkTypes
<1>7. ASSUME NEW p \in P PROVE Together(p)'
  <2>1. Tracks(p) /\ RepliesFit(p) /\ Drawn(p)
    BY DEF Agreement, Together
  <2>2. Reachable(p)' = Reachable(p) /\ (p >= idx' => p >= idx)
    BY <1>2, <1>3 DEF Reachable, P
  <2>3. RepliesFit(p)'
    <3>1. Fits(toC[p][1]) => Fits(toC[p][1])'
      BY <1>2, <1>3 DEF Fits, NoCrash
    <3> QED
      BY <1>2, <2>1, <2>2, <3>1 DEF RepliesFit
  <2>4. CASE link'[p] = link[p]
    <3>1. Thins(p)
      BY <1>2, <1>3, <2>4, ThinsNothing
    <3>2. p = idx => ~Reachable(p) \/ ~Live(p)
      <4>1. CASE p = idx /\ Reachable(p) /\ Live(p)
        <5>1. sock[p] /\ linkUp[p]
          BY <1>2, <2>1, <4>1 DEF Tracks, Attached, Pending, Reachable, P
        <5>2. link'[p] = Sent(p, CurrentMsg)
          BY <1>6, <4>1, <5>1
        <5>3. OnLive(p)' = OnLive(p) + 1
          BY <1>1, <1>5, <4>1, <5>1, <5>2, SentPlace
        <5>4. OnLive(p)' = OnLive(p) /\ OnLive(p) \in Nat
          BY <2>4, PlaceTypes DEF OnLive, Live
        <5> QED
          BY <5>3, <5>4
      <4> QED
        BY <4>1
    <3>3. Under(p)' = Under(p)
      BY <2>4 DEF Under
    <3>4. Drawn(p)'
      BY <1>3, <2>1, <3>3 DEF Drawn
    <3>5. Tracks(p)'
      <4>1. CASE p # idx
        <5>1. p < idx' <=> p < idx
          BY <1>2, <4>1 DEF P
        <5> QED
          BY <1>2, <1>4, <2>1, <2>2, <3>1, <5>1, ThinningKeeps DEF Tracks
      <4>2. CASE p = idx
        <5> SUFFICES ASSUME Reachable(p) PROVE Tracks(p)'
          BY <2>2 DEF Tracks
        <5>1. ~Live(p) /\ p < idx' /\ ~(p < idx) /\ OnLive(p) = 0
          BY <1>2, <3>2, <4>2 DEF P, OnLive
        <5>2. CASE pc = "prepare"
          <6>1. Attached(p) /\ Fresh(p) /\ Resting(p)
            BY <2>1, <5>1, <5>2 DEF Tracks
          <6>2. Asked(p)
            BY <5>1, <6>1, StillAsked
          <6> QED
            BY <1>2, <1>4, <2>1, <2>2, <3>1, <5>1, <5>2, <6>2, ThinningKeeps DEF Tracks
        <5>3. CASE pc = "decide"
          <6>1. Pending(p)
            BY <2>1, <5>1, <5>3 DEF Tracks
          <6>2. Told(p)
            BY <5>1, <6>1 DEF Pending, Told, Attached, Owed
          <6> QED
            BY <1>2, <1>4, <2>1, <2>2, <3>1, <5>1, <5>3, <6>2, ThinningKeeps DEF Tracks
        <5> QED
          BY <1>2, <5>2, <5>3
      <4> QED
        BY <4>1, <4>2
    <3> QED
      BY <2>3, <3>4, <3>5 DEF Together
  <2>5. CASE link'[p] # link[p]
    <3>1. p = idx /\ sock[p] /\ link'[p] = Sent(p, CurrentMsg) /\ linkUp[p] /\ Live(p)
      BY <1>6, <2>5 DEF Sent
    <3>2. /\ Under(p)' \subseteq Under(p) \cup {CurrentMsg}
          /\ Live(p)' /\ OnLive(p)' = OnLive(p) + 1
      BY <1>1, <1>5, <3>1, SentPlace
    <3>3. Drawn(p)'
      <4>1. ~IdsMayRepeat => tid \in used
        BY <1>4, IdsAssumption DEF Agreement, TidIsDrawn
      <4> QED
        BY <1>3, <1>5, <2>1, <3>2, <4>1 DEF Drawn
    <3>4. p < idx' /\ ~(p < idx)
      BY <1>2, <3>1 DEF P
    <3>5. Tracks(p)'
      <4> SUFFICES ASSUME Reachable(p) PROVE Tracks(p)'
        BY <2>2 DEF Tracks
      <4>1. CASE pc = "prepare"
        <5>1. Attached(p) /\ Fresh(p) /\ Resting(p)
          BY <2>1, <3>4, <4>1 DEF Tracks
        <5>2. Owed(p)' /\ Live(p)'
          BY <1>2, <3>1, <3>2, <5>1 DEF Attached, Owed
        <5>3. toC'[p] = <<>> /\ ~(part'[p].phase = 2 /\ part'[p].id = tid')
          BY <1>2, <1>3, <5>1 DEF Attached, Fresh
        <5>4. \A m \in Under(p)' : m.id = tid' => m = PrepareRequest(tid', op')
          BY <1>2, <1>5, <3>2, <4>1, <5>1 DEF Fresh
        <5>5. NoCrash => /\ StableStore(part'[p]) = store'
                         /\ \A m \in Under(p)' : m.id = tid'
                         /\ part'[p].phase = 2 => part'[p].id = tid'
          BY <1>2, <1>3, <1>5, <3>2, <5>1 DEF Resting, StableStore
        <5>6. Asked(p)'
          BY <5>2, <5>3, <5>4, <5>5 DEF Asked, NoCrash
        <5> QED
          BY <1>2, <2>1, <3>4, <4>1, <5>6 DEF Tracks
      <4>2. CASE pc = "decide"
        <5>1. Pending(p)
          BY <2>1, <3>4, <4>2 DEF Tracks
        <5>2. Owed(p)' /\ toC'[p] = <<>> /\ Under(p)' \subseteq {Commit(tid)}
          BY <1>2, <1>5, <3>1, <3>2, <4>2, <5>1 DEF Pending, Attached, Owed
        <5>3. Ready(p)'
          BY <1>2, <1>3, <5>1 DEF Pending, Ready
        <5>4. HoldsDecision(p)'
          BY <1>2, <1>3, <5>1 DEF Pending, HoldsDecision, Count, NoCrash
        <5>5. Told(p)'
          BY <1>2, <5>2, <5>3, <5>4 DEF Told
        <5> QED
          BY <1>2, <2>1, <3>4, <4>2, <5>5 DEF Tracks
      <4> QED
        BY <1>2, <4>1, <4>2
    <3> QED
      BY <2>3, <3>3, <3>5 DEF Together
  <2> QED
    BY <2>4, <2>5
<1>8. OutcomeFits'
  BY <1>2, <1>3 DEF OutcomeFits, Agreement
<1>9. TidIsDrawn'
  BY <1>2, <1>3 DEF TidIsDrawn, Agreement
<1> QED
  BY <1>7, <1>8, <1>9 DEF Agreement

LEMMA BeginWaitAgrees ==
    ASSUME IInv, Agreement, BeginWait
    PROVE  Agreement'
<1>1. /\ pc \in {"prepare", "decide"} /\ idx = NumParticipants /\ Still
      /\ pc' = IF pc = "prepare" THEN "waitPrepared" ELSE "waitDone"
      /\ watch' = {p \in P : sock[p]} /\ replied' = 0
      /\ UNCHANGED <<op, reply, valid, tid, response, decision, first, store, outcome, used>>
  BY DEF BeginWait, Still, network, participants, history, bounds
<1>2. SameTransaction /\ op.method # "GET"
  BY <1>1, RequestType DEF SameTransaction, IInv, Phases, Requests
<1>3. ASSUME NEW p \in P PROVE Together(p)'
  <2>1. Tracks(p) /\ RepliesFit(p) /\ Drawn(p)
    BY DEF Agreement, Together
  <2>2. Thins(p) /\ Reachable(p)' = Reachable(p) /\ Drawn(p)'
    BY <1>1, <2>1, StillPlaces
  <2>3. p < idx
    BY <1>1, SizesAssumption DEF P
  <2>4. (Asked(p) \/ Told(p)) => p \in watch'
    BY <1>1 DEF Asked, Told, Owed
  <2>5. Tracks(p)'
    BY <1>1, <1>2, <2>1, <2>2, <2>3, <2>4, ThinningKeeps DEF Tracks
  <2>6. RepliesFit(p)'
    <3>1. sock' = sock /\ toC' = toC /\ (sock[p] => p \in watch')
      BY <1>1 DEF Still
    <3>2. Fits(toC[p][1]) => Fits(toC[p][1])'
      BY <1>1, <3>1 DEF Fits, NoCrash
    <3> QED
      BY <1>1, <2>1, <3>1, <3>2 DEF RepliesFit
  <2> QED
    BY <2>2, <2>5, <2>6 DEF Together
<1>4. OutcomeFits'
  BY <1>1, <1>2 DEF OutcomeFits, Agreement
<1>5. TidIsDrawn'
  BY <1>1 DEF TidIsDrawn, Agreement
<1> QED
  BY <1>3, <1>4, <1>5 DEF Agreement

(* The answer to a PREPARED-REQUEST arrives: whoever gave it has voted. *)
LEMMA ReceivePreparedAgrees ==
    ASSUME IInv, Agreement, NEW q \in P, ReceivePrepared(q)
    PROVE  Agreement'
<1>1. CoordinatorTypes /\ NetworkTypes /\ Phases /\ Books
  BY DEF IInv
<1>2. PICK n \in 1..Len(toC[q]) :
        /\ toC' = [toC EXCEPT ![q] = After(@, n)]
        /\ response' = [response EXCEPT ![q] = IF toC[q][1].type = "PREPARED" THEN 1 ELSE 0]
  BY DEF ReceivePrepared
<1>3. /\ pc = "waitPrepared" /\ q \in watch /\ sock[q] /\ watch' = watch \ {q}
      /\ UNCHANGED <<pc, op, reply, valid, tid, idx, sock, decision, first, eof, link,
                     linkUp, participants, history, bounds>>
  BY <1>1 DEF ReceivePrepared, Books, Open
<1>4. UNCHANGED <<part, up, store, outcome, used>> /\ SameTransaction
  BY <1>3 DEF participants, history, bounds, SameTransaction
<1>5. op.method # "GET"
  BY <1>1, <1>3, RequestType DEF Phases, Requests
<1>6. RepliesFit(q) /\ Tracks(q) /\ Drawn(q)
  BY DEF Agreement, Together
<1>7. /\ toC[q] # <<>> /\ toC[q][1].type = "PREPARED" /\ toC'[q] = <<>>
      /\ \A p \in P : p # q => toC'[p] = toC[p]
  <2>1. toC[q] \in Seq(FittingReplies) /\ Len(toC[q]) >= 1 /\ toC[q] # <<>>
    BY <1>1, <1>2 DEF NetworkTypes
  <2>2. Len(toC[q]) = 1 /\ n = 1 /\ toC[q][1].type = "PREPARED"
    <3>1. Len(toC[q]) <= 1 /\ toC[q][1].type = "PREPARED"
      BY <1>3, <1>6, <2>1 DEF RepliesFit
    <3>2. Len(toC[q]) \in Nat
      BY <2>1
    <3>3. ASSUME NEW k \in Nat, k >= 1, k <= 1 PROVE k = 1 /\ 1..k = {1}
      BY <3>3
    <3>4. Len(toC[q]) >= 1 /\ Len(toC[q]) <= 1
      BY <2>1, <3>1
    <3>5. Len(toC[q]) = 1 /\ n \in {1}
      BY <3>2, <3>3, <3>4
    <3> QED
      BY <3>1, <3>5
  <2>3. After(toC[q], n) \in Seq(FittingReplies) /\ Len(After(toC[q], n)) = 0
    BY <2>1, <2>2 DEF After
  <2>4. ASSUME NEW s \in Seq(FittingReplies), Len(s) = 0 PROVE s = <<>>
    BY <2>4
  <2> QED
    BY <1>1, <1>2, <2>1, <2>2, <2>3, <2>4 DEF NetworkTypes
<1>8. ASSUME NEW p \in P PROVE Together(p)'
  <2>1. Reachable(p)' = Reachable(p) /\ Under(p)' = Under(p) /\ OnLive(p)' = OnLive(p)
        /\ Live(p)' = Live(p)
    BY <1>3, <1>4 DEF Reachable, Under, OnLive, Live
  <2>2. CASE p # q
    <3>1. Thins(p) /\ Together(p)
      BY <1>3, <1>4, <1>7, <2>2, ThinsNothing DEF Agreement
    <3>2. p \in watch' <=> p \in watch
      BY <1>3, <2>2
    <3>3. Tracks(p)'
      BY <1>3, <1>4, <2>1, <3>1, <3>2, ThinningKeeps DEF Together, Tracks
    <3>4. RepliesFit(p)' /\ Drawn(p)'
      BY <1>3, <1>4, <1>7, <2>1, <2>2, <3>1, <3>2 DEF Together, RepliesFit, Drawn
    <3> QED
      BY <3>3, <3>4 DEF Together
  <2>3. CASE p = q
    <3>1. RepliesFit(q)'
      BY <1>3, <1>7 DEF RepliesFit
    <3>2. Drawn(q)'
      BY <1>4, <1>6, <2>1, <2>3 DEF Drawn
    <3>3. Tracks(q)'
      <4> SUFFICES ASSUME Reachable(q) PROVE Tracks(q)'
        BY <2>1, <2>3 DEF Tracks
      <4>1. Asked(q)
        BY <1>3, <1>6 DEF Tracks
      <4>2. Under(q) = {} /\ Ready(q) /\ (eof[q] \/ Live(q))
        BY <1>5, <1>7, <4>1 DEF Asked
      <4>3. OnLive(q) = 0
        BY <1>1, <4>2, UnderEmpty
      <4>4. Attached(q)'
        BY <1>3, <1>7, <2>1, <2>3, <4>2, <4>3 DEF Attached
      <4>5. Voted(q)'
        BY <1>3, <1>4, <2>1, <2>3, <4>1, <4>2, <4>4 DEF Voted, Ready, Asked, NoCrash
      <4> QED
        BY <1>3, <1>6, <4>5 DEF Tracks
    <3> QED
      BY <2>3, <3>1, <3>2, <3>3 DEF Together
  <2> QED
    BY <2>2, <2>3
<1>9. OutcomeFits'
  BY <1>1, <1>2, <1>3, <1>4, <1>7 DEF OutcomeFits, Agreement, CoordinatorTypes
<1>10. TidIsDrawn'
  BY <1>3, <1>4 DEF TidIsDrawn, Agreement
<1> QED
  BY <1>8, <1>9, <1>10 DEF Agreement

LEMMA NobodyConnectedAgrees ==
    ASSUME IInv, Agreement, NobodyConnected
    PROVE  Agreement'
<1>1. /\ pc = "connect" /\ Answer(ERROR) /\ Still /\ valid' = valid /\ used' = used
  BY DEF NobodyConnected, Still, network, participants, bounds
<1>2. \A p \in P : Reachable(p) => Resting(p)
  BY <1>1 DEF Agreement, Together, Tracks
<1> QED
  BY <1>1, <1>2, AnswerAgrees

LEMMA AllLostInPhaseOneAgrees ==
    ASSUME IInv, Agreement, AllLostInPhaseOne
    PROVE  Agreement'
<1>1. /\ pc = "waitPrepared" /\ replied = 0 /\ WaitOver
      /\ Answer(ERROR) /\ Still /\ valid' = valid /\ used' = used
  BY DEF AllLostInPhaseOne, Still, network, participants, bounds
<1>2. watch = {}
  BY <1>1, NobodyWatched DEF IInv
<1>3. Open = {}
  <2>1. alive = 0 /\ Open \in SUBSET P /\ alive = Cardinality(Open)
    BY <1>1, <1>2, FS_EmptySet DEF IInv, Books, Open
  <2> QED
    BY <2>1, CountOfParts
<1>4. \A p \in P : ~Reachable(p)
  BY <1>1, <1>2, <1>3 DEF Agreement, Together, Tracks, Voted, Attached, Open
<1> QED
  BY <1>1, <1>4, AnswerAgrees

LEMMA FinishWriteAgrees ==
    ASSUME IInv, Agreement, FinishWrite
    PROVE  Agreement'
<1> DEFINE r == IF replied > 0 /\ decision = 1
                THEN IF op.method = "SET" THEN OK ELSE getClientGetOrDelMsg
                ELSE ERROR
<1>1. /\ pc = "waitDone" /\ WaitOver /\ op.method # "GET"
      /\ Answer(r) /\ Still /\ valid' = valid /\ used' = used
  BY DEF FinishWrite, Still, network, participants, bounds
<1> HIDE DEF r
<1>2. watch = {}
  BY <1>1, NobodyWatched DEF IInv
<1>3. ASSUME NEW p \in P, Reachable(p)
      PROVE  /\ Resting(p) /\ Under(p) = {} /\ part[p].phase = 1
             /\ \A k \in op.keys : part[p].db[k] = op.value
  <2>1. Over(p)
    BY <1>1, <1>2, <1>3 DEF Agreement, Together, Tracks
  <2> QED
    BY <2>1 DEF Over, Finished, HoldsDecision, Resting
<1> QED
  BY <1>1, <1>3, AnswerAgrees

LEMMA FinishReadAgrees ==
    ASSUME IInv, Agreement, FinishRead
    PROVE  Agreement'
<1> DEFINE r == getClientGetOrDelMsg
<1>1. /\ pc = "waitDone" /\ WaitOver /\ op.method = "GET"
      /\ Answer(r) /\ Still /\ valid' = valid /\ used' = used
  BY DEF FinishRead, Still, network, participants, bounds
<1> HIDE DEF r
<1>2. watch = {} /\ op \notin Writes
  <2>1. watch = {}
    BY <1>1, NobodyWatched DEF IInv
  <2> QED
    BY <1>1, <2>1, RequestType DEF Requests
<1>3. \A p \in P : Reachable(p) => Resting(p)
  BY <1>1, <1>2 DEF Agreement, Together, Tracks
<1> QED
  BY <1>1, <1>2, <1>3, AnswerAgrees

LEMMA NobodyAnsweredAgrees ==
    ASSUME IInv, Agreement, NobodyAnswered
    PROVE  Agreement'
<1>1. /\ pc = "get" /\ Answer(ERROR) /\ Still /\ valid' = valid /\ used' = used
  BY DEF NobodyAnswered, Still, network, participants, bounds
<1>2. \A p \in P : Reachable(p) => Resting(p)
  BY <1>1 DEF Agreement, Together, Tracks
<1> QED
  BY <1>1, <1>2, AnswerAgrees

(* An answer of phase 2, or to a GET, arrives: whoever gave it is done. *)
LEMMA ReceiveDoneAgrees ==
    ASSUME IInv, Delivery, Agreement, NEW q \in P, ReceiveDone(q)
    PROVE  Agreement'
<1>1. CoordinatorTypes /\ NetworkTypes /\ Phases /\ Books
  BY DEF IInv
<1>2. PICK n \in 1..Len(toC[q]) :
        first' = IF replied = 0 THEN [msg |-> toC[q][1], alone |-> n = 1] ELSE first
  BY DEF ReceiveDone
<1>3. /\ pc = "waitDone" /\ q \in watch /\ sock[q] /\ watch' = watch \ {q}
      /\ replied' = replied + 1
      /\ UNCHANGED <<pc, op, reply, valid, tid, idx, response, decision, linkUp,
                     participants, history, bounds>>
  BY <1>1 DEF ReceiveDone, Books, Open
<1>4. UNCHANGED <<part, up, store, outcome, used>> /\ SameTransaction
  BY <1>3 DEF participants, history, bounds, SameTransaction
<1>5. /\ ~sock'[q] /\ toC'[q] = <<>> /\ link'[q] = Closed(q)
      /\ \A p \in P : p # q => /\ sock'[p] = sock[p] /\ toC'[p] = toC[p]
                               /\ eof'[p] = eof[p] /\ link'[p] = link[p]
  BY <1>1 DEF ReceiveDone, CoordinatorTypes, NetworkTypes
<1>6. RepliesFit(q) /\ Tracks(q) /\ Drawn(q) /\ LiveIsCurrent(q)
  BY DEF Agreement, Together, Delivery
<1>7. toC[q] # <<>> /\ n = 1 /\ Fits(toC[q][1])
  <2>1. Len(toC[q]) \in Nat /\ n \in 1..Len(toC[q]) /\ (toC[q] = <<>> => Len(toC[q]) = 0)
    BY PlaceTypes
  <2>2. ASSUME NEW k \in Nat, NEW j \in 1..k PROVE k # 0 /\ (k <= 1 => j = 1)
    BY <2>2
  <2>3. toC[q] # <<>> /\ (Len(toC[q]) <= 1 => n = 1)
    BY <2>1, <2>2
  <2> QED
    BY <1>3, <1>6, <2>3 DEF RepliesFit
<1>8. ASSUME NEW p \in P PROVE Together(p)'
  <2>1. Reachable(p)' = Reachable(p)
    BY <1>3, <1>4 DEF Reachable
  <2>2. CASE p # q
    <3>1. Thins(p) /\ Together(p)
      BY <1>4, <1>5, <2>2, ThinsNothing DEF Agreement
    <3>2. p \in watch' <=> p \in watch
      BY <1>3, <2>2
    <3>3. Tracks(p)'
      BY <1>3, <1>4, <2>1, <3>1, <3>2, ThinningKeeps DEF Together, Tracks
    <3>4. Fits(toC[p][1]) => Fits(toC[p][1])'
      BY <1>3, <1>4, <1>5, <2>2 DEF Fits, NoCrash
    <3>5. RepliesFit(p)'
      BY <1>3, <1>5, <2>2, <3>1, <3>2, <3>4 DEF Together, RepliesFit
    <3>6. Drawn(p)'
      BY <1>4, <1>5, <2>2, <3>1 DEF Together, Drawn, Under
    <3> QED
      BY <3>3, <3>5, <3>6 DEF Together
  <2>3. CASE p = q
    <3>1. RepliesFit(q)'
      BY <1>5 DEF RepliesFit
    <3>2. Under(q)' = Under(q)
      BY <1>1, <1>5, <1>6, ClosedPlace
    <3>3. Drawn(q)'
      BY <1>4, <1>6, <3>2 DEF Drawn
    <3>4. Tracks(q)'
      <4> SUFFICES ASSUME Reachable(q) PROVE Tracks(q)'
        BY <2>1, <2>3 DEF Tracks
      <4>1. CASE op.method # "GET"
        <5>1. Told(q)
          BY <1>3, <1>6, <4>1 DEF Tracks
        <5>2. Over(q)'
          BY <1>3, <1>4, <1>7, <3>2, <5>1
             DEF Told, Over, Finished, HoldsDecision, Count, NoCrash
        <5> QED
          BY <1>3, <1>6, <4>1, <5>2 DEF Tracks
      <4>2. CASE op.method = "GET"
        <5>1. Asked(q) /\ q = idx
          BY <1>3, <1>6, <4>2 DEF Tracks
        <5>2. part[q].phase = 2 => ~Ready(q)
          <6>1. Recorded(part[q])
            BY PlaceTypes DEF SoundStates
          <6>2. op \in Requests => op \notin Writes
            BY <4>2, RequestType
          <6> QED
            BY <6>1, <6>2 DEF Recorded, Ready, Requests
        <5>3. NoCrash => Under(q) = {} /\ part[q].phase = 1 /\ part[q].db = store
          BY <1>7, <5>1, <5>2, PlaceTypes DEF Asked, StableStore
        <5>4. Resting(q)'
          BY <1>4, <3>2, <5>3 DEF Resting, NoCrash
        <5>5. ~(q > idx')
          BY <1>3, <5>1 DEF P
        <5> QED
          BY <1>3, <1>6, <4>2, <5>4, <5>5 DEF Tracks
      <4> QED
        BY <4>1, <4>2
    <3> QED
      BY <2>3, <3>1, <3>3, <3>4 DEF Together
  <2> QED
    BY <2>2, <2>3
<1>9. OutcomeFits'
  <2>1. first'.alone /\ Fits(first.msg)'
    <3>1. CASE replied = 0
      <4>1. first' = [msg |-> toC[q][1], alone |-> TRUE]
        BY <1>2, <1>7, <3>1
      <4>2. first'.alone /\ first'.msg = toC[q][1]
        BY <4>1
      <4> QED
        BY <1>3, <1>4, <1>7, <4>2 DEF Fits, NoCrash
    <3>2. CASE replied # 0
      <4>1. replied > 0 /\ first' = first
        BY <1>1, <1>2, <3>2 DEF CoordinatorTypes
      <4> QED
        BY <1>3, <1>4, <4>1 DEF Fits, NoCrash, OutcomeFits, Agreement
    <3> QED
      BY <3>1, <3>2
  <2> QED
    BY <1>3, <1>4, <2>1 DEF OutcomeFits, Agreement
<1>10. TidIsDrawn'
  BY <1>3, <1>4 DEF TidIsDrawn, Agreement
<1> QED
  BY <1>8, <1>9, <1>10 DEF Agreement

LEMMA ConnectionLostAgrees ==
    ASSUME IInv, Delivery, Agreement, NEW q \in P, ConnectionLost(q)
    PROVE  Agreement'
<1>1. CoordinatorTypes /\ NetworkTypes /\ Phases /\ Books
  BY DEF IInv
<1>2. /\ pc \in {"waitPrepared", "waitDone"} /\ q \in watch /\ sock[q]
      /\ UNCHANGED <<pc, op, reply, tid, idx, replied, response, decision, first,
                     participants, history, bounds>>
  BY <1>1 DEF ConnectionLost, Waiting, Books, Open
<1>3. UNCHANGED <<part, up, store, outcome, used>> /\ SameTransaction
  BY <1>2 DEF participants, history, bounds, SameTransaction
<1>4. /\ tid \in Ids /\ op \in Requests /\ OutcomeFits
      /\ ~IdsMayRepeat => tid \in used
  BY <1>1, <1>2, IdsAssumption DEF Phases, Requests, Agreement, TidIsDrawn
<1>5. Tracks(q) /\ RepliesFit(q) /\ Drawn(q) /\ LiveIsCurrent(q)
  BY DEF Agreement, Together, Delivery
<1>6. /\ linkUp' = linkUp
      /\ \A p \in P : p # q => /\ sock'[p] = sock[p] /\ toC'[p] = toC[p]
                               /\ eof'[p] = eof[p] /\ link'[p] = link[p]
                               /\ valid'[p] = valid[p] /\ (p \in watch' <=> p \in watch)
  BY <1>1 DEF ConnectionLost, Connected, GiveUp, CoordinatorTypes, NetworkTypes
<1>7. ASSUME NEW p \in P, p # q PROVE Together(p)'
  <2>1. Thins(p)
    BY <1>3, <1>6, <1>7, ThinsNothing
  <2>2. Reachable(p)' = Reachable(p) /\ Together(p)
    BY <1>3, <1>6 DEF Reachable, Agreement
  <2> QED
    BY <1>2, <1>3, <1>6, <1>7, <2>1, <2>2, ThinningTracks
<1>8. Together(q)'
  <2>1. CASE Reachable(q) /\ Connected(q, <<CurrentMsg>>) /\ watch' = watch
    <3> DEFINE m == CurrentMsg
               new == NewConnection(<<m>>)
    <3>1. /\ m \in CoordinatorMsgs /\ m.id = tid
          /\ pc = "waitPrepared" \/ op.method = "GET" => m = PrepareRequest(tid, op)
          /\ pc = "waitDone" /\ op.method # "GET" => m = Commit(tid)
      BY <1>1, <1>2, <1>4, CurrentMsgType DEF CurrentMsg, OutcomeFits, PrepareRequest, Commit
    <3>2. new \in Connections /\ new.live /\ Carried(new) = {m} /\ Len(new.toP) = 1
      BY <3>1, NewConnectionType, CarriedNew DEF NewConnection
    <3>3. /\ sock'[q] /\ toC'[q] = <<>> /\ ~eof'[q] /\ valid' = valid
          /\ link'[q] = Append(Closed(q), new)
      BY <1>1, <2>1 DEF Connected, CoordinatorTypes, NetworkTypes
    <3> HIDE DEF m, new
    <3>4. Under(q)' = Under(q) \cup {m} /\ Live(q)' /\ OnLive(q)' = 1
      BY <1>1, <1>5, <3>2, <3>3, OpenedPlace
    <3>5. Owed(q)'
      BY <3>3, <3>4 DEF Owed
    <3>6. Drawn(q)'
      BY <1>3, <1>4, <1>5, <3>1, <3>4 DEF Drawn
    <3>7. RepliesFit(q)'
      BY <3>3 DEF RepliesFit
    <3>8. CASE pc = "waitPrepared" \/ op.method = "GET"
      <4>1. Asked(q) /\ (op.method = "GET" /\ pc = "waitDone" => q = idx)
        BY <1>2, <1>5, <2>1, <3>8 DEF Tracks
      <4>2. \A x \in Under(q)' : x.id = tid' => x = PrepareRequest(tid', op')
        BY <1>2, <3>1, <3>4, <3>8, <4>1 DEF Asked
      <4>3. part'[q].phase = 2 /\ part'[q].id = tid' => Ready(q)'
        BY <1>2, <1>3, <4>1 DEF Asked, Ready
      <4>4. NoCrash => /\ StableStore(part'[q]) = store'
                       /\ \A x \in Under(q)' : x.id = tid'
                       /\ part'[q].phase = 2 => part'[q].id = tid'
        BY <1>2, <1>3, <3>1, <3>4, <4>1 DEF Asked
      <4>5. Asked(q)'
        BY <3>3, <3>4, <3>5, <4>2, <4>3, <4>4 DEF Asked, NoCrash
      <4>6. Tracks(q)'
        BY <1>2, <1>5, <2>1, <3>3, <3>8, <4>1, <4>5 DEF Tracks
      <4> QED
        BY <3>6, <3>7, <4>6 DEF Together
    <3>9. CASE pc = "waitDone" /\ op.method # "GET"
      <4>1. Told(q)
        BY <1>2, <1>5, <2>1, <3>9 DEF Tracks
      <4>2. Under(q)' \subseteq {Commit(tid)}
        BY <3>1, <3>4, <3>9, <4>1 DEF Told
      <4>3. Ready(q)' \/ Finished(q)'
        BY <1>2, <1>3, <4>1 DEF Told, Ready, Finished, Count
      <4>4. HoldsDecision(q)'
        BY <1>2, <1>3, <4>1 DEF Told, HoldsDecision, Count, NoCrash
      <4>5. Told(q)'
        BY <1>2, <3>3, <3>5, <4>2, <4>3, <4>4 DEF Told
      <4>6. Tracks(q)'
        BY <1>2, <1>5, <2>1, <3>3, <3>9, <4>5 DEF Tracks
      <4> QED
        BY <3>6, <3>7, <4>6 DEF Together
    <3> QED
      BY <1>2, <3>8, <3>9
  <2>2. CASE ~Reachable(q) /\ GiveUp(q)
    <3>1. ~sock'[q] /\ link' = link
      BY <1>1, <2>2 DEF GiveUp, CoordinatorTypes
    <3>2. RepliesFit(q)' /\ Drawn(q)' /\ ~Reachable(q)'
      BY <1>3, <1>5, <1>6, <2>2, <3>1 DEF RepliesFit, Drawn, Under, Reachable
    <3> QED
      BY <3>2, GoneTracks
  <2> QED
    BY <2>1, <2>2 DEF ConnectionLost
<1>9. OutcomeFits'
  BY <1>2, <1>3, <1>4 DEF OutcomeFits, Fits, NoCrash
<1>10. TidIsDrawn'
  BY <1>2, <1>3 DEF TidIsDrawn, Agreement
<1> QED
  BY <1>7, <1>8, <1>9, <1>10 DEF Agreement

(* Whoever is watched and will not answer cannot be reached. *)
LEMMA SilentIsGone ==
    ASSUME IInv, Agreement, Waiting, NEW p \in watch, Silent(p)
    PROVE  p \in P /\ ~Reachable(p)
<1>1. p \in P /\ Tracks(p)
  BY DEF Agreement, Together, IInv, CoordinatorTypes
<1>2. ASSUME Reachable(p), Owed(p) PROVE FALSE
  <2>1. OnLive(p) > 0 /\ linkUp[p]
    BY <1>2 DEF Owed, Silent, Reachable
  <2>2. Live(p)
    BY <2>1 DEF OnLive
  <2>3. LastOf(link[p]).toP = <<>>
    BY <2>1, <2>2 DEF Silent
  <2>4. OnLive(p) = 0
    BY <2>2, <2>3 DEF OnLive
  <2> QED
    BY <2>1, <2>4
<1>3. Reachable(p) => Asked(p) \/ Told(p)
  BY <1>1 DEF Tracks, Waiting
<1> QED
  BY <1>1, <1>2, <1>3 DEF Asked, Told

LEMMA TimeoutAgrees ==
    ASSUME IInv, Delivery, Agreement, Timeout
    PROVE  Agreement'
<1>1. CoordinatorTypes /\ NetworkTypes /\ Phases /\ Books
  BY DEF IInv
<1>2. /\ Waiting /\ Expire /\ \A p \in watch : Silent(p)
      /\ UNCHANGED <<pc, op, reply, tid, idx, replied, response, decision, first, linkUp,
                     participants, history, used>>
  BY DEF Timeout, Expire
<1>3. UNCHANGED <<part, up, store, outcome>> /\ SameTransaction
  BY <1>2 DEF participants, history, SameTransaction
<1>4. tid \in Ids /\ (~IdsMayRepeat => tid \in used)
  BY <1>1, <1>2, IdsAssumption DEF Phases, Agreement, TidIsDrawn, Waiting
<1>5. ASSUME NEW p \in P, p \notin watch PROVE Together(p)'
  <2>1. /\ sock'[p] = sock[p] /\ toC'[p] = toC[p] /\ eof'[p] = eof[p] /\ link'[p] = link[p]
        /\ valid'[p] = valid[p] /\ p \notin watch'
    <3>1. CASE EvictWatched
      BY <1>1, <1>5, <3>1 DEF EvictWatched, CoordinatorTypes, NetworkTypes
    <3>2. CASE ResendToWatched
      BY <1>1, <1>5, <3>2 DEF ResendToWatched, CoordinatorTypes, NetworkTypes
    <3> QED
      BY <1>2, <3>1, <3>2 DEF Expire
  <2>2. Thins(p)
    BY <1>3, <2>1, ThinsNothing
  <2>3. Reachable(p)' = Reachable(p) /\ Together(p)
    BY <1>2, <1>3 DEF Reachable, Agreement
  <2> QED
    BY <1>2, <1>3, <1>5, <2>1, <2>2, <2>3, ThinningTracks
<1>6. ASSUME NEW p \in watch PROVE Together(p)'
  <2>1. p \in P /\ ~Reachable(p) /\ Silent(p)
    BY <1>2, SilentIsGone
  <2>2. Drawn(p) /\ LiveIsCurrent(p)
    BY <2>1 DEF Agreement, Together, Delivery
  <2>3. CASE EvictWatched
    <3>1. ~sock'[p] /\ link'[p] = Closed(p)
      BY <1>6, <2>1, <2>3 DEF EvictWatched
    <3>2. Under(p)' = Under(p)
      BY <1>1, <2>1, <2>2, <3>1, ClosedPlace
    <3>3. Drawn(p)' /\ RepliesFit(p)'
      BY <1>2, <1>3, <2>2, <3>1, <3>2 DEF Drawn, RepliesFit
    <3> QED
      BY <1>2, <1>3, <2>1, <3>3, GoneTracks DEF Reachable
  <2>4. CASE ResendToWatched
    <3>1. /\ toC'[p] = <<>> /\ link'[p] = Sent(p, CurrentMsg)
      BY <1>6, <2>1, <2>4 DEF ResendToWatched, Silent
    <3>2. CurrentMsg \in CoordinatorMsgs /\ CurrentMsg.id = tid
      BY <1>1, <1>2, CurrentMsgType DEF Waiting, CurrentMsg, PrepareRequest, Commit, Abort
    <3>3. Under(p)' \subseteq Under(p) \cup {CurrentMsg}
      <4>1. CASE linkUp[p]
        BY <1>1, <2>1, <3>1, <3>2, <4>1, SentPlace
      <4>2. CASE ~linkUp[p]
        BY <3>1, <4>2 DEF Sent, Under
      <4> QED
        BY <4>1, <4>2
    <3>4. Drawn(p)' /\ RepliesFit(p)'
      BY <1>2, <1>3, <1>4, <2>2, <3>1, <3>2, <3>3 DEF Drawn, RepliesFit
    <3> QED
      BY <1>2, <1>3, <2>1, <3>4, GoneTracks DEF Reachable
  <2> QED
    BY <1>2, <2>3, <2>4 DEF Expire
<1>7. OutcomeFits'
  BY <1>2, <1>3 DEF OutcomeFits, Fits, NoCrash, Agreement
<1>8. TidIsDrawn'
  BY <1>2 DEF TidIsDrawn, Agreement
<1> QED
  BY <1>5, <1>6, <1>7, <1>8 DEF Agreement

(* Everybody left has voted for the request that is decided. *)
LEMMA DecideAgrees ==
    ASSUME IInv, Agreement, Decide
    PROVE  Agreement'
<1>1. ParticipantTypes /\ HistoryTypes /\ Phases
  BY DEF IInv
<1>2. /\ pc = "waitPrepared" /\ pc' = "decide" /\ idx' = 0 /\ watch = {} /\ Still
      /\ UNCHANGED <<op, reply, valid, tid, response, used>>
  BY NobodyWatched DEF Decide, Still, network, participants, bounds, IInv
<1>3. decision' = 1 /\ store' = Apply(op, store) /\ outcome' = Result(op, store)
  BY DEF Decide, Agreement, OutcomeFits, checkParticipantPreparedResponse
<1>4. op \in Writes /\ op \in Requests /\ op.method \in {"SET", "DEL"}
  BY <1>1, <1>2, RequestType DEF Phases, Requests
<1>5. ASSUME NEW p \in P PROVE Together(p)'
  <2>1. Tracks(p) /\ RepliesFit(p) /\ Drawn(p)
    BY DEF Agreement, Together
  <2>2. /\ Reachable(p)' = Reachable(p) /\ Under(p)' = Under(p) /\ part'[p] = part[p]
        /\ UNCHANGED <<sock, toC, eof, link>> /\ Drawn(p)'
    BY <1>2, <2>1, StillPlaces DEF Still
  <2>3. RepliesFit(p)'
    <3>1. sock'[p] => toC'[p] = <<>>
      BY <1>2, <2>1, <2>2 DEF RepliesFit
    <3> QED
      BY <1>2, <3>1 DEF RepliesFit
  <2>4. Tracks(p)'
    <3> SUFFICES ASSUME Reachable(p) PROVE Tracks(p)'
      BY <2>2 DEF Tracks
    <3>1. Voted(p)
      BY <1>2, <2>1 DEF Tracks
    <3>2. Attached(p)' /\ Ready(p)'
      BY <1>2, <2>2, <3>1 DEF Voted, Attached, Ready, OnLive, Live
    <3>3. HoldsDecision(p)'
      <4> SUFFICES ASSUME NoCrash
                   PROVE  /\ part[p].db = store'
                          /\ op.method = "DEL" => outcome' = CountReply(Count(p))
        BY <1>2, <2>2 DEF HoldsDecision, Count
      <4>1. Recorded(part[p])
        BY PlaceTypes DEF SoundStates
      <4>2. /\ part[p].phase = 2 /\ part[p].operationLog.op = op
            /\ Undo(part[p].db, part[p].rollbackLog) = store
        BY <3>1 DEF Voted, Ready, StableStore
      <4>3. part[p].db = Apply(op, store) /\ part[p].operationLog.acks = Present(op, store)
        BY <4>1, <4>2 DEF Recorded
      <4> QED
        BY <1>3, <4>3 DEF Result, Count
    <3>4. Pending(p)'
      BY <2>2, <3>1, <3>2, <3>3 DEF Pending, Voted
    <3>5. ~(p < idx')
      BY <1>2, SizesAssumption DEF P
    <3> QED
      BY <1>2, <2>1, <3>4, <3>5 DEF Tracks
  <2> QED
    BY <2>2, <2>3, <2>4 DEF Together
<1>6. outcome' # NoReply /\ (op.method = "SET" => outcome' = OK)
  BY <1>3, <1>4 DEF Result, NoReply, OK, CountReply
<1>7. OutcomeFits'
  BY <1>2, <1>3, <1>4, <1>6 DEF OutcomeFits, Agreement
<1>8. TidIsDrawn'
  BY <1>2 DEF TidIsDrawn, Agreement
<1> QED
  BY <1>5, <1>7, <1>8 DEF Agreement

(* The loop of handleGET. *)
LEMMA AskNextAgrees ==
    ASSUME IInv, Delivery, Agreement, AskNext
    PROVE  Agreement'
<1>1. CoordinatorTypes /\ NetworkTypes /\ Phases /\ Books
  BY DEF IInv
<1> DEFINE m == PrepareRequest(tid, op)
           new == NewConnection(<<m>>)
<1>2. /\ pc = "get" /\ pc' = "waitDone" /\ idx \in P /\ Reachable(idx)
      /\ Connected(idx, <<m>>) /\ watch' = {idx} /\ replied' = 0
      /\ UNCHANGED <<op, reply, tid, idx, response, decision, participants, history, bounds>>
  BY <1>1, SizesAssumption DEF AskNext, CoordinatorTypes, P
<1>3. UNCHANGED <<part, up, store, outcome, used>> /\ SameTransaction
  BY <1>2 DEF participants, history, bounds, SameTransaction
<1>4. /\ tid \in Ids /\ op \in Requests /\ op.method = "GET" /\ Open = {} /\ OutcomeFits
      /\ ~IdsMayRepeat => tid \in used
  BY <1>1, <1>2, RequestType, IdsAssumption DEF Phases, Books, Requests, Agreement, TidIsDrawn
<1>5. /\ linkUp' = linkUp /\ valid' = valid
      /\ \A p \in P : p # idx => /\ sock'[p] = sock[p] /\ toC'[p] = toC[p]
                                 /\ eof'[p] = eof[p] /\ link'[p] = link[p]
  BY <1>1, <1>2 DEF Connected, CoordinatorTypes, NetworkTypes
<1>6. ASSUME NEW p \in P, p # idx PROVE Together(p)'
  <2>1. Thins(p)
    BY <1>3, <1>5, <1>6, ThinsNothing
  <2>2. Reachable(p)' = Reachable(p) /\ Tracks(p) /\ Drawn(p)
    BY <1>3, <1>5 DEF Reachable, Agreement, Together
  <2>3. p \notin watch' /\ (p > idx => p >= idx)
    BY <1>2, <1>6 DEF P
  <2>4. Tracks(p)'
    BY <1>2, <1>3, <1>4, <1>5, <2>1, <2>2, <2>3, ThinningKeeps DEF Tracks
  <2>5. RepliesFit(p)'
    BY <1>4, <1>5, <1>6 DEF RepliesFit, Open
  <2>6. Drawn(p)'
    BY <1>3, <1>5, <1>6, <2>2 DEF Drawn, Under
  <2> QED
    BY <2>4, <2>5, <2>6 DEF Together
<1>7. Together(idx)'
  <2>1. Tracks(idx) /\ Drawn(idx) /\ LiveIsCurrent(idx)
    BY <1>2 DEF Agreement, Together, Delivery
  <2>2. m \in CoordinatorMsgs /\ m.id = tid
    BY <1>4, MsgType DEF PrepareRequest
  <2>3. new \in Connections /\ new.live /\ Carried(new) = {m} /\ Len(new.toP) = 1
    BY <2>2, NewConnectionType, CarriedNew DEF NewConnection
  <2>4. /\ sock'[idx] /\ toC'[idx] = <<>> /\ ~eof'[idx]
        /\ link'[idx] = Append(Closed(idx), new)
    BY <1>1, <1>2 DEF Connected, CoordinatorTypes, NetworkTypes
  <2>5. m = PrepareRequest(tid, op)
    OBVIOUS
  <2> HIDE DEF m, new
  <2>6. Under(idx)' = Under(idx) \cup {m} /\ Live(idx)' /\ OnLive(idx)' = 1
    <3>3. PICK q \in P : q = idx
      BY <1>2
    <3>1. q \in P /\ link'[q] = Append(Closed(q), new) /\ LiveIsCurrent(q) /\ idx' = q
      BY <1>2, <2>1, <2>4, <3>3
    <3>2. Under(q)' = Under(q) \cup {m} /\ Live(q)' /\ OnLive(q)' = 1
      BY <1>1, <2>3, <3>1, OpenedPlace
    <3> QED
      BY <3>1, <3>2, <3>3
  <2>7. Resting(idx) /\ Fresh(idx)
    BY <1>2, <2>1 DEF Tracks, P
  <2>8. Owed(idx)'
    BY <1>2, <2>4, <2>6 DEF Owed
  <2>9. Asked(idx)'
    <3>1. \A x \in Under(idx)' : x.id = tid' => x = PrepareRequest(tid', op')
      BY <1>2, <2>5, <2>6, <2>7 DEF Fresh
    <3>2. ~(part'[idx].phase = 2 /\ part'[idx].id = tid')
      BY <1>2, <1>3, <2>7 DEF Fresh
    <3>3. NoCrash => /\ StableStore(part'[idx]) = store'
                     /\ \A x \in Under(idx)' : x.id = tid'
                     /\ part'[idx].phase = 2 => part'[idx].id = tid'
      BY <1>2, <1>3, <2>2, <2>6, <2>7 DEF Resting, StableStore
    <3> QED
      BY <1>2, <2>4, <2>6, <2>8, <3>1, <3>2, <3>3 DEF Asked, NoCrash
  <2>10. Tracks(idx)'
    BY <1>2, <1>4, <1>5, <2>1, <2>9 DEF Tracks
  <2>11. RepliesFit(idx)'
    BY <1>2, <2>4 DEF RepliesFit
  <2>12. Drawn(idx)'
    BY <1>2, <1>3, <1>4, <2>1, <2>2, <2>6 DEF Drawn
  <2> QED
    BY <2>10, <2>11, <2>12 DEF Together
<1>8. OutcomeFits'
  BY <1>2, <1>3, <1>4 DEF OutcomeFits
<1>9. TidIsDrawn'
  BY <1>2, <1>3 DEF TidIsDrawn, Agreement
<1> QED
  BY <1>2, <1>6, <1>7, <1>8, <1>9 DEF Agreement

LEMMA SkipNextAgrees ==
    ASSUME IInv, Agreement, SkipNext
    PROVE  Agreement'
<1>1. /\ pc = "get" /\ idx \in P /\ ~(valid[idx] /\ Reachable(idx)) /\ idx' = idx + 1 /\ Still
      /\ valid' = [valid EXCEPT ![idx] = FALSE] /\ valid \in [P -> BOOLEAN]
      /\ UNCHANGED <<pc, op, reply, tid, response, decision, first, replied, store, outcome, used>>
  BY SizesAssumption DEF SkipNext, Still, network, participants, history, bounds, IInv,
                         CoordinatorTypes, P
<1>2. SameTransaction
  BY <1>1 DEF SameTransaction
<1>3. ASSUME NEW p \in P PROVE Together(p)'
  <2>1. Tracks(p) /\ Drawn(p)
    BY DEF Agreement, Together
  <2>2. Thins(p) /\ Reachable(p)' = Reachable(p) /\ Drawn(p)'
    BY <1>1, <2>1, StillPlaces
  <2>3. p = idx => ~Reachable(p)
    BY <1>1, <2>1 DEF Tracks
  <2>4. p # idx => valid'[p] = valid[p]
    BY <1>1
  <2>5. p >= idx' => p >= idx
    BY <1>1 DEF P
  <2>6. Tracks(p)'
    BY <1>1, <1>2, <2>1, <2>2, <2>3, <2>4, <2>5, ThinningKeeps DEF Tracks
  <2>7. RepliesFit(p)'
    BY <1>1 DEF RepliesFit
  <2> QED
    BY <2>2, <2>6, <2>7 DEF Together
<1>4. OutcomeFits'
  BY <1>1 DEF OutcomeFits, Agreement
<1>5. TidIsDrawn'
  BY <1>1 DEF TidIsDrawn, Agreement
<1> QED
  BY <1>3, <1>4, <1>5 DEF Agreement

LEMMA ReadFailedAgrees ==
    ASSUME IInv, Agreement, ReadFailed
    PROVE  Agreement'
<1>1. /\ pc = "waitDone" /\ pc' = "get" /\ op.method = "GET" /\ watch = {} /\ idx' = idx + 1
      /\ Still /\ idx \in Nat
      /\ UNCHANGED <<op, reply, valid, tid, response, decision, first, replied, store, outcome, used>>
  BY NobodyWatched DEF ReadFailed, Still, network, participants, history, bounds, IInv,
                       CoordinatorTypes
<1>2. SameTransaction
  BY <1>1 DEF SameTransaction
<1>3. ASSUME NEW p \in P PROVE Together(p)'
  <2>1. Tracks(p) /\ Drawn(p)
    BY DEF Agreement, Together
  <2>2. Thins(p) /\ Reachable(p)' = Reachable(p) /\ Drawn(p)'
    BY <1>1, <2>1, StillPlaces
  <2>3. p >= idx' => p > idx
    BY <1>1 DEF P
  <2>4. Tracks(p)'
    BY <1>1, <1>2, <2>1, <2>2, <2>3, ThinningKeeps DEF Tracks
  <2>5. RepliesFit(p)'
    BY <1>1 DEF RepliesFit
  <2> QED
    BY <2>2, <2>4, <2>5 DEF Together
<1>4. OutcomeFits'
  BY <1>1 DEF OutcomeFits, Agreement
<1>5. TidIsDrawn'
  BY <1>1 DEF TidIsDrawn, Agreement
<1> QED
  BY <1>3, <1>4, <1>5 DEF Agreement

(* If ids do not repeat, the coordinator may die: what is still under way is of
   transactions that nobody serves any more. *)
LEMMA CoordinatorCrashAgrees ==
    ASSUME IInv, Delivery, SpentType, Agreement, CoordinatorCrash
    PROVE  Agreement' /\ ~NoCrash
<1>1. /\ Answer(reply) /\ sock' = None /\ link' = [p \in P |-> Closed(p)]
      /\ valid' = [p \in P |-> TRUE]
      /\ UNCHANGED <<linkUp, part, up, used>> /\ NetworkTypes
  BY DEF CoordinatorCrash, participants, IInv
<1>2. ~NoCrash
  BY DEF CoordinatorCrash, Spend, SpentType, FaultKinds, NoCrash
<1>3. /\ pc' = "idle" /\ reply' = reply /\ tid' = -1 /\ response' = NoResponse
      /\ outcome' = NoReply /\ op' = op
  BY <1>1 DEF Answer
<1>4. ASSUME NEW p \in P PROVE Together(p)'
  <2>1. Tracks(p) /\ Drawn(p) /\ LiveIsCurrent(p)
    BY DEF Agreement, Together, Delivery
  <2>2. Under(p)' = Under(p)
    BY <1>1, <2>1, ClosedPlace
  <2>3. Reachable(p) => Agrees(p)'
    BY <1>1, <1>3, <2>1, <2>2 DEF Tracks, Agrees, Agreement, OutcomeFits
  <2>4. Reachable(p)' = Reachable(p) /\ valid'[p]
    BY <1>1 DEF Reachable
  <2>5. Tracks(p)'
    BY <1>2, <1>3, <2>3, <2>4 DEF Tracks, Resting, NoCrash
  <2>6. RepliesFit(p)' /\ Drawn(p)'
    BY <1>1, <1>3, <2>1, <2>2 DEF RepliesFit, Drawn
  <2> QED
    BY <2>5, <2>6 DEF Together
<1>5. OutcomeFits' /\ TidIsDrawn'
  BY <1>3 DEF OutcomeFits, NoResponse, TidIsDrawn
<1> QED
  BY <1>2, <1>4, <1>5 DEF Agreement

LEMMA StutterAgrees ==
    ASSUME IInv, Agreement, UNCHANGED vars
    PROVE  Agreement'
<1>1. Still /\ UNCHANGED <<pc, op, reply, valid, tid, idx, watch, replied, response, decision,
                           first, store, outcome, used>>
  BY DEF vars, coordinator, network, participants, history, bounds, Still
<1>2. ASSUME NEW p \in P PROVE Together(p)'
  BY <1>1, StillPlaces, ThinningTracks DEF Agreement, SameTransaction
<1>3. OutcomeFits' /\ TidIsDrawn'
  BY <1>1 DEF OutcomeFits, Fits, NoCrash, TidIsDrawn, Agreement
<1> QED
  BY <1>2, <1>3 DEF Agreement

-----------------------------------------------------------------------------
(* The whole system, and the theorems. *)

LEMMA InitAgreement == Init => Agreement
<1> SUFFICES ASSUME Init PROVE Agreement
  OBVIOUS
<1>1. /\ pc = "idle" /\ op = NoRequest /\ reply = NoReply /\ tid = -1 /\ outcome = NoReply
      /\ response = NoResponse /\ store = EmptyStore
      /\ valid = [p \in P |-> TRUE] /\ link = [p \in P |-> <<>>]
      /\ part = [p \in P |-> InitialParticipant] /\ toC = [p \in P |-> <<>>]
  BY DEF Init
<1>2. ASSUME NEW p \in P PROVE Together(p)
  <2>1. 1..Len(link[p]) = {}
    BY <1>1
  <2>2. Under(p) = {}
    BY <2>1 DEF Under
  <2>3. part[p].phase = 1 /\ part[p].db = store
    BY <1>1 DEF InitialParticipant
  <2>4. Resting(p) /\ Agrees(p)
    BY <1>1, <2>2, <2>3 DEF Resting, Agrees
  <2>5. Tracks(p) /\ RepliesFit(p) /\ Drawn(p)
    BY <1>1, <2>2, <2>3, <2>4 DEF Tracks, RepliesFit, Drawn
  <2> QED
    BY <2>5 DEF Together
<1>3. OutcomeFits /\ TidIsDrawn
  BY <1>1 DEF OutcomeFits, NoResponse, TidIsDrawn
<1> QED
  BY <1>2, <1>3 DEF Agreement

LEMMA NextAgrees ==
    ASSUME Ground, Agreement, [Next]_vars
    PROVE  Agreement'
<1>1. IInv /\ Delivery /\ SpentType /\ Conditions /\ MaxRestarts = 0 /\ MaxLate = 0
  BY DEF Ground, Conditions
<1>2. CASE UNCHANGED vars
  BY <1>1, <1>2, StutterAgrees
<1>3. CASE \E r \in Requests : Request(r)
  BY <1>1, <1>3, RequestAgrees
<1>4. CASE CoordinatorStep
  BY <1>1, <1>4, ConnectNextAgrees, NobodyConnectedAgrees, BeginPrepareAgrees, SendNextAgrees,
     BeginWaitAgrees, ReceivePreparedAgrees, ReceiveDoneAgrees, ConnectionLostAgrees,
     TimeoutAgrees, AllLostInPhaseOneAgrees, DecideAgrees, FinishWriteAgrees, AskNextAgrees,
     SkipNextAgrees, ReadFailedAgrees, FinishReadAgrees, NobodyAnsweredAgrees
  DEF CoordinatorStep
<1>5. ASSUME NEW p \in P, ParticipantStep(p) PROVE Agreement'
  BY <1>1, <1>5, ParticipantReceiveAgrees, ParticipantEofAgrees DEF ParticipantStep
<1>6. CASE Failure
  <2>1. ~LateTimeout
    BY <1>1 DEF LateTimeout, Spend, SpentType, FaultKinds
  <2>2. \A p \in P : ~ParticipantRestart(p)
    BY <1>1 DEF ParticipantRestart, Spend, SpentType, FaultKinds
  <2> QED
    BY <1>1, <1>6, <2>1, <2>2, CoordinatorCrashAgrees, ParticipantCrashAgrees, BreakAgrees,
       LinkDownAgrees, LoseRequestAgrees, LoseReplyAgrees
    DEF Failure
<1> QED
  BY <1>2, <1>3, <1>4, <1>5, <1>6 DEF Next, ClientStops

(* What the invariant says of a participant in service. *)
LEMMA InServiceHolds ==
    ASSUME IInv, Agreement, NoCrash, NEW p \in P, InService(p)
    PROVE  \/ StableStore(part[p]) = store
           \/ decision = 1 /\ part[p].phase = 2 /\ part[p].id = tid /\ part[p].db = store
<1>1. Tracks(p) /\ Reachable(p) /\ OutcomeFits
  BY DEF Agreement, Together, InService
<1>2. Resting(p) \/ Asked(p) \/ Voted(p) => StableStore(part[p]) = store
  BY DEF Resting, Asked, Voted, StableStore
<1>3. ASSUME Told(p) \/ Pending(p) \/ Over(p), pc \in {"decide", "waitDone"}, op.method # "GET"
      PROVE  \/ StableStore(part[p]) = store
             \/ decision = 1 /\ part[p].phase = 2 /\ part[p].id = tid /\ part[p].db = store
  BY <1>1, <1>3
     DEF Told, Pending, Over, HoldsDecision, Ready, Finished, StableStore, OutcomeFits
<1>4. pc = "decide" => op.method # "GET"
  BY RequestType DEF IInv, Phases, Requests
<1>5. pc \in {"idle", "connect", "prepare", "waitPrepared", "decide", "waitDone", "get"}
  BY DEF IInv, CoordinatorTypes
<1> QED
  BY <1>1, <1>2, <1>3, <1>4, <1>5 DEF Tracks

(* With no participant started again, no timeout before an answer that is on its
   way and a coordinator that does not die, a participant in service holds the
   store as of the last commit decision, or the decided write prepared: whoever
   died, was cut off or reset between any two messages was dropped. *)
THEOREM TwoPhaseCommitOnlyDecidedWritesCommit ==
    ASSUME MaxLate = 0, MaxRestarts = 0, MaxCoordinatorCrashes = 0
    PROVE  Spec => []OnlyDecidedWritesCommit
<1>1. NoCrash /\ Conditions
  BY DEF NoCrash, Conditions
<1>2. IInv /\ Delivery /\ SpentType /\ Agreement /\ [Next]_vars
        => IInv' /\ Delivery' /\ SpentType' /\ Agreement'
  BY <1>1, NextIInv, NextDelivers, NextSpent, NextAgrees DEF Ground
<1>3. IInv /\ Agreement => OnlyDecidedWritesCommit
  BY <1>1, InServiceHolds DEF OnlyDecidedWritesCommit
<1> QED
  BY <1>2, <1>3, InitIInv, InitDelivery, InitSpent, InitAgreement, PTL DEF Spec

(* Under the same conditions, between two requests nobody in service is left
   prepared or behind: each of them has the store of the last decision. *)
THEOREM TwoPhaseCommitConvergedWhenIdle ==
    ASSUME MaxLate = 0, MaxRestarts = 0, MaxCoordinatorCrashes = 0
    PROVE  Spec => []ConvergedWhenIdle
<1>1. NoCrash /\ Conditions
  BY DEF NoCrash, Conditions
<1>2. IInv /\ Delivery /\ SpentType /\ Agreement /\ [Next]_vars
        => IInv' /\ Delivery' /\ SpentType' /\ Agreement'
  BY <1>1, NextIInv, NextDelivers, NextSpent, NextAgrees DEF Ground
<1>3. Agreement => ConvergedWhenIdle
  BY <1>1 DEF Agreement, Together, Tracks, Resting, ConvergedWhenIdle, InService
<1> QED
  BY <1>2, <1>3, InitIInv, InitDelivery, InitSpent, InitAgreement, PTL DEF Spec

(* A write that the client saw succeed is in effect at every participant in
   service, even if the coordinator died in between, provided that transaction
   ids do not repeat (or the coordinator does not die), that no participant is
   started again and no timeout comes before an answer that is on its way. *)
THEOREM TwoPhaseCommitAcknowledgedWriteIsEverywhere ==
    ASSUME MaxLate = 0, MaxRestarts = 0, IdsMayRepeat => MaxCoordinatorCrashes = 0
    PROVE  Spec => []AcknowledgedWriteIsEverywhere
<1>1. Conditions
  BY DEF NoCrash, Conditions
<1>2. IInv /\ Delivery /\ SpentType /\ Agreement /\ [Next]_vars
        => IInv' /\ Delivery' /\ SpentType' /\ Agreement'
  BY <1>1, NextIInv, NextDelivers, NextSpent, NextAgrees DEF Ground
<1>3. Agreement => AcknowledgedWriteIsEverywhere
  BY DEF Agreement, Together, Tracks, Agrees, AcknowledgedWriteIsEverywhere, InService, StableStore
<1> QED
  BY <1>2, <1>3, InitIInv, InitDelivery, InitSpent, InitAgreement, PTL DEF Spec

-----------------------------------------------------------------------------
(* To the client the participants together are one store. *)

LEMMA SameWords ==
    /\ OneStore!NoRequest = NoRequest
    /\ OneStore!NoReply = NoReply
    /\ OneStore!ERROR = ERROR
    /\ OneStore!EmptyStore = EmptyStore
    /\ OneStore!Writes = Writes
    /\ OneStore!GetRequests = GetRequests
    /\ OneStore!Requests = Requests
    /\ \A o, s : OneStore!Apply(o, s) = Apply(o, s)
    /\ \A o, s : OneStore!Result(o, s) = Result(o, s)
<1>1. OneStore!NoRequest = NoRequest /\ OneStore!NoReply = NoReply /\ OneStore!ERROR = ERROR
  BY DEF OneStore!NoRequest, NoRequest, OneStore!NoReply, NoReply, OneStore!ERROR, ERROR
<1>2. OneStore!EmptyStore = EmptyStore
  BY DEF OneStore!EmptyStore, EmptyStore
<1>3. OneStore!Writes = Writes
  BY DEF OneStore!Writes, Writes, OneStore!SetRequests, SetRequests,
         OneStore!DelRequests, DelRequests
<1>4. OneStore!GetRequests = GetRequests
  BY DEF OneStore!GetRequests, GetRequests
<1>5. OneStore!Requests = Requests
  BY <1>3, <1>4 DEF OneStore!Requests, Requests
<1>6. \A o, s : OneStore!Apply(o, s) = Apply(o, s)
  BY DEF OneStore!Apply, Apply
<1>7. \A o, s : OneStore!Result(o, s) = Result(o, s)
  <2>1. \A o : OneStore!KeyOf(o) = KeyOf(o)
    BY DEF OneStore!KeyOf, KeyOf
  <2>2. \A o, s : OneStore!Present(o, s) = Present(o, s)
    BY DEF OneStore!Present, Present
  <2>3. \A S : OneStore!Cardinality(S) = Cardinality(S)
    BY DEF OneStore!Cardinality, Cardinality
  <2>4. /\ OneStore!OK = OK
        /\ \A v : OneStore!ValueReply(v) = ValueReply(v) /\ OneStore!CountReply(v) = CountReply(v)
    BY DEF OneStore!OK, OK, OneStore!ValueReply, ValueReply, OneStore!CountReply, CountReply
  <2> QED
    BY <2>1, <2>2, <2>3, <2>4 DEF OneStore!Result, Result
<1> QED
  BY <1>1, <1>2, <1>3, <1>4, <1>5, <1>6, <1>7

(* Requests are told from NoRequest. *)
LEMMA ARequest == \A r \in Requests : r # NoRequest
BY RequestType DEF NoRequest

LEMMA DecideTakesEffect ==
    ASSUME IInv, Agreement, Decide
    PROVE  OneStore!TakeEffect
<1>1. /\ pc = "waitPrepared" /\ pc' = "decide" /\ op' = op /\ reply' = reply
      /\ op \in Writes /\ outcome = NoReply
      /\ store' = Apply(op, store) /\ outcome' = Result(op, store)
  BY DEF Decide, Agreement, OutcomeFits, checkParticipantPreparedResponse, IInv, Phases
<1> QED
  BY <1>1, SameWords DEF OneStore!TakeEffect

(* A handler returns in the middle of a request. *)
LEMMA AnswerIsGiven ==
    ASSUME NEW r, Answer(r), pc # "idle", op \in Requests
    PROVE  OneStore!AnswerWith(r)
BY ARequest, SameWords DEF Answer, OneStore!AnswerWith

LEMMA FinishWriteAnswers ==
    ASSUME IInv, Agreement, NoCrash, FinishWrite
    PROVE  OneStore!Next
<1> DEFINE r == IF replied > 0 /\ decision = 1
                THEN IF op.method = "SET" THEN OK ELSE getClientGetOrDelMsg
                ELSE ERROR
<1>1. /\ pc = "waitDone" /\ op.method # "GET" /\ op \in Requests /\ OutcomeFits /\ Answer(r)
  BY DEF FinishWrite, IInv, Phases, Agreement
<1>2. outcome # NoReply
  BY <1>1 DEF OutcomeFits
<1>3. r = ERROR \/ r = outcome
  <2>1. CASE replied > 0 /\ decision = 1 /\ op.method = "SET"
    BY <1>1, <2>1 DEF OutcomeFits
  <2>2. CASE replied > 0 /\ decision = 1 /\ op.method = "DEL"
    BY <1>1, <2>2 DEF OutcomeFits, Fits, getClientGetOrDelMsg
  <2> QED
    BY <1>1, <2>1, <2>2, RequestType
<1> HIDE DEF r
<1>4. OneStore!AnswerWith(r)
  BY <1>1, AnswerIsGiven
<1> QED
  BY <1>2, <1>3, <1>4, SameWords DEF OneStore!Next, OneStore!AnswerError, OneStore!AnswerWrite

LEMMA FinishReadAnswers ==
    ASSUME IInv, Agreement, NoCrash, FinishRead
    PROVE  OneStore!Next
<1> DEFINE r == getClientGetOrDelMsg
<1>1. /\ pc = "waitDone" /\ op.method = "GET" /\ op \in Requests /\ OutcomeFits /\ Answer(r)
      /\ replied > 0
  BY DEF FinishRead, IInv, Phases, Agreement
<1>2. op \in GetRequests
  BY <1>1, RequestType
<1>3. r = ERROR \/ r = Result(op, store)
  BY <1>1 DEF OutcomeFits, Fits, getClientGetOrDelMsg, Result
<1> HIDE DEF r
<1>4. OneStore!AnswerWith(r)
  BY <1>1, AnswerIsGiven
<1> QED
  BY <1>1, <1>2, <1>3, <1>4, SameWords
     DEF OneStore!Next, OneStore!AnswerError, OneStore!AnswerRead

LEMMA ErrorAnswers ==
    ASSUME IInv, NobodyConnected \/ AllLostInPhaseOne \/ NobodyAnswered
    PROVE  OneStore!Next
<1>1. pc # "idle" /\ op \in Requests /\ Answer(ERROR)
  BY DEF IInv, Phases, Requests, NobodyConnected, AllLostInPhaseOne, NobodyAnswered
<1>2. OneStore!AnswerWith(ERROR)
  BY <1>1, AnswerIsGiven
<1> QED
  BY <1>2, SameWords DEF OneStore!Next, OneStore!AnswerError

(* The other steps of the coordinator, and those of the participants and of the
   network, the client does not see. *)
LEMMA UnseenSteps ==
    ASSUME \/ ConnectNext \/ BeginPrepare \/ SendNext \/ BeginWait
           \/ \E p \in P : ReceivePrepared(p) \/ ReceiveDone(p) \/ ConnectionLost(p)
           \/ Timeout \/ AskNext \/ SkipNext \/ ReadFailed
           \/ \E p \in P : \/ ParticipantStep(p) \/ ParticipantCrash(p) \/ Break(p) \/ LinkDown(p)
                           \/ LoseRequest(p) \/ LoseReply(p)
    PROVE  UNCHANGED <<store, op, outcome, reply>> /\ (pc' = "idle" <=> pc = "idle")
<1>1. CASE ConnectNext \/ BeginPrepare \/ SendNext \/ BeginWait \/ AskNext \/ SkipNext \/ ReadFailed
  BY <1>1 DEF ConnectNext, BeginPrepare, SendNext, BeginWait, AskNext, SkipNext, ReadFailed, history
<1>2. CASE Timeout \/ \E p \in P : ReceivePrepared(p) \/ ReceiveDone(p) \/ ConnectionLost(p)
  BY <1>2 DEF Timeout, Expire, ReceivePrepared, ReceiveDone, ConnectionLost, history
<1>3. CASE \E p \in P : \/ ParticipantStep(p) \/ ParticipantCrash(p) \/ Break(p) \/ LinkDown(p)
                        \/ LoseRequest(p) \/ LoseReply(p)
  BY <1>3 DEF ParticipantStep, ParticipantReceive, ParticipantEof, ParticipantCrash, Break,
              LinkDown, LoseRequest, LoseReply, coordinator, history
<1> QED
  BY <1>1, <1>2, <1>3

LEMMA StepIsOfOneStore ==
    ASSUME Ground, Agreement, NoCrash, [Next]_vars
    PROVE  [OneStore!Next]_(OneStore!vars)
<1>1. IInv /\ Delivery /\ SpentType /\ MaxRestarts = 0 /\ MaxLate = 0 /\ OutcomeFits
  BY DEF Ground, Conditions, Agreement
<1>2. ASSUME UNCHANGED <<store, op, outcome, reply>>, pc' = "idle" <=> pc = "idle"
      PROVE  UNCHANGED OneStore!vars
  BY <1>2 DEF OneStore!vars
<1>3. CASE UNCHANGED vars
  BY <1>2, <1>3 DEF vars, coordinator, history
<1>4. ASSUME NEW r \in Requests, Request(r) PROVE OneStore!Next
  <2>1. /\ pc = "idle" /\ pc' # "idle" /\ op' = r /\ reply' = NoReply
        /\ outcome' = NoReply /\ store' = store
    BY <1>1, <1>4 DEF Request, OutcomeFits, history
  <2>2. OneStore!Submit(r)
    BY <2>1, SameWords DEF OneStore!Submit
  <2> QED
    BY <2>2, SameWords DEF OneStore!Next
<1>5. ASSUME CoordinatorStep PROVE [OneStore!Next]_(OneStore!vars)
  <2>1. Decide => OneStore!Next
    BY <1>1, DecideTakesEffect DEF OneStore!Next
  <2> QED
    BY <1>1, <1>2, <1>5, <2>1, FinishWriteAnswers, FinishReadAnswers, ErrorAnswers, UnseenSteps
       DEF CoordinatorStep
<1>6. ASSUME Failure PROVE [OneStore!Next]_(OneStore!vars)
  <2>1. ~LateTimeout
    BY <1>1 DEF LateTimeout, Spend, SpentType, FaultKinds
  <2>2. \A p \in P : ~ParticipantRestart(p)
    BY <1>1 DEF ParticipantRestart, Spend, SpentType, FaultKinds
  <2>3. ~CoordinatorCrash
    BY <1>1, CoordinatorCrashAgrees
  <2> QED
    BY <1>2, <1>6, <2>1, <2>2, <2>3, UnseenSteps DEF Failure
<1>7. ASSUME NEW p \in P, ParticipantStep(p) PROVE UNCHANGED OneStore!vars
  BY <1>2, <1>7, UnseenSteps
<1> QED
  BY <1>3, <1>4, <1>5, <1>6, <1>7 DEF Next, ClientStops

(* To its client the replicated store is one store, which a write changes at
   the commit decision or never and which every successful answer is read
   from, whichever participants die or are cut off on the way. *)
THEOREM TwoPhaseCommitImplementsOneStore ==
    ASSUME MaxLate = 0, MaxRestarts = 0, MaxCoordinatorCrashes = 0
    PROVE  Spec => ClientSeesOneStore
<1>1. NoCrash /\ Conditions
  BY DEF NoCrash, Conditions
<1>2. IInv /\ Delivery /\ SpentType /\ Agreement /\ [Next]_vars
        => IInv' /\ Delivery' /\ SpentType' /\ Agreement'
  BY <1>1, NextIInv, NextDelivers, NextSpent, NextAgrees DEF Ground
<1>3. Init => OneStore!Init
  BY SameWords DEF Init, OneStore!Init
<1>4. IInv /\ Delivery /\ SpentType /\ Agreement /\ [Next]_vars => [OneStore!Next]_(OneStore!vars)
  BY <1>1, StepIsOfOneStore DEF Ground
<1> QED
  BY <1>2, <1>3, <1>4, InitIInv, InitDelivery, InitSpent, InitAgreement, PTL
     DEF Spec, ClientSeesOneStore, OneStore!Spec
=============================================================================
