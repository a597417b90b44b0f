--------------------------- MODULE TwoPhaseCommit ---------------------------
(***************************************************************************)
(* The key-value store of lab3/src_2pc: one coordinator (Coordinator.cpp), *)
(* the participants (ParticipantHandlers) and the TCP connections between  *)
(* them, with crashes, broken connections, dead links and late answers.    *)
(***************************************************************************)
EXTENDS ParticipantHandlers, Sequences

CONSTANTS
    NumParticipants,   \* participantCount
    ResendLimit,       \* timeouts answered by a resend before eviction, 3 in the code
    IdsMayRepeat,      \* FALSE: no two transactions draw the same random id
    MaxTxns,                \* bound: requests of the client
    MaxCoordinatorCrashes,  \* bound: crashes (and restarts) of the coordinator
    MaxCrashes,             \* bound: crashes of participants
    MaxRestarts,            \* bound: participants started again after a crash
    MaxBreaks,              \* bound: connections reset by the network
    MaxLinksDown,           \* bound: participants cut off for good
    MaxLate,                \* bound: timeouts although an answer is on its way
    MaxFaults               \* bound: crashes, resets, dead links and late timeouts together

ASSUME SizesAssumption == NumParticipants \in Nat \ {0} /\ ResendLimit \in Nat
ASSUME IdsMayRepeatAssumption == IdsMayRepeat \in BOOLEAN
ASSUME BoundsAssumption ==
    {MaxTxns, MaxCoordinatorCrashes, MaxCrashes, MaxRestarts, MaxBreaks, MaxLinksDown,
     MaxLate, MaxFaults}
        \subseteq Nat

P == 0 .. NumParticipants - 1

(* Definitions marked "mutant" are plausible mistakes in the definition that
   follows them; no specification uses them.  PROJECT.json names, for each
   property of a run, a mutant that violates it. *)

VARIABLES
    (* the coordinator object and the locals of the handler that is running *)
    pc,         \* where the coordinator is
    op,         \* split_message, the request being served (kept until the next one)
    reply,      \* what the client was last answered, or NoReply
    valid,      \* participantAddr[i].vaild
    tid,        \* id
    idx,        \* the index of the loop over the participants
    sock,       \* participantSocket[i] > 0
    watch,      \* allFdSet
    alive,      \* aliveParticipantCount
    replied,    \* preparedCount or finishedCount
    timeout,    \* timeouts in a row
    response,   \* response[i]: -1, 0 (NO) or 1 (PREPARED)
    decision,   \* prepareResponse: 1 commit, 0 abort, -1 before
    first,      \* response_split_msg
    (* the network *)
    toC,        \* replies on their way to the coordinator's socket
    eof,        \* that socket is closed or broken at the other end
    link,       \* connections a participant has still to serve, in accept order
    linkUp,     \* FALSE once the participant is cut off
    (* the participants *)
    part, up,
    (* history, read by the properties only *)
    store,      \* the store as of the last commit decision
    outcome,    \* the answer which that decision owes, or NoReply
    committed,  \* the ids decided to commit, when ids do not repeat
    (* counters of the bounds, and the ids drawn when they must not repeat *)
    spent, used

coordinator == <<pc, op, reply, valid, tid, idx, sock, watch, alive, replied, timeout,
                 response, decision, first>>
network == <<toC, eof, link, linkUp>>
participants == <<part, up>>
history == <<store, outcome, committed>>
bounds == <<spent, used>>
vars == <<coordinator, network, participants, history, bounds>>

-----------------------------------------------------------------------------
(* Connections.  link[p] holds the connections p has accepted or will accept;
   p serves the first one until it reads the end of it or returns from it.  A
   connection is live while the coordinator's socket is its other end, so only
   the last one can be. *)

NewConnection(msgs) == [toP |-> msgs, live |-> TRUE]
LastOf(s) == s[Len(s)]
Live(p) == link[p] # <<>> /\ LastOf(link[p]).live

Reachable(p) == up[p] /\ linkUp[p]

(* What sendMessage adds when the coordinator's socket still leads to p's loop. *)
Sent(p, m) ==
    IF Live(p) /\ linkUp[p]
    THEN [link[p] EXCEPT ![Len(link[p])].toP = Append(@, m)]
    ELSE link[p]

Closed(p) ==
    IF Live(p) THEN [link[p] EXCEPT ![Len(link[p])].live = FALSE] ELSE link[p]

(* recv returns what has arrived: the first n messages, as one string of which
   only the first message is interpreted. *)
After(s, n) == SubSeq(s, n + 1, Len(s))

-----------------------------------------------------------------------------
(* The coordinator. *)

NoResponse == [p \in P |-> -1]
None == [p \in P |-> FALSE]
NoFirst == [msg |-> NoMsg, alone |-> TRUE]

Init ==
    /\ pc = "idle" /\ op = NoRequest /\ reply = NoReply
    /\ valid = [p \in P |-> TRUE]
    /\ tid = -1 /\ idx = 0 /\ sock = None /\ watch = {} /\ alive = 0 /\ replied = 0
    /\ timeout = 0 /\ response = NoResponse /\ decision = -1 /\ first = NoFirst
    /\ toC = [p \in P |-> <<>>] /\ eof = None /\ link = [p \in P |-> <<>>]
    /\ linkUp = [p \in P |-> TRUE]
    /\ part = [p \in P |-> InitialParticipant] /\ up = [p \in P |-> TRUE]
    /\ store = EmptyStore /\ outcome = NoReply /\ committed = {}
    /\ spent = [txns |-> 0, coordinatorCrashes |-> 0, crashes |-> 0, restarts |-> 0,
                breaks |-> 0, linksDown |-> 0, late |-> 0]
    /\ used = {}

Faults ==
    spent.coordinatorCrashes + spent.crashes + spent.breaks + spent.linksDown + spent.late

Spend(kind, max) ==
    /\ spent[kind] < max
    /\ kind \in {"txns", "restarts"} \/ Faults < MaxFaults
    /\ spent' = [spent EXCEPT ![kind] = @ + 1]

DrawId ==
    \E i \in Ids :
        /\ IdsMayRepeat \/ i \notin used
        /\ tid' = i
        /\ used' = IF IdsMayRepeat THEN used ELSE used \cup {i}

(* accept, getMessage and parseClientMsg; SET and DEL connect first, GET draws
   its id first. *)
Request(r) ==
    /\ pc = "idle"
    /\ Spend("txns", MaxTxns)
    /\ op' = r
    /\ reply' = NoReply
    /\ idx' = 0
    /\ IF r.method = "GET"
       THEN pc' = "get" /\ DrawId
       ELSE pc' = "connect" /\ UNCHANGED <<tid, used>>
    /\ UNCHANGED <<valid, sock, watch, alive, replied, timeout, response, decision, first,
                   network, participants, history>>

(* The handler returns: its locals go out of scope and the answer is sent. *)
Answer(r) ==
    /\ pc' = "idle"
    /\ reply' = r
    /\ tid' = -1 /\ idx' = 0 /\ watch' = {} /\ alive' = 0 /\ replied' = 0 /\ timeout' = 0
    /\ response' = NoResponse /\ decision' = -1 /\ first' = NoFirst
    /\ outcome' = NoReply
    /\ UNCHANGED <<op, store, committed>>

Connected(p, msgs) ==
    /\ sock' = [sock EXCEPT ![p] = TRUE]
    /\ toC' = [toC EXCEPT ![p] = <<>>]
    /\ eof' = [eof EXCEPT ![p] = FALSE]
    /\ link' = [link EXCEPT ![p] = Append(Closed(p), NewConnection(msgs))]
    /\ UNCHANGED <<valid, linkUp>>

(* Three attempts to connect have failed. *)
Unreachable(p) ==
    /\ valid' = [valid EXCEPT ![p] = FALSE]
    /\ UNCHANGED <<sock, network>>

(* One turn of the loop of connectAllParticipants. *)
ConnectNext ==
    /\ pc = "connect" /\ idx < NumParticipants
    /\ idx' = idx + 1
    /\ \/ ~valid[idx] /\ UNCHANGED <<valid, sock, alive, network>>
       \/ valid[idx] /\ Reachable(idx) /\ Connected(idx, <<>>) /\ alive' = alive + 1
       \/ valid[idx] /\ ~Reachable(idx) /\ Unreachable(idx) /\ UNCHANGED alive
    /\ UNCHANGED <<pc, op, reply, tid, watch, replied, timeout, response, decision, first,
                   participants, history, bounds>>

NobodyConnected ==
    /\ pc = "connect" /\ idx = NumParticipants
    /\ alive = 0
    /\ Answer(ERROR)
    /\ UNCHANGED <<valid, sock, network, participants, bounds>>

BeginPrepare ==
    /\ pc = "connect" /\ idx = NumParticipants
    /\ alive > 0
    /\ DrawId
    /\ pc' = "prepare" /\ idx' = 0
    /\ UNCHANGED <<op, reply, valid, sock, watch, alive, replied, timeout, response, decision,
                   first, network, participants, history, spent>>

CurrentMsgOfPhaseOne == PrepareRequest(tid, op)                           \* mutant

(* The message of the phase that is running: what is sent first, and resent
   after a timeout or a reconnection. *)
CurrentMsg ==
    IF pc \in {"prepare", "waitPrepared"} \/ op.method = "GET" THEN PrepareRequest(tid, op)
    ELSE IF decision = 1 THEN Commit(tid) ELSE Abort(tid)

(* One turn of the loops that send PREPARED-REQUEST, COMMIT or ABORT. *)
SendNext ==
    /\ pc \in {"prepare", "decide"} /\ idx < NumParticipants
    /\ idx' = idx + 1
    /\ link' = IF sock[idx] THEN [link EXCEPT ![idx] = Sent(idx, CurrentMsg)] ELSE link
    /\ UNCHANGED <<pc, op, reply, valid, tid, sock, watch, alive, replied, timeout, response,
                   decision, first, toC, eof, linkUp, participants, history, bounds>>

(* The head of waitForPrepared and of waitForCommitOrAbort. *)
BeginWait ==
    /\ pc \in {"prepare", "decide"} /\ idx = NumParticipants
    /\ pc' = IF pc = "prepare" THEN "waitPrepared" ELSE "waitDone"
    /\ idx' = 0
    /\ watch' = {p \in P : sock[p]}
    /\ replied' = 0 /\ timeout' = 0
    /\ UNCHANGED <<op, reply, valid, tid, sock, alive, response, decision, first,
                   network, participants, history, bounds>>

Waiting == pc \in {"waitPrepared", "waitDone"}

(* A watched socket is readable and getMessage returns data, in phase 1. *)
ReceivePrepared(p) ==
    /\ pc = "waitPrepared" /\ p \in watch
    /\ \E n \in 1..Len(toC[p]) :
        /\ toC' = [toC EXCEPT ![p] = After(@, n)]
        /\ response' = [response EXCEPT ![p] = IF toC[p][1].type = "PREPARED" THEN 1 ELSE 0]
    /\ watch' = watch \ {p}
    /\ replied' = replied + 1
    /\ timeout' = 0
    /\ UNCHANGED <<pc, op, reply, valid, tid, idx, sock, alive, decision, first, eof, link,
                   linkUp, participants, history, bounds>>

(* The same in phase 2, and for the answer to a GET: whatever arrives counts as
   DONE, the first one is kept for the client, and the socket is closed. *)
ReceiveDone(p) ==
    /\ pc = "waitDone" /\ p \in watch
    /\ \E n \in 1..Len(toC[p]) :
        first' = IF replied = 0 THEN [msg |-> toC[p][1], alone |-> n = 1] ELSE first
    /\ watch' = watch \ {p}
    /\ replied' = replied + 1
    /\ timeout' = 0
    /\ sock' = [sock EXCEPT ![p] = FALSE]
    /\ toC' = [toC EXCEPT ![p] = <<>>]
    /\ eof' = [eof EXCEPT ![p] = FALSE]
    /\ link' = [link EXCEPT ![p] = Closed(p)]
    /\ UNCHANGED <<pc, op, reply, valid, tid, idx, alive, response, decision, linkUp,
                   participants, history, bounds>>

GiveUpRetrying(p) == UNCHANGED <<valid, sock, watch, alive, network>>     \* mutant

(* The three attempts to connect again have failed. *)
GiveUp(p) ==
    /\ valid' = [valid EXCEPT ![p] = FALSE]
    /\ sock' = [sock EXCEPT ![p] = FALSE]
    /\ eof' = [eof EXCEPT ![p] = FALSE]
    /\ watch' = watch \ {p}
    /\ alive' = alive - 1
    /\ UNCHANGED <<toC, link, linkUp>>

(* getMessage returns 0 or -1: connect again and resend, or give p up. *)
ConnectionLost(p) ==
    /\ Waiting /\ p \in watch
    /\ eof[p] /\ toC[p] = <<>>
    /\ timeout' = 0
    /\ \/ /\ Reachable(p)
          /\ Connected(p, <<CurrentMsg>>)
          /\ UNCHANGED <<watch, alive>>
       \/ ~Reachable(p) /\ GiveUp(p)
    /\ UNCHANGED <<pc, op, reply, tid, idx, replied, response, decision, first, participants,
                   history, bounds>>

(* The participant will not answer on this connection unless it is sent more. *)
Silent(p) ==
    /\ toC[p] = <<>> /\ ~eof[p]
    /\ linkUp[p] /\ Live(p) => LastOf(link[p]).toP = <<>>

LastTimeoutLate == timeout > ResendLimit                                  \* mutant

LastTimeout == timeout = ResendLimit

CountOnce == IF watch = {} THEN 0 ELSE 1                                  \* mutant

(* How much aliveParticipantCount decreases when the watched are evicted. *)
EvictedCount == Cardinality(watch)

(* The last timeout in a row: whoever is still watched is given up. *)
EvictWatched ==
    /\ timeout' = 0
    /\ watch' = {}
    /\ alive' = alive - EvictedCount
    /\ valid' = [p \in P |-> valid[p] /\ p \notin watch]
    /\ sock' = [p \in P |-> sock[p] /\ p \notin watch]
    /\ toC' = [p \in P |-> IF p \in watch THEN <<>> ELSE toC[p]]
    /\ eof' = [p \in P |-> eof[p] /\ p \notin watch]
    /\ link' = [p \in P |-> IF p \in watch THEN Closed(p) ELSE link[p]]

ResendToWatched ==
    /\ timeout' = timeout + 1
    /\ link' = [p \in P |-> IF p \in watch THEN Sent(p, CurrentMsg) ELSE link[p]]
    /\ UNCHANGED <<watch, alive, valid, sock, toC, eof>>

(* select returns 0. *)
Expire ==
    /\ Waiting /\ watch # {}
    /\ IF LastTimeout THEN EvictWatched ELSE ResendToWatched
    /\ UNCHANGED <<pc, op, reply, tid, idx, replied, response, decision, first, linkUp,
                   participants, history, used>>

Timeout == Expire /\ (\A p \in watch : Silent(p)) /\ UNCHANGED spent
LateTimeout == Expire /\ (\E p \in watch : ~Silent(p)) /\ Spend("late", MaxLate)

WaitOverAtFirst == Waiting /\ ~(alive > 0 /\ replied < 1)                 \* mutant

(* Both wait loops run while aliveParticipantCount > 0 and count < alive. *)
WaitOver == Waiting /\ ~(alive > 0 /\ replied < alive)

checkParticipantPreparedResponse == \A p \in P : response[p] # 0

AllLostInPhaseOne ==
    /\ pc = "waitPrepared" /\ WaitOver
    /\ replied = 0
    /\ Answer(ERROR)
    /\ UNCHANGED <<valid, sock, network, participants, bounds>>

Decide ==
    /\ pc = "waitPrepared" /\ WaitOver
    /\ replied > 0
    /\ pc' = "decide" /\ idx' = 0
    /\ IF checkParticipantPreparedResponse
       THEN /\ decision' = 1
            /\ store' = Apply(op, store)
            /\ outcome' = Result(op, store)
            /\ committed' = IF IdsMayRepeat THEN committed ELSE committed \cup {tid}
       ELSE decision' = 0 /\ UNCHANGED history
    /\ UNCHANGED <<op, reply, valid, tid, sock, watch, alive, replied, timeout, response, first,
                   network, participants, bounds>>

(* Four lines, or the answer is an error. *)
getClientGetOrDelMsg ==
    LET m == first.msg
    IN IF ~first.alone \/ m.addition = NoAddition THEN ERROR
       ELSE CASE m.method = "GET" -> ValueReply(m.addition)
              [] m.method = "DEL" -> CountReply(m.addition)
              [] OTHER -> ERROR

FinishWrite ==
    /\ pc = "waitDone" /\ WaitOver /\ op.method # "GET"
    /\ Answer(IF replied > 0 /\ decision = 1
              THEN IF op.method = "SET" THEN OK ELSE getClientGetOrDelMsg
              ELSE ERROR)
    /\ UNCHANGED <<valid, sock, network, participants, bounds>>

FinishRead ==
    /\ pc = "waitDone" /\ WaitOver /\ op.method = "GET" /\ replied > 0
    /\ Answer(getClientGetOrDelMsg)
    /\ UNCHANGED <<valid, sock, network, participants, bounds>>

(* One turn of the loop of handleGET: the next participant is asked... *)
AskNext ==
    /\ pc = "get" /\ idx < NumParticipants /\ valid[idx] /\ Reachable(idx)
    /\ Connected(idx, <<PrepareRequest(tid, op)>>)
    /\ pc' = "waitDone"
    /\ watch' = {idx} /\ alive' = 1 /\ replied' = 0 /\ timeout' = 0 /\ first' = NoFirst
    /\ UNCHANGED <<op, reply, tid, idx, response, decision, participants, history, bounds>>

(* ... or passed over ... *)
SkipNext ==
    /\ pc = "get" /\ idx < NumParticipants /\ ~(valid[idx] /\ Reachable(idx))
    /\ valid' = [valid EXCEPT ![idx] = FALSE]
    /\ idx' = idx + 1
    /\ UNCHANGED <<pc, op, reply, tid, sock, watch, alive, replied, timeout, response, decision,
                   first, network, participants, history, bounds>>

(* ... or was lost while it was asked. *)
ReadFailed ==
    /\ pc = "waitDone" /\ WaitOver /\ op.method = "GET" /\ replied = 0
    /\ pc' = "get" /\ idx' = idx + 1
    /\ UNCHANGED <<op, reply, valid, tid, sock, watch, alive, replied, timeout, response,
                   decision, first, network, participants, history, bounds>>

NobodyAnswered ==
    /\ pc = "get" /\ idx = NumParticipants
    /\ Answer(ERROR)
    /\ UNCHANGED <<valid, sock, network, participants, bounds>>

(* The process is killed, all its sockets close, and it is started again. *)
CoordinatorCrash ==
    /\ Spend("coordinatorCrashes", MaxCoordinatorCrashes)
    /\ Answer(reply)
    /\ valid' = [p \in P |-> TRUE]
    /\ sock' = None
    /\ toC' = [p \in P |-> <<>>]
    /\ eof' = None
    /\ link' = [p \in P |-> Closed(p)]
    /\ UNCHANGED <<linkUp, participants, used>>

-----------------------------------------------------------------------------
(* The participants: startup and handleConnection around Handle. *)

(* The process ends: the kernel closes every socket it has. *)
Die(p) ==
    /\ up' = [up EXCEPT ![p] = FALSE]
    /\ link' = [link EXCEPT ![p] = <<>>]
    /\ eof' = [eof EXCEPT ![p] = @ \/ (sock[p] /\ linkUp[p])]

ParticipantReceive(p) ==
    /\ up[p] /\ link[p] # <<>>
    /\ LET c == Head(link[p])
           r == Handle(part[p], Head(c.toP))
       IN \E n \in 1..Len(c.toP) :
            /\ part' = [part EXCEPT ![p] = r.state]
            /\ IF c.live /\ linkUp[p] /\ r.reply # NoMsg
               THEN toC' = [toC EXCEPT ![p] = Append(@, r.reply)]
               ELSE UNCHANGED toC
            /\ CASE r.result = "loop" ->
                      /\ link' = [link EXCEPT ![p][1].toP = After(@, n)]
                      /\ UNCHANGED <<eof, up>>
                 [] r.result = "return" ->
                      /\ link' = [link EXCEPT ![p] = Tail(@)]
                      /\ UNCHANGED <<eof, up>>
                 [] r.result = "shutdown" -> Die(p)
    /\ UNCHANGED <<coordinator, linkUp, history, bounds>>

(* recv returns 0 or fails: the next connection is accepted. *)
ParticipantEof(p) ==
    /\ up[p] /\ linkUp[p] /\ link[p] # <<>>
    /\ ~Head(link[p]).live /\ Head(link[p]).toP = <<>>
    /\ link' = [link EXCEPT ![p] = Tail(@)]
    /\ UNCHANGED <<coordinator, toC, eof, linkUp, participants, history, bounds>>

(* The process is killed; nothing it knew is on disk. *)
ParticipantCrash(p) ==
    /\ up[p]
    /\ Spend("crashes", MaxCrashes)
    /\ Die(p)
    /\ part' = [part EXCEPT ![p] = InitialParticipant]
    /\ UNCHANGED <<coordinator, toC, linkUp, history, used>>

ParticipantRestart(p) ==
    /\ ~up[p]
    /\ Spend("restarts", MaxRestarts)
    /\ up' = [up EXCEPT ![p] = TRUE]
    /\ part' = [part EXCEPT ![p] = InitialParticipant]
    /\ UNCHANGED <<coordinator, network, history, used>>

-----------------------------------------------------------------------------
(* The network. *)

(* The coordinator's connection with p is reset. *)
Break(p) ==
    /\ sock[p] /\ linkUp[p] /\ ~eof[p]
    /\ Spend("breaks", MaxBreaks)
    /\ eof' = [eof EXCEPT ![p] = TRUE]
    /\ link' = [link EXCEPT ![p] = Closed(p)]
    /\ UNCHANGED <<coordinator, toC, linkUp, participants, history, used>>

LinkDown(p) ==
    /\ linkUp[p]
    /\ Spend("linksDown", MaxLinksDown)
    /\ linkUp' = [linkUp EXCEPT ![p] = FALSE]
    /\ UNCHANGED <<coordinator, toC, eof, link, participants, history, used>>

(* What was under way on a connection that is closed, reset or cut off may
   never arrive. *)
LoseRequest(p) ==
    \E i \in 1..Len(link[p]) :
        /\ ~link[p][i].live \/ ~linkUp[p]
        /\ link[p][i].toP # <<>>
        /\ link' = [link EXCEPT ![p][i].toP = SubSeq(@, 1, Len(@) - 1)]
        /\ UNCHANGED <<coordinator, toC, eof, linkUp, participants, history, bounds>>

LoseReply(p) ==
    /\ eof[p] \/ ~linkUp[p]
    /\ toC[p] # <<>>
    /\ toC' = [toC EXCEPT ![p] = SubSeq(@, 1, Len(@) - 1)]
    /\ UNCHANGED <<coordinator, eof, link, linkUp, participants, history, bounds>>

-----------------------------------------------------------------------------
CoordinatorStep ==
    \/ ConnectNext \/ NobodyConnected \/ BeginPrepare \/ SendNext \/ BeginWait
    \/ \E p \in P : ReceivePrepared(p) \/ ReceiveDone(p) \/ ConnectionLost(p)
    \/ Timeout \/ AllLostInPhaseOne \/ Decide \/ FinishWrite
    \/ AskNext \/ SkipNext \/ ReadFailed \/ FinishRead \/ NobodyAnswered

ParticipantStep(p) == ParticipantReceive(p) \/ ParticipantEof(p)

Failure ==
    \/ CoordinatorCrash \/ LateTimeout
    \/ \E p \in P : \/ ParticipantCrash(p) \/ ParticipantRestart(p)
                    \/ Break(p) \/ LinkDown(p) \/ LoseRequest(p) \/ LoseReply(p)

(* The bound on requests, not the program, ends a behaviour. *)
ClientStops ==
    /\ pc = "idle" /\ spent.txns = MaxTxns
    /\ UNCHANGED vars

Next ==
    \/ \E r \in Requests : Request(r)
    \/ ClientStops
    \/ CoordinatorStep
    \/ \E p \in P : ParticipantStep(p)
    \/ Failure

Spec == Init /\ [][Next]_vars

(* Both programs are loops that the scheduler runs: a coordinator that can take
   a step and a participant that has something to read take it in the end. *)
FairSpec == Spec /\ WF_vars(CoordinatorStep) /\ \A p \in P : WF_vars(ParticipantStep(p))

-----------------------------------------------------------------------------
(* Types of the coordinator, the network, the participants and the history. *)
Connections == [toP : Seq(CoordinatorMsgs), live : BOOLEAN]
ClientReplies ==
    {OK, ERROR, NoReply} \cup {ValueReply(v) : v \in Values \cup {Nil}}
      \cup {CountReply(n) : n \in 0..Cardinality(Keys)}

TypeOK ==
    /\ pc \in {"idle", "connect", "prepare", "waitPrepared", "decide", "waitDone", "get"}
    /\ op \in Requests \cup {NoRequest}
    /\ reply \in ClientReplies
    /\ valid \in [P -> BOOLEAN]
    /\ tid \in Ids \cup {-1}
    /\ idx \in 0..NumParticipants
    /\ sock \in [P -> BOOLEAN]
    /\ watch \subseteq P
    /\ alive \in 0..NumParticipants /\ replied \in 0..NumParticipants
    /\ timeout \in 0..ResendLimit
    /\ response \in [P -> {-1, 0, 1}]
    /\ decision \in {-1, 0, 1}
    /\ first \in [msg : Replies \cup {NoMsg}, alone : BOOLEAN]
    /\ DOMAIN toC = P /\ \A p \in P : toC[p] \in Seq(Replies)
    /\ eof \in [P -> BOOLEAN]
    /\ DOMAIN link = P /\ \A p \in P : link[p] \in Seq(Connections)
    /\ linkUp \in [P -> BOOLEAN]
    /\ part \in [P -> ParticipantStates]
    /\ up \in [P -> BOOLEAN]
    /\ store \in Stores
    /\ outcome \in ClientReplies
    /\ committed \subseteq Ids

(* The select loops end because their counters and their descriptor set agree:
   every participant counted alive has answered or is still watched through an
   open socket.  At the end of a request no socket is left open. *)
CountersMatchSockets ==
    /\ Waiting => /\ replied + Cardinality(watch) = alive
                  /\ \A p \in watch : sock[p] /\ valid[p]
    /\ pc = "idle" => sock = None
    /\ pc = "decide" => alive = Cardinality({p \in P : sock[p]})

StableStore(s) == IF s.phase = 1 THEN s.db ELSE Undo(s.db, s.rollbackLog)

InService(p) == valid[p] /\ Reachable(p)

(* A participant in service never holds anything but the outcome of the decided
   transactions: its stable store is the decided one, or it is prepared for the
   transaction whose commit is on its way and will get there by committing. *)
OnlyDecidedWritesCommit ==
    \A p \in P : InService(p) =>
        \/ StableStore(part[p]) = store
        \/ /\ decision = 1
           /\ part[p].phase = 2 /\ part[p].id = tid /\ part[p].db = store

(* Between requests nobody in service is left in phase 2 or behind. *)
ConvergedWhenIdle ==
    pc = "idle" => \A p \in P :
        InService(p) => part[p].phase = 1 /\ part[p].db = store

(* A write that the client saw succeed is in effect at every participant in
   service (Coordinator.cpp:103: all DONE answers of the living participants
   have been received). *)
AcknowledgedWriteIsEverywhere ==
    pc = "idle" /\ op \in Writes /\ reply \notin {NoReply, ERROR} =>
        \A p \in P : InService(p) =>
            \A k \in op.keys : StableStore(part[p])[k] = op.value

(* Whatever fails, a write takes effect at a participant only if the coordinator
   decided to commit its transaction: handleCommitOrAbortPhase applies the
   prepared write without comparing ids (Participant.cpp:79), so a COMMIT that
   is delivered late must never meet another prepared transaction. *)
OnlyCommittedWritesTakeEffect ==
    [][\A p \in P :
         up[p] /\ up'[p] /\ StableStore(part'[p]) # StableStore(part[p])
         => part[p].id \in committed]_vars

(* handleConnection's return -1, "the nodes' data is inconsistent, shut down"
   (Participant.cpp:73), is not reached: a participant stops when it is killed only. *)
NoInconsistencyShutdown ==
    [][\A p \in P : up[p] /\ ~up'[p] => spent'.crashes = spent.crashes + 1]_vars

(* To its client the replicated store is one store. *)
OneStore == INSTANCE AtomicStore WITH
                request <- IF pc = "idle" THEN NoRequest ELSE op
ClientSeesOneStore == OneStore!Spec

(* Every request is answered, unless the coordinator dies with it.  With
   ConvergedWhenIdle, which says that nobody in service is prepared between
   requests, this is also why no participant waits for ever for a decision. *)
EveryRequestAnswered == (pc # "idle") ~> (pc = "idle")
=============================================================================
